---------------------- MODULE SubscriptionManagerProofs ----------------------
(***************************************************************************)
(* For every size of the list: no subscription is in it twice, and as long *)
(* as no topic has two callbacks the list implements the abstract table.   *)
(***************************************************************************)
EXTENDS SubscriptionManager, FiniteSetTheorems, WellFoundedInduction, TLAPS

-----------------------------------------------------------------------------
\* A non-empty set of indices has a first one, and it is one of them.
LEMMA FirstLemma ==
  ASSUME NEW indices \in SUBSET Indices, indices # {}
  PROVE  First(indices) \in indices
<1>1. indices \subseteq Nat
  BY ConstantsAssumption DEF Indices
<1>2. PICK i \in indices : \A k \in indices : ~ (<<k, i>> \in OpToRel(<, Nat))
  <2>1. IsWellFoundedOn(OpToRel(<, Nat), Nat)
    BY NatLessThanWellFounded
  <2> QED
    BY <1>1, <2>1, WFMin, Zenon
<1>3. \A k \in indices : ~ (k < i)
  BY <1>1, <1>2 DEF OpToRel
<1>4. \A k \in indices : i <= k
  BY <1>1, <1>3
<1> QED
  BY <1>4 DEF First

\* What the list holds, as the abstract table sees it.
Entries == {subscriptionList[i] : i \in Indices \ Available(subscriptionList)}

\* The entries are as many as the elements in use: the list is full exactly
\* when the table is.
LEMMA CountLemma ==
  ASSUME Inv
  PROVE  /\ IsFiniteSet(Entries)
         /\ Cardinality(Entries) \in Nat
         /\ Cardinality(Entries) < MaxSubscriptions
              <=> Available(subscriptionList) # {}
<1> DEFINE used == Indices \ Available(subscriptionList)
           place == [i \in used |-> subscriptionList[i]]
<1>0. MaxSubscriptions \in Nat \ {0}
  BY ConstantsAssumption
<1>1. IsFiniteSet(Indices) /\ Cardinality(Indices) = MaxSubscriptions
  BY <1>0, FS_Interval DEF Indices
<1>2. /\ IsFiniteSet(used) /\ Cardinality(used) <= MaxSubscriptions
      /\ Cardinality(used) = MaxSubscriptions => used = Indices
  BY <1>1, FS_Subset
<1>3. place \in Bijection(used, Entries)
  <2>1. place \in [used -> Entries]
    BY DEF Entries
  <2>2. \A i, k \in used : place[i] = place[k] => i = k
    BY DEF Inv, NoDuplicates, Available
  <2>3. \A e \in Entries : \E i \in used : place[i] = e
    BY DEF Entries
  <2> HIDE DEF used, place
  <2> QED
    BY <2>1, <2>2, <2>3 DEF Bijection, Injection, Surjection, IsInjective
<1>4. IsFiniteSet(Entries) /\ Cardinality(Entries) = Cardinality(used)
  BY <1>2, <1>3, FS_Bijection DEF ExistsBijection
<1>5. Cardinality(used) \in Nat
  BY <1>2, FS_CardinalityType
<1>6. Available(subscriptionList) \subseteq Indices
  BY DEF Available
<1> HIDE DEF used
<1>7. used = Indices <=> Available(subscriptionList) = {}
  BY <1>6 DEF used
<1> QED
  BY <1>0, <1>1, <1>2, <1>4, <1>5, <1>7

-----------------------------------------------------------------------------
\* The list changes in three ways, seen from its entries.
LEMMA AddLemma ==
  ASSUME Inv, NEW element \in Routes, SubscriptionManager_AddSubscription(element)
  PROVE  Inv' /\ Table!Subscribe(element)
<1> DEFINE available == Available(subscriptionList)
<1>1. element # Free
  BY ConstantsAssumption
<1>2. element \in Entries <=> \E i \in Indices : subscriptionList[i] = element
  BY <1>1 DEF Entries, Available
<1>3. invoked' = {} /\ call' = <<"subscribe", element>>
  BY DEF SubscriptionManager_AddSubscription
<1>7. call' \in Calls
  BY <1>3 DEF Calls
<1>4. CASE \E i \in Indices : subscriptionList[i] = element
  <2>1. result' = "true" /\ UNCHANGED subscriptionList
    BY <1>4 DEF SubscriptionManager_AddSubscription
  <2>2. Inv'
    BY <1>3, <1>7, <2>1 DEF Inv, TypeOK, NoDuplicates
  <2>3. Entries' = Entries \cup {element}
    BY <1>2, <1>4, <2>1 DEF Entries, Available
  <2> QED
    BY <1>2, <1>3, <1>4, <2>1, <2>2, <2>3 DEF Table!Subscribe, Entries
<1>5. CASE /\ \A i \in Indices : subscriptionList[i] # element
           /\ available # {}
  <2>1. /\ result' = "true"
        /\ subscriptionList' = [subscriptionList EXCEPT ![First(available)] = element]
    BY <1>5 DEF SubscriptionManager_AddSubscription
  <2>2. First(available) \in Indices /\ subscriptionList[First(available)] = Free
    BY <1>5, FirstLemma DEF Available
  <2>3. subscriptionList \in [Indices -> Routes \cup {Free}]
    BY DEF Inv, TypeOK
  <2>4. \A i \in Indices : subscriptionList'[i] =
          IF i = First(available) THEN element ELSE subscriptionList[i]
    BY <2>1, <2>2, <2>3
  <2>5. TypeOK'
    BY <1>3, <1>7, <2>1, <2>2, <2>3 DEF TypeOK
  <2>6. NoDuplicates'
    BY <1>5, <2>2, <2>4 DEF Inv, NoDuplicates
  <2>7. Entries' = Entries \cup {element}
    BY <1>1, <2>2, <2>4 DEF Entries, Available
  <2>8. Cardinality(Entries) < MaxSubscriptions
    BY <1>5, CountLemma
  <2>9. Table!Subscribe(element)
    BY <1>3, <2>1, <2>7, <2>8, Zenon
    DEF Table!Subscribe, Entries, Table!Cardinality, Cardinality
  <2> QED
    BY <2>5, <2>6, <2>9 DEF Inv
<1>6. CASE /\ \A i \in Indices : subscriptionList[i] # element
           /\ available = {}
  <2>1. result' = "false" /\ UNCHANGED subscriptionList
    BY <1>6 DEF SubscriptionManager_AddSubscription
  <2>2. Inv'
    BY <1>3, <1>7, <2>1 DEF Inv, TypeOK, NoDuplicates
  <2>3. Entries' = Entries
    BY <2>1 DEF Entries, Available
  <2>4. Cardinality(Entries) >= MaxSubscriptions
    BY <1>6, CountLemma, ConstantsAssumption
  <2>5. element \notin Entries
    BY <1>2, <1>6
  <2>6. Table!Subscribe(element)
    BY <1>3, <2>1, <2>3, <2>4, <2>5, Zenon
    DEF Table!Subscribe, Entries, Table!Cardinality, Cardinality
  <2> QED
    BY <2>2, <2>6
<1> QED
  BY <1>4, <1>5, <1>6

LEMMA RemoveLemma ==
  ASSUME Inv, NEW topic \in Topics, SubscriptionManager_RemoveSubscription(topic)
  PROVE  Inv' /\ Table!Unsubscribe(topic)
<1>1. \A i \in Indices : subscriptionList'[i] =
        IF i \in Subscribed(topic) THEN Free ELSE subscriptionList[i]
  BY DEF SubscriptionManager_RemoveSubscription
<1>2. subscriptionList \in [Indices -> Routes \cup {Free}]
  BY DEF Inv, TypeOK
<1>3. TypeOK'
  <2>1. call' \in Calls
    BY DEF SubscriptionManager_RemoveSubscription, Calls
  <2> QED
    BY <1>2, <2>1 DEF SubscriptionManager_RemoveSubscription, TypeOK
<1>4. NoDuplicates'
  BY <1>1 DEF Inv, NoDuplicates
<1>5. Entries' = {pair \in Entries : pair.topic # topic}
  BY <1>1 DEF Entries, Available, Subscribed
<1> QED
  BY <1>3, <1>4, <1>5
  DEF Inv, Table!Unsubscribe, Entries, SubscriptionManager_RemoveSubscription

\* A publish keeps the invariant whoever is subscribed.
LEMMA HandleInvLemma ==
  ASSUME Inv, NEW topic \in Topics, SubscriptionManager_HandleIncomingPublishes(topic)
  PROVE  Inv'
<1> DEFINE first == First(Subscribed(topic))
<1>1. /\ UNCHANGED subscriptionList
      /\ result' \in {"true", "false"}
  BY DEF SubscriptionManager_HandleIncomingPublishes
<1>4. call' \in Calls
  BY DEF SubscriptionManager_HandleIncomingPublishes, Calls
<1>2. CASE Subscribed(topic) = {}
  BY <1>1, <1>2, <1>4 DEF SubscriptionManager_HandleIncomingPublishes, Inv, TypeOK, NoDuplicates
<1>3. CASE Subscribed(topic) # {}
  <2>1. first \in Subscribed(topic)
    BY <1>3, FirstLemma DEF Subscribed
  <2>2. subscriptionList[first] \in Routes
    BY <2>1 DEF Inv, TypeOK, Subscribed
  <2>3. invoked' = {subscriptionList[first].callback}
    BY <1>3 DEF SubscriptionManager_HandleIncomingPublishes
  <2>4. invoked' \subseteq Callbacks
    BY <2>2, <2>3 DEF Callbacks
  <2> QED
    BY <1>1, <1>4, <2>4 DEF Inv, TypeOK, NoDuplicates
<1> QED
  BY <1>2, <1>3

\* The first callback is the only one, when no topic has two.
LEMMA HandleLemma ==
  ASSUME Inv, OneCallbackPerTopic, NEW topic \in Topics,
         SubscriptionManager_HandleIncomingPublishes(topic)
  PROVE  Table!Publish(topic)
<1> DEFINE receivers == {pair \in Entries : pair.topic = topic}
           first == First(Subscribed(topic))
<1>1. UNCHANGED subscriptionList /\ call' = <<"publish", topic>>
  BY DEF SubscriptionManager_HandleIncomingPublishes
<1>2. Entries' = Entries
  BY <1>1 DEF Entries, Available
<1>3. Entries \subseteq Routes
  BY DEF Entries, Available, Inv, TypeOK
<1>4. CASE Subscribed(topic) = {}
  <2>1. receivers = {}
    BY <1>4 DEF Entries, Available, Subscribed
  <2>2. result' = "false" /\ invoked' = {}
    BY <1>4 DEF SubscriptionManager_HandleIncomingPublishes
  <2>3. invoked' = {pair.callback : pair \in receivers}
    BY <2>1, <2>2
  <2> QED
    BY <1>1, <1>2, <2>2, <2>3 DEF Table!Publish, Entries
<1>5. CASE Subscribed(topic) # {}
  <2>1. first \in Subscribed(topic)
    BY <1>5, FirstLemma DEF Subscribed
  <2>2. subscriptionList[first] \in receivers
    BY <2>1 DEF Entries, Available, Subscribed
  <2>3. receivers = {subscriptionList[first]}
    BY <1>3, <2>2 DEF OneCallbackPerTopic
  <2>4. /\ result' = "true"
        /\ invoked' = {subscriptionList[first].callback}
    BY <1>5 DEF SubscriptionManager_HandleIncomingPublishes
  <2>5. invoked' = {pair.callback : pair \in receivers} /\ invoked' # {}
    BY <2>3, <2>4
  <2> QED
    BY <1>1, <1>2, <2>4, <2>5 DEF Table!Publish, Entries
<1> QED
  BY <1>4, <1>5

\* Every step keeps the invariant.
LEMMA InvStepLemma ==
  ASSUME Inv, [Next]_vars
  PROVE  Inv'
<1>1. CASE UNCHANGED vars
  BY <1>1 DEF vars, Inv, TypeOK, NoDuplicates
<1>2. CASE Next
  BY <1>2, AddLemma, RemoveLemma, HandleInvLemma DEF Next
<1> QED
  BY <1>1, <1>2

\* Every step is a step of the table, or stutters.
LEMMA StepLemma ==
  ASSUME Inv, OneCallbackPerTopic, [Next]_vars
  PROVE  [Table!Next]_(Table!vars)
<1>1. CASE UNCHANGED vars
  BY <1>1 DEF vars, Table!vars, Available
<1>2. ASSUME NEW route \in Routes, SubscriptionManager_AddSubscription(route)
      PROVE  Table!Next
  BY <1>2, AddLemma DEF Table!Next
<1>3. ASSUME NEW topic \in Topics, SubscriptionManager_RemoveSubscription(topic)
      PROVE  Table!Next
  BY <1>3, RemoveLemma DEF Table!Next, Topics
<1>4. ASSUME NEW topic \in Topics, SubscriptionManager_HandleIncomingPublishes(topic)
      PROVE  Table!Next
  BY <1>4, HandleLemma DEF Table!Next, Topics
<1> QED
  BY <1>1, <1>2, <1>3, <1>4 DEF Next

LEMMA InitLemma ==
  ASSUME Init
  PROVE  Inv /\ Table!Init
<1>1. \A i \in Indices : subscriptionList[i] = Free
  BY DEF Init
<1>2. Entries = {}
  BY <1>1 DEF Entries, Available
<1>3. Inv
  BY <1>1 DEF Init, Inv, TypeOK, NoDuplicates, Calls
<1> QED
  BY <1>2, <1>3 DEF Init, Table!Init, Entries

-----------------------------------------------------------------------------
\* However the tasks subscribe and unsubscribe, the list of any size holds
\* elements of its type and no callback twice for the same topic.
THEOREM ListInvariant == Spec => []Inv
<1>1. Init => Inv
  BY InitLemma
<1>2. Inv /\ [Next]_vars => Inv'
  BY InvStepLemma
<1> QED
  BY <1>1, <1>2, PTL DEF Spec

\* "A single context-callback pair may only be associated to the same topic
\* filter once" (mqtt_subscription_manager.h), for a list of any size.
THEOREM RegisteredOnce == Spec => []NoDuplicates
<1>1. Inv => NoDuplicates
  BY DEF Inv
<1> QED
  BY <1>1, ListInvariant, PTL

\* As long as no topic has two callbacks, which is how the firmware uses it,
\* the array of any size, scanned from its end to add and from its start to
\* dispatch, implements the table of its header: it says it is full exactly when
\* the table is, and every callback registered for the topic is invoked.
THEOREM ImplementsTable ==
  ASSUME OneCallbackPerTopic
  PROVE  Spec => RoutesAsPromised
<1>1. Init => Table!Init
  BY InitLemma
<1>2. Inv /\ [Next]_vars => [Table!Next]_(Table!vars)
  BY StepLemma
<1> QED
  BY <1>1, <1>2, ListInvariant, PTL DEF Spec, RoutesAsPromised, Table!Spec
==============================================================================
