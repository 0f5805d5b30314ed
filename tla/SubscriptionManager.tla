------------------------- MODULE SubscriptionManager -------------------------
(***************************************************************************)
(* The list of subscriptions that routes incoming publishes to callbacks   *)
(* (mqtt-subscription-manager).  The list is a fixed array of elements; an *)
(* element whose filter length is 0 is free.  The callers are the ack      *)
(* callbacks and the incoming-publish callback, all in the MQTT agent task,*)
(* so a call is one step.  The context is always NULL and no filter of     *)
(* this program has a wildcard: a filter matches the topic that equals it. *)
(***************************************************************************)
EXTENDS Naturals

CONSTANTS
  Routes,            \* the pairs of topic and callback that tasks subscribe
  MaxSubscriptions,  \* SUBSCRIPTION_MANAGER_MAX_SUBSCRIPTIONS
  Free               \* an element of all zeros

Topics == {route.topic : route \in Routes}
Callbacks == {route.callback : route \in Routes}

ASSUME ConstantsAssumption ==
  /\ \A route \in Routes : route = [topic |-> route.topic, callback |-> route.callback]
  /\ MaxSubscriptions \in Nat \ {0}
  /\ Free \notin Routes

VARIABLES
  subscriptionList,
  call,              \* the last call and what it was about
  result,            \* what it returned
  invoked            \* the callbacks that it invoked

vars == <<subscriptionList, call, result, invoked>>

Indices == 0 .. MaxSubscriptions - 1

Available(list) == {i \in Indices : list[i] = Free}

\* The lowest of a set of indices.
First(indices) == CHOOSE i \in indices : \A k \in indices : i <= k

\* Mutant: the scan ends at the first free element, before any duplicate there.
AddSubscriptionAtFirstFree(element) ==
  LET available == Available(subscriptionList)
      duplicates == {i \in Indices : subscriptionList[i] = element}
  IN
  /\ call' = <<"subscribe", element>>
  /\ invoked' = {}
  /\ IF duplicates # {} /\ (available = {} \/ First(duplicates) < First(available))
     THEN result' = "true" /\ UNCHANGED subscriptionList
     ELSE IF available # {}
     THEN /\ result' = "true"
          /\ subscriptionList' = [subscriptionList EXCEPT ![First(available)] = element]
     ELSE result' = "false" /\ UNCHANGED subscriptionList

\* The scan runs down the whole list, so that it ends at the first available
\* element, unless it meets the same callback for the same filter.
SubscriptionManager_AddSubscription(element) ==
  LET available == Available(subscriptionList) IN
  /\ call' = <<"subscribe", element>>
  /\ invoked' = {}
  /\ \/ /\ \E i \in Indices : subscriptionList[i] = element
        /\ result' = "true"
        /\ UNCHANGED subscriptionList
     \/ /\ \A i \in Indices : subscriptionList[i] # element
        /\ available # {}
        /\ result' = "true"
        /\ subscriptionList' = [subscriptionList EXCEPT ![First(available)] = element]
     \/ /\ \A i \in Indices : subscriptionList[i] # element
        /\ available = {}
        /\ result' = "false"
        /\ UNCHANGED subscriptionList

\* The elements that hold a subscription to this topic.
Subscribed(topic) ==
  {i \in Indices : subscriptionList[i] # Free /\ subscriptionList[i].topic = topic}

SubscriptionManager_RemoveSubscription(topic) ==
  /\ subscriptionList' =
       [i \in Indices |-> IF i \in Subscribed(topic) THEN Free ELSE subscriptionList[i]]
  /\ call' = <<"unsubscribe", topic>>
  /\ result' = "void"
  /\ invoked' = {}

\* Mutant: a free element ends the scan, as if the list had no holes.
HandleUpToFirstHole(topic) ==
  /\ call' = <<"publish", topic>>
  /\ LET reached == {i \in Subscribed(topic) : \A k \in 0 .. i : subscriptionList[k] # Free} IN
       /\ invoked' = IF reached = {} THEN {} ELSE {subscriptionList[First(reached)].callback}
       /\ result' = IF reached = {} THEN "false" ELSE "true"
  /\ UNCHANGED subscriptionList

\* The callback of the first element that matches is invoked, and no other.
SubscriptionManager_HandleIncomingPublishes(topic) ==
  /\ call' = <<"publish", topic>>
  /\ \/ /\ Subscribed(topic) = {}
        /\ invoked' = {}
        /\ result' = "false"
     \/ /\ Subscribed(topic) # {}
        /\ invoked' = {subscriptionList[First(Subscribed(topic))].callback}
        /\ result' = "true"
  /\ UNCHANGED subscriptionList

Init ==
  /\ subscriptionList = [i \in Indices |-> Free]
  /\ call = <<"none">>
  /\ result = "none"
  /\ invoked = {}

Next ==
  \/ \E route \in Routes : SubscriptionManager_AddSubscription(route)
  \/ \E topic \in Topics :
       \/ SubscriptionManager_RemoveSubscription(topic)
       \/ SubscriptionManager_HandleIncomingPublishes(topic)

Spec == Init /\ [][Next]_vars

Calls ==
  {<<"none">>} \cup ({"subscribe"} \X Routes) \cup ({"unsubscribe", "publish"} \X Topics)

\* The type of the list, of its calls and of what they return.
TypeOK ==
  /\ subscriptionList \in [Indices -> Routes \cup {Free}]
  /\ call \in Calls
  /\ result \in {"none", "true", "false", "void"}
  /\ invoked \subseteq Callbacks

\* "A single context-callback pair may only be associated to the same topic
\* filter once" (mqtt_subscription_manager.h): one stays registered after its
\* unsubscription, or fills the list, if it is in two places.
NoDuplicates ==
  \A i, k \in Indices :
    subscriptionList[i] = subscriptionList[k] /\ subscriptionList[i] # Free => i = k

\* TypeOK and NoDuplicates together are inductive.
Inv == TypeOK /\ NoDuplicates

Table == INSTANCE RoutingTable WITH
  Capacity <- MaxSubscriptions,
  table <- {subscriptionList[i] : i \in Indices \ Available(subscriptionList)}

\* The array behaves as the table of routes its header describes, wherever its
\* holes are: nothing is lost, kept after its removal, or routed elsewhere, and
\* every callback registered for a topic gets its publishes.  Each call maps to
\* the same call on the table, with its result.  This holds while no
\* topic has two of them (OneCallbackPerTopic): the array then calls the first only.
RoutesAsPromised == Table!Spec

\* The firmware's own use of the list: no two tasks subscribe to one topic.
OneCallbackPerTopic == \A r, s \in Routes : r.topic = s.topic => r = s
==============================================================================
