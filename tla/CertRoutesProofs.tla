-------------------------- MODULE CertRoutesProofs --------------------------
(***************************************************************************)
(* Which answers of the Lambdas find a callback, for every set of faults   *)
(* and every list of at least four places (mqtt_subscription_manager.h     *)
(* defines four).                                                          *)
(***************************************************************************)
EXTENDS CertRenewalProofs

\* No unsubscription was given up since the reset and no image downloaded.
Undisturbed == givenUp = {} /\ taken = 0

\* What makes AnswersRouted inductive: the topics of a CSR are subscribed, on
\* either side, only while topic_filters names them, so that the subscription
\* to a revocation always finds them gone; and an accepted topic takes its
\* place in the list before its rejected one.
Routed ==
  /\ brokerSubs \ routes \subseteq {<<"csr", "rejected">>}
  /\ brokerSubs \subseteq routes \/ AnswerTopics("revoke") \subseteq routes
  /\ AnswerTopics("csr") \cap (brokerSubs \cup routes) # {} => topicFilters = "csr"
  /\ <<"csr", "rejected">> \in routes => <<"csr", "accepted">> \in routes
  /\ AnswerTopics("revoke") \subseteq routes \/ AnswerTopics("revoke") \cap routes = {}

\* Commands and notifications are left over only by an unsubscription given up.
RouteInv ==
  /\ Undisturbed => Routed
  /\ pc = "subscribe_csr" => topicFilters = "csr"
  /\ abandoned > 0 \/ notification = "pending" => givenUp # {}

LEMMA RoutedLemma == RouteInv => AnswersRouted
BY DEF RouteInv, Undisturbed, Routed, AnswersRouted

\* The five topics are different.
LEMMA TopicsLemma ==
  /\ NotifyTopic \notin AnswerTopics("csr") \cup AnswerTopics("revoke")
  /\ AnswerTopics("csr") \cap AnswerTopics("revoke") = {}
BY DEF NotifyTopic, AnswerTopics

\* A set of three elements fits into a list of four places with one to spare.
LEMMA ThreeLemma ==
  ASSUME NEW a, NEW b, NEW c, NEW S, S \subseteq {a, b, c}
  PROVE  Cardinality(S) \in Nat /\ Cardinality(S) <= 3
<1>1. \A T, x : IsFiniteSet(T) =>
        /\ IsFiniteSet(T \cup {x})
        /\ Cardinality(T) \in Nat
        /\ Cardinality(T \cup {x}) <= Cardinality(T) + 1
  <2> SUFFICES ASSUME NEW T, NEW x, IsFiniteSet(T)
               PROVE  /\ IsFiniteSet(T \cup {x})
                      /\ Cardinality(T) \in Nat
                      /\ Cardinality(T \cup {x}) <= Cardinality(T) + 1
    OBVIOUS
  <2>1. Cardinality(T) \in Nat
    BY FS_CardinalityType
  <2>2. /\ IsFiniteSet(T \cup {x})
        /\ Cardinality(T \cup {x}) = IF x \in T THEN Cardinality(T) ELSE Cardinality(T) + 1
    BY FS_AddElement
  <2> QED BY <2>1, <2>2
<1>2. IsFiniteSet({a}) /\ Cardinality({a}) = 1
  BY FS_Singleton
<1>3. /\ IsFiniteSet({a} \cup {b})
      /\ Cardinality({a} \cup {b}) \in Nat /\ Cardinality({a} \cup {b}) <= 2
  <2>1. IsFiniteSet({a} \cup {b}) /\ Cardinality({a} \cup {b}) <= Cardinality({a}) + 1
    BY <1>1, <1>2
  <2>2. Cardinality({a} \cup {b}) \in Nat
    BY <2>1, FS_CardinalityType
  <2> QED BY <1>2, <2>1, <2>2
<1>4. /\ IsFiniteSet({a, b, c})
      /\ Cardinality({a, b, c}) \in Nat /\ Cardinality({a, b, c}) <= 3
  <2> DEFINE T == {a} \cup {b}
  <2>1. IsFiniteSet(T \cup {c}) /\ Cardinality(T \cup {c}) <= Cardinality(T) + 1
    BY <1>1, <1>3
  <2>2. Cardinality(T \cup {c}) \in Nat
    BY <2>1, FS_CardinalityType
  <2>3. T \cup {c} = {a, b, c}
    OBVIOUS
  <2> HIDE DEF T
  <2>4. Cardinality(T) <= 2 /\ Cardinality(T) \in Nat
    BY <1>3 DEF T
  <2> QED BY <2>1, <2>2, <2>3, <2>4
<1>5. IsFiniteSet(S) /\ Cardinality(S) <= Cardinality({a, b, c})
  BY <1>4, FS_Subset
<1>6. Cardinality(S) \in Nat
  BY <1>5, FS_CardinalityType
<1> QED BY <1>4, <1>5, <1>6

\* A reset ends the session on both sides.
LEMMA RestartRouteInv ==
  ASSUME Restart
  PROVE  RouteInv'
BY DEF Restart, RouteInv, Routed

\* The actions that leave the session and the filters alone, and do not start
\* a subscription.
LEMMA SessionUnchanged ==
  ASSUME RouteInv, UNCHANGED <<session, topicFilters>>,
         pc' = "subscribe_csr" => pc = "subscribe_csr"
  PROVE  RouteInv'
BY DEF RouteInv, Undisturbed, Routed, session, leftover

\* Those that publish, and may leave the command behind.
LEMMA PublishedRouteInv ==
  ASSUME TypeInv, RouteInv, Published, UNCHANGED <<brokerSubs, routes, topicFilters>>,
         pc' # "subscribe_csr"
  PROVE  RouteInv'
<1>1. /\ UNCHANGED <<givenUp, taken>>
      /\ abandoned' > 0 \/ notification' = "pending"
           => abandoned > 0 \/ notification = "pending"
  BY DEF Published, leftover
<1> QED BY <1>1 DEF RouteInv, Undisturbed, Routed

\* The broker forgets the session at a reconnection; the list does not.
LEMMA SessionForgotten ==
  ASSUME RouteInv, brokerSubs' = {}, UNCHANGED <<routes, leftover, topicFilters, pc>>
  PROVE  RouteInv'
BY DEF RouteInv, Undisturbed, Routed, leftover

\* Unsubscribing by topic_filters leaves no topic of a CSR, and the topics of a
\* revocation together or not at all.
LEMMA UnsubscribedLemma ==
  ASSUME TypeInv, Routed, topicFilters \notin {None, Freed}
  PROVE  /\ Unsubscribed(routes) \subseteq {NotifyTopic} \cup AnswerTopics("revoke")
         /\ Unsubscribed(brokerSubs) \subseteq Unsubscribed(routes)
         /\ \/ AnswerTopics("revoke") \subseteq Unsubscribed(routes)
            \/ AnswerTopics("revoke") \cap Unsubscribed(routes) = {}
<1>1. topicFilters \in {"csr", "revoke"} /\ routes \subseteq Topics
  BY DEF TypeInv, TypeOK
<1>2. CASE topicFilters = "csr"
  BY <1>1, <1>2, TopicsLemma DEF Routed, Unsubscribed, AnswerTopics, Topics
<1>3. CASE topicFilters = "revoke"
  <2>1. AnswerTopics("csr") \cap (brokerSubs \cup routes) = {}
    BY <1>3 DEF Routed
  <2> QED BY <1>1, <1>3, <2>1, TopicsLemma
    DEF Routed, Unsubscribed, AnswerTopics, Topics
<1> QED BY <1>1, <1>2, <1>3

\* The accepted topic of a CSR always finds a place; the rejected one does not
\* only when the list is full, with the topics of a revocation in it.
LEMMA SubscribeCsrRouted ==
  ASSUME ListSize >= 4, TypeInv, Routed, topicFilters = "csr",
         Subscribe("csr", brokerSubs, routes, taken), taken' = 0, UNCHANGED topicFilters
  PROVE  Routed'
<1> DEFINE accepted == <<"csr", "accepted">>
           rejected == <<"csr", "rejected">>
           first == AddRoute(routes, 0, accepted)
<1>1. /\ brokerSubs' = brokerSubs \cup AnswerTopics("csr")
      /\ routes' = AddRoute(first, 0, rejected)
  BY DEF Subscribe
<1>2. routes \subseteq {NotifyTopic, accepted, rejected} \cup AnswerTopics("revoke")
  BY DEF TypeInv, TypeOK, Topics, AnswerTopics
<1>3. first = routes \cup {accepted}
  <2>1. CASE accepted \in routes
    BY <2>1 DEF AddRoute
  <2>2. CASE accepted \notin routes
    <3>1. routes \subseteq {NotifyTopic, <<"revoke", "accepted">>, <<"revoke", "rejected">>}
      BY <1>2, <2>2 DEF Routed, AnswerTopics
    <3>2. Cardinality(routes) \in Nat /\ Cardinality(routes) <= 3
      BY <3>1, ThreeLemma
    <3> QED BY <3>2, ConstantsAssumption DEF AddRoute
  <2> QED BY <2>1, <2>2
<1>4. rejected \in routes' \/ AnswerTopics("revoke") \subseteq routes
  <2> SUFFICES ASSUME rejected \notin routes', ~(AnswerTopics("revoke") \subseteq routes)
               PROVE  FALSE
    OBVIOUS
  <2>1. routes' = first /\ ~(Cardinality(first) + 0 < ListSize)
    BY <1>1 DEF AddRoute
  <2>2. first \subseteq {NotifyTopic, accepted, rejected}
    BY <1>2, <1>3 DEF Routed
  <2>3. Cardinality(first) \in Nat /\ Cardinality(first) <= 3
    BY <2>2, ThreeLemma
  <2> QED BY <2>1, <2>3, ConstantsAssumption
<1>5. /\ routes \cup {accepted} \subseteq routes'
      /\ routes' \subseteq routes \cup {accepted, rejected}
  BY <1>1, <1>3 DEF AddRoute
<1> QED BY <1>1, <1>4, <1>5, TopicsLemma DEF Routed, AnswerTopics

LEMMA SubscribeCsrRouteInv ==
  ASSUME ListSize >= 4, TypeInv, RouteInv, SubscribeCsr
  PROVE  RouteInv'
<1>1. CASE Restart
  BY <1>1, RestartRouteInv
<1>2. CASE ~Restart
  <2>1. /\ Subscribe("csr", brokerSubs, routes, taken)
        /\ topicFilters = "csr" /\ topicFilters' = "csr" /\ pc' = "publish_csr"
        /\ UNCHANGED <<givenUp, abandoned, notification>>
    BY <1>2 DEF SubscribeCsr, RouteInv, buffers
  <2>2. ASSUME Undisturbed' PROVE Routed'
    <3>1. Undisturbed /\ taken' = 0
      <4>1. givenUp = {} /\ taken' = 0
        BY <2>1, <2>2 DEF Undisturbed
      <4>2. PICK found \in {0} : taken' = taken - found
        BY <2>1, <4>1 DEF Subscribe
      <4> QED BY <4>1, <4>2, LeftoverLemma DEF Undisturbed
    <3>2. Routed
      BY <3>1 DEF RouteInv
    <3> QED BY <2>1, <3>1, <3>2, SubscribeCsrRouted
  <2> QED BY <2>1, <2>2 DEF RouteInv
<1> QED BY <1>1, <1>2

\* The topics of a revocation always find their places.
LEMMA SubscribeRevokeRouted ==
  ASSUME ListSize >= 4, TypeInv, Routed, topicFilters \notin {None, Freed},
         Subscribe("revoke", Unsubscribed(brokerSubs), Unsubscribed(routes), taken),
         taken' = 0, topicFilters' = "revoke"
  PROVE  Routed'
<1> DEFINE accepted == <<"revoke", "accepted">>
           rejected == <<"revoke", "rejected">>
           list == Unsubscribed(routes)
           first == AddRoute(list, 0, accepted)
<1>1. /\ brokerSubs' = Unsubscribed(brokerSubs) \cup AnswerTopics("revoke")
      /\ routes' = AddRoute(first, 0, rejected)
  BY DEF Subscribe
<1>2. list \subseteq {NotifyTopic, accepted, rejected}
  BY UnsubscribedLemma DEF AnswerTopics
<1>3. first \subseteq {NotifyTopic, accepted, rejected}
  BY <1>2 DEF AddRoute
<1>4. first = list \cup {accepted} /\ routes' = first \cup {rejected}
  <2>1. /\ Cardinality(list) \in Nat /\ Cardinality(list) <= 3
        /\ Cardinality(first) \in Nat /\ Cardinality(first) <= 3
    BY <1>2, <1>3, ThreeLemma
  <2> QED BY <1>1, <2>1, ConstantsAssumption DEF AddRoute
<1>5. routes' = list \cup AnswerTopics("revoke")
  BY <1>4 DEF AnswerTopics
<1>6. brokerSubs' \subseteq routes'
  BY <1>1, <1>5, UnsubscribedLemma
<1>7. AnswerTopics("csr") \cap (brokerSubs' \cup routes') = {}
  BY <1>2, <1>5, <1>6, TopicsLemma DEF AnswerTopics
<1> QED BY <1>1, <1>5, <1>6, <1>7 DEF Routed, AnswerTopics

LEMMA RevokeOldCertificateRouteInv ==
  ASSUME ListSize >= 4, TypeInv, RouteInv, RevokeOldCertificate
  PROVE  RouteInv'
<1>1. CASE Restart
  BY <1>1, RestartRouteInv
<1>2. CASE ~Restart
  <2>1. /\ topicFilters \notin {None, Freed} /\ topicFilters' = "revoke" /\ pc' = "receive"
        /\ \/ /\ Subscribe("revoke", Unsubscribed(brokerSubs), Unsubscribed(routes), taken)
              /\ UNCHANGED <<givenUp, abandoned, notification>>
           \/ givenUp' = givenUp \cup {topicFilters}
    BY <1>2 DEF RevokeOldCertificate, LeaveBehind
  <2>2. CASE givenUp' = givenUp \cup {topicFilters}
    BY <2>1, <2>2 DEF RouteInv, Undisturbed
  <2>3. CASE /\ Subscribe("revoke", Unsubscribed(brokerSubs), Unsubscribed(routes), taken)
             /\ UNCHANGED <<givenUp, abandoned, notification>>
    <3>1. ASSUME Undisturbed' PROVE Routed'
      <4>1. givenUp = {} /\ taken' = 0
        BY <2>3, <3>1 DEF Undisturbed
      <4>2. PICK found \in {0} : taken' = taken - found
        BY <2>3, <4>1 DEF Subscribe
      <4>3. Routed
        BY <4>1, <4>2, LeftoverLemma DEF RouteInv, Undisturbed
      <4> QED BY <2>1, <2>3, <4>1, <4>3, SubscribeRevokeRouted
    <3> QED BY <2>1, <2>3, <3>1 DEF RouteInv
  <2> QED BY <2>1, <2>2, <2>3
<1> QED BY <1>1, <1>2

\* Both answers to a revocation unsubscribe and leave no filter behind, unless
\* the unsubscription is given up.
LEMMA ReleaseTopicsRouteInv ==
  ASSUME TypeInv, RouteInv, topicFilters \notin {None, Freed}, ReleaseTopics,
         pc' # "subscribe_csr"
  PROVE  RouteInv'
<1>1. CASE LeaveBehind
  BY <1>1 DEF LeaveBehind, RouteInv, Undisturbed
<1>2. CASE ~LeaveBehind
  <2>1. /\ brokerSubs' = Unsubscribed(brokerSubs) /\ routes' = Unsubscribed(routes)
        /\ UNCHANGED <<givenUp, taken, abandoned, notification>>
    BY <1>2 DEF ReleaseTopics, leftover
  <2>2. ASSUME Undisturbed' PROVE Routed'
    <3>1. Routed
      BY <2>1, <2>2 DEF RouteInv, Undisturbed
    <3>2. AnswerTopics("csr") \cap (brokerSubs' \cup routes') = {}
      BY <2>1, <3>1, UnsubscribedLemma, TopicsLemma
    <3> QED BY <2>1, <3>1, <3>2, UnsubscribedLemma DEF Routed, AnswerTopics
  <2> QED BY <2>1, <2>2 DEF RouteInv
<1> QED BY <1>1, <1>2

LEMMA NextRouteInv ==
  ASSUME ListSize >= 4, TypeInv, RouteInv, [Next]_vars
  PROVE  RouteInv'
<1>1. CASE Cloud
  BY <1>1, SessionUnchanged
  DEF Cloud, NotifyNext, LambdaSign, LambdaRevoke, task, buffers
<1>2. CASE Agent
  <2>1. CASE \E a \in answers : Deliver(a) \/ Unheard(a)
    BY <2>1, SessionUnchanged DEF Deliver, Unheard, task, buffers
  <2>2. CASE HandleTerminate
    BY <2>2, RestartRouteInv, SessionForgotten DEF HandleTerminate, task, buffers
  <2>3. CASE ConnectNew \/ FallBack \/ ConnectOld
    BY <2>3, SessionUnchanged DEF ConnectNew, FallBack, ConnectOld, Reconnected, task, buffers
  <2>4. CASE ConnectOldFails
    BY <2>4, RestartRouteInv DEF ConnectOldFails
  <2> QED BY <1>2, <2>1, <2>2, <2>3, <2>4 DEF Agent
<1>3. CASE Task
  <2>1. CASE ReceiveReady \/ ReceiveWait \/ ReceiveFailure \/ ReceiveRevokeOld
             \/ ReceiveAccepted \/ CsrPublished \/ StoreCertificate \/ StorePrivateKey
    BY <2>1, SessionUnchanged
    DEF ReceiveReady, ReceiveWait, ReceiveFailure, FailureCall, ReceiveRevokeOld,
        ReceiveAccepted, CsrPublished, StoreCertificate, StorePrivateKey, buffers
  <2>2. CASE ReceiveRenewal
    BY <2>2 DEF ReceiveRenewal, session, leftover, RouteInv, Undisturbed, Routed
  <2>3. CASE ReceiveSigned \/ ReceiveJobDocument
    BY <2>3, SessionUnchanged, RestartRouteInv
    DEF ReceiveSigned, ReceiveJobDocument, buffers
  <2>4. CASE AcceptJob \/ RejectJob \/ PublishCsr \/ FailCsr \/ Succeed
    BY <2>4, PublishedRouteInv
    DEF AcceptJob, RejectJob, PublishCsr, FailCsr, Succeed, buffers
  <2>5. CASE SubscribeCsr
    BY <2>5, SubscribeCsrRouteInv
  <2>6. CASE FailRenewal
    BY <2>6, PublishedRouteInv, RestartRouteInv DEF FailRenewal
  <2>7. CASE RevokeOldCertificate
    BY <2>7, RevokeOldCertificateRouteInv
  <2>8. CASE FinishRevoke \/ FailRevoke
    BY <2>8, RestartRouteInv, ReleaseTopicsRouteInv DEF FinishRevoke, FailRevoke
  <2> QED BY <1>3, <2>1, <2>2, <2>3, <2>4, <2>5, <2>6, <2>7, <2>8 DEF Task
<1>4. CASE LoseMessage \/ (\E j \in Jobs : JobTimeout(j)) \/ BootFails \/ UNCHANGED vars
  BY <1>4, SessionUnchanged DEF LoseMessage, JobTimeout, BootFails, vars, task, buffers
<1>5. CASE NetworkError
  BY <1>5, SessionForgotten DEF NetworkError, task, buffers
<1>6. CASE Crash \/ MQTTFails
  BY <1>6, RestartRouteInv DEF Crash, MQTTFails
<1>7. CASE Boot
  BY <1>7, TopicsLemma DEF Boot, RouteInv, Undisturbed, Routed, AnswerTopics, NotifyTopic,
     leftover
<1>8. CASE LateCompletion
  <2>1. CASE Restart
    BY <2>1, RestartRouteInv
  <2>2. CASE ~Restart
    <3>1. givenUp # {} /\ UNCHANGED <<givenUp, pc, topicFilters>>
      BY <1>8, <2>2 DEF LateCompletion, RouteInv, task, buffers
    <3> QED BY <3>1 DEF RouteInv, Undisturbed
  <2> QED BY <2>1, <2>2
<1>9. CASE OtaStream
  <2>1. taken' # 0 /\ UNCHANGED <<givenUp, abandoned, notification, pc, topicFilters>>
    BY <1>9, LeftoverLemma DEF OtaStream, task, buffers
  <2> QED BY <2>1 DEF RouteInv, Undisturbed
<1> QED BY <1>1, <1>2, <1>3, <1>4, <1>5, <1>6, <1>7, <1>8, <1>9 DEF Next

\* Until an unsubscription is given up or an image downloaded, every answer the
\* broker sends finds its callback, but for the refusal of a CSR made while an
\* earlier revocation is unanswered: the broker and the list subscribe together,
\* only the broker forgets on its own, and only the list refuses.
THEOREM SubscriptionsRouted ==
  ASSUME ListSize >= 4
  PROVE  Spec => []AnswersRouted
<1>1. Init => RouteInv
  BY DEF Init, RouteInv, Routed, AnswerTopics
<1>2. TypeInv /\ RouteInv /\ [Next]_vars => RouteInv'
  BY NextRouteInv
<1> QED BY <1>1, <1>2, RoutedLemma, TypeInvariant, PTL DEF Spec
=============================================================================
