------------------------- MODULE CertRenewalProofs -------------------------
(***************************************************************************)
(* What the certificate renewal keeps for every number of jobs, keys and   *)
(* Lambda invocations, every queue length and every set of faults.         *)
(***************************************************************************)
EXTENDS CertRenewal, FiniteSetTheorems, TLAPS

\* Sending an event keeps the queue a bounded sequence of events, and every
\* place of the queue holds the new event or one that was there before.
LEMMA EnqueueLemma ==
  ASSUME NEW q \in Seq(Events), Len(q) <= QueueLength, NEW e \in Events
  PROVE  /\ Enqueue(q, e) \in Seq(Events)
         /\ Len(Enqueue(q, e)) <= QueueLength
         /\ \A i \in 1 .. Len(Enqueue(q, e)) :
              Enqueue(q, e)[i] = e \/ (i \in 1 .. Len(q) /\ Enqueue(q, e)[i] = q[i])
<1>1. CASE Len(q) < QueueLength
  BY <1>1, ConstantsAssumption DEF Enqueue
<1>2. CASE ~(Len(q) < QueueLength)
  BY <1>2 DEF Enqueue
<1> QED BY <1>1, <1>2

\* Receiving an event moves the others one place to the front.
LEMMA TailLemma ==
  ASSUME NEW q \in Seq(Events), Len(q) <= QueueLength, q # <<>>
  PROVE  /\ Tail(q) \in Seq(Events)
         /\ Len(Tail(q)) <= QueueLength
         /\ \A i \in 1 .. Len(Tail(q)) : i + 1 \in 1 .. Len(q) /\ Tail(q)[i] = q[i + 1]
  BY ConstantsAssumption

LEMMA InitTypeInv == Init => TypeInv
<1> SUFFICES ASSUME Init PROVE TypeInv
  OBVIOUS
<1>1. FirstCertificate \in Certificates /\ 0 \in Keys
  BY ConstantsAssumption DEF FirstCertificate, Certificates, Keys
<1>2. /\ eventQueue = <<>> /\ eventQueue \in Seq(Events) /\ Len(eventQueue) = 0
      /\ Len(eventQueue) <= QueueLength
  BY ConstantsAssumption DEF Init
<1> QED BY <1>1, <1>2 DEF Init, TypeInv, TypeOK, Answers

\* NULL and freed pointers are no certificate, NULL is no key.
LEMMA PointersLemma == None \notin Certificates /\ Freed \notin Certificates /\ None \notin Keys
BY PointersAssumption, ConstantsAssumption DEF Certificates, Keys

\* A job update leaves every job with a status AWS IoT Jobs knows.
LEMMA UpdateJobLemma ==
  ASSUME jobStatus \in [Jobs -> Terminal \cup {"QUEUED", "IN_PROGRESS"}],
         NEW status \in Terminal \cup {"QUEUED", "IN_PROGRESS"},
         UpdateJob(status)
  PROVE  jobStatus' \in [Jobs -> Terminal \cup {"QUEUED", "IN_PROGRESS"}]
BY DEF UpdateJob

\* A subscription adds known topics only, to the broker and to the list.
LEMMA SubscribeLemma ==
  ASSUME NEW api \in {"csr", "revoke"}, NEW subs \in SUBSET Topics,
         NEW list \in SUBSET Topics, NEW others \in Nat,
         Subscribe(api, subs, list, others)
  PROVE  brokerSubs' \subseteq Topics /\ routes' \subseteq Topics /\ taken' \in Nat
<1>1. brokerSubs' \subseteq Topics /\ routes' \subseteq Topics
  BY DEF Subscribe, AddRoute, AnswerTopics, Topics
<1>2. taken' \in Nat
  <2>1. PICK found \in 0 .. 2 : found <= others /\ taken' = others - found
    BY DEF Subscribe
  <2> QED BY <2>1
<1> QED BY <1>1, <1>2

\* The five topics are a finite set, so that the list has a size.
LEMMA TopicsFinite == ASSUME NEW S \in SUBSET Topics PROVE IsFiniteSet(S)
<1>1. \A T, x : IsFiniteSet(T) => IsFiniteSet(T \cup {x})
  BY FS_AddElement
<1>2. IsFiniteSet({NotifyTopic})
  BY FS_Singleton
<1>3. IsFiniteSet(({NotifyTopic} \cup {<<"csr", "accepted">>}) \cup {<<"csr", "rejected">>})
  BY <1>1, <1>2
<1>4. IsFiniteSet(((({NotifyTopic} \cup {<<"csr", "accepted">>}) \cup {<<"csr", "rejected">>})
                    \cup {<<"revoke", "accepted">>}) \cup {<<"revoke", "rejected">>})
  BY <1>1, <1>3
<1>5. Topics = ((({NotifyTopic} \cup {<<"csr", "accepted">>}) \cup {<<"csr", "rejected">>})
                    \cup {<<"revoke", "accepted">>}) \cup {<<"revoke", "rejected">>}
  BY DEF Topics, AnswerTopics
<1> QED BY <1>4, <1>5, FS_Subset

\* The places of filters that were freed are counted.
LEMMA HeldLemma == TypeInv => Held \in Nat
<1> SUFFICES ASSUME TypeInv PROVE Held \in Nat
  OBVIOUS
<1>1. routes \cap AnswerTopics(topicFilters) \in SUBSET Topics /\ taken \in Nat
  BY DEF TypeInv, TypeOK
<1>2. Cardinality(routes \cap AnswerTopics(topicFilters)) \in Nat
  BY <1>1, TopicsFinite, FS_CardinalityType
<1> QED BY <1>1, <1>2 DEF Held

\* What the give-ups leave behind has its types.
LEMMA LeftoverLemma ==
  TypeInv => /\ givenUp \subseteq {"csr", "revoke"} /\ taken \in Nat
             /\ abandoned \in Nat /\ notification \in {"none", "pending"}
BY DEF TypeInv, TypeOK

\* Publishing leaves a command behind or nothing.
LEMMA PublishedLemma ==
  ASSUME TypeInv, Published
  PROVE  /\ givenUp' \subseteq {"csr", "revoke"} /\ taken' \in Nat
         /\ abandoned' \in Nat /\ notification' \in {"none", "pending"}
BY LeftoverLemma DEF Published, leftover

\* What unsubscribing leaves of both lists and behind in the agent.
LEMMA ReleaseTopicsLemma ==
  ASSUME TypeInv, ReleaseTopics, topicFilters \notin {None, Freed}
  PROVE  /\ brokerSubs' \subseteq Topics /\ routes' \subseteq Topics
         /\ givenUp' \subseteq {"csr", "revoke"} /\ taken' \in Nat
         /\ abandoned' \in Nat /\ notification' \in {"none", "pending"}
<1>1. topicFilters \in {"csr", "revoke"}
  BY DEF TypeInv, TypeOK
<1>2. brokerSubs' \subseteq Topics /\ routes' \subseteq Topics
  BY DEF ReleaseTopics, Unsubscribed, TypeInv, TypeOK
<1>3. taken \in Nat /\ taken' \in {taken, Held}
  BY DEF ReleaseTopics, leftover, TypeInv, TypeOK
<1>4. /\ givenUp' \subseteq {"csr", "revoke"}
      /\ abandoned' \in Nat /\ notification' \in {"none", "pending"}
  BY <1>1, LeftoverLemma DEF ReleaseTopics, LeaveBehind, leftover
<1> QED BY <1>2, <1>3, <1>4, HeldLemma

\* What sending an event does to the queue's part of the invariant.
LEMMA SendLemma ==
  ASSUME TypeInv, NEW e \in Events, eventQueue' = Enqueue(eventQueue, e),
         dataBuffer # None => dataBuffer' # None,
         e = "ReceivedSignedCertificate" => dataBuffer' # None
  PROVE  /\ eventQueue' \in Seq(Events) /\ Len(eventQueue') <= QueueLength
         /\ \A i \in 1 .. Len(eventQueue') :
              eventQueue'[i] = "ReceivedSignedCertificate" => dataBuffer' # None
<1> DEFINE q == Enqueue(eventQueue, e)
<1>1. eventQueue \in Seq(Events) /\ Len(eventQueue) <= QueueLength
  BY DEF TypeInv, TypeOK
<1>2. /\ q \in Seq(Events) /\ Len(q) <= QueueLength
      /\ \A i \in 1 .. Len(q) : q[i] = e \/ (i \in 1 .. Len(eventQueue) /\ q[i] = eventQueue[i])
  BY <1>1, EnqueueLemma
<1>3. \A i \in 1 .. Len(eventQueue) :
        eventQueue[i] = "ReceivedSignedCertificate" => dataBuffer # None
  BY DEF TypeInv
<1>4. eventQueue' = q
  OBVIOUS
<1> HIDE DEF q
<1> QED BY <1>2, <1>3, <1>4

LEMMA RestartUpdateTypeInv ==
  ASSUME TypeInv, Restart,
         jobStatus' \in [Jobs -> Terminal \cup {"QUEUED", "IN_PROGRESS"}],
         UNCHANGED <<notified, active, csrRequests, revokeRequests, answers>>
  PROVE  TypeInv'
BY ConstantsAssumption DEF Restart, TypeInv, TypeOK, nvs

LEMMA RestartTypeInv ==
  ASSUME TypeInv, Restart, UNCHANGED cloud
  PROVE  TypeInv'
BY RestartUpdateTypeInv DEF TypeInv, TypeOK, cloud

LEMMA NotifyNextTypeInv ==
  ASSUME TypeInv, NEW j \in Jobs, NotifyNext(j)
  PROVE  TypeInv'
<1>1. "ReceivedJobDocument" \in Events
  BY DEF Events
<1>2. /\ eventQueue' \in Seq(Events) /\ Len(eventQueue') <= QueueLength
      /\ \A i \in 1 .. Len(eventQueue') :
           eventQueue'[i] = "ReceivedSignedCertificate" => dataBuffer' # None
  BY <1>1, SendLemma DEF NotifyNext, TypeInv, TypeOK
<1> QED BY <1>2
  DEF NotifyNext, TypeInv, TypeOK, cloud, session, leftover, agentVars, task, buffers,
      current, pending, nvs

LEMMA JobTimeoutTypeInv ==
  ASSUME TypeInv, NEW j \in Jobs, JobTimeout(j)
  PROVE  TypeInv'
BY
  DEF JobTimeout, Terminal, TypeInv, TypeOK, cloud, session, leftover, agentVars, task,
      buffers, current, pending, nvs

LEMMA LambdaSignTypeInv ==
  ASSUME TypeInv, NEW r \in csrRequests, LambdaSign(r)
  PROVE  TypeInv'
<1> DEFINE cert == [key |-> r.key, copy |-> r.try]
<1>1. /\ r.key \in Keys /\ r.try \in 1 .. MaxInvocations
      /\ cert \in Certificates
  BY DEF TypeInv, TypeOK, Certificates
<1>2. PICK kind \in CsrAnswers :
        /\ active' \in {active, active \cup {cert}}
        /\ answers' = answers \cup {[kind |-> kind, cert |-> cert]}
  BY DEF LambdaSign
<1>3. [kind |-> kind, cert |-> cert] \in Answers
  BY <1>1, ConstantsAssumption DEF Answers, AnswerKinds
<1>4. csrRequests' \subseteq [key : Keys, try : 1 .. MaxInvocations]
  BY <1>1, ConstantsAssumption DEF LambdaSign, Invoked, TypeInv, TypeOK
<1>5. active' \subseteq Certificates /\ answers' \subseteq Answers
  BY <1>1, <1>2, <1>3 DEF TypeInv, TypeOK
<1> QED BY <1>4, <1>5
  DEF LambdaSign, TypeInv, TypeOK, cloud, session, leftover, agentVars, task, buffers,
      current, pending, nvs

LEMMA LambdaRevokeTypeInv ==
  ASSUME TypeInv, NEW r \in revokeRequests, LambdaRevoke(r)
  PROVE  TypeInv'
<1> DEFINE named == [key |-> 0, copy |-> r.try]
<1>1. r.try \in 1 .. MaxInvocations /\ named \in Certificates
  BY ConstantsAssumption DEF TypeInv, TypeOK, Certificates, Keys
<1>2. revokeRequests' \subseteq [cert : Certificates \cup {None, Freed},
                                 try : 1 .. MaxInvocations]
  <2>1. revokeRequests' = Invoked(revokeRequests, r)
    BY DEF LambdaRevoke
  <2>2. revokeRequests \subseteq [cert : Certificates \cup {None, Freed},
                                  try : 1 .. MaxInvocations]
    BY DEF TypeInv, TypeOK
  <2> QED BY <1>1, <2>1, <2>2, ConstantsAssumption DEF Invoked
<1>3. \A kind \in RevokeAnswers : [kind |-> kind, cert |-> named] \in Answers
  BY <1>1, ConstantsAssumption DEF Answers, AnswerKinds
<1>4. active' \subseteq active
  BY DEF LambdaRevoke
<1>5. active' \subseteq Certificates /\ answers' \subseteq Answers
  BY <1>3, <1>4 DEF LambdaRevoke, TypeInv, TypeOK
<1> QED BY <1>2, <1>5
  DEF LambdaRevoke, TypeInv, TypeOK, cloud, session, leftover, agentVars, task, buffers,
      current, pending, nvs

LEMMA DeliverTypeInv ==
  ASSUME TypeInv, NEW a \in answers, Deliver(a)
  PROVE  TypeInv'
<1>1. a \in Answers /\ a # None
  <2>1. a \in Answers
    BY DEF TypeInv, TypeOK
  <2>2. Answers \subseteq [kind : AnswerKinds, cert : [key : Nat, copy : Nat]]
    <3>1. Certificates \subseteq [key : Nat, copy : Nat]
      BY ConstantsAssumption DEF Certificates, Keys
    <3> QED BY <3>1 DEF Answers
  <2> QED BY <2>1, <2>2, PointersAssumption
<1>2. EventOf(a) \in Events
  BY DEF EventOf, Events
<1>3. /\ eventQueue' \in Seq(Events) /\ Len(eventQueue') <= QueueLength
      /\ \A i \in 1 .. Len(eventQueue') :
           eventQueue'[i] = "ReceivedSignedCertificate" => dataBuffer' # None
  BY <1>1, <1>2, SendLemma DEF Deliver
<1> QED BY <1>1, <1>3
  DEF Deliver, TypeInv, TypeOK, cloud, session, leftover, agentVars, task, buffers, current,
      pending, nvs

LEMMA UnheardTypeInv ==
  ASSUME TypeInv, NEW a \in answers, Unheard(a)
  PROVE  TypeInv'
BY
  DEF Unheard, TypeInv, TypeOK, cloud, session, leftover, agentVars, task, buffers, current,
      pending, nvs

LEMMA LoseMessageTypeInv ==
  ASSUME TypeInv, LoseMessage
  PROVE  TypeInv'
BY
  DEF LoseMessage, TypeInv, TypeOK, cloud, session, leftover, agentVars, task, buffers,
      current, pending, nvs

LEMMA HandleTerminateTypeInv ==
  ASSUME TypeInv, HandleTerminate
  PROVE  TypeInv'
<1>1. CASE newCertificate = None \/ newPrivateKey = None
  BY <1>1, RestartTypeInv DEF HandleTerminate
<1>2. CASE ~(newCertificate = None \/ newPrivateKey = None)
  <2>1. /\ agent = "loop" /\ pc # "off" /\ agent' = "try_new"
        /\ terminates' \in Nat /\ brokerSubs' = {}
        /\ certificate' = newCertificate /\ privateKey' = newPrivateKey
        /\ newCertificate' = None /\ newPrivateKey' = None
        /\ UNCHANGED <<cloud, routes, leftover, task, buffers, keys, nvs>>
    BY <1>2 DEF HandleTerminate, TypeInv, TypeOK
  <2> QED BY <1>2, <2>1
    DEF TypeInv, TypeOK, cloud, session, leftover, agentVars, task, buffers, current, pending,
        nvs
<1> QED BY <1>1, <1>2

LEMMA ConnectNewTypeInv ==
  ASSUME TypeInv, ConnectNew
  PROVE  TypeInv'
<1>1. "RevokeOldCertificate" \in Events
  BY DEF Events
<1>2. /\ eventQueue' \in Seq(Events) /\ Len(eventQueue') <= QueueLength
      /\ \A i \in 1 .. Len(eventQueue') :
           eventQueue'[i] = "ReceivedSignedCertificate" => dataBuffer' # None
  BY <1>1, SendLemma DEF ConnectNew, Reconnected, buffers
<1> QED BY <1>2
  DEF ConnectNew, Reconnected, TypeInv, TypeOK, cloud, session, leftover, agentVars, task,
      buffers, current, pending, nvs

LEMMA FallBackTypeInv ==
  ASSUME TypeInv, FallBack
  PROVE  TypeInv'
BY PointersLemma
  DEF FallBack, TypeInv, TypeOK, cloud, session, leftover, agentVars, task, buffers, current,
      pending, nvs

LEMMA ConnectOldTypeInv ==
  ASSUME TypeInv, ConnectOld
  PROVE  TypeInv'
<1>1. "RevokeOldCertificate" \in Events
  BY DEF Events
<1>2. /\ eventQueue' \in Seq(Events) /\ Len(eventQueue') <= QueueLength
      /\ \A i \in 1 .. Len(eventQueue') :
           eventQueue'[i] = "ReceivedSignedCertificate" => dataBuffer' # None
  BY <1>1, SendLemma DEF ConnectOld, Reconnected, buffers
<1> QED BY <1>2
  DEF ConnectOld, Reconnected, TypeInv, TypeOK, cloud, session, leftover, agentVars, task,
      buffers, current, pending, nvs

LEMMA ConnectOldFailsTypeInv ==
  ASSUME TypeInv, ConnectOldFails
  PROVE  TypeInv'
BY RestartTypeInv
  DEF ConnectOldFails, TypeInv, TypeOK, cloud, session, leftover, agentVars, task, buffers,
      current, pending, nvs

LEMMA NetworkErrorTypeInv ==
  ASSUME TypeInv, NetworkError
  PROVE  TypeInv'
BY
  DEF NetworkError, TypeInv, TypeOK, cloud, session, leftover, agentVars, task, buffers,
      current, pending, nvs

LEMMA MQTTFailsTypeInv ==
  ASSUME TypeInv, MQTTFails
  PROVE  TypeInv'
BY RestartTypeInv DEF MQTTFails

LEMMA LateCompletionTypeInv ==
  ASSUME TypeInv, LateCompletion
  PROVE  TypeInv'
<1>1. CASE Restart
  BY <1>1, RestartTypeInv DEF LateCompletion
<1>2. CASE ~Restart
  <2>1. /\ abandoned' \in Nat /\ notification' = "pending" /\ taken' \in Nat
        /\ brokerSubs' \subseteq Topics /\ routes' \subseteq Topics
        /\ UNCHANGED <<cloud, givenUp, agentVars, task, buffers, keys, current, pending, nvs>>
    BY <1>2 DEF LateCompletion, TypeInv, TypeOK
  <2> QED BY <2>1
    DEF TypeInv, TypeOK, cloud, agentVars, task, buffers, current, pending, nvs
<1> QED BY <1>1, <1>2

LEMMA OtaStreamTypeInv ==
  ASSUME TypeInv, OtaStream
  PROVE  TypeInv'
<1>1. taken' \in Nat
  BY DEF OtaStream, TypeInv, TypeOK
<1> QED BY <1>1
  DEF OtaStream, TypeInv, TypeOK, cloud, agentVars, task, buffers, current, pending, nvs

LEMMA CrashTypeInv ==
  ASSUME TypeInv, Crash
  PROVE  TypeInv'
BY RestartTypeInv
  DEF Crash, TypeInv, TypeOK, cloud, session, leftover, agentVars, task, buffers, current,
      pending, nvs

LEMMA BootTypeInv ==
  ASSUME TypeInv, Boot
  PROVE  TypeInv'
BY PointersLemma, ConstantsAssumption
  DEF Boot, Topics, Events, TypeInv, TypeOK, cloud, session, leftover, agentVars, task, buffers,
      current, pending, nvs

LEMMA BootFailsTypeInv ==
  ASSUME TypeInv, BootFails
  PROVE  TypeInv'
BY
  DEF BootFails, TypeInv, TypeOK, vars, cloud, session, leftover, agentVars, task, buffers,
      current, pending, nvs

LEMMA ReceiveReadyTypeInv ==
  ASSUME TypeInv, ReceiveReady
  PROVE  TypeInv'
BY TailLemma
  DEF ReceiveReady, Take, TypeInv, TypeOK, cloud, session, leftover, agentVars, task, buffers,
      current, pending, nvs

LEMMA ReceiveJobDocumentTypeInv ==
  ASSUME TypeInv, ReceiveJobDocument
  PROVE  TypeInv'
<1>1. CASE jobBuffer \in Incomplete
  BY <1>1, RestartTypeInv DEF ReceiveJobDocument
<1>2. CASE jobBuffer \notin Incomplete
  <2>1. ClientJobs \subseteq Jobs
    BY ConstantsAssumption
  <2>2. /\ Take("ReceivedJobDocument") /\ pc' \in {"accept_job", "reject_job"}
        /\ jobId' \in Jobs \cup {None} /\ currentState' = "ProcessingJob"
    BY <1>2, <2>1 DEF ReceiveJobDocument, TypeInv, TypeOK
  <2>3. UNCHANGED <<cloud, session, agentVars, jobBuffer, dataBuffer, topicFilters,
                    certificateId, keys, current, pending, nvs>>
    BY <1>2 DEF ReceiveJobDocument
  <2> QED BY <2>2, <2>3, TailLemma
    DEF Take, TypeInv, TypeOK, cloud, session, leftover, agentVars, current, pending, nvs
<1> QED BY <1>1, <1>2

LEMMA ReceiveRenewalTypeInv ==
  ASSUME TypeInv, ReceiveRenewal
  PROVE  TypeInv'
BY TailLemma
  DEF ReceiveRenewal, Take, TypeInv, TypeOK, cloud, session, leftover, agentVars, task,
      buffers, current, pending, nvs

LEMMA ReceiveWaitTypeInv ==
  ASSUME TypeInv, ReceiveWait
  PROVE  TypeInv'
BY TailLemma
  DEF ReceiveWait, Take, TypeInv, TypeOK, cloud, session, leftover, agentVars, task, buffers,
      current, pending, nvs

LEMMA ReceiveSignedTypeInv ==
  ASSUME TypeInv, ReceiveSigned
  PROVE  TypeInv'
<1>1. /\ pc = "receive" /\ eventQueue # <<>>
      /\ Head(eventQueue) = "ReceivedSignedCertificate"
  BY DEF ReceiveSigned
<1>2. dataBuffer \in Answers
  <2>1. eventQueue \in Seq(Events) /\ 1 \in 1 .. Len(eventQueue)
        /\ Head(eventQueue) = eventQueue[1]
    BY <1>1 DEF TypeInv, TypeOK
  <2> QED BY <1>1, <2>1 DEF TypeInv, TypeOK
<1>3. CASE dataBuffer.kind = "signed"
  <2>1. dataBuffer.cert \in Certificates
    BY <1>2 DEF Answers
  <2>2. /\ Take("ReceivedSignedCertificate")
        /\ currentState' = "ProcessingSignedCertificate"
        /\ certificateId' = dataBuffer.cert /\ newCertificate' = dataBuffer.cert
        /\ terminates' = terminates + 1
        /\ UNCHANGED <<cloud, session, agent, pc, jobBuffer, jobId, dataBuffer,
                       topicFilters, keys, current, newPrivateKey, nvs>>
    BY <1>3 DEF ReceiveSigned
  <2> QED BY <1>1, <2>1, <2>2, TailLemma
    DEF Take, TypeInv, TypeOK, cloud, session, leftover, agentVars, task, buffers, current,
        pending, nvs
<1>4. CASE dataBuffer.kind = "unparsable"
  <2>1. /\ Take("ReceivedSignedCertificate")
        /\ currentState' = "ProcessingSignedCertificate"
        /\ pc' = "fail_renewal"
        /\ UNCHANGED <<cloud, session, agentVars, buffers, keys, current, pending, nvs>>
    BY <1>4 DEF ReceiveSigned
  <2> QED BY <1>1, <2>1, TailLemma
    DEF Take, TypeInv, TypeOK, cloud, session, leftover, agentVars, task, buffers, current,
        pending, nvs
<1>5. CASE dataBuffer.kind \notin {"signed", "unparsable"}
  BY <1>5, RestartTypeInv DEF ReceiveSigned
<1> QED BY <1>3, <1>4, <1>5

LEMMA ReceiveFailureTypeInv ==
  ASSUME TypeInv, ReceiveFailure
  PROVE  TypeInv'
BY TailLemma
  DEF ReceiveFailure, FailureCall, Take, TypeInv, TypeOK, cloud, session, leftover, agentVars,
      task, buffers, current, pending, nvs

LEMMA ReceiveRevokeOldTypeInv ==
  ASSUME TypeInv, ReceiveRevokeOld
  PROVE  TypeInv'
BY TailLemma
  DEF ReceiveRevokeOld, Take, TypeInv, TypeOK, cloud, session, leftover, agentVars, task,
      buffers, current, pending, nvs

LEMMA ReceiveAcceptedTypeInv ==
  ASSUME TypeInv, ReceiveAccepted
  PROVE  TypeInv'
BY TailLemma
  DEF ReceiveAccepted, Take, TypeInv, TypeOK, cloud, session, leftover, agentVars, task,
      buffers, current, pending, nvs

LEMMA AcceptJobTypeInv ==
  ASSUME TypeInv, AcceptJob
  PROVE  TypeInv'
<1>1. "ClientCertificateRenewal" \in Events
  BY DEF Events
<1>2. /\ eventQueue' \in Seq(Events) /\ Len(eventQueue') <= QueueLength
      /\ \A i \in 1 .. Len(eventQueue') :
           eventQueue'[i] = "ReceivedSignedCertificate" => dataBuffer' # None
  BY <1>1, SendLemma DEF AcceptJob, buffers
<1>3. jobStatus' \in [Jobs -> Terminal \cup {"QUEUED", "IN_PROGRESS"}]
  BY UpdateJobLemma DEF AcceptJob, Terminal, TypeInv, TypeOK
<1>4. /\ givenUp' \subseteq {"csr", "revoke"} /\ taken' \in Nat
      /\ abandoned' \in Nat /\ notification' \in {"none", "pending"}
  BY PublishedLemma DEF AcceptJob
<1> QED BY <1>2, <1>3, <1>4
  DEF AcceptJob, TypeInv, TypeOK, agentVars, buffers, current, pending, nvs

LEMMA RejectJobTypeInv ==
  ASSUME TypeInv, RejectJob
  PROVE  TypeInv'
<1>1. jobStatus' \in [Jobs -> Terminal \cup {"QUEUED", "IN_PROGRESS"}]
  BY UpdateJobLemma DEF RejectJob, Terminal, TypeInv, TypeOK
<1>2. /\ givenUp' \subseteq {"csr", "revoke"} /\ taken' \in Nat
      /\ abandoned' \in Nat /\ notification' \in {"none", "pending"}
  BY PublishedLemma DEF RejectJob
<1> QED BY <1>1, <1>2
  DEF RejectJob, TypeInv, TypeOK, agentVars, buffers, current, pending, nvs

LEMMA SubscribeCsrTypeInv ==
  ASSUME TypeInv, SubscribeCsr
  PROVE  TypeInv'
<1>1. CASE Restart
  BY <1>1, RestartTypeInv DEF SubscribeCsr
<1>2. CASE ~Restart
  <2>1. Subscribe("csr", brokerSubs, routes, taken)
    BY <1>2 DEF SubscribeCsr
  <2>2. brokerSubs' \subseteq Topics /\ routes' \subseteq Topics /\ taken' \in Nat
    BY <2>1, SubscribeLemma DEF TypeInv, TypeOK
  <2>3. keys' \in Keys /\ newPrivateKey' \in Keys
    BY <1>2, ConstantsAssumption DEF SubscribeCsr, Keys, TypeInv, TypeOK
  <2>4. /\ pc = "subscribe_csr" /\ pc' = "publish_csr"
        /\ UNCHANGED <<cloud, givenUp, abandoned, notification, agentVars, eventQueue,
                       currentState, buffers, current, newCertificate, nvs>>
    BY <1>2 DEF SubscribeCsr
  <2> QED BY <2>2, <2>3, <2>4
    DEF TypeInv, TypeOK, cloud, agentVars, buffers, current, nvs
<1> QED BY <1>1, <1>2

LEMMA PublishCsrTypeInv ==
  ASSUME TypeInv, PublishCsr
  PROVE  TypeInv'
<1>1. csrRequests' \subseteq [key : Keys, try : 1 .. MaxInvocations]
  BY ConstantsAssumption DEF PublishCsr, TypeInv, TypeOK
<1>2. /\ givenUp' \subseteq {"csr", "revoke"} /\ taken' \in Nat
      /\ abandoned' \in Nat /\ notification' \in {"none", "pending"}
  BY PublishedLemma DEF PublishCsr
<1> QED BY <1>1, <1>2
  DEF PublishCsr, TypeInv, TypeOK, agentVars, buffers, current, pending, nvs

LEMMA CsrPublishedTypeInv ==
  ASSUME TypeInv, CsrPublished
  PROVE  TypeInv'
<1>1. "WaitSignedCertificate" \in Events
  BY DEF Events
<1>2. /\ eventQueue' \in Seq(Events) /\ Len(eventQueue') <= QueueLength
      /\ \A i \in 1 .. Len(eventQueue') :
           eventQueue'[i] = "ReceivedSignedCertificate" => dataBuffer' # None
  BY <1>1, SendLemma DEF CsrPublished, buffers
<1> QED BY <1>2
  DEF CsrPublished, TypeInv, TypeOK, cloud, session, leftover, agentVars, task, buffers,
      current, pending, nvs

LEMMA FailCsrTypeInv ==
  ASSUME TypeInv, FailCsr
  PROVE  TypeInv'
<1>1. jobStatus' \in [Jobs -> Terminal \cup {"QUEUED", "IN_PROGRESS"}]
  BY UpdateJobLemma DEF FailCsr, Terminal, TypeInv, TypeOK
<1>2. /\ givenUp' \subseteq {"csr", "revoke"} /\ taken' \in Nat
      /\ abandoned' \in Nat /\ notification' \in {"none", "pending"}
  BY PublishedLemma DEF FailCsr
<1> QED BY <1>1, <1>2
  DEF FailCsr, TypeInv, TypeOK, agentVars, buffers, current, pending, nvs

LEMMA FailRenewalTypeInv ==
  ASSUME TypeInv, FailRenewal
  PROVE  TypeInv'
<1>1. jobStatus' \in [Jobs -> Terminal \cup {"QUEUED", "IN_PROGRESS"}]
  BY UpdateJobLemma DEF FailRenewal, Terminal, TypeInv, TypeOK
<1>2. CASE certificateId = Freed
  BY <1>1, <1>2, RestartUpdateTypeInv DEF FailRenewal
<1>3. CASE certificateId # Freed
  <2>1. "Ready" \in Events
    BY DEF Events
  <2>2. /\ eventQueue' \in Seq(Events) /\ Len(eventQueue') <= QueueLength
        /\ \A i \in 1 .. Len(eventQueue') :
             eventQueue'[i] = "ReceivedSignedCertificate" => dataBuffer' # None
    BY <1>3, <2>1, SendLemma DEF FailRenewal
  <2>3. Published
    BY <1>3 DEF FailRenewal
  <2> QED BY <1>1, <1>3, <2>2, <2>3, PublishedLemma
    DEF FailRenewal, TypeInv, TypeOK, agentVars, current, pending, nvs
<1> QED BY <1>2, <1>3

LEMMA RevokeOldCertificateTypeInv ==
  ASSUME TypeInv, RevokeOldCertificate
  PROVE  TypeInv'
<1>1. CASE Restart
  BY <1>1, PointersAssumption, RestartTypeInv DEF RevokeOldCertificate, Restart
<1>2. CASE ~Restart
  <2>1. topicFilters \in {"csr", "revoke"}
    BY <1>2 DEF RevokeOldCertificate, TypeInv, TypeOK
  <2>2. /\ Unsubscribed(brokerSubs) \in SUBSET Topics /\ brokerSubs \in SUBSET Topics
        /\ Unsubscribed(routes) \in SUBSET Topics
        /\ taken \in Nat /\ Held \in Nat
    BY HeldLemma DEF Unsubscribed, TypeInv, TypeOK
  <2>3. /\ \/ Subscribe("revoke", Unsubscribed(brokerSubs), Unsubscribed(routes), taken)
           \/ Subscribe("revoke", brokerSubs, Unsubscribed(routes), Held)
        /\ givenUp' \subseteq {"csr", "revoke"}
        /\ abandoned' \in Nat /\ notification' \in {"none", "pending"}
    BY <1>2, <2>1, LeftoverLemma DEF RevokeOldCertificate, LeaveBehind
  <2>4. brokerSubs' \subseteq Topics /\ routes' \subseteq Topics /\ taken' \in Nat
    BY <2>2, <2>3, SubscribeLemma
  <2>5. revokeRequests' \subseteq [cert : Certificates \cup {None, Freed},
                                   try : 1 .. MaxInvocations]
    BY <1>2, ConstantsAssumption DEF RevokeOldCertificate, TypeInv, TypeOK
  <2> QED BY <1>2, <2>3, <2>4, <2>5
    DEF RevokeOldCertificate, TypeInv, TypeOK, agentVars, current, pending, nvs
<1> QED BY <1>1, <1>2

LEMMA FinishRevokeTypeInv ==
  ASSUME TypeInv, FinishRevoke
  PROVE  TypeInv'
<1>1. CASE Restart
  BY <1>1, RestartTypeInv DEF FinishRevoke
<1>2. CASE ~Restart
  <2>1. /\ topicFilters \notin {None, Freed} /\ ReleaseTopics /\ pc' = "store_certificate"
        /\ UNCHANGED <<cloud, agentVars, eventQueue, currentState, jobBuffer, jobId,
                       dataBuffer, keys, current, pending, nvs>>
    BY <1>2 DEF FinishRevoke
  <2>2. topicFilters' = Freed /\ certificateId' = Freed
    BY <2>1 DEF ReleaseTopics
  <2> QED BY <2>1, <2>2, ReleaseTopicsLemma
    DEF FinishRevoke, TypeInv, TypeOK, cloud, agentVars, current, pending, nvs
<1> QED BY <1>1, <1>2

LEMMA StoreCertificateTypeInv ==
  ASSUME TypeInv, StoreCertificate
  PROVE  TypeInv'
BY
  DEF StoreCertificate, TypeInv, TypeOK, cloud, session, leftover, agentVars, task, buffers,
      current, pending, nvs

LEMMA StorePrivateKeyTypeInv ==
  ASSUME TypeInv, StorePrivateKey
  PROVE  TypeInv'
BY
  DEF StorePrivateKey, TypeInv, TypeOK, cloud, session, leftover, agentVars, task, buffers,
      current, pending, nvs

LEMMA SucceedTypeInv ==
  ASSUME TypeInv, Succeed
  PROVE  TypeInv'
<1>1. "Ready" \in Events
  BY DEF Events
<1>2. /\ eventQueue' \in Seq(Events) /\ Len(eventQueue') <= QueueLength
      /\ \A i \in 1 .. Len(eventQueue') :
           eventQueue'[i] = "ReceivedSignedCertificate" => dataBuffer' # None
  BY <1>1, SendLemma DEF Succeed, buffers
<1>3. jobStatus' \in [Jobs -> Terminal \cup {"QUEUED", "IN_PROGRESS"}]
  BY UpdateJobLemma DEF Succeed, Terminal, TypeInv, TypeOK
<1>4. /\ givenUp' \subseteq {"csr", "revoke"} /\ taken' \in Nat
      /\ abandoned' \in Nat /\ notification' \in {"none", "pending"}
  BY PublishedLemma DEF Succeed
<1> QED BY <1>2, <1>3, <1>4
  DEF Succeed, TypeInv, TypeOK, agentVars, buffers, current, pending, nvs

LEMMA FailRevokeTypeInv ==
  ASSUME TypeInv, FailRevoke
  PROVE  TypeInv'
<1>1. jobStatus' \in [Jobs -> Terminal \cup {"QUEUED", "IN_PROGRESS"}]
  BY UpdateJobLemma DEF FailRevoke, Terminal, TypeInv, TypeOK
<1>2. CASE topicFilters \in {None, Freed} \/ certificateId = Freed
  BY <1>1, <1>2, RestartUpdateTypeInv DEF FailRevoke
<1>3. CASE ~(topicFilters \in {None, Freed} \/ certificateId = Freed)
  <2>1. "Ready" \in Events
    BY DEF Events
  <2>2. /\ ReleaseTopics /\ topicFilters' = Freed /\ certificateId' = Freed
        /\ pc = "fail_revoke" /\ pc' = "receive"
        /\ eventQueue' = Enqueue(eventQueue, "Ready") /\ dataBuffer' = dataBuffer
    BY <1>3 DEF FailRevoke, ReleaseTopics
  <2>3. /\ eventQueue' \in Seq(Events) /\ Len(eventQueue') <= QueueLength
        /\ \A i \in 1 .. Len(eventQueue') :
             eventQueue'[i] = "ReceivedSignedCertificate" => dataBuffer' # None
    BY <2>1, <2>2, SendLemma
  <2> QED BY <1>1, <1>3, <2>2, <2>3, ReleaseTopicsLemma
    DEF FailRevoke, TypeInv, TypeOK, agentVars, current, pending, nvs
<1> QED BY <1>2, <1>3

LEMMA NextTypeInv == TypeInv /\ [Next]_vars => TypeInv'
<1> SUFFICES ASSUME TypeInv, [Next]_vars PROVE TypeInv'
  OBVIOUS
<1>1. CASE Cloud
  BY <1>1, NotifyNextTypeInv, LambdaSignTypeInv, LambdaRevokeTypeInv DEF Cloud
<1>2. CASE Agent
  BY <1>2, DeliverTypeInv, UnheardTypeInv, HandleTerminateTypeInv, ConnectNewTypeInv,
     FallBackTypeInv, ConnectOldTypeInv, ConnectOldFailsTypeInv DEF Agent
<1>3. CASE Task
  BY <1>3, ReceiveReadyTypeInv, ReceiveJobDocumentTypeInv, ReceiveRenewalTypeInv,
     ReceiveWaitTypeInv, ReceiveSignedTypeInv, ReceiveFailureTypeInv,
     ReceiveRevokeOldTypeInv, ReceiveAcceptedTypeInv, AcceptJobTypeInv,
     RejectJobTypeInv, SubscribeCsrTypeInv, PublishCsrTypeInv, CsrPublishedTypeInv,
     FailCsrTypeInv, FailRenewalTypeInv, RevokeOldCertificateTypeInv,
     FinishRevokeTypeInv, StoreCertificateTypeInv, StorePrivateKeyTypeInv,
     SucceedTypeInv, FailRevokeTypeInv DEF Task
<1>4. CASE LoseMessage \/ (\E j \in Jobs : JobTimeout(j)) \/ NetworkError \/ MQTTFails
           \/ LateCompletion \/ OtaStream \/ Crash \/ Boot \/ BootFails
  BY <1>4, LoseMessageTypeInv, JobTimeoutTypeInv, NetworkErrorTypeInv, MQTTFailsTypeInv,
     LateCompletionTypeInv, OtaStreamTypeInv, CrashTypeInv, BootTypeInv, BootFailsTypeInv
<1>5. CASE UNCHANGED vars
  BY <1>5 DEF TypeInv, TypeOK, cloud, session, leftover, agentVars, task, buffers, current,
     pending, nvs, vars
<1> QED BY <1>1, <1>2, <1>3, <1>4, <1>5 DEF Next

\* The strengthened type invariant holds whatever the faults: in particular the
\* credentials written to NVS are never NULL, and no answer is parsed before one
\* was copied.
THEOREM TypeInvariant == Spec => []TypeInv
<1>1. Init => TypeInv
  BY InitTypeInv
<1>2. TypeInv /\ [Next]_vars => TypeInv'
  BY NextTypeInv
<1> QED BY <1>1, <1>2, PTL DEF Spec
=============================================================================
