------------------------- MODULE CertRotationProofs -------------------------
(***************************************************************************)
(* What holds of the renewal for any number of jobs and keys and any size  *)
(* of the queue and of the list, when the device may be reset, messages    *)
(* get lost, connections break and unsubscriptions are given up at any     *)
(* time, but a handshake does not fail by itself, a Lambda runs once for a *)
(* request and a job does not time out: TLC finds counterexamples without  *)
(* any of the last three.  A device that is not reset rotates its          *)
(* certificates as CertRotation promises; one reset at the wrong moment    *)
(* may not (README.md).                                                    *)
(***************************************************************************)
EXTENDS MCCertRenewal, CertRenewalProofs

\* Every handshake with an active certificate succeeds and a Lambda runs once for
\* a request; moreover no job times out; moreover nothing resets the device: no
\* crash, no assertion on a DISCONNECT or CONNECT that fails, no unsubscription
\* given up and no job document without its fields.
ProvenEnvironment == "tls" \notin Faults /\ MaxInvocations = 1
TimelyEnvironment == ProvenEnvironment /\ "jobtimeout" \notin Faults
NoReset == Faults \cap {"crash", "mqtterr", "giveup"} = {} /\ Incomplete = {}
LossyEnvironment == TimelyEnvironment /\ NoReset

(***************************************************************************)
(* A renewal is a chain of messages, events and calls, each caused by the  *)
(* one before.  The chain is at one place at a time: an event in the       *)
(* queue, a call of the renewal task, a request or an answer on its way,   *)
(* or the MQTT agent on its way to a new session.                          *)
(***************************************************************************)
ChainEvents == Events \ {"Ready", "WaitSignedCertificate"}
ChainCalls == {"accept_job", "reject_job", "subscribe_csr", "publish_csr", "fail_csr",
               "fail_renewal", "revoke", "finish_revoke", "store_certificate", "store_key",
               "succeed", "fail_revoke"}

Waiting(queue, event) == \E i \in 1 .. Len(queue) : queue[i] = event
Alone(queue) ==
  \A i, k \in 1 .. Len(queue) : queue[i] \in ChainEvents /\ queue[k] \in ChainEvents => i = k

InQueue == \E event \in ChainEvents : Waiting(eventQueue, event)
InTask == pc \in ChainCalls
Asked == csrRequests # {} \/ revokeRequests # {}
Answered == answers # {}
InAgent == terminates > 0 \/ agent \in {"try_new", "try_old"}

OnePlace ==
  /\ InQueue => ~InTask /\ ~Asked /\ ~Answered /\ ~InAgent
  /\ InTask => ~Asked /\ ~Answered /\ ~InAgent
  /\ Asked => ~Answered /\ ~InAgent
  /\ Answered => ~InAgent

\* And there is one of it at that place.
OneThere ==
  /\ Alone(eventQueue)
  /\ csrRequests = {} \/ revokeRequests = {}
  /\ \A r, s \in csrRequests : r = s
  /\ \A r, s \in revokeRequests : r = s
  /\ \A a, b \in answers : a = b
  /\ terminates <= 1 /\ (terminates = 1 => agent \in {"loop", "exited"})

\* A job that has been announced and has not ended holds back those after it.
Current(j) ==
  /\ j \in notified /\ jobStatus[j] \notin Terminal
  /\ \A i \in Jobs : i < j => jobStatus[i] \in Terminal

OneJob ==
  InQueue \/ InTask \/ Asked \/ Answered \/ InAgent => \E j \in Jobs : Current(j)

\* dataBuffers[0] holds the answer whose event waits.
AnswerEvents == {"ReceivedSignedCertificate", "RejectedCertificateSigningRequest",
                 "AcceptedOldCertificateRevoke", "RejectedOldCertificateRevoke"}
Buffered ==
  \A event \in AnswerEvents :
    Waiting(eventQueue, event) => dataBuffer # None /\ EventOf(dataBuffer) = event

\* An answer to the CSR of the newest key; a certificate it brings is active.
Signed(a) == a.cert.key = keys /\ (a.kind = "signed" => a.cert \in active)

\* The device stores and, once connected, uses the certificate it was made with.
FirstStored == nvsCertificate = FirstCertificate /\ nvsPrivateKey = 0
FirstInUse ==
  /\ FirstStored /\ FirstCertificate \in active
  /\ IF agent = "boot" THEN certificate = None
                       ELSE certificate = FirstCertificate /\ privateKey = 0

\* No call of the task has left a command behind.
Calm == abandoned = 0 /\ notification = "none"

\* Before the new session.
OldSession ==
  /\ Calm
  /\ agent \in {"boot", "loop", "exited"}
  /\ NoReset => FirstInUse
  /\ revokeRequests = {}
  /\ \A r \in csrRequests : r.key = keys
  /\ \A a \in answers : a.kind \in {"signed", "rejected", "unparsable"} /\ Signed(a)
  /\ \A event \in ChainEvents :
       Waiting(eventQueue, event) =>
         event \in {"ReceivedJobDocument", "ClientCertificateRenewal",
                    "ReceivedSignedCertificate", "RejectedCertificateSigningRequest"}
  /\ Waiting(eventQueue, "ReceivedSignedCertificate") => Signed(dataBuffer)
  /\ pc \in ChainCalls => pc \in {"accept_job", "reject_job", "subscribe_csr", "publish_csr",
                                  "fail_csr", "fail_renewal"}
  /\ pc = "subscribe_csr" => topicFilters = "csr"
  /\ \/ pc = "publish_csr" \/ Asked \/ Answered \/ terminates > 0
     \/ Waiting(eventQueue, "ReceivedSignedCertificate")
     => keys > 0 /\ topicFilters = "csr" /\ newPrivateKey = keys
  /\ IF terminates > 0
     THEN newCertificate \in active /\ newCertificate.key = keys /\ certificateId = newCertificate
     ELSE certificateId = None

\* In the new session: the device uses the new certificate, and the old ones
\* are revoked before it is stored.
NewSession ==
  /\ agent \in {"try_new", "loop", "exited"} /\ terminates = 0
  /\ certificate \in active /\ certificate.key = privateKey /\ privateKey \in Keys \ {0}
  /\ brokerSubs \subseteq AnswerTopics("revoke")
  /\ csrRequests = {} /\ \A r \in revokeRequests : r.cert = certificate
  /\ \A a \in answers : a.kind \in {"revoked", "refused"}
  /\ \A event \in ChainEvents :
       Waiting(eventQueue, event) =>
         event \in {"RevokeOldCertificate", "AcceptedOldCertificateRevoke",
                    "RejectedOldCertificateRevoke"}
  /\ pc \in ChainCalls => pc \in {"revoke", "finish_revoke", "store_certificate", "store_key",
                                  "succeed", "fail_revoke"}
  /\ \/ agent = "try_new" \/ pc = "revoke" \/ Waiting(eventQueue, "RevokeOldCertificate")
     => topicFilters = "csr" /\ certificateId = certificate
  /\ \/ Asked \/ Answered \/ pc \in {"finish_revoke", "fail_revoke"}
     \/ Waiting(eventQueue, "AcceptedOldCertificateRevoke")
     \/ Waiting(eventQueue, "RejectedOldCertificateRevoke")
     => topicFilters = "revoke" /\ certificateId = certificate
  /\ \/ \E a \in answers : a.kind = "revoked"
     \/ Waiting(eventQueue, "AcceptedOldCertificateRevoke")
     \/ pc \in {"finish_revoke", "store_certificate", "store_key", "succeed"}
     => active = {certificate}
  /\ \/ agent = "try_new" \/ InQueue \/ Asked \/ Answered
     \/ pc \in {"revoke", "finish_revoke", "store_certificate", "fail_revoke"}
     => (NoReset => FirstStored)
  /\ pc = "store_key" => nvsCertificate = certificate /\ (NoReset => nvsPrivateKey = 0)
  /\ pc = "succeed" => nvsCertificate = certificate /\ nvsPrivateKey = privateKey

\* After a reset: a request or an answer of the session before it may be on its
\* way, to a session that does not subscribe to it.
Stale ==
  /\ ~NoReset /\ Calm
  /\ agent \in {"boot", "loop", "exited"} /\ terminates = 0
  /\ ~InQueue /\ ~InTask
  /\ brokerSubs \subseteq {NotifyTopic}
  /\ certificateId = None

Chain == InQueue \/ InTask \/ Asked \/ Answered \/ InAgent

\* A call that is not given up leaves a command behind only in an agent that
\* has stopped serving them.
Quiet ==
  "giveup" \notin Faults => notification = "none" /\ (abandoned > 0 => agent = "exited")

\* The inductive invariant.
ChainInv ==
  /\ OnePlace /\ OneThere /\ OneJob /\ Buffered
  /\ OldSession \/ NewSession \/ Stale
RenewalInv == TypeInv /\ Quiet /\ ChainInv

-----------------------------------------------------------------------------
\* The queue.

\* What waits after an event is sent: the event, or what waited before.
LEMMA SentLemma ==
  ASSUME NEW q \in Seq(Events), Len(q) <= QueueLength, NEW e \in Events
  PROVE  /\ \A f : Waiting(Enqueue(q, e), f) => f = e \/ Waiting(q, f)
         /\ /\ Alone(q)
            /\ e \in ChainEvents => ~ \E f \in ChainEvents : Waiting(q, f)
            => Alone(Enqueue(q, e))
<1>1. CASE Len(q) < QueueLength
  <2>1. /\ Enqueue(q, e) \in Seq(Events) /\ Len(Enqueue(q, e)) = Len(q) + 1
        /\ \A i \in 1 .. Len(q) : Enqueue(q, e)[i] = q[i]
        /\ Enqueue(q, e)[Len(q) + 1] = e
    BY <1>1 DEF Enqueue
  <2> QED
    BY <2>1 DEF Waiting, Alone
<1>2. CASE ~(Len(q) < QueueLength)
  BY <1>2 DEF Enqueue
<1> QED
  BY <1>1, <1>2

\* What waits after an event is taken waited before; a link of the chain was the
\* only one.
LEMMA TakenLemma ==
  ASSUME NEW q \in Seq(Events), q # <<>>
  PROVE  /\ Waiting(q, Head(q))
         /\ \A f : Waiting(Tail(q), f) => Waiting(q, f)
         /\ Alone(q) => Alone(Tail(q))
         /\ Alone(q) /\ Head(q) \in ChainEvents =>
              \A f \in ChainEvents : ~Waiting(Tail(q), f)
<1>1. /\ Tail(q) \in Seq(Events) /\ Len(Tail(q)) = Len(q) - 1 /\ Len(q) \in Nat \ {0}
      /\ Head(q) = q[1]
      /\ \A i \in 1 .. Len(Tail(q)) : Tail(q)[i] = q[i + 1]
  OBVIOUS
<1> QED
  BY <1>1 DEF Waiting, Alone

\* The two, for the queue of the agent.
LEMMA SendChain ==
  ASSUME RenewalInv, NEW e \in Events, eventQueue' = Enqueue(eventQueue, e),
         e \in ChainEvents => ~InQueue
  PROVE  /\ \A f : Waiting(eventQueue', f) => f = e \/ Waiting(eventQueue, f)
         /\ Alone(eventQueue')
         /\ InQueue' => e \in ChainEvents \/ InQueue
<1>1. eventQueue \in Seq(Events) /\ Len(eventQueue) <= QueueLength /\ Alone(eventQueue)
  BY DEF RenewalInv, TypeInv, TypeOK, ChainInv, OneThere
<1>2. /\ \A f : Waiting(eventQueue', f) => f = e \/ Waiting(eventQueue, f)
      /\ Alone(eventQueue')
  BY <1>1, SentLemma DEF InQueue
<1> QED
  BY <1>2 DEF InQueue

LEMMA TakeChain ==
  ASSUME RenewalInv, NEW e, Take(e)
  PROVE  /\ e \in Events /\ Waiting(eventQueue, e) /\ pc = "receive"
         /\ \A f : Waiting(eventQueue', f) => Waiting(eventQueue, f)
         /\ Alone(eventQueue')
         /\ InQueue' => InQueue
         /\ e \in ChainEvents => InQueue /\ ~InQueue'
<1>1. eventQueue \in Seq(Events) /\ Alone(eventQueue)
  BY DEF RenewalInv, TypeInv, TypeOK, ChainInv, OneThere
<1>2. /\ Waiting(eventQueue, e) /\ e \in Events
      /\ \A f : Waiting(eventQueue', f) => Waiting(eventQueue, f)
      /\ Alone(eventQueue')
      /\ e \in ChainEvents => \A f \in ChainEvents : ~Waiting(eventQueue', f)
  BY <1>1, TakenLemma DEF Take
<1> QED
  BY <1>2 DEF InQueue, Take

\* The announced job stays the current one while the chain moves on.
LEMMA JobKept ==
  ASSUME OneJob, UNCHANGED <<jobStatus, notified>>, Chain' => Chain
  PROVE  OneJob'
BY DEF OneJob, Chain, Current

\* While a renewal is under way no other job is announced.
LEMMA NotifyLemma ==
  ASSUME RenewalInv, NEW j \in Jobs, NotifyNext(j)
  PROVE  ~Chain /\ Current(j)'
<1>1. Jobs \subseteq Nat /\ jobStatus \in [Jobs -> Terminal \cup {"QUEUED", "IN_PROGRESS"}]
  BY ConstantsAssumption DEF RenewalInv, TypeInv, TypeOK
<1>2. /\ jobStatus[j] = "QUEUED" /\ j \notin notified /\ "QUEUED" \notin Terminal
      /\ \A i \in Jobs : i < j => jobStatus[i] \in Terminal
  BY DEF NotifyNext, Terminal
<1>3. ASSUME NEW c \in Jobs, Current(c) PROVE FALSE
  <2>1. c # j /\ ~(c < j)
    BY <1>2, <1>3 DEF Current
  <2>2. j < c
    BY <1>1, <2>1
  <2> QED
    BY <1>2, <1>3, <2>2 DEF Current
<1>4. ~Chain
  BY <1>3 DEF RenewalInv, ChainInv, OneJob, Chain
<1>5. Current(j)'
  BY <1>2 DEF NotifyNext, Current
<1> QED
  BY <1>4, <1>5

-----------------------------------------------------------------------------
\* Steps that leave the chain where it is.

LEMMA ReceiveIdleChain ==
  ASSUME RenewalInv, ReceiveReady \/ ReceiveWait
  PROVE  ChainInv'
<1>1. /\ \E e \in {"Ready", "WaitSignedCertificate"} : Take(e)
      /\ UNCHANGED <<cloud, session, agentVars, pc, buffers, keys, current, pending, nvs>>
  BY DEF ReceiveReady, ReceiveWait
<1>2. /\ \A f : Waiting(eventQueue', f) => Waiting(eventQueue, f)
      /\ Alone(eventQueue') /\ (InQueue' => InQueue)
  BY <1>1, TakeChain
<1>3. OnePlace' /\ OneThere'
  BY <1>1, <1>2 DEF RenewalInv, ChainInv, OnePlace, OneThere, InTask, Asked, Answered, InAgent,
                    cloud, agentVars
<1>4. OneJob'
  BY <1>1, <1>2, JobKept
     DEF RenewalInv, ChainInv, Chain, InTask, Asked, Answered, InAgent, cloud, agentVars
<1>5. Buffered'
  BY <1>1, <1>2 DEF RenewalInv, ChainInv, Buffered, buffers
<1>6. (OldSession \/ NewSession \/ Stale)'
  <2>1. CASE OldSession
    BY <1>1, <1>2, <2>1
       DEF OldSession, Calm, session, leftover, FirstInUse, FirstStored, Signed, Asked, Answered,
           cloud, agentVars, buffers, current, pending, nvs
  <2>2. CASE NewSession
    BY <1>1, <1>2, <2>2
       DEF NewSession, FirstStored, Asked, Answered, cloud, session, agentVars, buffers, current,
           pending, nvs
  <2>3. CASE Stale
    BY <1>1, <1>2, <2>3
       DEF Stale, Calm, leftover, InTask, cloud, session, agentVars, buffers
  <2> QED
    BY <2>1, <2>2, <2>3 DEF RenewalInv, ChainInv
<1> QED
  BY <1>3, <1>4, <1>5, <1>6 DEF ChainInv

LEMMA CsrPublishedChain ==
  ASSUME RenewalInv, CsrPublished
  PROVE  ChainInv'
<1>1. /\ pc = "csr_published" /\ pc' = "receive"
      /\ eventQueue' = Enqueue(eventQueue, "WaitSignedCertificate")
      /\ UNCHANGED <<cloud, session, agentVars, buffers, keys, current, pending, nvs>>
      /\ "WaitSignedCertificate" \in Events \ ChainEvents
  BY DEF CsrPublished, Events, ChainEvents
<1>2. /\ \A f : Waiting(eventQueue', f) => f = "WaitSignedCertificate" \/ Waiting(eventQueue, f)
      /\ Alone(eventQueue') /\ (InQueue' => InQueue)
  BY <1>1, SendChain
<1>3. OnePlace' /\ OneThere'
  BY <1>1, <1>2 DEF RenewalInv, ChainInv, OnePlace, OneThere, InTask, Asked, Answered, InAgent,
                    ChainCalls, cloud, agentVars
<1>4. OneJob'
  BY <1>1, <1>2, JobKept
     DEF RenewalInv, ChainInv, Chain, InTask, Asked, Answered, InAgent, ChainCalls, cloud,
         agentVars
<1>5. Buffered'
  BY <1>1, <1>2 DEF RenewalInv, ChainInv, Buffered, AnswerEvents, buffers
<1>6. (OldSession \/ NewSession \/ Stale)'
  <2>1. CASE OldSession
    BY <1>1, <1>2, <2>1
       DEF OldSession, Calm, session, leftover, FirstInUse, FirstStored, Signed, Asked, Answered,
           ChainCalls, cloud, agentVars, buffers, current, pending, nvs
  <2>2. CASE NewSession
    BY <1>1, <1>2, <2>2
       DEF NewSession, FirstStored, Asked, Answered, ChainCalls, cloud, session, agentVars,
           buffers, current, pending, nvs
  <2>3. CASE Stale
    BY <1>1, <1>2, <2>3
       DEF Stale, Calm, leftover, InTask, ChainCalls, cloud, session, agentVars, buffers
  <2> QED
    BY <2>1, <2>2, <2>3 DEF RenewalInv, ChainInv
<1> QED
  BY <1>3, <1>4, <1>5, <1>6 DEF ChainInv

\* The chain may end there: a request or an answer is lost, or nobody hears it.
LEMMA LostChain ==
  ASSUME RenewalInv,
         csrRequests' \subseteq csrRequests, revokeRequests' \subseteq revokeRequests,
         answers' \subseteq answers,
         UNCHANGED <<jobStatus, notified, active, session, agentVars, task, buffers, keys,
                     current, pending, nvs>>
  PROVE  ChainInv'
<1>1. OnePlace' /\ OneThere'
  BY DEF RenewalInv, ChainInv, OnePlace, OneThere, InQueue, InTask, Asked, Answered, InAgent,
         task, agentVars
<1>2. OneJob'
  BY JobKept
     DEF RenewalInv, ChainInv, Chain, InQueue, InTask, Asked, Answered, InAgent, task, agentVars
<1>3. Buffered'
  BY DEF RenewalInv, ChainInv, Buffered, task, buffers
<1>4. (OldSession \/ NewSession \/ Stale)'
  <2>1. CASE OldSession
    BY <2>1
       DEF OldSession, Calm, session, leftover, FirstInUse, FirstStored, Signed, Asked, Answered,
           agentVars, task, buffers, current, pending, nvs
  <2>2. CASE NewSession
    BY <2>2
       DEF NewSession, FirstStored, InQueue, Asked, Answered, session, agentVars, task, buffers,
           current, pending, nvs
  <2>3. CASE Stale
    BY <2>3
       DEF Stale, Calm, leftover, InQueue, InTask, session, agentVars, task, buffers
  <2> QED
    BY <2>1, <2>2, <2>3 DEF RenewalInv, ChainInv
<1> QED
  BY <1>1, <1>2, <1>3, <1>4 DEF ChainInv

\* A reset loses whatever was on its way in the device.
LEMMA RestartChain ==
  ASSUME RenewalInv, Restart, UNCHANGED cloud, ~NoReset
  PROVE  ChainInv'
<1>1. /\ agent' = "boot" /\ terminates' = 0 /\ brokerSubs' = {} /\ eventQueue' = <<>>
      /\ abandoned' = 0 /\ notification' = "none"
      /\ pc' = "off" /\ certificateId' = None /\ UNCHANGED cloud
  BY DEF Restart
<1>2. /\ ~InQueue' /\ ~InTask' /\ ~InAgent' /\ Alone(eventQueue')
      /\ \A f : ~Waiting(eventQueue', f)
  BY <1>1 DEF InQueue, InTask, InAgent, ChainCalls, Waiting, Alone
<1>3. OnePlace' /\ OneThere'
  BY <1>1, <1>2 DEF RenewalInv, ChainInv, OnePlace, OneThere, Asked, Answered, cloud
<1>4. OneJob'
  BY <1>1, <1>2, JobKept DEF RenewalInv, ChainInv, Chain, Asked, Answered, cloud
<1>5. Buffered' /\ Stale'
  BY <1>1, <1>2 DEF Buffered, Stale, Calm, NoReset
<1> QED
  BY <1>3, <1>4, <1>5 DEF ChainInv

\* A session that is not new has no command left behind: its calls are served.
LEMMA CalmLemma ==
  ASSUME OldSession \/ Stale
  PROVE  /\ Published => Served /\ UNCHANGED leftover
         /\ ~LateCompletion
BY DEF OldSession, Stale, Calm, Published, LateCompletion

\* The agent completes a late command: of a new session, and it takes nothing
\* of the chain, or resets the device.
LEMMA LateCompletionChain ==
  ASSUME RenewalInv, LateCompletion
  PROVE  ChainInv'
<1>1. "giveup" \in Faults /\ ~NoReset
  BY DEF LateCompletion, RenewalInv, Quiet, NoReset
<1>2. CASE Restart /\ UNCHANGED cloud
  BY <1>1, <1>2, RestartChain
<1>3. CASE ~Restart
  <2>1. /\ brokerSubs' \subseteq brokerSubs
        /\ UNCHANGED <<cloud, agentVars, task, buffers, keys, current, pending, nvs>>
    BY <1>3 DEF LateCompletion
  <2>2. NewSession
    BY CalmLemma DEF RenewalInv, ChainInv
  <2>3. OnePlace' /\ OneThere'
    BY <2>1 DEF RenewalInv, ChainInv, OnePlace, OneThere, InQueue, InTask, Asked, Answered,
                InAgent, cloud, task, agentVars
  <2>4. OneJob'
    BY <2>1, JobKept
       DEF RenewalInv, ChainInv, Chain, InQueue, InTask, Asked, Answered, InAgent, cloud, task,
           agentVars
  <2>5. Buffered'
    BY <2>1 DEF RenewalInv, ChainInv, Buffered, task, buffers
  <2>6. NewSession'
    BY <2>1, <2>2 DEF NewSession, FirstStored, InQueue, Asked, Answered, cloud, agentVars, task,
                      buffers, current, pending, nvs
  <2> QED
    BY <2>3, <2>4, <2>5, <2>6 DEF ChainInv
<1> QED
  BY <1>2, <1>3 DEF LateCompletion

\* An image's stream only takes places in the list.
LEMMA OtaStreamChain ==
  ASSUME RenewalInv, OtaStream
  PROVE  ChainInv'
<1>1. UNCHANGED <<cloud, brokerSubs, abandoned, notification, agentVars, task, buffers, keys,
                  current, pending, nvs>>
  BY DEF OtaStream
<1>2. OnePlace' /\ OneThere'
  BY <1>1 DEF RenewalInv, ChainInv, OnePlace, OneThere, InQueue, InTask, Asked, Answered,
              InAgent, cloud, task, agentVars
<1>3. OneJob'
  BY <1>1, JobKept
     DEF RenewalInv, ChainInv, Chain, InQueue, InTask, Asked, Answered, InAgent, cloud, task,
         agentVars
<1>4. Buffered'
  BY <1>1 DEF RenewalInv, ChainInv, Buffered, task, buffers
<1>5. (OldSession \/ NewSession \/ Stale)'
  <2>1. CASE OldSession
    BY <1>1, <2>1
       DEF OldSession, Calm, FirstInUse, FirstStored, Signed, Asked, Answered, cloud, agentVars,
           task, buffers, current, pending, nvs
  <2>2. CASE NewSession
    BY <1>1, <2>2 DEF NewSession, FirstStored, InQueue, Asked, Answered, cloud, agentVars, task,
                      buffers, current, pending, nvs
  <2>3. CASE Stale
    BY <1>1, <2>3 DEF Stale, Calm, InQueue, InTask, agentVars, task, buffers
  <2> QED
    BY <2>1, <2>2, <2>3 DEF RenewalInv, ChainInv
<1> QED
  BY <1>2, <1>3, <1>4, <1>5 DEF ChainInv

LEMMA NetworkErrorChain ==
  ASSUME RenewalInv, NetworkError
  PROVE  ChainInv'
<1>1. /\ agent = "loop" /\ agent' = "exited" /\ brokerSubs' = {}
      /\ UNCHANGED <<cloud, routes, leftover, terminates, task, buffers, keys, current, pending,
                     nvs>>
  BY DEF NetworkError
<1>2. OnePlace' /\ OneThere'
  BY <1>1 DEF RenewalInv, ChainInv, OnePlace, OneThere, InQueue, InTask, Asked, Answered, InAgent,
              cloud, task
<1>3. OneJob'
  BY <1>1, JobKept
     DEF RenewalInv, ChainInv, Chain, InQueue, InTask, Asked, Answered, InAgent, cloud, task
<1>4. Buffered'
  BY <1>1 DEF RenewalInv, ChainInv, Buffered, task, buffers
<1>5. (OldSession \/ NewSession \/ Stale)'
  <2>1. CASE OldSession
    BY <1>1, <2>1
       DEF OldSession, Calm, session, leftover, FirstInUse, FirstStored, Signed, Asked, Answered,
           cloud, task, buffers, current, pending, nvs
  <2>2. CASE NewSession
    BY <1>1, <2>2
       DEF NewSession, FirstStored, InQueue, Asked, Answered, cloud, task, buffers, current,
           pending, nvs
  <2>3. CASE Stale
    BY <1>1, <2>3
       DEF Stale, Calm, leftover, InQueue, InTask, task, buffers
  <2> QED
    BY <2>1, <2>2, <2>3 DEF RenewalInv, ChainInv
<1> QED
  BY <1>2, <1>3, <1>4, <1>5 DEF ChainInv

\* A boot begins an old session, of the device's first or a later certificate.
LEMMA BootChain ==
  ASSUME RenewalInv, Boot
  PROVE  ChainInv'
<1>1. /\ agent = "boot" /\ agent' = "loop" /\ pc = "off" /\ pc' = "receive"
      /\ eventQueue = <<>> /\ eventQueue' = <<"Ready">>
      /\ certificate' = nvsCertificate /\ privateKey' = nvsPrivateKey
      /\ brokerSubs' = {NotifyTopic}
      /\ UNCHANGED <<cloud, leftover, terminates, buffers, keys, pending, nvs>>
  BY DEF Boot, RenewalInv, TypeInv
<1>2. /\ \A f : Waiting(eventQueue', f) => f = "Ready"
      /\ Alone(eventQueue') /\ ~InQueue'
  BY <1>1 DEF Waiting, Alone, InQueue, ChainEvents
<1>3. OldSession \/ Stale
  BY <1>1 DEF RenewalInv, ChainInv, NewSession
<1>4. OnePlace' /\ OneThere'
  BY <1>1, <1>2 DEF RenewalInv, ChainInv, OnePlace, OneThere, InTask, Asked, Answered, InAgent,
                    ChainCalls, cloud
<1>5. OneJob'
  BY <1>1, <1>2, JobKept
     DEF RenewalInv, ChainInv, Chain, InTask, Asked, Answered, InAgent, ChainCalls, cloud
<1>6. Buffered'
  BY <1>2 DEF Buffered, AnswerEvents
<1>7. (OldSession \/ Stale)'
  <2>1. CASE OldSession
    BY <1>1, <1>2, <2>1
       DEF OldSession, Calm, session, leftover, FirstInUse, FirstStored, Signed, Asked, Answered,
           ChainCalls, ChainEvents, cloud, buffers, pending, nvs
  <2>2. CASE Stale
    BY <1>1, <1>2, <2>2 DEF Stale, Calm, leftover, InTask, ChainCalls, buffers
  <2> QED
    BY <1>3, <2>1, <2>2
<1> QED
  BY <1>4, <1>5, <1>6, <1>7 DEF ChainInv

-----------------------------------------------------------------------------
\* The chain begins with an announced job; the Lambdas, the MQTT agent and its
\* callbacks move it on.

\* Nothing on its way any more: the session is an old one like the first.
LEMMA StaleEnds ==
  ASSUME RenewalInv, Stale, ~Chain
  PROVE  OldSession
<1>1. /\ \A f \in ChainEvents : ~Waiting(eventQueue, f)
      /\ pc \notin ChainCalls /\ ~(terminates > 0) /\ ~Asked /\ ~Answered
  BY DEF Stale, Calm, leftover, Chain, InQueue, InTask, InAgent
<1> QED
  BY <1>1 DEF OldSession, Stale, Asked, Answered, ChainCalls, ChainEvents, Events

LEMMA NotifyNextChain ==
  ASSUME RenewalInv, NEW j \in Jobs, NotifyNext(j)
  PROVE  ChainInv'
<1>1. ~Chain /\ Current(j)'
  BY NotifyLemma
<1>2. UNCHANGED <<active, csrRequests, revokeRequests, answers, session, agentVars, pc,
                  currentState, jobId, dataBuffer, topicFilters, certificateId, keys, current,
                  pending, nvs>>
  BY DEF NotifyNext
<1>3. OneJob'
  BY <1>1 DEF OneJob
<1>4. CASE UNCHANGED eventQueue
  <2>1. OnePlace' /\ OneThere'
    BY <1>2, <1>4 DEF RenewalInv, ChainInv, OnePlace, OneThere, InQueue, InTask, Asked, Answered,
                      InAgent, agentVars
  <2>2. Buffered'
    BY <1>2, <1>4 DEF RenewalInv, ChainInv, Buffered
  <2>3. (OldSession \/ NewSession \/ Stale)'
    <3>1. CASE OldSession
      BY <1>2, <1>4, <3>1
         DEF OldSession, Calm, session, leftover, FirstInUse, FirstStored, Signed, Asked,
             Answered, agentVars, current, pending, nvs
    <3>2. CASE NewSession
      BY <1>2, <1>4, <3>2
         DEF NewSession, FirstStored, InQueue, Asked, Answered, session, agentVars, current,
             pending, nvs
    <3>3. CASE Stale
      BY <1>2, <1>4, <3>3 DEF Stale, Calm, leftover, InQueue, InTask, session, agentVars
    <3> QED
      BY <3>1, <3>2, <3>3 DEF RenewalInv, ChainInv
  <2> QED
    BY <1>3, <2>1, <2>2, <2>3 DEF ChainInv
<1>5. CASE /\ NotifyTopic \in brokerSubs \cap routes
           /\ eventQueue' = Enqueue(eventQueue, "ReceivedJobDocument")
  <2>1. OldSession
    <3>1. NotifyTopic \notin AnswerTopics("revoke")
      BY DEF NotifyTopic, AnswerTopics
    <3> QED
      BY <1>1, <1>5, <3>1, StaleEnds DEF RenewalInv, ChainInv, NewSession
  <2>2. "ReceivedJobDocument" \in Events
    BY DEF Events
  <2>3. /\ \A f : Waiting(eventQueue', f) => f = "ReceivedJobDocument" \/ Waiting(eventQueue, f)
        /\ Alone(eventQueue')
    BY <1>1, <1>5, <2>2, SendChain DEF Chain
  <2>4. OnePlace' /\ OneThere'
    BY <1>1, <1>2, <2>3 DEF RenewalInv, ChainInv, OnePlace, OneThere, Chain, InTask, Asked,
                            Answered, InAgent, agentVars
  <2>5. Buffered'
    BY <1>2, <2>3 DEF RenewalInv, ChainInv, Buffered, AnswerEvents
  <2>6. OldSession'
    BY <1>2, <2>1, <2>3
       DEF OldSession, Calm, session, leftover, FirstInUse, FirstStored, Signed, Asked, Answered,
           agentVars, current, pending, nvs
  <2> QED
    BY <1>3, <2>4, <2>5, <2>6 DEF ChainInv
<1> QED
  BY <1>4, <1>5 DEF NotifyNext

\* One invocation consumes the request.
LEMMA InvokedLemma ==
  ASSUME MaxInvocations = 1, NEW requests, NEW r \in requests, r.try \in 1 .. MaxInvocations,
         \A q \in requests : q = r
  PROVE  Invoked(requests, r) = {}
<1>1. ~(r.try < MaxInvocations)
  OBVIOUS
<1> QED
  BY <1>1 DEF Invoked

LEMMA LambdaSignChain ==
  ASSUME ProvenEnvironment, RenewalInv, NEW r \in csrRequests, LambdaSign(r)
  PROVE  ChainInv'
<1> DEFINE cert == [key |-> r.key, copy |-> r.try]
<1>1. (OldSession \/ Stale) /\ Asked /\ ~Answered /\ ~InQueue /\ ~InTask /\ ~InAgent
  BY DEF RenewalInv, ChainInv, NewSession, OnePlace, Asked
<1>2. /\ csrRequests' = {} /\ (OldSession => r.key = keys)
      /\ UNCHANGED <<jobStatus, notified, revokeRequests, session, agentVars, task, buffers,
                     keys, current, pending, nvs>>
  <2>1. /\ r.try \in 1 .. MaxInvocations /\ \A q \in csrRequests : q = r
    BY DEF RenewalInv, TypeInv, TypeOK, ChainInv, OneThere
  <2>2. csrRequests' = {}
    BY <2>1, InvokedLemma DEF ProvenEnvironment, LambdaSign
  <2> QED
    BY <1>1, <2>2 DEF LambdaSign, OldSession
<1>3. PICK kind \in CsrAnswers :
        /\ active' = active \cup {cert} \/ (kind = "rejected" /\ active' = active)
        /\ answers' = answers \cup {[kind |-> kind, cert |-> cert]}
  BY DEF LambdaSign
<1>4. /\ answers = {} /\ answers' = {[kind |-> kind, cert |-> cert]}
      /\ kind \in {"signed", "rejected", "unparsable"}
      /\ kind = "signed" => cert \in active'
      /\ OldSession => cert.key = keys
  BY <1>1, <1>2, <1>3, ConstantsAssumption DEF Answered
<1> HIDE DEF cert
<1>5. /\ OldSession => \A a \in answers' :
                         a.kind \in {"signed", "rejected", "unparsable"} /\ Signed(a)'
      /\ \A a, b \in answers' : a = b
  BY <1>2, <1>4 DEF Signed
<1>6. OnePlace' /\ OneThere'
  BY <1>1, <1>2, <1>5
     DEF RenewalInv, ChainInv, OnePlace, OneThere, OldSession, Stale, InQueue, InTask, Asked,
         Answered, InAgent, task, agentVars
<1>7. OneJob'
  BY <1>1, <1>2, JobKept DEF RenewalInv, ChainInv, Chain
<1>8. Buffered'
  BY <1>2 DEF RenewalInv, ChainInv, Buffered, task, buffers
<1>9. (OldSession \/ Stale)'
  <2>1. CASE OldSession
    <3>1. ~Waiting(eventQueue, "ReceivedSignedCertificate") /\ terminates <= 0
      BY <1>1 DEF InQueue, InAgent, ChainEvents, Events, RenewalInv, TypeInv, TypeOK
    <3>2. active \subseteq active'
      BY <1>3
    <3> QED
      BY <1>1, <1>2, <1>5, <2>1, <3>1, <3>2
         DEF OldSession, Calm, session, leftover, FirstInUse, FirstStored, Asked, Answered,
             agentVars, task, buffers, current, pending, nvs
  <2>2. CASE Stale
    BY <1>1, <1>2, <2>2
       DEF Stale, Calm, leftover, InQueue, InTask, session, agentVars, task, buffers
  <2> QED
    BY <1>1, <2>1, <2>2
<1> QED
  BY <1>6, <1>7, <1>8, <1>9 DEF ChainInv

LEMMA LambdaRevokeChain ==
  ASSUME ProvenEnvironment, RenewalInv, NEW r \in revokeRequests, LambdaRevoke(r)
  PROVE  ChainInv'
<1> DEFINE named == [key |-> 0, copy |-> r.try]
<1>1. (NewSession \/ Stale) /\ Asked /\ ~Answered /\ ~InQueue /\ ~InTask /\ ~InAgent
  BY DEF RenewalInv, ChainInv, OldSession, OnePlace, Asked
<1>2. /\ revokeRequests' = {} /\ (NewSession => r.cert = certificate)
      /\ UNCHANGED <<jobStatus, notified, csrRequests, session, agentVars, task, buffers,
                     keys, current, pending, nvs>>
  <2>1. /\ r.try \in 1 .. MaxInvocations /\ \A q \in revokeRequests : q = r
    BY DEF RenewalInv, TypeInv, TypeOK, ChainInv, OneThere
  <2>2. revokeRequests' = {}
    BY <2>1, InvokedLemma DEF ProvenEnvironment, LambdaRevoke
  <2> QED
    BY <1>1, <2>2 DEF LambdaRevoke, NewSession
<1>3. PICK kind \in RevokeAnswers :
        /\ \/ active' = active \cap {r.cert}
           \/ kind = "refused" /\ \E revoked \in SUBSET (active \ {r.cert}) :
                                    active' = active \ revoked
        /\ answers' = answers \cup {[kind |-> kind, cert |-> named]}
  BY DEF LambdaRevoke
<1>4. /\ answers = {} /\ answers' = {[kind |-> kind, cert |-> named]}
      /\ kind \in {"revoked", "refused"}
      /\ NewSession => /\ certificate \in active'
                       /\ kind = "revoked" => active' = {certificate}
  BY <1>1, <1>2, <1>3, ConstantsAssumption DEF Answered, NewSession
<1> HIDE DEF named
<1>5. /\ \A a \in answers' : a.kind = kind
      /\ \A a, b \in answers' : a = b
  BY <1>4
<1>6. OnePlace' /\ OneThere'
  BY <1>1, <1>2, <1>5
     DEF RenewalInv, ChainInv, OnePlace, OneThere, NewSession, Stale, InQueue, InTask, Asked,
         Answered, InAgent, task, agentVars
<1>7. OneJob'
  BY <1>1, <1>2, JobKept DEF RenewalInv, ChainInv, Chain
<1>8. Buffered'
  BY <1>2 DEF RenewalInv, ChainInv, Buffered, task, buffers
<1>9. (NewSession \/ Stale)'
  <2>1. CASE NewSession
    <3>1. /\ ~Waiting(eventQueue, "AcceptedOldCertificateRevoke")
          /\ pc \notin {"finish_revoke", "store_certificate", "store_key", "succeed"}
          /\ agent # "try_new"
      BY <1>1 DEF InQueue, InTask, InAgent, ChainEvents, ChainCalls, Events
    <3> QED
      BY <1>1, <1>2, <1>4, <1>5, <2>1, <3>1
         DEF NewSession, FirstStored, InQueue, Asked, Answered, session, agentVars, task, buffers,
             current, pending, nvs
  <2>2. CASE Stale
    BY <1>1, <1>2, <2>2
       DEF Stale, Calm, leftover, InQueue, InTask, session, agentVars, task, buffers
  <2> QED
    BY <1>1, <2>1, <2>2
<1> QED
  BY <1>6, <1>7, <1>8, <1>9 DEF ChainInv

\* An answer becomes an event about the buffer it was copied to.
LEMMA DeliverChain ==
  ASSUME RenewalInv, NEW a \in answers, Deliver(a)
  PROVE  ChainInv'
<1>1. Answered /\ ~InQueue /\ ~InTask /\ ~Asked /\ ~InAgent
  BY DEF RenewalInv, ChainInv, OnePlace, Answered
<1>2. /\ answers' = {} /\ dataBuffer' = a /\ eventQueue' = Enqueue(eventQueue, EventOf(a))
      /\ a # None /\ a \in Answers
      /\ UNCHANGED <<jobStatus, notified, active, csrRequests, revokeRequests, session,
                     agentVars, pc, currentState, jobBuffer, jobId, topicFilters,
                     certificateId, keys, current, pending, nvs>>
  <2>1. \A b \in answers : b = a
    BY DEF RenewalInv, ChainInv, OneThere
  <2>2. a \in Answers
    BY DEF RenewalInv, TypeInv, TypeOK
  <2>3. a # None
    BY <2>2, PointersAssumption, ConstantsAssumption DEF Answers, Certificates, Keys
  <2> QED
    BY <2>1, <2>2, <2>3 DEF Deliver
<1>3. /\ EventOf(a) \in AnswerEvents /\ EventOf(a) \in Events /\ EventOf(a) \in ChainEvents
      /\ a.kind \in {"signed", "unparsable"} <=> EventOf(a) = "ReceivedSignedCertificate"
      /\ a.kind = "rejected" <=> EventOf(a) = "RejectedCertificateSigningRequest"
      /\ a.kind = "revoked" <=> EventOf(a) = "AcceptedOldCertificateRevoke"
      /\ a.kind = "refused" <=> EventOf(a) = "RejectedOldCertificateRevoke"
  BY <1>2 DEF EventOf, AnswerEvents, Events, ChainEvents, Answers, AnswerKinds
<1>4. /\ \A f : Waiting(eventQueue', f) => f = EventOf(a) \/ Waiting(eventQueue, f)
      /\ Alone(eventQueue')
  BY <1>1, <1>2, <1>3, SendChain
<1>5. OnePlace' /\ OneThere'
  BY <1>1, <1>2, <1>4 DEF RenewalInv, ChainInv, OnePlace, OneThere, InTask, Asked, Answered,
                          InAgent, agentVars
<1>6. OneJob'
  BY <1>1, <1>2, JobKept DEF RenewalInv, ChainInv, Chain
<1>7. \A f \in ChainEvents : Waiting(eventQueue', f) => f = EventOf(a)
  BY <1>1, <1>4 DEF InQueue
<1>8. Buffered'
  <2>1. AnswerEvents \subseteq ChainEvents
    BY DEF AnswerEvents, ChainEvents, Events
  <2> QED
    BY <1>2, <1>7, <2>1 DEF Buffered
<1>9. /\ "ReceivedSignedCertificate" \in ChainEvents /\ "RevokeOldCertificate" \in ChainEvents
      /\ "AcceptedOldCertificateRevoke" \in ChainEvents
      /\ "RejectedOldCertificateRevoke" \in ChainEvents
  BY DEF ChainEvents, Events
<1>10. ~Stale
  <2>1. TopicOf(a) \in brokerSubs /\ TopicOf(a) # NotifyTopic
    BY DEF Deliver, Heard, TopicOf, NotifyTopic
  <2> QED
    BY <2>1 DEF Stale
<1>11. (OldSession \/ NewSession \/ Stale)'
  <2>1. CASE OldSession
    <3>1. a.kind \in {"signed", "rejected", "unparsable"} /\ Signed(a) /\ keys > 0
      BY <1>1, <2>1 DEF OldSession, Calm, session, leftover, FirstInUse, FirstStored
    <3>2. Waiting(eventQueue', "ReceivedSignedCertificate") => Signed(dataBuffer)'
      BY <1>2, <3>1 DEF Signed
    <3> QED
      BY <1>2, <1>3, <1>7, <1>9, <2>1, <3>1, <3>2
         DEF OldSession, Calm, session, leftover, FirstInUse, FirstStored, Asked, Answered,
             agentVars, current, pending, nvs
  <2>2. CASE NewSession
    <3>1. a.kind \in {"revoked", "refused"} /\ (a.kind = "revoked" => active = {certificate})
      BY <2>2 DEF NewSession, FirstStored
    <3>2. Answered /\ Answered' = FALSE
      BY <1>1, <1>2 DEF Answered
    <3>3. EventOf(a) \in {"AcceptedOldCertificateRevoke", "RejectedOldCertificateRevoke"}
      BY <1>3, <3>1
    <3> QED
      BY <1>2, <1>3, <1>7, <1>9, <2>2, <3>1, <3>2, <3>3
         DEF NewSession, FirstStored, Asked, session, agentVars, current, pending, nvs
  <2> QED
    BY <1>10, <2>1, <2>2 DEF RenewalInv, ChainInv
<1> QED
  BY <1>5, <1>6, <1>8, <1>11 DEF ChainInv

\* The new session is that of the certificate that was signed for the new key,
\* and it does not subscribe to the announcements of jobs again.
LEMMA HandleTerminateChain ==
  ASSUME ProvenEnvironment, RenewalInv, HandleTerminate
  PROVE  ChainInv'
<1>1. /\ agent = "loop" /\ terminates > 0 /\ terminates \in Nat
      /\ InAgent /\ ~InQueue /\ ~InTask /\ ~Asked /\ ~Answered
  BY DEF HandleTerminate, RenewalInv, TypeInv, TypeOK, ChainInv, OnePlace, InAgent
<1>2. OldSession
  BY <1>1 DEF RenewalInv, ChainInv, NewSession, Stale
<1>3. /\ newCertificate \in active /\ newCertificate.key = keys /\ certificateId = newCertificate
      /\ keys > 0 /\ newPrivateKey = keys /\ topicFilters = "csr" /\ keys \in Keys
      /\ newCertificate # None /\ newPrivateKey # None
  <2>1. active \subseteq Certificates /\ keys \in Keys
    BY DEF RenewalInv, TypeInv, TypeOK
  <2> QED
    BY <1>1, <1>2, <2>1, PointersLemma
       DEF OldSession, Calm, session, leftover, FirstInUse, FirstStored
<1>4. /\ agent' = "try_new" /\ terminates' = terminates - 1 /\ brokerSubs' = {}
      /\ certificate' = newCertificate /\ privateKey' = newPrivateKey
      /\ UNCHANGED <<cloud, routes, leftover, task, buffers, keys, nvs>>
  BY <1>3 DEF HandleTerminate
<1>5. terminates' = 0
  BY <1>1, <1>4 DEF RenewalInv, ChainInv, OneThere
<1>6. OnePlace' /\ OneThere'
  BY <1>1, <1>4, <1>5 DEF RenewalInv, ChainInv, OnePlace, OneThere, InQueue, InTask, Asked,
                          Answered, InAgent, cloud, task
<1>7. OneJob'
  BY <1>1, <1>4, JobKept DEF RenewalInv, ChainInv, Chain, cloud
<1>8. Buffered'
  BY <1>4 DEF RenewalInv, ChainInv, Buffered, task, buffers
<1>9. NewSession'
  <2>1. \A event \in ChainEvents : ~Waiting(eventQueue, event)
    BY <1>1 DEF InQueue
  <2>2. /\ "AcceptedOldCertificateRevoke" \in ChainEvents
        /\ "RejectedOldCertificateRevoke" \in ChainEvents
    BY DEF ChainEvents, Events
  <2>3. pc \notin ChainCalls /\ csrRequests = {} /\ revokeRequests = {} /\ answers = {}
    BY <1>1 DEF InTask, Asked, Answered
  <2>4. keys \in Keys \ {0}
    BY <1>3 DEF Keys
  <2>5. NoReset => FirstStored
    BY <1>2 DEF OldSession, Calm, session, leftover, FirstInUse
  <2> QED
    BY <1>3, <1>4, <1>5, <2>1, <2>2, <2>3, <2>4, <2>5
       DEF NewSession, FirstStored, InQueue, Asked, Answered, ChainCalls, cloud, task, buffers, nvs
<1> QED
  BY <1>6, <1>7, <1>8, <1>9 DEF ChainInv

LEMMA ConnectNewChain ==
  ASSUME RenewalInv, ConnectNew
  PROVE  ChainInv'
<1>1. /\ agent = "try_new" /\ agent' = "loop"
      /\ eventQueue' = Enqueue(eventQueue, "RevokeOldCertificate")
      /\ UNCHANGED <<cloud, session, terminates, pc, currentState, buffers, keys, nvs>>
      /\ UNCHANGED <<current, pending>>
  BY DEF ConnectNew, Reconnected
<1>2. InAgent /\ ~InQueue /\ ~InTask /\ ~Asked /\ ~Answered
  BY <1>1 DEF RenewalInv, ChainInv, OnePlace, InAgent
<1>3. NewSession
  BY <1>1 DEF RenewalInv, ChainInv, OldSession, Stale
<1>4. "RevokeOldCertificate" \in Events
  BY DEF Events
<1>5. /\ \A f : Waiting(eventQueue', f) => f = "RevokeOldCertificate" \/ Waiting(eventQueue, f)
      /\ Alone(eventQueue')
  BY <1>1, <1>2, <1>4, SendChain
<1>6. \A f \in ChainEvents : Waiting(eventQueue', f) => f = "RevokeOldCertificate"
  BY <1>2, <1>5 DEF InQueue
<1>7. OnePlace' /\ OneThere'
  BY <1>1, <1>2, <1>3, <1>5
     DEF RenewalInv, ChainInv, OnePlace, OneThere, NewSession, InTask, Asked, Answered, InAgent,
         cloud
<1>8. OneJob'
  BY <1>1, <1>2, JobKept DEF RenewalInv, ChainInv, Chain, cloud
<1>9. Buffered'
  BY <1>6 DEF Buffered, AnswerEvents, ChainEvents, Events
<1>10. NewSession'
  <2>1. /\ "AcceptedOldCertificateRevoke" \in ChainEvents
        /\ "RejectedOldCertificateRevoke" \in ChainEvents
    BY DEF ChainEvents, Events
  <2> QED
    BY <1>1, <1>2, <1>3, <1>6, <2>1
       DEF NewSession, FirstStored, InTask, Asked, Answered, cloud, session, buffers, current,
           pending, nvs
<1> QED
  BY <1>7, <1>8, <1>9, <1>10 DEF ChainInv

-----------------------------------------------------------------------------
\* The renewal task takes an event into a call.

\* Where the chain is when an event that is one of its links is taken.
LEMMA TakeLink ==
  ASSUME RenewalInv, NEW e \in ChainEvents, Take(e)
  PROVE  /\ InQueue /\ ~InTask /\ ~Asked /\ ~Answered /\ ~InAgent
         /\ \A f \in ChainEvents : ~Waiting(eventQueue', f)
         /\ Alone(eventQueue') /\ ~InQueue'
         /\ Waiting(eventQueue, e) /\ pc = "receive"
BY TakeChain DEF RenewalInv, ChainInv, OnePlace, InQueue

\* The shared part of the steps that take a link of the chain into a call.
LEMMA TakenIntoCall ==
  ASSUME RenewalInv, NEW e \in ChainEvents, Take(e),
         UNCHANGED <<cloud, agentVars>>
  PROVE  OnePlace' /\ OneThere' /\ OneJob' /\ Buffered'
<1>1. InQueue /\ ~InTask /\ ~Asked /\ ~Answered /\ ~InAgent /\ Alone(eventQueue') /\ ~InQueue'
  BY TakeLink
<1>2. OnePlace' /\ OneThere'
  BY <1>1 DEF RenewalInv, ChainInv, OnePlace, OneThere, Asked, Answered, InAgent, cloud, agentVars
<1>3. OneJob'
  BY <1>1, JobKept DEF RenewalInv, ChainInv, Chain, cloud
<1>4. Buffered'
  BY TakeLink DEF Buffered, AnswerEvents, ChainEvents, Events
<1> QED
  BY <1>2, <1>3, <1>4

LEMMA ReceiveJobDocumentChain ==
  ASSUME RenewalInv, ReceiveJobDocument
  PROVE  ChainInv'
<1>1. CASE jobBuffer \in Incomplete
  BY <1>1, RestartChain DEF ReceiveJobDocument, NoReset
<1>2. CASE jobBuffer \notin Incomplete
  <2>1. /\ Take("ReceivedJobDocument") /\ pc' \in {"accept_job", "reject_job"}
        /\ UNCHANGED <<cloud, session, agentVars, dataBuffer, topicFilters, certificateId, keys,
                       current, pending, nvs>>
        /\ "ReceivedJobDocument" \in ChainEvents
    BY <1>2 DEF ReceiveJobDocument, ChainEvents, Events
  <2>2. OldSession
    BY <2>1, TakeLink DEF RenewalInv, ChainInv, NewSession, Stale
  <2>3. OldSession'
    BY <2>1, <2>2, TakeLink
       DEF OldSession, Calm, session, leftover, FirstInUse, FirstStored, Signed, Asked,
           Answered, ChainEvents, Events, cloud, agentVars, current, pending, nvs
  <2> QED
    BY <2>1, <2>3, TakenIntoCall DEF ChainInv
<1> QED
  BY <1>1, <1>2

LEMMA ReceiveRenewalChain ==
  ASSUME RenewalInv, ReceiveRenewal
  PROVE  ChainInv'
<1>1. /\ Take("ClientCertificateRenewal") /\ pc' = "subscribe_csr" /\ topicFilters' = "csr"
      /\ UNCHANGED <<cloud, session, agentVars, dataBuffer, certificateId, keys, current,
                     pending, nvs>>
      /\ "ClientCertificateRenewal" \in ChainEvents
  BY DEF ReceiveRenewal, ChainEvents, Events
<1>2. OldSession
  BY <1>1, TakeLink DEF RenewalInv, ChainInv, NewSession, Stale
<1>3. OldSession'
  BY <1>1, <1>2, TakeLink
     DEF OldSession, Calm, session, leftover, FirstInUse, FirstStored, Signed, Asked, Answered,
         ChainEvents, Events, cloud, agentVars, current, pending, nvs
<1> QED
  BY <1>1, <1>3, TakenIntoCall DEF ChainInv

\* The buffer holds the answer that the event is about: its certificate is one
\* for the new key, or it has none and the renewal fails.
LEMMA ReceiveSignedChain ==
  ASSUME RenewalInv, ReceiveSigned
  PROVE  ChainInv'
<1>1. eventQueue # <<>> /\ Head(eventQueue) = "ReceivedSignedCertificate" /\ pc = "receive"
  BY DEF ReceiveSigned
<1>2. "ReceivedSignedCertificate" \in ChainEvents
  BY DEF ChainEvents, Events
<1>3. Waiting(eventQueue, "ReceivedSignedCertificate")
  BY <1>1, TakenLemma DEF RenewalInv, TypeInv, TypeOK
<1>4. OldSession
  BY <1>2, <1>3 DEF RenewalInv, ChainInv, NewSession, Stale, InQueue
<1>5. /\ dataBuffer \in Answers /\ Signed(dataBuffer) /\ keys > 0
      /\ dataBuffer.kind \in {"signed", "unparsable"}
  <2>1. /\ dataBuffer \in Answers /\ EventOf(dataBuffer) = "ReceivedSignedCertificate"
    BY <1>3 DEF RenewalInv, TypeInv, TypeOK, ChainInv, Buffered, AnswerEvents
  <2> QED
    BY <1>3, <1>4, <2>1 DEF EventOf, Answers, AnswerKinds, OldSession
<1>6. Take("ReceivedSignedCertificate")
  BY <1>5 DEF ReceiveSigned
<1>7. CASE dataBuffer.kind = "signed"
  <2>1. /\ certificateId' = dataBuffer.cert /\ newCertificate' = dataBuffer.cert
        /\ terminates' = terminates + 1
        /\ UNCHANGED <<cloud, session, agent, pc, jobBuffer, jobId, dataBuffer,
                       topicFilters, keys, current, newPrivateKey, nvs>>
    BY <1>7 DEF ReceiveSigned
  <2>2. /\ dataBuffer.cert \in active /\ dataBuffer.cert.key = keys
        /\ dataBuffer.cert \in Certificates /\ certificateId' # Freed
    BY <1>5, <1>7, <2>1, PointersLemma DEF Signed, Answers
  <2>3. terminates = 0 /\ terminates' = 1 /\ agent \in {"loop", "exited"}
    <3>1. terminates \in Nat /\ agent # "boot"
      BY <1>1 DEF RenewalInv, TypeInv, TypeOK
    <3>2. ~(terminates > 0)
      BY <1>2, <1>6, TakeLink DEF InAgent
    <3>3. agent \in {"boot", "loop", "exited"}
      BY <1>4 DEF OldSession, Calm, session, leftover, FirstInUse, FirstStored
    <3> QED
      BY <2>1, <3>1, <3>2, <3>3
  <2>4. InQueue /\ ~InTask /\ ~Asked /\ ~Answered /\ Alone(eventQueue') /\ ~InQueue'
    BY <1>2, <1>6, TakeLink
  <2>5. OnePlace' /\ OneThere'
    BY <2>1, <2>3, <2>4 DEF RenewalInv, ChainInv, OnePlace, OneThere, InTask, Asked, Answered,
                            InAgent, cloud
  <2>6. OneJob'
    BY <2>1, <2>4, JobKept DEF RenewalInv, ChainInv, Chain, cloud
  <2>7. Buffered'
    BY <1>2, <1>6, TakeLink DEF Buffered, AnswerEvents, ChainEvents, Events
  <2>8. OldSession'
    <3>1. \A f \in ChainEvents : ~Waiting(eventQueue', f)
      BY <1>2, <1>6, TakeLink
    <3> QED
      BY <1>2, <1>3, <1>4, <1>5, <2>1, <2>2, <2>3, <2>4, <3>1
         DEF OldSession, Calm, session, leftover, FirstInUse, FirstStored, InTask, Asked,
             Answered, cloud, current, nvs
  <2> QED
    BY <2>5, <2>6, <2>7, <2>8 DEF ChainInv
<1>8. CASE dataBuffer.kind = "unparsable"
  <2>1. /\ pc' = "fail_renewal"
        /\ UNCHANGED <<cloud, session, agentVars, buffers, keys, current, pending, nvs>>
    BY <1>8 DEF ReceiveSigned
  <2>2. OldSession'
    BY <1>2, <1>4, <1>6, <2>1, TakeLink
       DEF OldSession, Calm, session, leftover, FirstInUse, FirstStored, Signed, Asked, Answered,
           cloud, agentVars, buffers, current, pending, nvs
  <2> QED
    BY <1>2, <1>6, <2>1, <2>2, TakenIntoCall DEF ChainInv
<1> QED
  BY <1>5, <1>7, <1>8

LEMMA ReceiveFailureChain ==
  ASSUME RenewalInv, ReceiveFailure
  PROVE  ChainInv'
<1>1. UNCHANGED <<cloud, session, agentVars, buffers, keys, current, pending, nvs>>
  BY DEF ReceiveFailure
<1>2. PICK e \in {"RejectedCertificateSigningRequest", "RejectedSignedCertificate",
                  "RejectedOldCertificateRevoke"} :
        Take(e) /\ pc' = FailureCall[e]
  BY DEF ReceiveFailure, FailureCall
<1>3. /\ e \in ChainEvents
      /\ e = "RejectedCertificateSigningRequest" => pc' = "fail_csr"
      /\ e = "RejectedOldCertificateRevoke" => pc' = "fail_revoke"
  BY <1>2 DEF ChainEvents, Events, FailureCall
<1>4. (OldSession \/ NewSession \/ Stale)'
  <2>1. CASE OldSession
    <3>1. pc' = "fail_csr"
      BY <1>2, <1>3, <2>1, TakeLink
         DEF OldSession, Calm, session, leftover, FirstInUse, FirstStored
    <3> QED
      BY <1>1, <1>2, <1>3, <2>1, <3>1, TakeLink
         DEF OldSession, Calm, session, leftover, FirstInUse, FirstStored, Signed, Asked,
             Answered, ChainEvents, Events, cloud, agentVars, buffers, current, pending, nvs
  <2>2. CASE NewSession
    <3>1. e = "RejectedOldCertificateRevoke" /\ pc' = "fail_revoke"
      BY <1>2, <1>3, <2>2, TakeLink DEF NewSession, FirstStored
    <3> QED
      BY <1>1, <1>2, <1>3, <2>2, <3>1, TakeLink
         DEF NewSession, FirstStored, Asked, Answered, ChainEvents, Events, cloud, session,
             agentVars, buffers, current, pending, nvs
  <2> QED
    BY <1>2, <1>3, <2>1, <2>2, TakeLink DEF RenewalInv, ChainInv, Stale
<1> QED
  BY <1>1, <1>2, <1>3, <1>4, TakenIntoCall DEF ChainInv

LEMMA ReceiveRevocationChain ==
  ASSUME RenewalInv, ReceiveRevokeOld \/ ReceiveAccepted
  PROVE  ChainInv'
<1>1. UNCHANGED <<cloud, session, agentVars, buffers, keys, current, pending, nvs>>
  BY DEF ReceiveRevokeOld, ReceiveAccepted
<1>2. PICK e \in {"RevokeOldCertificate", "AcceptedOldCertificateRevoke"} :
        /\ Take(e)
        /\ pc' = IF e = "RevokeOldCertificate" THEN "revoke" ELSE "finish_revoke"
  BY DEF ReceiveRevokeOld, ReceiveAccepted
<1>3. e \in ChainEvents
  BY <1>2 DEF ChainEvents, Events
<1>4. NewSession
  BY <1>2, <1>3, TakeLink DEF RenewalInv, ChainInv, OldSession, Stale
<1>5. NewSession'
  BY <1>1, <1>2, <1>3, <1>4, TakeLink
     DEF NewSession, FirstStored, Asked, Answered, ChainEvents, Events, cloud, session,
         agentVars, buffers, current, pending, nvs
<1> QED
  BY <1>1, <1>2, <1>3, <1>5, TakenIntoCall DEF ChainInv

-----------------------------------------------------------------------------
\* The calls of the renewal task return.

\* Where the chain is during a call that is one of its links.
LEMMA CallLemma ==
  ASSUME RenewalInv, pc \in ChainCalls
  PROVE  /\ InTask /\ ~InQueue /\ ~Asked /\ ~Answered /\ ~InAgent
         /\ csrRequests = {} /\ revokeRequests = {} /\ answers = {} /\ terminates = 0
         /\ agent # "try_new" /\ Alone(eventQueue)
         /\ \A f \in ChainEvents : ~Waiting(eventQueue, f)
         /\ pc \in {"accept_job", "reject_job", "subscribe_csr", "publish_csr", "fail_csr",
                    "fail_renewal"} => OldSession
         /\ pc \in {"revoke", "finish_revoke", "store_certificate", "store_key", "succeed",
                    "fail_revoke"} => NewSession
<1>1. /\ InTask /\ ~InQueue /\ ~Asked /\ ~Answered /\ ~InAgent /\ Alone(eventQueue)
  BY DEF RenewalInv, ChainInv, OnePlace, OneThere, InTask
<1>2. terminates = 0
  BY <1>1 DEF InAgent, RenewalInv, TypeInv, TypeOK
<1>3. /\ pc \in {"accept_job", "reject_job", "subscribe_csr", "publish_csr", "fail_csr",
                 "fail_renewal"} => OldSession
      /\ pc \in {"revoke", "finish_revoke", "store_certificate", "store_key", "succeed",
                 "fail_revoke"} => NewSession
  BY DEF RenewalInv, ChainInv, OldSession, NewSession, Stale, InTask
<1> QED
  BY <1>1, <1>2, <1>3 DEF InQueue, Asked, Answered, InAgent

\* The chain goes from a call to the next one, or ends.
LEMMA CallToCall ==
  ASSUME RenewalInv, pc \in ChainCalls, pc' \in ChainCalls \cup {"receive"},
         UNCHANGED <<notified, csrRequests, revokeRequests, answers, agentVars, eventQueue>>,
         pc' # "receive" => UNCHANGED jobStatus
  PROVE  OnePlace' /\ OneThere' /\ OneJob' /\ Buffered'
<1>1. OnePlace' /\ OneThere'
  BY CallLemma DEF RenewalInv, ChainInv, OnePlace, OneThere, InQueue, Asked, Answered, InAgent,
                   agentVars
<1>2. OneJob'
  <2>1. CASE pc' = "receive"
    BY <2>1, CallLemma
       DEF OneJob, InQueue, InTask, Asked, Answered, InAgent, ChainCalls, agentVars
  <2>2. CASE pc' # "receive"
    BY <2>2, CallLemma, JobKept DEF RenewalInv, ChainInv, Chain
  <2> QED
    BY <2>1, <2>2
<1>3. Buffered'
  BY CallLemma DEF Buffered, AnswerEvents, ChainEvents, Events
<1> QED
  BY <1>1, <1>2, <1>3

\* The chain ends, and the agent is told that it is ready.
LEMMA CallEnds ==
  ASSUME RenewalInv, pc \in ChainCalls, pc' = "receive",
         eventQueue' = Enqueue(eventQueue, "Ready"),
         UNCHANGED <<notified, csrRequests, revokeRequests, answers, agentVars>>
  PROVE  /\ OnePlace' /\ OneThere' /\ OneJob' /\ Buffered'
         /\ ~InQueue' /\ \A f \in ChainEvents : ~Waiting(eventQueue', f)
<1>1. "Ready" \in Events /\ "Ready" \notin ChainEvents
  BY DEF Events, ChainEvents
<1>2. /\ Alone(eventQueue') /\ \A f \in ChainEvents : ~Waiting(eventQueue', f)
      /\ ~InQueue'
  BY <1>1, CallLemma, SendChain DEF InQueue
<1>3. OnePlace' /\ OneThere'
  BY <1>2, CallLemma
     DEF RenewalInv, ChainInv, OnePlace, OneThere, Asked, Answered, InAgent, agentVars
<1>4. OneJob'
  BY <1>2, CallLemma DEF OneJob, InTask, Asked, Answered, InAgent, ChainCalls, agentVars
<1>5. Buffered'
  BY <1>2 DEF Buffered, AnswerEvents, ChainEvents, Events
<1> QED
  BY <1>2, <1>3, <1>4, <1>5

\* A job that is in progress has not ended.
LEMMA InProgressLemma ==
  ASSUME RenewalInv, UpdateJob("IN_PROGRESS"), UNCHANGED notified, NEW j \in Jobs, Current(j)
  PROVE  Current(j)'
<1>1. /\ jobStatus \in [Jobs -> Terminal \cup {"QUEUED", "IN_PROGRESS"}]
      /\ "IN_PROGRESS" \notin Terminal
  BY DEF RenewalInv, TypeInv, TypeOK, Terminal
<1>2. \A i \in Jobs : jobStatus'[i] \in Terminal <=> jobStatus[i] \in Terminal
  BY <1>1 DEF UpdateJob
<1> QED
  BY <1>2 DEF Current

LEMMA AcceptJobChain ==
  ASSUME RenewalInv, AcceptJob
  PROVE  ChainInv'
<1>1. /\ pc = "accept_job" /\ pc' = "receive"
      /\ eventQueue' = Enqueue(eventQueue, "ClientCertificateRenewal")
      /\ UNCHANGED <<notified, active, csrRequests, revokeRequests, answers, session,
                     agentVars, currentState, buffers, keys, current, pending, nvs>>
      /\ pc \in ChainCalls /\ "ClientCertificateRenewal" \in Events
  <2>1. pc = "accept_job" /\ pc \in ChainCalls /\ "ClientCertificateRenewal" \in Events
    BY DEF AcceptJob, ChainCalls, Events
  <2> QED
    BY <2>1, CallLemma, CalmLemma DEF AcceptJob, session
<1>2. /\ ~InQueue /\ ~Asked /\ ~Answered /\ ~InAgent /\ OldSession /\ InTask
  BY <1>1, CallLemma
<1>3. /\ \A f : Waiting(eventQueue', f) => f = "ClientCertificateRenewal" \/ Waiting(eventQueue, f)
      /\ Alone(eventQueue')
  BY <1>1, <1>2, SendChain
<1>4. OnePlace' /\ OneThere'
  BY <1>1, <1>2, <1>3 DEF RenewalInv, ChainInv, OnePlace, OneThere, InTask, Asked, Answered,
                          InAgent, ChainCalls, agentVars
<1>5. OneJob'
  <2>1. PICK j \in Jobs : Current(j)
    BY <1>2 DEF RenewalInv, ChainInv, OneJob
  <2>2. Current(j)'
    BY <1>1, <2>1, InProgressLemma DEF AcceptJob
  <2> QED
    BY <2>2 DEF OneJob
<1>6. Buffered'
  BY <1>1, <1>3, CallLemma DEF Buffered, AnswerEvents, ChainEvents, Events
<1>7. OldSession'
  BY <1>1, <1>2, <1>3
     DEF OldSession, Calm, session, leftover, FirstInUse, FirstStored, Signed, Asked, Answered,
         ChainCalls, agentVars, buffers, current, pending, nvs
<1> QED
  BY <1>4, <1>5, <1>6, <1>7 DEF ChainInv

LEMMA RejectChain ==
  ASSUME RenewalInv, RejectJob \/ FailCsr
  PROVE  ChainInv'
<1>1. /\ pc \in {"reject_job", "fail_csr"} /\ pc' = "receive" /\ pc \in ChainCalls
      /\ UNCHANGED <<notified, active, csrRequests, revokeRequests, answers, session,
                     agentVars, eventQueue, buffers, keys, current, pending, nvs>>
  <2>1. pc \in {"reject_job", "fail_csr"} /\ pc \in ChainCalls
    BY DEF RejectJob, FailCsr, ChainCalls
  <2> QED
    BY <2>1, CallLemma, CalmLemma DEF RejectJob, FailCsr, session
<1>2. OldSession'
  BY <1>1, CallLemma
     DEF OldSession, Calm, session, leftover, FirstInUse, FirstStored, Signed, Asked, Answered,
         ChainCalls, agentVars, buffers, current, pending, nvs
<1> QED
  BY <1>1, <1>2, CallToCall DEF ChainInv

\* No certificate identifier can have been freed yet.
LEMMA FailRenewalChain ==
  ASSUME RenewalInv, FailRenewal
  PROVE  ChainInv'
<1>1. pc = "fail_renewal" /\ pc \in ChainCalls
  BY DEF FailRenewal, ChainCalls
<1>2. OldSession /\ terminates = 0 /\ certificateId = None /\ None # Freed
  BY <1>1, CallLemma, PointersAssumption
     DEF OldSession, Calm, session, leftover, FirstInUse, FirstStored
<1>3. /\ certificateId' = None /\ eventQueue' = Enqueue(eventQueue, "Ready") /\ pc' = "receive"
      /\ UNCHANGED <<notified, active, csrRequests, revokeRequests, answers>>
      /\ UNCHANGED <<session, agentVars, dataBuffer, topicFilters, keys, current, pending, nvs>>
  BY <1>2, CalmLemma DEF FailRenewal, session
<1>4. \A f \in ChainEvents : ~Waiting(eventQueue', f)
  BY <1>1, <1>3, CallEnds
<1>5. OldSession'
  BY <1>1, <1>2, <1>3, <1>4, CallLemma
     DEF OldSession, Calm, session, leftover, FirstInUse, FirstStored, Signed, Asked, Answered,
         ChainCalls, ChainEvents, Events, agentVars, current, pending, nvs
<1> QED
  BY <1>1, <1>3, <1>5, CallEnds DEF ChainInv

LEMMA SubscribeCsrChain ==
  ASSUME RenewalInv, SubscribeCsr
  PROVE  ChainInv'
<1>1. /\ pc = "subscribe_csr" /\ pc' = "publish_csr" /\ {pc, pc'} \subseteq ChainCalls
      /\ keys' = keys + 1 /\ newPrivateKey' = keys + 1
      /\ UNCHANGED <<cloud, abandoned, notification, agentVars, eventQueue, buffers, current,
                     newCertificate, nvs>>
  <2>1. pc = "subscribe_csr" /\ {pc, "publish_csr"} \subseteq ChainCalls
    BY DEF SubscribeCsr, ChainCalls
  <2>2. notification = "none"
    BY <2>1, CallLemma DEF OldSession, Calm
  <2> QED
    BY <2>1, <2>2 DEF SubscribeCsr
<1>2. OldSession /\ keys \in Nat /\ keys + 1 > 0
  BY <1>1, CallLemma, ConstantsAssumption DEF RenewalInv, TypeInv, TypeOK, Keys
<1>3. OldSession'
  BY <1>1, <1>2, CallLemma
     DEF OldSession, Calm, session, leftover, FirstInUse, FirstStored, Asked, Answered,
         ChainCalls, ChainEvents, Events, cloud, agentVars, buffers, current, nvs
<1> QED
  BY <1>1, <1>3, CallToCall DEF ChainInv, cloud

LEMMA PublishCsrChain ==
  ASSUME RenewalInv, PublishCsr
  PROVE  ChainInv'
<1>1. /\ pc = "publish_csr" /\ pc \in ChainCalls /\ pc' = "csr_published"
      /\ csrRequests' = csrRequests \cup {[key |-> keys, try |-> 1]}
      /\ UNCHANGED <<jobStatus, notified, active, revokeRequests, answers, session, agentVars,
                     eventQueue, buffers, keys, current, pending, nvs>>
  <2>1. pc = "publish_csr" /\ pc \in ChainCalls /\ OldSession
    BY CallLemma DEF PublishCsr, ChainCalls
  <2>2. UNCHANGED leftover /\ ~MayBeLost
    BY <2>1, CalmLemma DEF PublishCsr, MayBeLost, OldSession, Calm, leftover
  <2> QED
    BY <2>1, <2>2 DEF PublishCsr, session
<1>2. csrRequests' = {[key |-> keys, try |-> 1]}
  BY <1>1, CallLemma
<1>3. OnePlace' /\ OneThere'
  BY <1>1, <1>2, CallLemma DEF RenewalInv, ChainInv, OnePlace, OneThere, InQueue, InTask, Asked,
                               Answered, InAgent, ChainCalls, agentVars
<1>4. OneJob'
  BY <1>1, CallLemma, JobKept DEF RenewalInv, ChainInv, Chain
<1>5. Buffered'
  BY <1>1 DEF RenewalInv, ChainInv, Buffered, buffers
<1>6. OldSession'
  BY <1>1, <1>2, CallLemma
     DEF OldSession, Calm, session, leftover, FirstInUse, FirstStored, Signed, Asked, Answered,
         ChainCalls, ChainEvents, Events, agentVars, buffers, current, pending, nvs
<1> QED
  BY <1>3, <1>4, <1>5, <1>6 DEF ChainInv

\* The request names the certificate in use, and it may be lost when the call
\* before it was given up.
LEMMA RevokeOldCertificateChain ==
  ASSUME RenewalInv, RevokeOldCertificate
  PROVE  ChainInv'
<1>1. pc = "revoke" /\ pc \in ChainCalls
  BY DEF RevokeOldCertificate, ChainCalls
<1>2. NewSession /\ topicFilters = "csr" /\ certificateId = certificate
  BY <1>1, CallLemma DEF NewSession, FirstStored
<1>3. CASE Restart /\ UNCHANGED cloud
  <2>1. "giveup" \in Faults
    <3>1. Restart => pc' = "off" /\ pc' # "receive"
      BY DEF Restart
    <3> QED
      BY <1>2, <1>3, <3>1, PointersAssumption
         DEF RevokeOldCertificate, GivesUp, Serving, RenewalInv, Quiet
  <2> QED
    BY <1>3, <2>1, RestartChain DEF NoReset
<1>4. CASE ~(Restart /\ UNCHANGED cloud)
  <2>1. /\ \/ Subscribe("revoke", Unsubscribed(brokerSubs), Unsubscribed(routes), taken)
           \/ Subscribe("revoke", brokerSubs, Unsubscribed(routes), Held)
        /\ topicFilters' = "revoke"
        /\ revokeRequests' \subseteq revokeRequests \cup {[cert |-> certificateId, try |-> 1]}
        /\ pc' = "receive"
        /\ UNCHANGED <<jobStatus, notified, active, csrRequests, answers, agentVars, eventQueue,
                       jobBuffer, jobId, dataBuffer, certificateId, keys, current, pending, nvs>>
    BY <1>4 DEF RevokeOldCertificate
  <2>2. /\ revokeRequests' \subseteq {[cert |-> certificateId, try |-> 1]}
        /\ brokerSubs' \subseteq AnswerTopics("revoke")
    BY <1>1, <1>2, <2>1, CallLemma DEF NewSession, FirstStored, Subscribe, Unsubscribed
  <2>3. OnePlace' /\ OneThere'
    BY <1>1, <2>1, <2>2, CallLemma
       DEF RenewalInv, ChainInv, OnePlace, OneThere, InQueue, InTask, Asked, Answered, InAgent,
           ChainCalls, agentVars
  <2>4. OneJob'
    BY <1>1, <2>1, CallLemma, JobKept DEF RenewalInv, ChainInv, Chain
  <2>5. Buffered'
    BY <2>1 DEF RenewalInv, ChainInv, Buffered
  <2>6. NewSession'
    BY <1>1, <1>2, <2>1, <2>2, CallLemma
       DEF NewSession, FirstStored, InQueue, Asked, Answered, ChainCalls, ChainEvents, Events,
           agentVars, current, pending, nvs
  <2> QED
    BY <2>3, <2>4, <2>5, <2>6 DEF ChainInv
<1> QED
  BY <1>3, <1>4

\* Only the certificate in use is left when it is stored.
LEMMA FinishRevokeChain ==
  ASSUME RenewalInv, FinishRevoke
  PROVE  ChainInv'
<1>1. pc = "finish_revoke" /\ pc \in ChainCalls
  BY DEF FinishRevoke, ChainCalls
<1>2. NewSession /\ topicFilters = "revoke" /\ certificateId = certificate /\ certificate # Freed
  <2>1. NewSession /\ topicFilters = "revoke" /\ certificateId = certificate
    BY <1>1, CallLemma DEF NewSession, FirstStored
  <2> QED
    BY <2>1, PointersLemma DEF NewSession, FirstStored, RenewalInv, TypeInv, TypeOK
<1>3. /\ ReleaseTopics /\ pc' = "store_certificate" /\ pc' \in ChainCalls
      /\ UNCHANGED <<cloud, agentVars, eventQueue, dataBuffer, keys, current, pending, nvs>>
  BY <1>2, PointersAssumption DEF FinishRevoke, ChainCalls
<1>4. NewSession'
  BY <1>1, <1>2, <1>3, CallLemma
     DEF NewSession, FirstStored, ReleaseTopics, Unsubscribed, InQueue, Asked, Answered,
         ChainCalls, ChainEvents, Events, cloud, agentVars, current, pending, nvs
<1> QED
  BY <1>1, <1>3, <1>4, CallToCall DEF ChainInv, cloud

LEMMA StoreChain ==
  ASSUME RenewalInv, StoreCertificate \/ StorePrivateKey
  PROVE  ChainInv'
<1>1. /\ pc \in ChainCalls /\ pc' \in ChainCalls
      /\ \/ pc = "store_certificate" /\ pc' = "store_key" /\ nvsCertificate' = certificate
            /\ UNCHANGED nvsPrivateKey
         \/ pc = "store_key" /\ pc' = "succeed" /\ nvsPrivateKey' = privateKey
            /\ UNCHANGED nvsCertificate
      /\ UNCHANGED <<cloud, session, agentVars, eventQueue, currentState, buffers, keys,
                     current, pending>>
  BY DEF StoreCertificate, StorePrivateKey, ChainCalls
<1>2. NewSession
  BY <1>1, CallLemma
<1>3. NewSession'
  BY <1>1, <1>2, CallLemma
     DEF NewSession, FirstStored, InQueue, Asked, Answered, ChainEvents, Events, cloud, session,
         agentVars, buffers, current, pending
<1> QED
  BY <1>1, <1>3, CallToCall DEF ChainInv, cloud

LEMMA SucceedChain ==
  ASSUME RenewalInv, Succeed
  PROVE  ChainInv'
<1>1. /\ pc = "succeed" /\ pc \in ChainCalls /\ pc' = "receive"
      /\ eventQueue' = Enqueue(eventQueue, "Ready")
      /\ UNCHANGED <<notified, active, csrRequests, revokeRequests, answers, brokerSubs,
                     agentVars, currentState, buffers, keys, current, pending, nvs>>
  BY DEF Succeed, ChainCalls
<1>2. NewSession /\ ~InQueue' /\ \A f \in ChainEvents : ~Waiting(eventQueue', f)
  BY <1>1, CallLemma, CallEnds
<1>3. NewSession'
  BY <1>1, <1>2, CallLemma
     DEF NewSession, FirstStored, InQueue, Asked, Answered, ChainCalls, ChainEvents, Events,
         session, agentVars, buffers, current, pending, nvs
<1> QED
  BY <1>1, <1>3, CallEnds DEF ChainInv

LEMMA FailRevokeChain ==
  ASSUME RenewalInv, FailRevoke
  PROVE  ChainInv'
<1>1. pc = "fail_revoke" /\ pc \in ChainCalls
  BY DEF FailRevoke, ChainCalls
<1>2. NewSession /\ topicFilters = "revoke" /\ certificateId = certificate /\ certificate # Freed
  <2>1. NewSession /\ topicFilters = "revoke" /\ certificateId = certificate
    BY <1>1, CallLemma DEF NewSession, FirstStored
  <2> QED
    BY <2>1, PointersLemma DEF NewSession, FirstStored, RenewalInv, TypeInv, TypeOK
<1>3. /\ ReleaseTopics /\ pc' = "receive" /\ eventQueue' = Enqueue(eventQueue, "Ready")
      /\ UNCHANGED <<notified, active, csrRequests, revokeRequests, answers>>
      /\ UNCHANGED <<agentVars, dataBuffer, keys, current, pending, nvs>>
  BY <1>2, PointersAssumption DEF FailRevoke
<1>4. ~InQueue' /\ \A f \in ChainEvents : ~Waiting(eventQueue', f)
  BY <1>1, <1>3, CallEnds
<1>5. NewSession'
  BY <1>1, <1>2, <1>3, <1>4, CallLemma
     DEF NewSession, FirstStored, ReleaseTopics, Unsubscribed, InQueue, Asked, Answered,
         ChainCalls, ChainEvents, Events, agentVars, current, pending, nvs
<1> QED
  BY <1>1, <1>3, <1>5, CallEnds DEF ChainInv

-----------------------------------------------------------------------------
\* The invariant.

\* A device that boots with the pair it was made with, and no job announced.
LEMMA InitChain == Init => ChainInv
<1> SUFFICES ASSUME Init PROVE ChainInv
  OBVIOUS
<1>1. /\ ~InQueue /\ ~InTask /\ ~Asked /\ ~Answered /\ ~InAgent
      /\ \A f \in ChainEvents : ~Waiting(eventQueue, f)
  BY DEF Init, InQueue, InTask, Asked, Answered, InAgent, ChainCalls, Waiting
<1>2. OnePlace /\ OneThere /\ OneJob
  BY <1>1 DEF Init, OnePlace, OneThere, OneJob, Alone
<1>3. Buffered
  BY DEF Init, Buffered, Waiting
<1>4. OldSession
  BY <1>1
     DEF Init, OldSession, Calm, FirstInUse, FirstStored, Asked, Answered, ChainCalls,
         ChainEvents, Events
<1> QED
  BY <1>2, <1>3, <1>4 DEF ChainInv

\* No handshake fails by itself, so there is no way back to the stored pair.
LEMMA NoFaultLemma ==
  ASSUME ProvenEnvironment, RenewalInv
  PROVE  /\ ~FallBack /\ ~ConnectOld /\ ~ConnectOldFails
         /\ NoReset => ~Crash /\ ~MQTTFails /\ ~LateCompletion
<1>1. /\ "tls" \notin Faults
      /\ NoReset => ~MQTTFails /\ ~LateCompletion
  BY DEF ProvenEnvironment, NoReset, MQTTFails, LateCompletion, RenewalInv, Quiet
<1>2. agent # "try_old" /\ (agent = "try_new" => Usable(certificate, privateKey))
  BY DEF RenewalInv, ChainInv, OldSession, NewSession, Stale, Usable
<1> QED
  BY <1>1, <1>2 DEF FallBack, ConnectOld, ConnectOldFails, Crash, NoReset

LEMMA NextChain ==
  ASSUME ProvenEnvironment, RenewalInv, [Next]_vars, \A j \in Jobs : ~JobTimeout(j)
  PROVE  ChainInv'
<1>1. CASE Cloud
  BY <1>1, NotifyNextChain, LambdaSignChain, LambdaRevokeChain DEF Cloud
<1>2. CASE LoseMessage
  <2>1. /\ csrRequests' \subseteq csrRequests /\ revokeRequests' \subseteq revokeRequests
        /\ answers' \subseteq answers
        /\ UNCHANGED <<jobStatus, notified, active, session, agentVars, task, buffers, keys,
                       current, pending, nvs>>
    BY <1>2 DEF LoseMessage
  <2> QED
    BY <2>1, LostChain
<1>3. CASE Agent
  <2>1. ASSUME NEW a \in answers, Unheard(a) PROVE ChainInv'
    <3>1. /\ csrRequests' = csrRequests /\ revokeRequests' = revokeRequests
          /\ answers' \subseteq answers
          /\ UNCHANGED <<jobStatus, notified, active, session, agentVars, task, buffers, keys,
                         current, pending, nvs>>
      BY <2>1 DEF Unheard
    <3> QED
      BY <3>1, LostChain
  <2> QED
    BY <1>3, <2>1, DeliverChain, HandleTerminateChain, ConnectNewChain, NoFaultLemma DEF Agent
<1>4. CASE Task
  BY <1>4, ReceiveIdleChain, ReceiveJobDocumentChain, ReceiveRenewalChain, ReceiveSignedChain,
     ReceiveFailureChain, ReceiveRevocationChain, AcceptJobChain, RejectChain,
     SubscribeCsrChain, PublishCsrChain, CsrPublishedChain, FailRenewalChain,
     RevokeOldCertificateChain, FinishRevokeChain, StoreChain, SucceedChain, FailRevokeChain
     DEF Task
<1>5. CASE NetworkError \/ Boot \/ Crash \/ MQTTFails \/ LateCompletion \/ OtaStream
  <2>1. Crash \/ MQTTFails => ~NoReset /\ Restart /\ UNCHANGED cloud
    BY DEF Crash, MQTTFails, NoReset
  <2> QED
    BY <1>5, <2>1, NetworkErrorChain, BootChain, RestartChain, LateCompletionChain, OtaStreamChain
<1>6. CASE UNCHANGED vars
  BY <1>6, LostChain DEF vars, cloud
<1>7. BootFails => UNCHANGED vars
  BY DEF BootFails
<1> QED
  BY <1>1, <1>2, <1>3, <1>4, <1>5, <1>6, <1>7 DEF Next

\* Which steps change what the calls leave behind, and how.
LEMMA NextQuiet ==
  ASSUME RenewalInv, [Next]_vars
  PROVE  Quiet'
<1> SUFFICES ASSUME "giveup" \notin Faults
             PROVE  notification' = "none" /\ (abandoned' > 0 => agent' = "exited")
  BY DEF Quiet
<1>1. notification = "none" /\ (abandoned > 0 => agent = "exited")
  BY DEF RenewalInv, Quiet
<1>2. CASE Restart
  BY <1>2 DEF Restart
<1>3. CASE UNCHANGED leftover /\ (agent' = agent \/ agent # "exited" \/ agent' = "exited")
  BY <1>1, <1>3 DEF leftover
<1>4. CASE Cloud \/ LoseMessage \/ (\E j \in Jobs : JobTimeout(j)) \/ BootFails \/ UNCHANGED vars
  BY <1>3, <1>4 DEF Cloud, NotifyNext, LambdaSign, LambdaRevoke, LoseMessage, JobTimeout,
                    BootFails, vars, session, agentVars
<1>5. CASE Agent \/ NetworkError \/ MQTTFails \/ Crash \/ Boot
  BY <1>2, <1>3, <1>5
     DEF Agent, Deliver, Unheard, HandleTerminate, ConnectNew, FallBack, ConnectOld,
         ConnectOldFails, Reconnected, NetworkError, MQTTFails, Crash, Boot, session, agentVars
<1>6. CASE LateCompletion \/ OtaStream
  BY <1>1, <1>6 DEF LateCompletion, OtaStream, agentVars
<1>7. CASE \/ ReceiveReady \/ ReceiveJobDocument \/ ReceiveRenewal \/ ReceiveWait
           \/ ReceiveSigned \/ ReceiveFailure \/ ReceiveRevokeOld \/ ReceiveAccepted
           \/ CsrPublished \/ StoreCertificate \/ StorePrivateKey
  BY <1>2, <1>3, <1>7
     DEF ReceiveReady, ReceiveJobDocument, ReceiveRenewal, ReceiveWait, ReceiveSigned,
         ReceiveFailure, ReceiveRevokeOld, ReceiveAccepted, CsrPublished, StoreCertificate,
         StorePrivateKey, session, agentVars
<1>8. CASE AcceptJob \/ RejectJob \/ PublishCsr \/ FailCsr \/ FailRenewal \/ Succeed
  <2>1. Restart \/ (Published /\ UNCHANGED agentVars)
    BY <1>8 DEF AcceptJob, RejectJob, PublishCsr, FailCsr, FailRenewal, Succeed
  <2> QED
    BY <1>1, <1>2, <1>3, <2>1 DEF Published, agentVars
<1>9. CASE SubscribeCsr
  BY <1>1, <1>2, <1>9 DEF SubscribeCsr, agentVars
<1>10. CASE RevokeOldCertificate
  BY <1>1, <1>2, <1>10 DEF RevokeOldCertificate, GivesUp, Serving, agentVars
<1>11. CASE FinishRevoke \/ FailRevoke
  <2>1. Restart \/ (ReleaseTopics /\ UNCHANGED agentVars)
    BY <1>11 DEF FinishRevoke, FailRevoke
  <2> QED
    BY <1>1, <1>2, <1>3, <2>1 DEF ReleaseTopics, GivesUp, LeaveBehind, agentVars
<1> QED
  BY <1>4, <1>5, <1>6, <1>7, <1>8, <1>9, <1>10, <1>11 DEF Next, Task

\* The chain is at one place in every state.
THEOREM RenewalInvariant ==
  ASSUME TimelyEnvironment
  PROVE  Spec => []RenewalInv
<1>1. Init => RenewalInv
  BY InitTypeInv, InitChain DEF RenewalInv, Init, Quiet
<1>2. RenewalInv /\ [Next]_vars => RenewalInv'
  <2>1. ProvenEnvironment /\ \A j \in Jobs : ~JobTimeout(j)
    BY DEF TimelyEnvironment, JobTimeout
  <2> QED
    BY <2>1, NextTypeInv, NextQuiet, NextChain DEF RenewalInv
<1> QED
  BY <1>1, <1>2, PTL DEF Spec

-----------------------------------------------------------------------------
\* What the invariant says of the running device.

LEMMA LossyLemma == LossyEnvironment => TimelyEnvironment /\ ProvenEnvironment /\ NoReset
BY DEF LossyEnvironment, TimelyEnvironment

\* The device always holds a pair AWS IoT accepts: until the new session the
\* stored one, from then on the one in RAM (LambdaRevoke, prvStoreNewCredentials).
THEOREM LossyNotLockedOut ==
  ASSUME LossyEnvironment
  PROVE  Spec => []NotLockedOut
<1>1. RenewalInv => NotLockedOut
  <2>1. OldSession /\ NoReset => Usable(nvsCertificate, nvsPrivateKey)
    BY DEF OldSession, Calm, session, leftover, FirstInUse, FirstStored, Usable, FirstCertificate
  <2>2. NewSession => Usable(certificate, privateKey)
    BY DEF NewSession, FirstStored, Usable
  <2> QED
    BY <2>1, <2>2, LossyLemma DEF RenewalInv, ChainInv, Stale, NotLockedOut
<1> QED
  BY <1>1, LossyLemma, RenewalInvariant, PTL

\* The one buffer every answer is copied to still holds the answer whose event
\* waits (prvCreateFromCSRIncomingPublishCallback, prvReceivedCertificateParser).
THEOREM RenewalBufferMatchesEvent ==
  ASSUME TimelyEnvironment
  PROVE  Spec => []BufferMatchesEvent
<1>1. RenewalInv => BufferMatchesEvent
  BY DEF RenewalInv, ChainInv, Buffered, AnswerEvents, Waiting, BufferMatchesEvent
<1> QED
  BY <1>1, RenewalInvariant, PTL

\* A status other than SUCCEEDED does not make a job succeed.
LEMMA OtherStatusLemma ==
  ASSUME RenewalInv, NEW status \in {"IN_PROGRESS", "REJECTED", "FAILED"}, UpdateJob(status),
         NEW j \in Jobs, jobStatus'[j] = "SUCCEEDED"
  PROVE  jobStatus[j] = "SUCCEEDED"
<1>1. jobStatus \in [Jobs -> Terminal \cup {"QUEUED", "IN_PROGRESS"}]
  BY DEF RenewalInv, TypeInv, TypeOK
<1> QED
  BY <1>1 DEF UpdateJob

\* Only Succeed reports success.
LEMMA SuccessLemma ==
  ASSUME TimelyEnvironment, RenewalInv, [Next]_vars,
         NEW j \in Jobs, jobStatus[j] # "SUCCEEDED", jobStatus'[j] = "SUCCEEDED"
  PROVE  pc = "succeed"
<1>1. jobStatus' # jobStatus
  OBVIOUS
<1>2. CASE \/ Cloud \/ LoseMessage \/ NetworkError \/ MQTTFails \/ LateCompletion \/ OtaStream
           \/ Crash \/ Boot \/ BootFails \/ UNCHANGED vars
  <2>1. ~Cloud
    BY <1>1 DEF Cloud, NotifyNext, LambdaSign, LambdaRevoke
  <2> QED
    BY <1>1, <1>2, <2>1 DEF LoseMessage, NetworkError, MQTTFails, LateCompletion, OtaStream,
                            Crash, Boot, BootFails, vars, cloud
<1>3. CASE Agent
  BY <1>1, <1>3 DEF Agent, Deliver, Unheard, HandleTerminate, ConnectNew, FallBack, ConnectOld,
                    ConnectOldFails, Reconnected, cloud
<1>4. CASE ReceiveReady \/ ReceiveJobDocument \/ ReceiveRenewal \/ ReceiveWait \/ ReceiveSigned
           \/ ReceiveFailure \/ ReceiveRevokeOld \/ ReceiveAccepted \/ SubscribeCsr \/ PublishCsr
           \/ CsrPublished \/ RevokeOldCertificate \/ FinishRevoke \/ StoreCertificate
           \/ StorePrivateKey
  BY <1>1, <1>4
     DEF ReceiveReady, ReceiveJobDocument, ReceiveRenewal, ReceiveWait, ReceiveSigned,
         ReceiveFailure, ReceiveRevokeOld, ReceiveAccepted, SubscribeCsr, PublishCsr,
         CsrPublished, RevokeOldCertificate, FinishRevoke, StoreCertificate, StorePrivateKey,
         cloud
<1>5. CASE AcceptJob \/ RejectJob \/ FailCsr \/ FailRenewal \/ FailRevoke
  <2>1. \E status \in {"IN_PROGRESS", "REJECTED", "FAILED"} : UpdateJob(status)
    BY <1>5 DEF AcceptJob, RejectJob, FailCsr, FailRenewal, FailRevoke
  <2> QED
    BY <2>1, OtherStatusLemma
<1>6. CASE Succeed
  BY <1>6 DEF Succeed
<1>7. \A i \in Jobs : ~JobTimeout(i)
  BY DEF TimelyEnvironment, JobTimeout
<1> QED
  BY <1>2, <1>3, <1>4, <1>5, <1>6, <1>7 DEF Next, Task

\* When a job is reported SUCCEEDED, the stored pair is the one in use and the
\* only one still active (the order of prvStoreNewCredentials and SendUpdateForJob).
THEOREM RenewalSuccessIsReal ==
  ASSUME TimelyEnvironment
  PROVE  Spec => SuccessIsReal
<1>1. ASSUME RenewalInv, [Next]_vars, NEW j \in Jobs,
             jobStatus[j] # "SUCCEEDED", jobStatus'[j] = "SUCCEEDED"
      PROVE  Usable(nvsCertificate, nvsPrivateKey) /\ active = {nvsCertificate}
  <2>1. pc = "succeed" /\ pc \in ChainCalls
    BY <1>1, SuccessLemma DEF ChainCalls
  <2>2. NewSession
    BY <1>1, <2>1, CallLemma
  <2> QED
    BY <2>1, <2>2 DEF NewSession, FirstStored, Usable
<1>2. RenewalInv /\ [Next]_vars =>
        [\A j \in Jobs :
           jobStatus[j] # "SUCCEEDED" /\ jobStatus'[j] = "SUCCEEDED"
             => /\ Usable(nvsCertificate, nvsPrivateKey)
                /\ active = {nvsCertificate}]_vars
  BY <1>1
<1> QED
  BY <1>2, RenewalInvariant, PTL DEF Spec, SuccessIsReal

\* What the handlers that follow a pointer find: it is there, and an answer that is
\* parsed brings a certificate or an error.
LEMMA FollowedLemma ==
  ASSUME RenewalInv
  PROVE  /\ terminates > 0 => newCertificate # None /\ newPrivateKey # None
         /\ eventQueue # <<>> /\ Head(eventQueue) = "ReceivedSignedCertificate" =>
              dataBuffer.kind \in {"signed", "unparsable"}
         /\ pc \in {"fail_renewal", "finish_revoke", "fail_revoke"} => certificateId # Freed
         /\ pc \in {"revoke", "finish_revoke", "fail_revoke"} => topicFilters \notin {None, Freed}
<1>1. ASSUME terminates > 0 PROVE newCertificate # None /\ newPrivateKey # None
  <2>1. OldSession /\ terminates \in Nat
    BY <1>1 DEF RenewalInv, TypeInv, TypeOK, ChainInv, NewSession, Stale
  <2>2. active \subseteq Certificates /\ keys \in Keys
    BY DEF RenewalInv, TypeInv, TypeOK
  <2> QED
    BY <1>1, <2>1, <2>2, PointersLemma
       DEF OldSession, Calm, session, leftover, FirstInUse, FirstStored
<1>2. ASSUME eventQueue # <<>>, Head(eventQueue) = "ReceivedSignedCertificate"
      PROVE  dataBuffer.kind \in {"signed", "unparsable"}
  <2>1. Waiting(eventQueue, "ReceivedSignedCertificate")
    BY <1>2, TakenLemma DEF RenewalInv, TypeInv, TypeOK
  <2>2. dataBuffer \in Answers /\ EventOf(dataBuffer) = "ReceivedSignedCertificate"
    BY <2>1 DEF RenewalInv, TypeInv, TypeOK, ChainInv, Buffered, AnswerEvents
  <2>3. "ReceivedSignedCertificate" \in ChainEvents
    BY DEF ChainEvents, Events
  <2> QED
    BY <2>1, <2>2, <2>3 DEF EventOf, Answers, AnswerKinds
<1>3. ASSUME pc = "fail_renewal" PROVE certificateId # Freed
  <2>1. pc \in ChainCalls
    BY <1>3 DEF ChainCalls
  <2> QED
    BY <1>3, <2>1, CallLemma, PointersAssumption
       DEF OldSession, Calm, session, leftover, FirstInUse, FirstStored
<1>4. ASSUME pc \in {"revoke", "finish_revoke", "fail_revoke"}
      PROVE  topicFilters \notin {None, Freed} /\ certificateId # Freed
  <2>1. pc \in ChainCalls
    BY <1>4 DEF ChainCalls
  <2>2. NewSession
    BY <1>4, <2>1, CallLemma
  <2>3. topicFilters \in {"csr", "revoke"} /\ certificateId = certificate
    BY <1>4, <2>2 DEF NewSession, FirstStored
  <2>4. certificate \in Certificates
    BY <2>2 DEF NewSession, FirstStored, RenewalInv, TypeInv, TypeOK
  <2> QED
    BY <2>3, <2>4, PointersLemma, PointersAssumption
<1> QED
  BY <1>1, <1>2, <1>3, <1>4

\* Whatever is lost, given up or reset, no handler follows a NULL or freed pointer
\* and none parses an answer without a certificate or an error (UpdateAWSSettings,
\* prvUnSubscribeTopics, prvReceivedCertificateParser).
THEOREM RenewalPointersValid ==
  ASSUME TimelyEnvironment
  PROVE  Spec => []PointersValid
<1>1. RenewalInv => PointersValid
  BY FollowedLemma DEF PointersValid
<1> QED
  BY <1>1, RenewalInvariant, PTL

\* Only RevokeOldCertificate requests a revocation.
LEMMA RequestLemma ==
  ASSUME TimelyEnvironment, RenewalInv, [Next]_vars, ~(revokeRequests' \subseteq revokeRequests)
  PROVE  RevokeOldCertificate
<1>1. revokeRequests' # revokeRequests
  OBVIOUS
<1>2. CASE Cloud
  <2>1. ASSUME NEW r \in revokeRequests, LambdaRevoke(r) PROVE FALSE
    <3>1. r.try \in 1 .. MaxInvocations /\ \A q \in revokeRequests : q = r
      BY DEF RenewalInv, TypeInv, TypeOK, ChainInv, OneThere
    <3> QED
      BY <2>1, <3>1, InvokedLemma DEF TimelyEnvironment, ProvenEnvironment, LambdaRevoke
  <2> QED
    BY <1>1, <1>2, <2>1 DEF Cloud, NotifyNext, LambdaSign
<1>3. CASE \/ LoseMessage \/ (\E j \in Jobs : JobTimeout(j)) \/ NetworkError \/ MQTTFails
           \/ LateCompletion \/ OtaStream \/ Crash \/ Boot \/ BootFails \/ UNCHANGED vars
  BY <1>1, <1>3 DEF LoseMessage, JobTimeout, NetworkError, MQTTFails, LateCompletion, OtaStream,
                    Crash, Boot, BootFails, vars, cloud
<1>4. CASE Agent
  BY <1>1, <1>4 DEF Agent, Deliver, Unheard, HandleTerminate, ConnectNew, FallBack, ConnectOld,
                    ConnectOldFails, Reconnected, cloud
<1>5. CASE Task
  <2>1. ~(\/ ReceiveReady \/ ReceiveJobDocument \/ ReceiveRenewal \/ ReceiveWait
          \/ ReceiveSigned \/ ReceiveFailure \/ ReceiveRevokeOld \/ ReceiveAccepted
          \/ SubscribeCsr \/ CsrPublished)
    BY <1>1
       DEF ReceiveReady, ReceiveJobDocument, ReceiveRenewal, ReceiveWait, ReceiveSigned,
           ReceiveFailure, ReceiveRevokeOld, ReceiveAccepted, SubscribeCsr, CsrPublished, cloud
  <2>2. ~(\/ AcceptJob \/ RejectJob \/ PublishCsr \/ FailCsr \/ FailRenewal \/ FinishRevoke
          \/ StoreCertificate \/ StorePrivateKey \/ Succeed \/ FailRevoke)
    BY <1>1
       DEF AcceptJob, RejectJob, PublishCsr, FailCsr, FailRenewal, FinishRevoke,
           StoreCertificate, StorePrivateKey, Succeed, FailRevoke, cloud
  <2> QED
    BY <1>5, <2>1, <2>2 DEF Task
<1> QED
  BY <1>2, <1>3, <1>4, <1>5 DEF Next

\* A revocation spares the certificate of the session that asks for it: the
\* session that proved it (ReconnectWithNewCertificate, prvRevokeCertificate).
THEOREM RenewalRevokesFromNewSession ==
  ASSUME TimelyEnvironment
  PROVE  Spec => RevokesFromNewSession
<1>1. ASSUME RenewalInv, [Next]_vars, NEW r \in revokeRequests' \ revokeRequests
      PROVE  certificate = r.cert
  <2>1. RevokeOldCertificate
    BY <1>1, RequestLemma
  <2>2. pc = "revoke" /\ pc \in ChainCalls
    BY <2>1 DEF RevokeOldCertificate, ChainCalls
  <2>3. NewSession /\ certificateId = certificate
    BY <1>1, <2>2, CallLemma DEF NewSession
  <2>4. r = [cert |-> certificateId, try |-> 1]
    BY <1>1, <2>1 DEF RevokeOldCertificate, cloud
  <2> QED
    BY <2>3, <2>4
<1>2. RenewalInv /\ [Next]_vars =>
        [\A r \in revokeRequests' \ revokeRequests : r.try = 1 => certificate = r.cert]_vars
  BY <1>1
<1> QED
  BY <1>2, RenewalInvariant, PTL DEF Spec, RevokesFromNewSession

\* Where nothing resets the device, no call finds a notification before it waits,
\* no served call is given up, and no job document is incomplete.
LEMMA ServedLemma ==
  ASSUME LossyEnvironment, RenewalInv
  PROVE  notification = "none" /\ (Serving => ~GivesUp) /\ Incomplete = {}
BY DEF LossyEnvironment, NoReset, RenewalInv, Quiet, GivesUp, Serving

\* The steps that change the active certificates, the pair in use or the stored one.
LEMMA StillLemma ==
  ASSUME LossyEnvironment, RenewalInv, [Next]_vars
  PROVE  \/ UNCHANGED <<active, current, nvs>>
         \/ \E r \in csrRequests : LambdaSign(r)
         \/ \E r \in revokeRequests : LambdaRevoke(r)
         \/ HandleTerminate \/ Boot \/ StoreCertificate \/ StorePrivateKey
<1>1. CASE Cloud
  BY <1>1 DEF Cloud, NotifyNext
<1>2. CASE LoseMessage \/ BootFails \/ NetworkError \/ OtaStream \/ UNCHANGED vars
  BY <1>2 DEF LoseMessage, NetworkError, OtaStream, BootFails, vars, cloud
<1>3. CASE Agent
  BY <1>3, NoFaultLemma, LossyLemma DEF Agent, Deliver, Unheard, ConnectNew, Reconnected, cloud
<1>4. CASE ReceiveReady \/ ReceiveJobDocument \/ ReceiveRenewal \/ ReceiveWait
           \/ ReceiveFailure \/ ReceiveRevokeOld \/ ReceiveAccepted \/ SubscribeCsr \/ PublishCsr
           \/ CsrPublished \/ AcceptJob \/ RejectJob \/ FailCsr \/ Succeed
  BY <1>4, ServedLemma
     DEF ReceiveReady, ReceiveJobDocument, ReceiveRenewal, ReceiveWait, ReceiveFailure,
         ReceiveRevokeOld, ReceiveAccepted, SubscribeCsr, PublishCsr, CsrPublished,
         AcceptJob, RejectJob, FailCsr, Succeed, cloud
<1>5. CASE ReceiveSigned
  BY <1>5, FollowedLemma DEF ReceiveSigned, cloud
<1>6. CASE FailRenewal \/ RevokeOldCertificate \/ FinishRevoke \/ FailRevoke
  BY <1>6, FollowedLemma, ServedLemma
     DEF FailRenewal, RevokeOldCertificate, FinishRevoke, FailRevoke, cloud
<1>7. \A j \in Jobs : ~JobTimeout(j)
  BY LossyLemma DEF TimelyEnvironment, JobTimeout
<1> QED
  BY <1>1, <1>2, <1>3, <1>4, <1>5, <1>6, <1>7, NoFaultLemma, LossyLemma DEF Next, Task

\* The pairs of CertRotation in each of the two sessions.
LEMMA PairsLemma ==
  ASSUME LossyEnvironment, RenewalInv
  PROVE  /\ FirstCertificate \in Certificates /\ None \notin Certificates
         /\ OldSession => /\ InUse = FirstCertificate
                          /\ Pair(nvsCertificate, nvsPrivateKey) = FirstCertificate
         /\ NewSession => InUse = certificate
<1>1. FirstCertificate \in Certificates /\ None \notin Certificates
  BY ConstantsAssumption, PointersLemma DEF FirstCertificate, Certificates, Keys
<1>2. ASSUME OldSession
      PROVE  /\ InUse = FirstCertificate
             /\ Pair(nvsCertificate, nvsPrivateKey) = FirstCertificate
  <2>1. FirstCertificate.key = 0
    BY DEF FirstCertificate
  <2> QED
    BY <1>1, <1>2, <2>1, LossyLemma
       DEF OldSession, Calm, session, leftover, FirstInUse, FirstStored, InUse, Pair
<1>3. ASSUME NewSession PROVE InUse = certificate
  <2>1. certificate \in Certificates /\ certificate # None
    BY <1>1, <1>3 DEF NewSession, FirstStored, RenewalInv, TypeInv, TypeOK
  <2> QED
    BY <1>3, <2>1 DEF NewSession, FirstStored, InUse, Pair
<1> QED
  BY <1>1, <1>2, <1>3

LEMMA InitRotation == Init => Rotation!Init
BY ConstantsAssumption, PointersLemma
   DEF Init, Rotation!Init, InUse, Pair, FirstCertificate, Certificates, Keys

LEMMA NextRotation ==
  ASSUME LossyEnvironment, RenewalInv, RenewalInv', [Next]_vars
  PROVE  [Rotation!Next]_Rotation!vars
<1> USE DEF Rotation!vars
<1>1. CASE UNCHANGED <<active, current, nvs>>
  BY <1>1 DEF InUse, Pair, current, nvs
<1>2. ASSUME NEW r \in csrRequests, LambdaSign(r) PROVE [Rotation!Next]_Rotation!vars
  <2> DEFINE cert == [key |-> r.key, copy |-> r.try]
  <2>1. UNCHANGED <<current, nvs>> /\ (active' = active \/ active' = active \cup {cert})
    BY <1>2 DEF LambdaSign
  <2>2. cert \in Certificates
    BY DEF RenewalInv, TypeInv, TypeOK, Certificates
  <2> HIDE DEF cert
  <2>3. UNCHANGED <<InUse, Pair(nvsCertificate, nvsPrivateKey)>>
    BY <2>1 DEF InUse, Pair, current, nvs
  <2>4. CASE active' = active
    BY <2>3, <2>4
  <2>5. CASE active' = active \cup {cert} /\ active' # active
    BY <2>2, <2>3, <2>5 DEF Rotation!Next, Rotation!Issue
  <2> QED
    BY <2>1, <2>4, <2>5
<1>3. ASSUME NEW r \in revokeRequests, LambdaRevoke(r) PROVE [Rotation!Next]_Rotation!vars
  <2>1. NewSession /\ r.cert = certificate /\ InUse = certificate
    BY PairsLemma, LossyLemma DEF RenewalInv, ChainInv, OldSession, NewSession, Stale
  <2>2. UNCHANGED <<current, nvs>>
    BY <1>3 DEF LambdaRevoke
  <2>3. \E revoked \in SUBSET (active \ {InUse}) : active' = active \ revoked
    <3>1. CASE active' = active \cap {r.cert}
      <4>1. active' = active \ (active \ {InUse})
        BY <2>1, <3>1
      <4> QED
        BY <4>1
    <3>2. CASE \E revoked \in SUBSET (active \ {r.cert}) : active' = active \ revoked
      BY <2>1, <3>2
    <3> QED
      BY <1>3, <3>1, <3>2 DEF LambdaRevoke
  <2>4. UNCHANGED <<InUse, Pair(nvsCertificate, nvsPrivateKey)>>
    BY <2>2 DEF InUse, Pair, current, nvs
  <2> QED
    BY <2>3, <2>4 DEF Rotation!Next, Rotation!Retire
<1>4. CASE HandleTerminate
  <2>1. agent = "loop" /\ agent' = "try_new" /\ UNCHANGED <<active, nvs>>
    BY <1>4, FollowedLemma DEF HandleTerminate, cloud
  <2>2. OldSession /\ NewSession'
    BY <1>4, <2>1, LossyLemma
       DEF HandleTerminate, RenewalInv, ChainInv, OldSession, NewSession, Stale, InAgent,
           TypeInv, TypeOK
  <2>3. /\ Pair(nvsCertificate, nvsPrivateKey) \in active /\ InUse' \in active'
        /\ UNCHANGED Pair(nvsCertificate, nvsPrivateKey)
    <3>1. Pair(nvsCertificate, nvsPrivateKey) \in active
      BY <2>2, PairsLemma, LossyLemma
         DEF OldSession, Calm, session, leftover, FirstInUse, FirstStored
    <3>2. InUse' = certificate' /\ certificate' \in active'
      <4>1. certificate' \in Certificates /\ certificate' # None
        BY <2>2, PairsLemma DEF NewSession, FirstStored, RenewalInv, TypeInv, TypeOK
      <4> QED
        BY <2>2, <4>1 DEF NewSession, FirstStored, InUse, Pair
    <3> QED
      BY <2>1, <3>1, <3>2 DEF Pair, nvs
  <2> QED
    BY <2>1, <2>3 DEF Rotation!Next, Rotation!Adopt
<1>5. CASE Boot
  <2>1. /\ certificate' = nvsCertificate /\ privateKey' = nvsPrivateKey /\ UNCHANGED <<active, nvs>>
        /\ agent = "boot"
    BY <1>5 DEF Boot, cloud
  <2>2. OldSession
    BY <2>1, LossyLemma DEF RenewalInv, ChainInv, NewSession, Stale
  <2>3. UNCHANGED <<InUse, Pair(nvsCertificate, nvsPrivateKey)>>
    BY <2>1, <2>2, PairsLemma, LossyLemma
       DEF OldSession, Calm, session, leftover, FirstInUse, FirstStored, InUse, Pair, nvs
  <2> QED
    BY <2>1, <2>3
<1>6. CASE StoreCertificate
  <2>1. /\ pc = "store_certificate" /\ pc \in ChainCalls /\ nvsCertificate' = certificate
        /\ UNCHANGED <<active, current, nvsPrivateKey>>
    BY <1>6 DEF StoreCertificate, ChainCalls, cloud
  <2>2. NewSession /\ InUse = certificate
    BY <2>1, CallLemma, PairsLemma
  <2>3. /\ Pair(nvsCertificate, nvsPrivateKey) \notin active
        /\ Pair(nvsCertificate, nvsPrivateKey)' = None
    <3>1. /\ nvsCertificate = FirstCertificate /\ nvsPrivateKey = 0 /\ active = {certificate}
          /\ certificate.key # 0 /\ FirstCertificate.key = 0
      BY <2>1, <2>2, LossyLemma DEF NewSession, FirstStored, FirstCertificate
    <3>2. Pair(nvsCertificate, nvsPrivateKey) = FirstCertificate
      BY <3>1, PairsLemma DEF Pair
    <3>3. Pair(nvsCertificate, nvsPrivateKey)' = None
      BY <2>1, <3>1 DEF Pair
    <3> QED
      BY <3>1, <3>2, <3>3
  <2>4. UNCHANGED InUse
    <3>1. certificate # None
      BY <2>2, PairsLemma DEF NewSession, FirstStored, RenewalInv, TypeInv, TypeOK
    <3> QED
      BY <2>1, <3>1 DEF InUse, Pair, current
  <2> QED
    BY <2>1, <2>3, <2>4 DEF Rotation!Next, Rotation!BeginStore
<1>7. CASE StorePrivateKey
  <2>1. /\ pc = "store_key" /\ pc \in ChainCalls /\ nvsPrivateKey' = privateKey
        /\ UNCHANGED <<active, current, nvsCertificate>>
    BY <1>7 DEF StorePrivateKey, ChainCalls, cloud
  <2>2. NewSession /\ InUse = certificate
    BY <2>1, CallLemma, PairsLemma
  <2>3. /\ nvsCertificate = certificate /\ nvsPrivateKey = 0 /\ certificate.key = privateKey
        /\ privateKey # 0 /\ certificate # None
    BY <2>1, <2>2, PairsLemma, LossyLemma DEF NewSession, FirstStored, RenewalInv, TypeInv, TypeOK
  <2>4. /\ Pair(nvsCertificate, nvsPrivateKey) = None
        /\ Pair(nvsCertificate, nvsPrivateKey)' = certificate
    BY <2>1, <2>3 DEF Pair
  <2>5. UNCHANGED InUse
    BY <2>1, <2>3 DEF InUse, Pair, current
  <2> QED
    BY <2>1, <2>2, <2>4, <2>5 DEF Rotation!Next, Rotation!EndStore
<1> QED
  BY <1>1, <1>2, <1>3, <1>4, <1>5, <1>6, <1>7, StillLemma

\* The renewal implements CertRotation: certificates are issued, adopted while a
\* live one is stored, retired from the new session, and then stored in two writes.
THEOREM LossyRotatesSafely ==
  ASSUME LossyEnvironment
  PROVE  Spec => RotatesSafely
<1>1. RenewalInv /\ RenewalInv' /\ [Next]_vars => [Rotation!Next]_Rotation!vars
  BY NextRotation
<1> QED
  BY <1>1, InitRotation, LossyLemma, RenewalInvariant, PTL DEF Spec, RotatesSafely, Rotation!Spec

-----------------------------------------------------------------------------
\* The queue never fills: where the chain is bounds what else can wait.

\* The two answers that may be queued before PublishToTopic returns, and so
\* before the event that follows it.
Early == {"ReceivedSignedCertificate", "RejectedCertificateSigningRequest"}

\* The renewal has not come to the new session.
NoRevocation ==
  /\ ~InAgent /\ revokeRequests = {}
  /\ \A a \in answers : a.kind \in {"signed", "rejected", "unparsable"}

Room ==
  /\ InTask => /\ Len(eventQueue) <= 1
               /\ pc \notin {"fail_csr", "fail_renewal"} => eventQueue = <<>>
  /\ Asked \/ Answered \/ InAgent => Len(eventQueue) <= 1
  /\ ~Chain => Len(eventQueue) <= 2
  /\ \A e \in ChainEvents :
       Waiting(eventQueue, e) =>
         IF e \in Early THEN Len(eventQueue) <= 2
                        ELSE Len(eventQueue) <= 3 /\ eventQueue[Len(eventQueue)] = e
  /\ pc = "csr_published" =>
       /\ Len(eventQueue) <= 1 /\ (~InQueue => eventQueue = <<>>)
       /\ \A e \in ChainEvents : Waiting(eventQueue, e) => e \in Early
       /\ \E j \in Jobs : Current(j)
       /\ NoRevocation

LEMMA RoomBound == RenewalInv /\ Room => Len(eventQueue) <= 3
BY DEF Room, Chain, InQueue, RenewalInv, TypeInv, TypeOK

\* An event that is sent to a queue with room becomes the last one.
LEMMA SendRoom ==
  ASSUME RenewalInv, Room, QueueLength >= 4, NEW e \in Events,
         eventQueue' = Enqueue(eventQueue, e)
  PROVE  /\ Len(eventQueue') = Len(eventQueue) + 1 /\ Len(eventQueue) \in Nat
         /\ eventQueue'[Len(eventQueue')] = e
         /\ \A f : Waiting(eventQueue', f) <=> f = e \/ Waiting(eventQueue, f)
<1>1. eventQueue \in Seq(Events) /\ Len(eventQueue) < QueueLength /\ QueueLength \in Nat
  BY RoomBound, ConstantsAssumption DEF RenewalInv, TypeInv, TypeOK
<1>2. eventQueue' = Append(eventQueue, e)
  BY <1>1 DEF Enqueue
<1>3. /\ Len(eventQueue') = Len(eventQueue) + 1 /\ Len(eventQueue) \in Nat
      /\ eventQueue'[Len(eventQueue')] = e
      /\ \A i \in 1 .. Len(eventQueue) : eventQueue'[i] = eventQueue[i]
  BY <1>1, <1>2
<1> QED
  BY <1>3 DEF Waiting

\* Taking an event leaves the last one last; a link that was last leaves nothing.
LEMMA TakeRoom ==
  ASSUME RenewalInv, Room, NEW e \in Events, Take(e)
  PROVE  /\ Len(eventQueue') = Len(eventQueue) - 1 /\ Len(eventQueue) \in Nat \ {0}
         /\ Len(eventQueue') > 0 => eventQueue'[Len(eventQueue')] = eventQueue[Len(eventQueue)]
         /\ e \in ChainEvents \ Early => eventQueue' = <<>>
         /\ e \in Early => Len(eventQueue') <= 1
         /\ Len(eventQueue') \in Nat /\ pc # "csr_published" /\ ~InTask
<1>1. eventQueue \in Seq(Events) /\ eventQueue # <<>> /\ eventQueue' = Tail(eventQueue)
  BY DEF RenewalInv, TypeInv, TypeOK, Take
<1>2. /\ Len(eventQueue') = Len(eventQueue) - 1 /\ Len(eventQueue) \in Nat \ {0}
      /\ Len(eventQueue') \in Nat
      /\ \A i \in 1 .. Len(eventQueue') : eventQueue'[i] = eventQueue[i + 1]
      /\ eventQueue[1] = e
  BY <1>1 DEF Take
<1>3. Waiting(eventQueue, e)
  BY <1>2 DEF Waiting
<1>4. ASSUME e \in ChainEvents \ Early PROVE eventQueue' = <<>>
  <2>1. eventQueue[Len(eventQueue)] = e
    BY <1>3, <1>4 DEF Room
  <2>2. Len(eventQueue) = 1
    BY <1>2, <1>4, <2>1 DEF RenewalInv, ChainInv, OneThere, Alone
  <2> QED
    BY <1>1, <1>2, <2>2
<1>5. ASSUME e \in Early PROVE Len(eventQueue') <= 1
  <2>1. Len(eventQueue) <= 2
    BY <1>3, <1>5 DEF Room, Early, ChainEvents, Events
  <2> QED
    BY <1>2, <2>1
<1>6. pc # "csr_published" /\ ~InTask
  BY DEF Take, InTask, ChainCalls
<1> QED
  BY <1>2, <1>4, <1>5, <1>6

\* The chain moves on outside of the device, or ends there.
LEMMA OutsideRoom ==
  ASSUME RenewalInv, Room, UNCHANGED <<eventQueue, pc, jobStatus, notified>>,
         (Asked \/ Answered \/ InAgent)' => Asked \/ Answered \/ InAgent,
         NoRevocation => NoRevocation'
  PROVE  Room'
<1>1. UNCHANGED <<InQueue, InTask>> /\ Len(eventQueue) \in Nat
  BY DEF InQueue, InTask, RenewalInv, TypeInv, TypeOK
<1>2. \A j \in Jobs : Current(j)' <=> Current(j)
  BY DEF Current
<1>3. ~Chain' => Len(eventQueue) <= 2
  BY <1>1 DEF Room, Chain
<1> QED
  BY <1>1, <1>2, <1>3 DEF Room

\* A link is sent while the chain is at a place that leaves at most two waiting.
LEMMA LinkRoom ==
  ASSUME RenewalInv, Room, QueueLength >= 4, NEW e \in ChainEvents,
         eventQueue' = Enqueue(eventQueue, e), ~InQueue,
         pc' = "csr_published" =>
           eventQueue = <<>> /\ e \in Early /\ (\E j \in Jobs : Current(j)') /\ NoRevocation',
         ~(InTask \/ Asked \/ Answered \/ InAgent)',
         Len(eventQueue) <= IF e \in Early THEN 1 ELSE 2
  PROVE  Room'
<1>1. e \in Events
  BY DEF ChainEvents
<1>2. /\ Len(eventQueue') = Len(eventQueue) + 1 /\ Len(eventQueue) \in Nat
      /\ eventQueue'[Len(eventQueue')] = e
      /\ \A f : Waiting(eventQueue', f) <=> f = e \/ Waiting(eventQueue, f)
  BY <1>1, SendRoom
<1>3. \A f \in ChainEvents : Waiting(eventQueue', f) => f = e
  BY <1>2 DEF InQueue
<1>4. InQueue'
  BY <1>2 DEF InQueue
<1> QED
  BY <1>2, <1>3, <1>4 DEF Room, Chain

LEMMA NotifyNextRoom ==
  ASSUME RenewalInv, Room, QueueLength >= 4, NEW j \in Jobs, NotifyNext(j)
  PROVE  Room'
<1>1. /\ ~Chain /\ pc # "csr_published" /\ Len(eventQueue) <= 2
      /\ UNCHANGED <<csrRequests, revokeRequests, answers, agentVars, pc>>
  <2>1. ~Chain
    BY NotifyLemma
  <2>2. \A c \in Jobs : ~Current(c)
    <3>1. Jobs \subseteq Nat /\ jobStatus \in [Jobs -> Terminal \cup {"QUEUED", "IN_PROGRESS"}]
      BY ConstantsAssumption DEF RenewalInv, TypeInv, TypeOK
    <3>2. /\ jobStatus[j] \notin Terminal /\ j \notin notified
          /\ \A i \in Jobs : i < j => jobStatus[i] \in Terminal
      BY DEF NotifyNext, Terminal
    <3> QED
      BY <3>1, <3>2 DEF Current
  <2> QED
    BY <2>1, <2>2 DEF Room, NotifyNext
<1>2. CASE UNCHANGED eventQueue
  BY <1>1, <1>2 DEF Room, Chain, InQueue, InTask, Asked, Answered, InAgent, agentVars
<1>3. CASE eventQueue' = Enqueue(eventQueue, "ReceivedJobDocument")
  <2>1. "ReceivedJobDocument" \in ChainEvents \ Early
    BY DEF ChainEvents, Events, Early
  <2> QED
    BY <1>1, <1>3, <2>1, LinkRoom DEF Chain, InTask, Asked, Answered, InAgent, agentVars
<1> QED
  BY <1>2, <1>3 DEF NotifyNext

LEMMA DeliverRoom ==
  ASSUME RenewalInv, Room, QueueLength >= 4, NEW a \in answers, Deliver(a)
  PROVE  Room'
<1>1. /\ Answered /\ ~InQueue /\ ~InTask /\ ~Asked /\ ~InAgent /\ Len(eventQueue) <= 1
      /\ a \in Answers
  BY DEF RenewalInv, TypeInv, TypeOK, ChainInv, OnePlace, Answered, Room
<1>2. /\ answers' = {} /\ eventQueue' = Enqueue(eventQueue, EventOf(a))
      /\ UNCHANGED <<jobStatus, notified, csrRequests, revokeRequests, agentVars, pc>>
  BY DEF Deliver, RenewalInv, ChainInv, OneThere
<1>3. /\ EventOf(a) \in ChainEvents
      /\ a.kind \in {"signed", "rejected", "unparsable"} => EventOf(a) \in Early
  BY <1>1 DEF EventOf, Answers, AnswerKinds, ChainEvents, Events, Early
<1>4. pc = "csr_published" =>
        /\ eventQueue = <<>> /\ EventOf(a) \in Early
        /\ \E j \in Jobs : Current(j)'
        /\ NoRevocation'
  BY <1>1, <1>2, <1>3 DEF Room, NoRevocation, Current, InAgent, agentVars
<1> QED
  BY <1>1, <1>2, <1>3, <1>4, LinkRoom DEF InTask, Asked, Answered, InAgent, agentVars

LEMMA ConnectNewRoom ==
  ASSUME RenewalInv, Room, QueueLength >= 4, ConnectNew
  PROVE  Room'
<1>1. /\ agent = "try_new" /\ agent' = "loop" /\ InAgent
      /\ eventQueue' = Enqueue(eventQueue, "RevokeOldCertificate")
      /\ UNCHANGED <<cloud, terminates, pc>>
  BY DEF ConnectNew, Reconnected, InAgent
<1>2. /\ ~InQueue /\ ~InTask /\ ~Asked /\ ~Answered /\ Len(eventQueue) <= 1
      /\ terminates = 0
  BY <1>1 DEF RenewalInv, ChainInv, OnePlace, OldSession, NewSession, Stale, Room
<1>3. "RevokeOldCertificate" \in ChainEvents \ Early
  BY DEF ChainEvents, Events, Early
<1>4. pc # "csr_published"
  BY <1>1 DEF Room, NoRevocation
<1> QED
  BY <1>1, <1>2, <1>3, <1>4, LinkRoom DEF InTask, Asked, Answered, InAgent, cloud

\* A reset or a boot: at most the event "Ready" waits.
LEMMA RestartedRoom ==
  ASSUME RenewalInv, Room, Restart \/ Boot
  PROVE  Room'
<1>1. /\ eventQueue' \in {<<>>, <<"Ready">>} /\ pc' \in {"off", "receive"}
  BY DEF Restart, Boot
<1>2. /\ ~InTask' /\ pc' # "csr_published"
      /\ \A e \in ChainEvents : ~Waiting(eventQueue', e)
  BY <1>1 DEF InTask, ChainCalls, Waiting, ChainEvents
<1>3. Len(eventQueue') = 0 \/ Len(eventQueue') = 1
  <2>1. CASE eventQueue' = <<>>
    BY <2>1
  <2>2. CASE eventQueue' = <<"Ready">>
    BY <2>2
  <2> QED
    BY <1>1, <2>1, <2>2
<1>4. Len(eventQueue') <= 1 /\ Len(eventQueue') <= 2
  <2>1. \A n : n = 0 \/ n = 1 => n <= 1 /\ n <= 2
    OBVIOUS
  <2> QED
    BY <1>3, <2>1
<1> QED
  BY <1>2, <1>4 DEF Room

\* The task takes an event that is no link of the chain.
LEMMA ReceiveIdleRoom ==
  ASSUME RenewalInv, Room, ReceiveReady \/ ReceiveWait
  PROVE  Room'
<1>1. PICK e \in Events : Take(e) /\ UNCHANGED <<cloud, agentVars, pc>> /\ e \notin ChainEvents
  BY DEF ReceiveReady, ReceiveWait, Events, ChainEvents
<1>2. /\ Len(eventQueue') = Len(eventQueue) - 1 /\ Len(eventQueue) \in Nat \ {0}
      /\ Len(eventQueue') > 0 => eventQueue'[Len(eventQueue')] = eventQueue[Len(eventQueue)]
      /\ Len(eventQueue') \in Nat /\ pc # "csr_published" /\ ~InTask
      /\ \A f : Waiting(eventQueue', f) => Waiting(eventQueue, f) /\ Len(eventQueue') > 0
  <2>1. \A f : Waiting(eventQueue', f) => Len(eventQueue') > 0
    BY <1>1, TakeRoom DEF Waiting
  <2> QED
    BY <1>1, <2>1, TakeRoom, TakeChain
<1>3. ~InTask' /\ pc' # "csr_published"
  BY <1>1, <1>2 DEF InTask
<1>4. UNCHANGED <<Asked, Answered, InAgent>>
  BY <1>1 DEF Asked, Answered, InAgent, cloud, agentVars
<1>5. \A f \in ChainEvents :
        Waiting(eventQueue', f) =>
          IF f \in Early THEN Len(eventQueue') <= 2
                         ELSE Len(eventQueue') <= 3 /\ eventQueue'[Len(eventQueue')] = f
  BY <1>2 DEF Room
<1>6. Len(eventQueue) <= 3
  BY RoomBound
<1> QED
  BY <1>2, <1>3, <1>4, <1>5, <1>6 DEF Room

\* The task takes a link of the chain: what is left is the event that follows
\* PublishToTopic, if any.
LEMMA ReceiveLinkRoom ==
  ASSUME RenewalInv, Room, NEW e \in ChainEvents, Take(e),
         UNCHANGED <<csrRequests, revokeRequests, answers>>,
         \/ pc' \in ChainCalls /\ UNCHANGED agentVars
         \/ UNCHANGED pc /\ terminates' = 1,
         e \in Early => pc' \notin ChainCalls \ {"fail_csr", "fail_renewal"}
  PROVE  Room'
<1>1. e \in Events
  BY DEF ChainEvents
<1>2. /\ Len(eventQueue') <= 1 /\ (e \notin Early => eventQueue' = <<>>)
      /\ pc # "csr_published" /\ ~InTask
  <2>1. e \notin Early => Len(eventQueue') = 0
    BY <1>1, TakeRoom
  <2> QED
    BY <1>1, <2>1, TakeRoom
<1>3. \A f \in ChainEvents : ~Waiting(eventQueue', f)
  BY TakeLink
<1>4. pc' # "csr_published"
  BY <1>2 DEF ChainCalls
<1>5. InTask' => eventQueue' = <<>> \/ pc' \in {"fail_csr", "fail_renewal"}
  BY <1>2 DEF InTask
<1>6. Len(eventQueue') \in Nat
  BY <1>1, TakeRoom
<1> QED
  BY <1>2, <1>3, <1>4, <1>5, <1>6 DEF Room

LEMMA ReceiveRoom ==
  ASSUME RenewalInv, Room,
         \/ ReceiveJobDocument \/ ReceiveRenewal \/ ReceiveSigned \/ ReceiveFailure
         \/ ReceiveRevokeOld \/ ReceiveAccepted
  PROVE  Room'
<1>1. CASE (ReceiveJobDocument /\ ~Restart) \/ ReceiveRenewal \/ ReceiveRevokeOld \/ ReceiveAccepted
  <2>1. PICK e \in ChainEvents \ Early :
          Take(e) /\ pc' \in ChainCalls /\ UNCHANGED <<cloud, agentVars>>
    BY <1>1 DEF ReceiveJobDocument, ReceiveRenewal, ReceiveRevokeOld, ReceiveAccepted,
                ChainEvents, Events, Early, ChainCalls
  <2> QED
    BY <2>1, ReceiveLinkRoom DEF cloud
<1>2. CASE ReceiveSigned
  <2>1. "ReceivedSignedCertificate" \in ChainEvents
    BY DEF ChainEvents, Events
  <2>2. /\ Take("ReceivedSignedCertificate") /\ UNCHANGED <<csrRequests, revokeRequests, answers>>
        /\ \/ pc' = "fail_renewal" /\ UNCHANGED agentVars
           \/ UNCHANGED pc /\ terminates' = terminates + 1
    BY <1>2, FollowedLemma DEF ReceiveSigned, cloud
  <2>3. terminates = 0 /\ pc \notin ChainCalls
    BY <2>1, <2>2, TakeLink DEF InAgent, InTask, RenewalInv, TypeInv, TypeOK
  <2> QED
    BY <2>1, <2>2, <2>3, ReceiveLinkRoom DEF ChainCalls
<1>3. CASE ReceiveFailure
  <2>1. PICK e \in {"RejectedCertificateSigningRequest", "RejectedSignedCertificate",
                    "RejectedOldCertificateRevoke"} :
          Take(e) /\ pc' = FailureCall[e]
    BY <1>3 DEF ReceiveFailure, FailureCall
  <2>2. /\ e \in ChainEvents /\ pc' \in ChainCalls
        /\ e \in Early => pc' = "fail_csr"
    BY <2>1 DEF FailureCall, ChainEvents, Events, Early, ChainCalls
  <2>3. UNCHANGED <<csrRequests, revokeRequests, answers, agentVars>>
    BY <1>3 DEF ReceiveFailure, cloud
  <2> QED
    BY <2>1, <2>2, <2>3, ReceiveLinkRoom
<1> QED
  BY <1>1, <1>2, <1>3, RestartedRoom

\* The calls of the renewal task return.
LEMMA CallRoom ==
  ASSUME RenewalInv, Room, QueueLength >= 4,
         \/ AcceptJob \/ RejectJob \/ SubscribeCsr \/ PublishCsr \/ FailCsr \/ FailRenewal
         \/ RevokeOldCertificate \/ FinishRevoke \/ StoreCertificate \/ StorePrivateKey
         \/ Succeed \/ FailRevoke
  PROVE  Room'
<1>1. pc \in ChainCalls
  BY DEF AcceptJob, RejectJob, SubscribeCsr, PublishCsr, FailCsr, FailRenewal,
         RevokeOldCertificate, FinishRevoke, StoreCertificate, StorePrivateKey, Succeed,
         FailRevoke, ChainCalls
<1>2. /\ InTask /\ ~InQueue /\ ~Asked /\ ~Answered /\ ~InAgent
      /\ csrRequests = {} /\ revokeRequests = {} /\ answers = {} /\ terminates = 0
      /\ \A f \in ChainEvents : ~Waiting(eventQueue, f)
      /\ Len(eventQueue) <= 1 /\ Len(eventQueue) \in Nat
      /\ pc \notin {"fail_csr", "fail_renewal"} => eventQueue = <<>>
  BY <1>1, CallLemma DEF Room, RenewalInv, TypeInv, TypeOK
<1>3. CASE AcceptJob
  <2>1. "ClientCertificateRenewal" \in ChainEvents \ Early
    BY DEF ChainEvents, Events, Early
  <2>2. /\ eventQueue' = Enqueue(eventQueue, "ClientCertificateRenewal") /\ pc' = "receive"
        /\ UNCHANGED <<csrRequests, revokeRequests, answers, agentVars>>
    BY <1>3 DEF AcceptJob
  <2> QED
    BY <1>2, <2>1, <2>2, LinkRoom DEF InTask, ChainCalls, Asked, Answered, InAgent, agentVars
<1>4. CASE (SubscribeCsr /\ ~Restart) \/ StoreCertificate \/ StorePrivateKey
  <2>1. /\ eventQueue = <<>> /\ UNCHANGED eventQueue /\ pc' # "csr_published"
    BY <1>2, <1>4 DEF SubscribeCsr, StoreCertificate, StorePrivateKey
  <2> QED
    BY <1>2, <2>1 DEF Room
<1>5. CASE RejectJob \/ FailCsr
  <2>1. UNCHANGED <<eventQueue, csrRequests, revokeRequests, answers, agentVars>> /\ pc' = "receive"
    BY <1>5 DEF RejectJob, FailCsr
  <2> QED
    BY <1>2, <2>1 DEF Room, InTask, ChainCalls
<1>6. CASE PublishCsr
  <2>1. /\ eventQueue = <<>> /\ pc' = "csr_published"
        /\ UNCHANGED <<jobStatus, notified, eventQueue, revokeRequests, answers, agentVars>>
    BY <1>2, <1>6 DEF PublishCsr
  <2>2. (\E j \in Jobs : Current(j)') /\ NoRevocation'
    <3>1. \E j \in Jobs : Current(j)
      BY <1>2 DEF RenewalInv, ChainInv, OneJob
    <3> QED
      BY <1>2, <2>1, <3>1 DEF Current, NoRevocation, InAgent, agentVars
  <2> QED
    BY <1>2, <2>1, <2>2 DEF Room, InTask, ChainCalls
<1>7. CASE (RevokeOldCertificate \/ FinishRevoke) /\ ~Restart
  <2>1. /\ eventQueue = <<>> /\ UNCHANGED eventQueue /\ pc' # "csr_published"
    BY <1>2, <1>7 DEF RevokeOldCertificate, FinishRevoke
  <2> QED
    BY <1>2, <2>1 DEF Room
<1>8. CASE FailRenewal \/ Succeed \/ FailRevoke
  <2>1. /\ eventQueue' = Enqueue(eventQueue, "Ready") /\ pc' = "receive"
        /\ UNCHANGED <<csrRequests, revokeRequests, answers, agentVars>>
    BY <1>8, FollowedLemma DEF FailRenewal, Succeed, FailRevoke
  <2>2. "Ready" \in Events \ ChainEvents
    BY DEF Events, ChainEvents
  <2>3. /\ Len(eventQueue') = Len(eventQueue) + 1
        /\ \A f \in ChainEvents : ~Waiting(eventQueue', f)
    BY <1>2, <2>1, <2>2, SendRoom
  <2>4. ~(InTask \/ Asked \/ Answered \/ InAgent)'
    BY <1>2, <2>1 DEF InTask, ChainCalls, Asked, Answered, InAgent, agentVars
  <2> QED
    BY <1>2, <2>1, <2>3, <2>4 DEF Room
<1> QED
  BY <1>3, <1>4, <1>5, <1>6, <1>7, <1>8, RestartedRoom

LEMMA CsrPublishedRoom ==
  ASSUME RenewalInv, Room, QueueLength >= 4, CsrPublished
  PROVE  Room'
<1>1. /\ pc = "csr_published" /\ pc' = "receive"
      /\ eventQueue' = Enqueue(eventQueue, "WaitSignedCertificate")
      /\ UNCHANGED <<cloud, agentVars>>
      /\ "WaitSignedCertificate" \in Events \ ChainEvents
  BY DEF CsrPublished, Events, ChainEvents
<1>2. /\ Len(eventQueue) <= 1 /\ (~InQueue => eventQueue = <<>>)
      /\ \A e \in ChainEvents : Waiting(eventQueue, e) => e \in Early
      /\ ~InTask /\ Len(eventQueue) \in Nat
  BY <1>1 DEF Room, InTask, ChainCalls, RenewalInv, TypeInv, TypeOK
<1>3. /\ Len(eventQueue') = Len(eventQueue) + 1
      /\ \A f : Waiting(eventQueue', f) <=> f = "WaitSignedCertificate" \/ Waiting(eventQueue, f)
  BY <1>1, SendRoom
<1>4. Len(eventQueue') <= 2 /\ Len(eventQueue') \in Nat /\ (~InQueue => Len(eventQueue') <= 1)
  <2>1. eventQueue = <<>> => Len(eventQueue) = 0
    OBVIOUS
  <2> QED
    BY <1>2, <1>3, <2>1
<1>5. /\ ~InTask' /\ UNCHANGED <<Asked, Answered, InAgent>>
      /\ Asked \/ Answered \/ InAgent => ~InQueue
  BY <1>1 DEF InTask, ChainCalls, Asked, Answered, InAgent, cloud, agentVars, RenewalInv,
              ChainInv, OnePlace
<1> QED
  BY <1>1, <1>2, <1>3, <1>4, <1>5 DEF Room

LEMMA NextRoom ==
  ASSUME TimelyEnvironment, QueueLength >= 4, RenewalInv, Room, [Next]_vars
  PROVE  Room'
<1>1. CASE Cloud
  <2>1. ASSUME NEW r \in csrRequests, LambdaSign(r) PROVE Room'
    <3>1. UNCHANGED <<jobStatus, notified, eventQueue, pc, revokeRequests, agentVars>>
      BY <2>1 DEF LambdaSign, task
    <3>2. \A a \in answers' \ answers : a.kind \in {"signed", "rejected", "unparsable"}
      BY <2>1, ConstantsAssumption DEF LambdaSign
    <3>3. Asked
      BY DEF Asked
    <3> QED
      BY <3>1, <3>2, <3>3, OutsideRoom DEF InAgent, NoRevocation, agentVars
  <2>2. ASSUME NEW r \in revokeRequests, LambdaRevoke(r) PROVE Room'
    <3>1. UNCHANGED <<jobStatus, notified, eventQueue, pc>>
      BY <2>2 DEF LambdaRevoke, task
    <3>2. Asked /\ ~NoRevocation
      BY DEF Asked, NoRevocation
    <3> QED
      BY <3>1, <3>2, OutsideRoom
  <2> QED
    BY <1>1, <2>1, <2>2, NotifyNextRoom DEF Cloud
<1>2. CASE \/ LoseMessage \/ NetworkError \/ OtaStream \/ (LateCompletion /\ ~Restart)
           \/ (\E a \in answers : Unheard(a)) \/ UNCHANGED vars
  <2>1. /\ UNCHANGED <<jobStatus, notified, eventQueue, pc>>
        /\ csrRequests' \subseteq csrRequests /\ revokeRequests' \subseteq revokeRequests
        /\ answers' \subseteq answers
        /\ UNCHANGED agentVars \/ (agent' = "exited" /\ UNCHANGED terminates)
    <3>1. CASE LoseMessage
      BY <3>1 DEF LoseMessage, task
    <3>2. CASE NetworkError
      BY <3>2 DEF NetworkError, task, cloud
    <3>3. CASE \E a \in answers : Unheard(a)
      BY <3>3 DEF Unheard, task
    <3>4. CASE UNCHANGED vars
      BY <3>4 DEF vars, task, cloud
    <3>5. CASE OtaStream \/ (LateCompletion /\ ~Restart)
      BY <3>5 DEF OtaStream, LateCompletion, task, cloud
    <3> QED
      BY <1>2, <3>1, <3>2, <3>3, <3>4, <3>5
  <2>2. /\ InAgent' => InAgent
        /\ (Asked \/ Answered)' => Asked \/ Answered
    BY <2>1 DEF InAgent, Asked, Answered, agentVars
  <2>3. NoRevocation => NoRevocation'
    BY <2>1 DEF InAgent, NoRevocation, agentVars
  <2> QED
    BY <2>1, <2>2, <2>3, OutsideRoom
<1>3. CASE HandleTerminate
  <2>1. /\ terminates > 0 /\ UNCHANGED <<cloud, eventQueue, pc>>
    BY <1>3, FollowedLemma DEF HandleTerminate, task
  <2>2. InAgent /\ ~NoRevocation
    BY <2>1 DEF InAgent, NoRevocation
  <2> QED
    BY <2>1, <2>2, OutsideRoom DEF cloud
<1>4. CASE Agent
  BY <1>2, <1>3, <1>4, DeliverRoom, ConnectNewRoom, NoFaultLemma DEF Agent, TimelyEnvironment
<1>5. CASE Task
  BY <1>5, ReceiveIdleRoom, ReceiveRoom, CallRoom, CsrPublishedRoom DEF Task
<1>6. BootFails => UNCHANGED vars
  BY DEF BootFails
<1>7. CASE Crash \/ MQTTFails \/ LateCompletion \/ Boot
  BY <1>2, <1>7, RestartedRoom DEF Crash, MQTTFails
<1>8. \A j \in Jobs : ~JobTimeout(j)
  BY DEF TimelyEnvironment, JobTimeout
<1> QED
  BY <1>1, <1>2, <1>4, <1>5, <1>6, <1>7, <1>8 DEF Next

\* With room for four events no event is dropped, however the callbacks and the
\* renewal task interleave (SendEvent_FreeRTOS; MAX_MESSAGES is 5).
THEOREM RenewalNoEventDropped ==
  ASSUME TimelyEnvironment, QueueLength >= 4
  PROVE  Spec => []NoEventDropped
<1>1. Init => Room
  BY DEF Init, Room, Waiting, InTask, ChainCalls
<1>2. RenewalInv /\ Room /\ [Next]_vars => Room'
  BY NextRoom
<1>3. RenewalInv /\ Room => NoEventDropped
  BY RoomBound, ConstantsAssumption DEF NoEventDropped, RenewalInv, TypeInv, TypeOK
<1> QED
  BY <1>1, <1>2, <1>3, RenewalInvariant, PTL DEF Spec

-----------------------------------------------------------------------------
\* Between two jobs the stored pair connects, when a status report is not lost
\* and a revocation is not refused after it was done in part.  Jobs may time out,
\* which is what the property then excepts.
ReportingEnvironment ==
  /\ Faults \subseteq {"crash", "neterr", "mqtterr", "stream", "jobtimeout"}
  /\ MaxInvocations = 1 /\ RevokeAnswers \subseteq {"revoked"}

Renewing == \E j \in Jobs : jobStatus[j] = "IN_PROGRESS"

\* The chain past the acceptance of its job, and before the new session.
Accepted ==
  \/ \E event \in ChainEvents \ {"ReceivedJobDocument"} : Waiting(eventQueue, event)
  \/ pc \in ChainCalls \ {"accept_job", "reject_job"}
  \/ Asked \/ Answered \/ InAgent
OldEvents == {"ReceivedJobDocument", "ClientCertificateRenewal", "ReceivedSignedCertificate",
              "RejectedCertificateSigningRequest"}
OldCalls == {"accept_job", "reject_job", "subscribe_csr", "publish_csr", "fail_csr",
             "fail_renewal"}
Before ==
  \/ \E event \in OldEvents : Waiting(eventQueue, event)
  \/ pc \in OldCalls
  \/ csrRequests # {}
  \/ \E a \in answers : a.kind \in {"signed", "rejected", "unparsable"}
  \/ terminates > 0

NoRefusal ==
  /\ ~Waiting(eventQueue, "RejectedOldCertificateRevoke") /\ pc # "fail_revoke"
  /\ \A a \in answers : a.kind # "refused"

\* The job in progress is the current one, and there is one while the chain is
\* past its acceptance; the old pair is good until the new session asks.
StoredInv ==
  /\ \A j \in Jobs : jobStatus[j] = "IN_PROGRESS" => Current(j)
  /\ Accepted => Renewing
  /\ Before \/ ~Renewing => Usable(nvsCertificate, nvsPrivateKey)
  /\ Waiting(eventQueue, "ReceivedJobDocument") => jobBuffer \in Jobs /\ Current(jobBuffer)
  /\ pc = "accept_job" => jobId \in Jobs /\ Current(jobId)
  /\ NoRefusal

\* A step that takes the chain no further back and starts nothing.
LEMMA StoredMoved ==
  ASSUME StoredInv, UNCHANGED <<jobStatus, notified, jobBuffer, jobId, nvs>>,
         active \subseteq active',
         Waiting(eventQueue', "ReceivedJobDocument") => Waiting(eventQueue, "ReceivedJobDocument"),
         pc' = "accept_job" => pc = "accept_job",
         Accepted' => Accepted, Before' => Before, NoRefusal'
  PROVE  StoredInv'
<1>1. /\ Renewing' <=> Renewing
      /\ Usable(nvsCertificate, nvsPrivateKey) => Usable(nvsCertificate, nvsPrivateKey)'
      /\ \A j \in Jobs : Current(j) => Current(j)'
  BY DEF Renewing, Current, Usable, nvs
<1> QED
  BY <1>1 DEF StoredInv

LEMMA IdleStored ==
  ASSUME RenewalInv, StoredInv, ReceiveReady \/ ReceiveWait \/ CsrPublished
  PROVE  StoredInv'
<1>1. CASE ReceiveReady \/ ReceiveWait
  <2>1. /\ \E e \in {"Ready", "WaitSignedCertificate"} : Take(e)
        /\ UNCHANGED <<cloud, session, agentVars, pc, buffers, keys, current, pending, nvs>>
    BY <1>1 DEF ReceiveReady, ReceiveWait
  <2>2. \A f : Waiting(eventQueue', f) => Waiting(eventQueue, f)
    BY <2>1, TakeChain
  <2>3. (Accepted' => Accepted) /\ (Before' => Before) /\ NoRefusal'
    BY <2>1, <2>2 DEF Accepted, Before, StoredInv, NoRefusal, Asked, Answered, InAgent, cloud,
                      agentVars
  <2> QED
    BY <2>1, <2>2, <2>3, StoredMoved DEF cloud, buffers
<1>2. CASE CsrPublished
  <2>1. /\ pc' = "receive" /\ eventQueue' = Enqueue(eventQueue, "WaitSignedCertificate")
        /\ UNCHANGED <<cloud, session, agentVars, buffers, keys, current, pending, nvs>>
        /\ "WaitSignedCertificate" \in Events \ ChainEvents
    BY <1>2 DEF CsrPublished, Events, ChainEvents
  <2>2. \A f : Waiting(eventQueue', f) => f = "WaitSignedCertificate" \/ Waiting(eventQueue, f)
    BY <2>1, SendChain
  <2>3. (Accepted' => Accepted) /\ (Before' => Before) /\ NoRefusal'
    BY <2>1, <2>2 DEF Accepted, Before, StoredInv, NoRefusal, Asked, Answered, InAgent, cloud,
                      agentVars, ChainCalls, OldEvents, OldCalls
  <2> QED
    BY <2>1, <2>2, <2>3, StoredMoved DEF cloud, buffers
<1> QED
  BY <1>1, <1>2

LEMMA RestartStored ==
  ASSUME StoredInv, Restart, UNCHANGED cloud
  PROVE  StoredInv'
<1>1. /\ agent' = "boot" /\ terminates' = 0 /\ eventQueue' = <<>> /\ pc' = "off"
      /\ UNCHANGED <<cloud, nvs>>
  BY DEF Restart
<1>2. \A f : ~Waiting(eventQueue', f)
  BY <1>1 DEF Waiting
<1>3. (Accepted' => Accepted) /\ (Before' => Before) /\ NoRefusal'
  BY <1>1, <1>2 DEF Accepted, Before, StoredInv, NoRefusal, Asked, Answered, InAgent, cloud,
                    ChainCalls, OldCalls
<1>4. /\ Renewing' <=> Renewing
      /\ Usable(nvsCertificate, nvsPrivateKey) => Usable(nvsCertificate, nvsPrivateKey)'
      /\ \A j \in Jobs : Current(j) => Current(j)'
  BY <1>1 DEF Renewing, Current, Usable, nvs, cloud
<1> QED
  BY <1>1, <1>2, <1>3, <1>4 DEF StoredInv, cloud

\* The network, and the boot.
LEMMA AgentStored ==
  ASSUME RenewalInv, StoredInv,
         NetworkError \/ OtaStream \/ Boot \/ HandleTerminate \/ ConnectNew
  PROVE  StoredInv'
<1>1. CASE NetworkError \/ OtaStream
  <2>1. /\ agent' \in {agent, "exited"} /\ UNCHANGED <<cloud, terminates, task, buffers, nvs>>
    BY <1>1 DEF NetworkError, OtaStream, agentVars
  <2>2. (Accepted' => Accepted) /\ (Before' => Before) /\ NoRefusal'
    BY <2>1 DEF Accepted, Before, StoredInv, NoRefusal, Asked, Answered, InAgent, cloud, task
  <2> QED
    BY <2>1, <2>2, StoredMoved DEF cloud, task, buffers
<1>2. CASE Boot
  <2>1. /\ agent' = "loop" /\ eventQueue' = <<"Ready">> /\ pc' = "receive"
        /\ UNCHANGED <<cloud, terminates, buffers, nvs>>
    BY <1>2 DEF Boot
  <2>2. \A f : Waiting(eventQueue', f) => f = "Ready"
    BY <2>1 DEF Waiting
  <2>3. (Accepted' => Accepted) /\ (Before' => Before) /\ NoRefusal'
    BY <2>1, <2>2 DEF Accepted, Before, StoredInv, NoRefusal, Asked, Answered, InAgent, cloud,
                      ChainEvents, ChainCalls, OldEvents, OldCalls
  <2> QED
    BY <2>1, <2>2, <2>3, StoredMoved DEF cloud, buffers
<1>3. CASE HandleTerminate
  <2>1. CASE Restart /\ UNCHANGED cloud
    BY <2>1, RestartStored
  <2>2. CASE /\ agent' = "try_new" /\ terminates > 0
             /\ UNCHANGED <<cloud, task, buffers, nvs>>
    <3>1. /\ ~InQueue /\ ~InTask /\ ~Asked /\ ~Answered
      BY <2>2 DEF RenewalInv, ChainInv, OnePlace, InAgent
    <3>2. Accepted /\ Before /\ NoRefusal'
      BY <2>2 DEF Accepted, Before, InAgent, StoredInv, NoRefusal, cloud, task
    <3> QED
      BY <2>2, <3>2, StoredMoved DEF cloud, task, buffers
  <2> QED
    BY <1>3, <2>1, <2>2 DEF HandleTerminate
<1>4. CASE ConnectNew
  <2>1. /\ agent = "try_new" /\ agent' = "loop"
        /\ eventQueue' = Enqueue(eventQueue, "RevokeOldCertificate")
        /\ UNCHANGED <<cloud, terminates, pc, buffers, nvs>>
        /\ "RevokeOldCertificate" \in Events
    BY <1>4 DEF ConnectNew, Reconnected, Events
  <2>2. InAgent /\ ~InQueue
    BY <2>1 DEF RenewalInv, ChainInv, OnePlace, InAgent
  <2>3. \A f : Waiting(eventQueue', f) => f = "RevokeOldCertificate" \/ Waiting(eventQueue, f)
    BY <2>1, <2>2, SendChain
  <2>4. Accepted /\ (Before' => Before) /\ NoRefusal'
    BY <2>1, <2>2, <2>3 DEF Accepted, Before, StoredInv, NoRefusal, cloud, OldEvents
  <2> QED
    BY <2>1, <2>3, <2>4, StoredMoved DEF cloud, buffers
<1> QED
  BY <1>1, <1>2, <1>3, <1>4

\* The Lambdas and the answers.
LEMMA LambdaStored ==
  ASSUME ReportingEnvironment, RenewalInv, StoredInv,
         \/ \E r \in csrRequests : LambdaSign(r)
         \/ \E r \in revokeRequests : LambdaRevoke(r)
  PROVE  StoredInv'
<1>1. Asked /\ Accepted /\ ~Answered /\ ~InQueue /\ ~InTask /\ ~InAgent /\ answers = {}
  BY DEF RenewalInv, ChainInv, OnePlace, Asked, Answered, Accepted
<1>2. CASE \E r \in csrRequests : LambdaSign(r)
  <2>1. PICK r \in csrRequests : LambdaSign(r)
    BY <1>2
  <2>2. /\ active \subseteq active'
        /\ UNCHANGED <<jobStatus, notified, revokeRequests, agentVars, task, buffers, nvs>>
    BY <2>1 DEF LambdaSign
  <2>3. \A a \in answers' : a.kind # "refused"
    BY <1>1, <2>1, ConstantsAssumption DEF LambdaSign
  <2>4. Before /\ NoRefusal'
    BY <2>1, <2>2, <2>3 DEF Before, StoredInv, NoRefusal, task
  <2> QED
    BY <1>1, <2>2, <2>4, StoredMoved DEF task, buffers
<1>3. CASE \E r \in revokeRequests : LambdaRevoke(r)
  <2>1. PICK r \in revokeRequests : LambdaRevoke(r)
    BY <1>3
  <2>2. UNCHANGED <<jobStatus, notified, csrRequests, agentVars, task, buffers, nvs>>
    BY <2>1 DEF LambdaRevoke
  <2>3. \A a \in answers' : a.kind = "revoked"
    BY <1>1, <2>1 DEF LambdaRevoke, ReportingEnvironment
  <2>4. csrRequests = {} /\ ~(terminates > 0) /\ pc \notin OldCalls
        /\ \A event \in OldEvents : ~Waiting(eventQueue, event)
    BY <1>1, <2>1 DEF RenewalInv, ChainInv, OneThere, InAgent, InTask, InQueue, OldCalls,
                      ChainCalls, OldEvents, ChainEvents, Events
  <2>5. ~Before' /\ NoRefusal' /\ Renewing' /\ pc # "accept_job"
        /\ ~Waiting(eventQueue, "ReceivedJobDocument")
    BY <1>1, <2>2, <2>3, <2>4
       DEF Before, StoredInv, NoRefusal, Renewing, task, agentVars, OldCalls, OldEvents
  <2>6. \A j \in Jobs : Current(j) => Current(j)'
    BY <2>2 DEF Current
  <2> QED
    BY <2>2, <2>5, <2>6 DEF StoredInv, task
<1> QED
  BY <1>2, <1>3

LEMMA AnswerStored ==
  ASSUME RenewalInv, StoredInv, NEW a \in answers, Deliver(a) \/ Unheard(a)
  PROVE  StoredInv'
<1>1. Answered /\ Accepted /\ ~InQueue /\ a.kind # "refused" /\ a \in Answers
  BY DEF RenewalInv, TypeInv, TypeOK, ChainInv, OnePlace, Answered, Accepted, StoredInv, NoRefusal
<1>2. CASE Unheard(a)
  <2>1. /\ answers' \subseteq answers
        /\ UNCHANGED <<jobStatus, notified, active, csrRequests, agentVars, task, buffers, nvs>>
    BY <1>2 DEF Unheard
  <2>2. (Before' => Before) /\ NoRefusal'
    BY <2>1 DEF Before, StoredInv, NoRefusal, task, agentVars
  <2> QED
    BY <1>1, <2>1, <2>2, StoredMoved DEF task, buffers
<1>3. CASE Deliver(a)
  <2>1. /\ answers' = answers \ {a} /\ eventQueue' = Enqueue(eventQueue, EventOf(a))
        /\ UNCHANGED <<jobStatus, notified, active, csrRequests, agentVars, pc, jobBuffer, jobId,
                       nvs>>
    BY <1>3 DEF Deliver
  <2>2. /\ EventOf(a) \in Events
        /\ EventOf(a) \notin {"ReceivedJobDocument", "ClientCertificateRenewal",
                              "RejectedOldCertificateRevoke"}
        /\ EventOf(a) \in OldEvents => a.kind \in {"signed", "rejected", "unparsable"}
    BY <1>1 DEF EventOf, Events, OldEvents, Answers, AnswerKinds
  <2>3. \A f : Waiting(eventQueue', f) => f = EventOf(a) \/ Waiting(eventQueue, f)
    BY <1>1, <2>1, <2>2, SendChain
  <2>4. (Before' => Before) /\ NoRefusal'
    <3>1. ASSUME NEW event \in OldEvents, Waiting(eventQueue', event) PROVE Before
      BY <2>2, <2>3, <3>1 DEF Before
    <3>2. NoRefusal'
      BY <2>1, <2>2, <2>3 DEF StoredInv, NoRefusal
    <3> QED
      BY <2>1, <3>1, <3>2 DEF Before, agentVars
  <2> QED
    BY <1>1, <2>1, <2>2, <2>3, <2>4, StoredMoved
<1> QED
  BY <1>2, <1>3

\* A job is announced when there is no other in progress.
LEMMA NotifyStored ==
  ASSUME RenewalInv, StoredInv, NEW j \in Jobs, NotifyNext(j)
  PROVE  StoredInv'
<1>1. ~Chain /\ Current(j)'
  BY NotifyLemma
<1>2. /\ jobStatus[j] = "QUEUED" /\ j \notin notified /\ notified' = notified \cup {j}
      /\ \A i \in Jobs : i < j => jobStatus[i] \in Terminal
      /\ UNCHANGED <<jobStatus, active, csrRequests, revokeRequests, answers, agentVars, pc, jobId,
                     nvs>>
      /\ \/ jobBuffer' = j /\ eventQueue' = Enqueue(eventQueue, "ReceivedJobDocument")
         \/ UNCHANGED <<jobBuffer, eventQueue>>
  BY DEF NotifyNext
<1>3. /\ \A f \in ChainEvents : ~Waiting(eventQueue, f)
      /\ pc \notin ChainCalls /\ ~Asked /\ ~Answered /\ ~InAgent
      /\ {"ReceivedJobDocument", "RejectedOldCertificateRevoke"} \subseteq ChainEvents
  BY <1>1 DEF Chain, InQueue, InTask, ChainEvents, Events
<1>4. \A f : Waiting(eventQueue', f) => f = "ReceivedJobDocument" \/ Waiting(eventQueue, f)
  BY <1>1, <1>2, SendChain DEF Chain, Events
<1>5. ~Renewing
  <2> SUFFICES ASSUME NEW i \in Jobs, jobStatus[i] = "IN_PROGRESS" PROVE FALSE
    BY DEF Renewing
  <2>1. Current(i) /\ i # j /\ "IN_PROGRESS" \notin Terminal /\ "QUEUED" \notin Terminal
    BY <1>2 DEF StoredInv, Terminal
  <2>2. i < j \/ j < i
    BY <2>1, ConstantsAssumption
  <2> QED
    BY <1>2, <2>1, <2>2 DEF Current
<1>6. Usable(nvsCertificate, nvsPrivateKey)'
  BY <1>2, <1>5 DEF StoredInv, Usable, nvs
<1>7. ~Accepted'
  BY <1>2, <1>3, <1>4 DEF Accepted, Asked, Answered, InAgent, agentVars
<1>8. NoRefusal'
  BY <1>2, <1>3, <1>4 DEF StoredInv, NoRefusal
<1>9. \A i \in Jobs : Current(i) => Current(i)'
  BY <1>2 DEF Current
<1>10. Waiting(eventQueue', "ReceivedJobDocument") => jobBuffer' = j
  BY <1>2, <1>3
<1> QED
  BY <1>1, <1>2, <1>3, <1>6, <1>7, <1>8, <1>9, <1>10 DEF StoredInv, ChainCalls

\* A handler takes an event that is past the acceptance of the job.
LEMMA HandlerStored ==
  ASSUME RenewalInv, StoredInv, NEW e \in ChainEvents, Take(e), e # "ReceivedJobDocument",
         UNCHANGED <<jobStatus, notified, active, csrRequests, answers, jobBuffer, jobId, nvs>>,
         pc' \notin {"accept_job", "fail_revoke"},
         pc' \in OldCalls \/ terminates' > 0 => e \in OldEvents
  PROVE  StoredInv'
<1>1. /\ Waiting(eventQueue, e)
      /\ \A f : Waiting(eventQueue', f) => Waiting(eventQueue, f)
  BY TakeChain
<1>2. Accepted /\ NoRefusal'
  BY <1>1 DEF Accepted, StoredInv, NoRefusal
<1>3. Before' => Before
  BY <1>1 DEF Before
<1> QED
  BY <1>1, <1>2, <1>3, StoredMoved

LEMMA ReceiveStored ==
  ASSUME RenewalInv, StoredInv,
         \/ ReceiveRenewal \/ ReceiveSigned \/ ReceiveFailure \/ ReceiveRevokeOld \/ ReceiveAccepted
  PROVE  StoredInv'
<1>1. {"ClientCertificateRenewal", "ReceivedSignedCertificate", "RevokeOldCertificate",
       "AcceptedOldCertificateRevoke"} \subseteq ChainEvents \ {"ReceivedJobDocument"}
  BY DEF ChainEvents, Events
<1>2. CASE ReceiveRenewal
  BY <1>1, <1>2, HandlerStored DEF ReceiveRenewal, cloud, nvs, OldEvents
<1>3. CASE ReceiveSigned
  <2>1. dataBuffer.kind \in {"signed", "unparsable"}
    BY <1>3, FollowedLemma DEF ReceiveSigned
  <2>2. /\ Take("ReceivedSignedCertificate") /\ pc' \in {pc, "fail_renewal"} /\ pc = "receive"
        /\ UNCHANGED <<cloud, jobBuffer, jobId, nvs>>
    BY <1>3, <2>1 DEF ReceiveSigned, Take, buffers
  <2> QED
    BY <1>1, <2>2, HandlerStored DEF cloud, OldEvents
<1>4. CASE ReceiveFailure
  <2>1. PICK e \in DOMAIN FailureCall : Take(e) /\ pc' = FailureCall[e]
    BY <1>4 DEF ReceiveFailure
  <2>2. /\ e \in ChainEvents \ {"ReceivedJobDocument"}
        /\ UNCHANGED <<cloud, agentVars, buffers, nvs>>
    BY <1>4, <2>1 DEF ReceiveFailure, FailureCall, ChainEvents, Events
  <2>3. Waiting(eventQueue, e) /\ InQueue
    BY <2>1, <2>2, TakeChain
  <2>4. e # "RejectedSignedCertificate"
    BY <2>2, <2>3 DEF RenewalInv, ChainInv, OldSession, NewSession, Stale
  <2>5. e = "RejectedCertificateSigningRequest" /\ pc' = "fail_csr"
    BY <2>1, <2>3, <2>4 DEF FailureCall, StoredInv, NoRefusal
  <2> QED
    BY <2>1, <2>2, <2>5, HandlerStored DEF cloud, buffers, OldEvents
<1>5. CASE ReceiveRevokeOld \/ ReceiveAccepted
  <2>1. PICK e \in {"RevokeOldCertificate", "AcceptedOldCertificateRevoke"} :
          Take(e) /\ pc' \in {"revoke", "finish_revoke"}
    BY <1>5 DEF ReceiveRevokeOld, ReceiveAccepted
  <2>2. UNCHANGED <<cloud, agentVars, buffers, nvs>> /\ ~InAgent
    BY <1>1, <1>5, <2>1, TakeLink DEF ReceiveRevokeOld, ReceiveAccepted
  <2> QED
    BY <1>1, <2>1, <2>2, HandlerStored DEF cloud, agentVars, buffers, InAgent, OldCalls
<1> QED
  BY <1>2, <1>3, <1>4, <1>5

LEMMA ReceiveJobDocumentStored ==
  ASSUME RenewalInv, StoredInv, ReceiveJobDocument, jobBuffer \notin Incomplete
  PROVE  StoredInv'
<1>1. /\ Take("ReceivedJobDocument") /\ "ReceivedJobDocument" \in ChainEvents
      /\ pc' \in {"accept_job", "reject_job"} /\ (pc' = "accept_job" => jobId' = jobBuffer)
      /\ UNCHANGED <<cloud, agentVars, jobBuffer, nvs>>
  BY DEF ReceiveJobDocument, ChainEvents, Events
<1>2. /\ ~Asked /\ ~Answered /\ ~InAgent /\ Waiting(eventQueue, "ReceivedJobDocument")
      /\ \A f \in ChainEvents : ~Waiting(eventQueue', f)
  BY <1>1, TakeLink
<1>3. ~Accepted' /\ NoRefusal'
  BY <1>1, <1>2 DEF Accepted, Asked, Answered, InAgent, StoredInv, NoRefusal, cloud, agentVars,
                    ChainEvents, Events
<1>4. Usable(nvsCertificate, nvsPrivateKey)'
  BY <1>1, <1>2 DEF StoredInv, Before, OldEvents, Usable, cloud, nvs
<1>5. jobBuffer \in Jobs /\ Current(jobBuffer) /\ \A j \in Jobs : Current(j) => Current(j)'
  BY <1>1, <1>2 DEF StoredInv, Current, cloud
<1> QED
  BY <1>1, <1>2, <1>3, <1>4, <1>5 DEF StoredInv, cloud

\* The calls of a renewal that is under way.
LEMMA CallStored ==
  ASSUME RenewalInv, StoredInv,
         SubscribeCsr \/ PublishCsr \/ RevokeOldCertificate \/ FinishRevoke
  PROVE  StoredInv'
<1>1. CASE SubscribeCsr /\ ~Restart
  <2>1. /\ pc = "subscribe_csr" /\ pc' = "publish_csr"
        /\ UNCHANGED <<cloud, agentVars, eventQueue, buffers, nvs>>
    BY <1>1 DEF SubscribeCsr
  <2>2. Accepted /\ Before /\ NoRefusal'
    BY <2>1 DEF Accepted, Before, ChainCalls, OldCalls, StoredInv, NoRefusal, cloud
  <2> QED
    BY <2>1, <2>2, StoredMoved DEF cloud, buffers
<1>2. CASE PublishCsr
  <2>1. /\ pc = "publish_csr" /\ pc' = "csr_published"
        /\ UNCHANGED <<jobStatus, notified, active, answers, eventQueue, buffers, nvs>>
    BY <1>2 DEF PublishCsr
  <2>2. Accepted /\ Before /\ NoRefusal'
    BY <2>1 DEF Accepted, Before, ChainCalls, OldCalls, StoredInv, NoRefusal
  <2> QED
    BY <2>1, <2>2, StoredMoved DEF buffers
<1>3. CASE RevokeOldCertificate \/ FinishRevoke
  <2>1. CASE Restart /\ UNCHANGED cloud
    BY <2>1, RestartStored
  <2>2. CASE /\ pc \in {"revoke", "finish_revoke"} /\ pc' \in {"receive", "store_certificate"}
             /\ UNCHANGED <<jobStatus, notified, active, csrRequests, answers, agentVars,
                            eventQueue, jobBuffer, jobId, nvs>>
    <3>1. Accepted /\ (Before' => Before) /\ NoRefusal'
      BY <2>2 DEF Accepted, Before, ChainCalls, OldCalls, StoredInv, NoRefusal, agentVars
    <3> QED
      BY <2>2, <3>1, StoredMoved
  <2> QED
    BY <1>3, <2>1, <2>2 DEF RevokeOldCertificate, FinishRevoke, cloud
<1>4. SubscribeCsr => UNCHANGED cloud
  BY DEF SubscribeCsr
<1> QED
  BY <1>1, <1>2, <1>3, <1>4, RestartStored

\* The old pair is overwritten while its job is in progress.
LEMMA StoreStored ==
  ASSUME RenewalInv, StoredInv, StoreCertificate \/ StorePrivateKey
  PROVE  StoredInv'
<1>1. /\ pc \in {"store_certificate", "store_key"} /\ pc' \in {"store_key", "succeed"}
      /\ UNCHANGED <<cloud, agentVars, eventQueue, buffers>>
  BY DEF StoreCertificate, StorePrivateKey
<1>2. /\ pc \in ChainCalls /\ Accepted
  BY <1>1 DEF Accepted, ChainCalls
<1>3. /\ csrRequests = {} /\ answers = {} /\ terminates = 0
      /\ \A f \in ChainEvents : ~Waiting(eventQueue, f)
  BY <1>2, CallLemma
<1>4. ~Before' /\ NoRefusal'
  BY <1>1, <1>3 DEF Before, NoRefusal, OldEvents, OldCalls, ChainEvents, Events, cloud, agentVars
<1>5. Renewing' /\ \A j \in Jobs : Current(j) => Current(j)'
  BY <1>1, <1>2 DEF StoredInv, Renewing, Current, cloud
<1> QED
  BY <1>1, <1>4, <1>5 DEF StoredInv, cloud, buffers

\* The update arrives, and the job that is accepted is in progress.
LEMMA AcceptStored ==
  ASSUME ReportingEnvironment, RenewalInv, StoredInv, AcceptJob
  PROVE  StoredInv'
<1>1. /\ pc = "accept_job" /\ pc \in ChainCalls /\ pc \in OldCalls /\ pc' = "receive"
      /\ eventQueue' = Enqueue(eventQueue, "ClientCertificateRenewal")
      /\ UNCHANGED <<notified, active, csrRequests, answers, agentVars, buffers, nvs>>
      /\ "ClientCertificateRenewal" \in Events
  BY DEF AcceptJob, ChainCalls, OldCalls, Events
<1>2. /\ jobId \in Jobs /\ Current(jobId)
      /\ jobStatus' = [jobStatus EXCEPT ![jobId] = "IN_PROGRESS"]
  <2>1. abandoned' = 0 /\ notification = "none"
    BY <1>1, CallLemma, CalmLemma DEF AcceptJob, OldSession, Calm, leftover
  <2> QED
    BY <1>1, <2>1 DEF AcceptJob, UpdateJob, MayBeLost, ReportingEnvironment, StoredInv, Current
<1>3. /\ ~InQueue
      /\ \A f \in ChainEvents : ~Waiting(eventQueue, f)
  BY <1>1, CallLemma
<1>4. \A f : Waiting(eventQueue', f) => f = "ClientCertificateRenewal" \/ Waiting(eventQueue, f)
  BY <1>1, <1>3, SendChain
<1>5. Renewing' /\ \A j \in Jobs : jobStatus'[j] = "IN_PROGRESS" => Current(j)
  BY <1>2 DEF StoredInv, Renewing, RenewalInv, TypeInv, TypeOK
<1>6. \A j \in Jobs : Current(j) => Current(j)'
  BY <1>1, InProgressLemma DEF AcceptJob
<1>7. Usable(nvsCertificate, nvsPrivateKey)'
  BY <1>1 DEF StoredInv, Before, Usable, nvs
<1>8. NoRefusal' /\ ~Waiting(eventQueue', "ReceivedJobDocument")
  BY <1>1, <1>3, <1>4 DEF StoredInv, NoRefusal, ChainEvents, Events
<1> QED
  BY <1>1, <1>5, <1>6, <1>7, <1>8 DEF StoredInv

\* The chain and its job end, with a stored pair that is good.
LEMMA EndStored ==
  ASSUME RenewalInv, StoredInv, NEW status \in Terminal, UpdateJob(status),
         pc \in ChainCalls, pc' = "receive",
         \A f \in ChainEvents : ~Waiting(eventQueue', f),
         UNCHANGED <<notified, active, csrRequests, revokeRequests, answers, agentVars, nvs>>,
         Usable(nvsCertificate, nvsPrivateKey)
  PROVE  StoredInv'
<1>1. ~Asked /\ ~Answered /\ ~InAgent
  BY CallLemma
<1>2. ~Accepted' /\ NoRefusal'
  BY <1>1 DEF Accepted, Asked, Answered, InAgent, StoredInv, NoRefusal, ChainCalls, agentVars,
              ChainEvents, Events
<1>3. Usable(nvsCertificate, nvsPrivateKey)'
  BY DEF Usable, nvs
<1>4. ASSUME NEW j \in Jobs, jobStatus'[j] = "IN_PROGRESS" PROVE Current(j)'
  <2>1. /\ jobStatus \in [Jobs -> Terminal \cup {"QUEUED", "IN_PROGRESS"}]
        /\ "IN_PROGRESS" \notin Terminal
    BY DEF RenewalInv, TypeInv, TypeOK, Terminal
  <2>2. /\ jobStatus[j] = "IN_PROGRESS"
        /\ \A i \in Jobs : jobStatus[i] \in Terminal => jobStatus'[i] \in Terminal
    BY <1>4, <2>1 DEF UpdateJob
  <2>3. Current(j)
    BY <2>2 DEF StoredInv
  <2> QED
    BY <1>4, <2>1, <2>2, <2>3 DEF Current
<1>5. ~Waiting(eventQueue', "ReceivedJobDocument")
  BY DEF ChainEvents, Events
<1> QED
  BY <1>2, <1>3, <1>4, <1>5 DEF StoredInv

LEMMA ReportStored ==
  ASSUME RenewalInv, StoredInv, RejectJob \/ FailCsr \/ FailRenewal \/ Succeed \/ FailRevoke
  PROVE  StoredInv'
<1>1. {"REJECTED", "FAILED", "SUCCEEDED"} \subseteq Terminal
  BY DEF Terminal
<1>2. CASE RejectJob \/ FailCsr
  <2>1. /\ pc \in ChainCalls /\ pc \in OldCalls /\ pc' = "receive"
        /\ \E status \in Terminal : UpdateJob(status)
        /\ UNCHANGED <<notified, active, csrRequests, revokeRequests, answers, agentVars,
                       eventQueue, nvs>>
    BY <1>1, <1>2 DEF RejectJob, FailCsr, ChainCalls, OldCalls
  <2>2. \A f \in ChainEvents : ~Waiting(eventQueue', f)
    BY <2>1, CallLemma
  <2>3. Usable(nvsCertificate, nvsPrivateKey)
    BY <2>1 DEF StoredInv, Before
  <2> QED
    BY <2>1, <2>2, <2>3, EndStored
<1>3. CASE FailRenewal \/ Succeed
  <2>1. /\ pc \in ChainCalls /\ pc \in {"fail_renewal", "succeed"}
        /\ \E status \in Terminal : UpdateJob(status)
        /\ UNCHANGED <<notified, active, csrRequests, revokeRequests, answers>>
    BY <1>1, <1>3 DEF FailRenewal, Succeed, ChainCalls
  <2>2. /\ pc' = "receive" /\ eventQueue' = Enqueue(eventQueue, "Ready")
        /\ UNCHANGED <<agentVars, nvs>>
    BY <1>3, <2>1, FollowedLemma DEF FailRenewal, Succeed
  <2>3. \A f \in ChainEvents : ~Waiting(eventQueue', f)
    BY <2>1, <2>2, CallEnds
  <2>4. Usable(nvsCertificate, nvsPrivateKey)
    <3>1. CASE pc = "fail_renewal"
      BY <3>1 DEF StoredInv, Before, OldCalls
    <3>2. CASE pc = "succeed"
      <4>1. NewSession
        BY <2>1, <3>2 DEF RenewalInv, ChainInv, OldSession, Stale, InTask
      <4> QED
        BY <3>2, <4>1 DEF NewSession, Usable
    <3> QED
      BY <2>1, <3>1, <3>2
  <2> QED
    BY <2>1, <2>2, <2>3, <2>4, EndStored
<1>4. ~FailRevoke
  BY DEF FailRevoke, StoredInv, NoRefusal
<1> QED
  BY <1>2, <1>3, <1>4

LEMMA NextStored ==
  ASSUME ReportingEnvironment, RenewalInv, StoredInv, [Next]_vars, \A j \in Jobs : ~JobTimeout(j)
  PROVE  StoredInv'
<1>1. ProvenEnvironment /\ ~LoseMessage /\ ~LateCompletion
  BY DEF ReportingEnvironment, ProvenEnvironment, LoseMessage, LateCompletion, RenewalInv, Quiet
<1>2. CASE Cloud
  BY <1>2, NotifyStored, LambdaStored DEF Cloud
<1>3. CASE Agent
  BY <1>1, <1>3, AnswerStored, AgentStored, NoFaultLemma DEF Agent
<1>4. CASE Task
  <2>1. ReceiveJobDocument => StoredInv'
    BY ReceiveJobDocumentStored, RestartStored DEF ReceiveJobDocument
  <2> QED
    BY <1>4, <2>1, IdleStored, ReceiveStored, CallStored, StoreStored, AcceptStored, ReportStored
       DEF Task
<1>5. CASE NetworkError \/ OtaStream \/ Boot
  BY <1>5, AgentStored
<1>6. CASE Crash \/ MQTTFails
  BY <1>6, RestartStored DEF Crash, MQTTFails
<1>7. CASE BootFails \/ UNCHANGED vars
  <2>1. UNCHANGED <<cloud, agentVars, task, buffers, nvs>>
    BY <1>7 DEF BootFails, vars
  <2>2. (Accepted' => Accepted) /\ (Before' => Before) /\ NoRefusal'
    BY <2>1 DEF Accepted, Before, StoredInv, NoRefusal, Asked, Answered, InAgent, cloud, task,
                agentVars
  <2> QED
    BY <2>1, <2>2, StoredMoved DEF cloud, task, buffers
<1> QED
  BY <1>1, <1>2, <1>3, <1>4, <1>5, <1>6, <1>7 DEF Next

\* Some job's five minutes are over; the cloud keeps that for good.
SomeTimedOut == \E j \in Jobs : jobStatus[j] = "TIMED_OUT"

LEMMA TimedOutLemma ==
  ASSUME TypeInv, [Next]_vars, SomeTimedOut \/ \E j \in Jobs : JobTimeout(j)
  PROVE  SomeTimedOut'
<1>1. jobStatus \in [Jobs -> Terminal \cup {"QUEUED", "IN_PROGRESS"}] /\ "TIMED_OUT" \in Terminal
  BY DEF TypeInv, TypeOK, Terminal
<1>2. ASSUME SomeTimedOut, UNCHANGED jobStatus PROVE SomeTimedOut'
  BY <1>2 DEF SomeTimedOut
<1>3. ASSUME SomeTimedOut, NEW status, UpdateJob(status) PROVE SomeTimedOut'
  BY <1>1, <1>3 DEF SomeTimedOut, UpdateJob
<1>4. ASSUME NEW j \in Jobs, JobTimeout(j) PROVE SomeTimedOut'
  BY <1>1, <1>4 DEF SomeTimedOut, JobTimeout
<1>5. CASE Cloud \/ LoseMessage \/ BootFails \/ UNCHANGED vars
  BY <1>2, <1>4, <1>5 DEF Cloud, NotifyNext, LambdaSign, LambdaRevoke, LoseMessage, BootFails,
                          vars, cloud
<1>6. CASE \/ Agent \/ NetworkError \/ MQTTFails \/ LateCompletion \/ OtaStream \/ Crash \/ Boot
  BY <1>2, <1>4, <1>6
     DEF Agent, Deliver, Unheard, HandleTerminate, ConnectNew, FallBack, ConnectOld,
         ConnectOldFails, Reconnected, NetworkError, MQTTFails, LateCompletion, OtaStream,
         Crash, Boot, cloud
<1>7. CASE \/ ReceiveReady \/ ReceiveJobDocument \/ ReceiveRenewal \/ ReceiveWait
           \/ ReceiveSigned \/ ReceiveFailure \/ ReceiveRevokeOld \/ ReceiveAccepted
           \/ SubscribeCsr \/ PublishCsr \/ CsrPublished \/ RevokeOldCertificate
           \/ FinishRevoke \/ StoreCertificate \/ StorePrivateKey
  BY <1>2, <1>4, <1>7
     DEF ReceiveReady, ReceiveJobDocument, ReceiveRenewal, ReceiveWait, ReceiveSigned,
         ReceiveFailure, ReceiveRevokeOld, ReceiveAccepted, SubscribeCsr, PublishCsr,
         CsrPublished, RevokeOldCertificate, FinishRevoke, StoreCertificate, StorePrivateKey,
         cloud
<1>8. CASE AcceptJob \/ RejectJob \/ FailCsr \/ FailRenewal \/ Succeed \/ FailRevoke
  <2>1. \E status \in Terminal \cup {"IN_PROGRESS"} : UpdateJob(status)
    BY <1>8 DEF AcceptJob, RejectJob, FailCsr, FailRenewal, Succeed, FailRevoke, Terminal
  <2> QED
    BY <1>3, <1>4, <2>1
<1> QED
  BY <1>4, <1>5, <1>6, <1>7, <1>8 DEF Next, Task

\* Whenever no job is in progress and none has timed out the stored pair connects,
\* for any number of renewals and of resets (prvStoreNewCredentials,
\* SendUpdateForJob): the window in which a reset locks the device out is inside a
\* job, which the five minutes of certificate_renewal_request.py may close first.
THEOREM ReportedRestartable ==
  ASSUME ReportingEnvironment
  PROVE  Spec => []RestartableBetweenJobs
<1> DEFINE Kept == TypeInv /\ (SomeTimedOut \/ (RenewalInv /\ StoredInv))
<1>1. Init => Kept
  <2> SUFFICES ASSUME Init PROVE RenewalInv /\ StoredInv
    BY DEF RenewalInv
  <2>1. /\ \A f : ~Waiting(eventQueue, f)
        /\ ~Asked /\ ~Answered /\ ~InAgent /\ pc = "off" /\ answers = {}
    BY DEF Init, Waiting, Asked, Answered, InAgent
  <2>2. ~Accepted /\ NoRefusal
    BY <2>1 DEF Accepted, NoRefusal, ChainCalls
  <2>3. Usable(nvsCertificate, nvsPrivateKey)
    BY DEF Init, Usable, FirstCertificate
  <2>4. \A j \in Jobs : jobStatus[j] # "IN_PROGRESS"
    BY DEF Init
  <2>5. RenewalInv
    BY InitTypeInv, InitChain DEF RenewalInv, Init, Quiet
  <2> QED
    BY <2>1, <2>2, <2>3, <2>4, <2>5 DEF StoredInv
<1>2. Kept /\ [Next]_vars => Kept'
  <2> SUFFICES ASSUME Kept, [Next]_vars PROVE Kept'
    OBVIOUS
  <2>1. TypeInv'
    BY NextTypeInv
  <2>2. CASE SomeTimedOut \/ \E j \in Jobs : JobTimeout(j)
    BY <2>1, <2>2, TimedOutLemma
  <2>3. CASE ~SomeTimedOut /\ \A j \in Jobs : ~JobTimeout(j)
    <3>1. ProvenEnvironment
      BY DEF ReportingEnvironment, ProvenEnvironment
    <3> QED
      BY <2>1, <2>3, <3>1, NextQuiet, NextChain, NextStored DEF RenewalInv
  <2> QED
    BY <2>2, <2>3
<1>3. Kept => RestartableBetweenJobs
  BY DEF SomeTimedOut, StoredInv, Renewing, RestartableBetweenJobs
<1> QED
  BY <1>1, <1>2, <1>3, PTL DEF Spec
=============================================================================
