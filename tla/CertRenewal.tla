---------------------------- MODULE CertRenewal ----------------------------
(***************************************************************************)
(* The renewal of the client certificate: the event loop of the renewal    *)
(* agent (cert_renew_agent/src/main.c), the part of the MQTT agent task    *)
(* that reconnects with the new certificate and falls back to the stored   *)
(* one (mqtt_agent/src), the credentials in RAM and in NVS, the session's  *)
(* subscriptions, the AWS IoT job that asks for the renewal, and the two   *)
(* Lambdas that sign and revoke (Terraform/certificate_renewal, certificate_revocation).     *)
(*                                                                         *)
(* A handler is split where it blocks in PublishToTopic, SubscribeToTopic  *)
(* or UnSubscribeToTopic and its order against the callbacks matters: pc   *)
(* names the call the task is blocked in.  Such a call completes only      *)
(* while the MQTT agent runs its command loop.  Events carry no payload:   *)
(* the code passes pointers to the shared dataBuffers[0] and jobBuffers.   *)
(*                                                                         *)
(* UnSubscribeToTopic alone gives up, after ten seconds.  The caller frees *)
(* its filters all the same, so that the elements of the list they were in *)
(* match nothing, or still their topics, and keep their places; and the    *)
(* agent completes the command when the caller's frame is gone.            *)
(*                                                                         *)
(* A certificate is the key pair it was issued for and the invocation of   *)
(* the signing Lambda that issued it; key 0 is the pair made onboarding.   *)
(***************************************************************************)
EXTENDS Naturals, Sequences, FiniteSets

CONSTANTS
  Jobs,           \* the jobs the cloud creates for this device, 1 .. n in order
  ClientJobs,     \* those that ask to rotate the "client" certificate
  Incomplete,     \* those whose document lacks the operation or the certName
  MaxKeys,        \* bound on the key pairs generated for CSRs
  MaxInvocations, \* runs of a Lambda per request (asynchronous: at least once)
  QueueLength,    \* MAX_MESSAGES of the event queue
  ListSize,       \* SUBSCRIPTION_MANAGER_MAX_SUBSCRIPTIONS
  Faults,         \* what the environment may do: a subset of FaultKinds
  CsrAnswers,     \* outcomes of the signing Lambda
  RevokeAnswers,  \* outcomes of the revoking Lambda
  None,           \* NULL, or nothing there yet
  Freed           \* a pointer to memory that has been freed

\* A reset from outside; a lost message; a TLS handshake, the connection, or an
\* MQTT packet on a connection that is up, that fails; the job's time is over; an
\* unsubscription is not acknowledged in time; the OTA agent downloads an image.
FaultKinds == {"crash", "loss", "tls", "neterr", "mqtterr", "jobtimeout", "giveup", "stream"}
AnswerKinds == {"signed", "rejected", "unparsable", "revoked", "refused"}

ASSUME ConstantsAssumption ==
  /\ Jobs \subseteq Nat /\ ClientJobs \subseteq Jobs /\ Incomplete \subseteq Jobs
  /\ MaxKeys \in Nat /\ MaxInvocations \in Nat \ {0}
  /\ QueueLength \in Nat \ {0} /\ ListSize \in Nat \ {0}
  /\ Faults \subseteq FaultKinds
  /\ CsrAnswers \subseteq {"signed", "rejected", "unparsable"}
  /\ RevokeAnswers \subseteq {"revoked", "refused"}

\* NULL and a dangling pointer are told apart from every value pointed to.
ASSUME PointersAssumption ==
  /\ None # Freed
  /\ None \notin Nat
  /\ {None, Freed} \cap {"csr", "revoke"} = {}
  /\ {None, Freed} \cap [key : Nat, copy : Nat] = {}
  /\ None \notin [kind : AnswerKinds, cert : [key : Nat, copy : Nat]]

VARIABLES
  jobStatus,      \* AWS IoT Jobs: the execution status of each job
  notified,       \* jobs whose notify-next message has been published
  active,         \* certificates that are ACTIVE and attached to the thing
  csrRequests,    \* CSRs on their way to the signing Lambda
  revokeRequests, \* revocations on their way to the revoking Lambda
  answers,        \* Lambda answers on their way to the broker
  brokerSubs,     \* topics the broker holds for the current (clean) session
  routes,         \* topics in the device's subscription list
  givenUp,        \* the answers whose unsubscription was given up since the reset
  taken,          \* places in the list of their freed filters and of OTA streams
  abandoned,      \* commands of the task that its calls left behind in the agent
  notification,   \* a notification of the task that it did not wait for
  agent,          \* what the MQTT agent task is doing
  terminates,     \* TERMINATE commands waiting in the agent's command queue
  eventQueue,     \* xCertRenewEventQueue
  pc,             \* the renewal task: waiting for an event, or in which call
  currentState,
  jobBuffer,      \* jobBuffers[0]
  jobId,          \* globalJobId
  dataBuffer,     \* dataBuffers[0]
  topicFilters,   \* what the two topic_filters pointers point to
  certificateId,
  keys,           \* number of key pairs generated
  certificate, privateKey, newCertificate, newPrivateKey, \* AWSConnectSettings
  nvsCertificate, nvsPrivateKey

cloud == <<jobStatus, notified, active, csrRequests, revokeRequests, answers>>
leftover == <<givenUp, taken, abandoned, notification>>
session == <<brokerSubs, routes, leftover>>
agentVars == <<agent, terminates>>
task == <<eventQueue, pc, currentState>>
buffers == <<jobBuffer, jobId, dataBuffer, topicFilters, certificateId>>
current == <<certificate, privateKey>>
pending == <<newCertificate, newPrivateKey>>
nvs == <<nvsCertificate, nvsPrivateKey>>
vars == <<cloud, session, agentVars, task, buffers, keys, current, pending, nvs>>

Keys == 0 .. MaxKeys
Certificates == [key : Keys, copy : 1 .. MaxInvocations]
FirstCertificate == [key |-> 0, copy |-> 1]
Terminal == {"SUCCEEDED", "FAILED", "REJECTED", "TIMED_OUT"}

\* The topic of new jobs, and the two topics on which a Lambda answers.
NotifyTopic == <<"jobs", "notify-next">>
AnswerTopics(api) == {<<api, "accepted">>, <<api, "rejected">>}
Topics == {NotifyTopic} \cup AnswerTopics("csr") \cup AnswerTopics("revoke")

\* AWS IoT accepts a TLS handshake with this pair.
Usable(cert, key) == cert \in active /\ cert.key = key

\* Mutant: the event is sent again when the queue took it.
EnqueueTwice(queue, event) ==
  IF Len(queue) < QueueLength THEN queue \o <<event, event>> ELSE queue

\* SendEvent_FreeRTOS: with no ticks to wait, a full queue drops the event.
Enqueue(queue, event) ==
  IF Len(queue) < QueueLength THEN Append(queue, event) ELSE queue

(***************************************************************************)
(* What the cloud does.                                                    *)
(***************************************************************************)

\* A request is consumed, or kept for the Lambda's next invocation.
Invoked(requests, r) ==
  (requests \ {r}) \cup
     (IF r.try < MaxInvocations THEN {[r EXCEPT !.try = @ + 1]} ELSE {})

\* The oldest unfinished job is announced once on notify-next.  A device that
\* is not subscribed never hears of it.
NotifyNext(j) ==
  /\ jobStatus[j] = "QUEUED" /\ j \notin notified
  /\ \A i \in Jobs : i < j => jobStatus[i] \in Terminal
  /\ agent # "boot"
  /\ notified' = notified \cup {j}
  /\ IF agent = "loop" /\ NotifyTopic \in brokerSubs \cap routes
     THEN /\ jobBuffer' = j
          /\ eventQueue' = Enqueue(eventQueue, "ReceivedJobDocument")
     ELSE UNCHANGED <<jobBuffer, eventQueue>>
  /\ UNCHANGED <<jobStatus, active, csrRequests, revokeRequests, answers, session,
                 agentVars, pc, currentState, jobId, dataBuffer, topicFilters,
                 certificateId, keys, current, pending, nvs>>

\* inProgressTimeoutInMinutes of the job.
JobTimeout(j) ==
  /\ "jobtimeout" \in Faults
  /\ jobStatus[j] = "IN_PROGRESS"
  /\ jobStatus' = [jobStatus EXCEPT ![j] = "TIMED_OUT"]
  /\ UNCHANGED <<notified, active, csrRequests, revokeRequests, answers, session,
                 agentVars, task, buffers, keys, current, pending, nvs>>

\* The signing Lambda activates and attaches the certificate, then answers; a
\* request AWS rejects may have come that far.
LambdaSign(r) ==
  /\ csrRequests' = Invoked(csrRequests, r)
  /\ LET cert == [key |-> r.key, copy |-> r.try] IN
     \E kind \in CsrAnswers :
       /\ \/ active' = active \cup {cert}
          \/ kind = "rejected" /\ active' = active
       /\ answers' = answers \cup {[kind |-> kind, cert |-> cert]}
  /\ UNCHANGED <<jobStatus, notified, revokeRequests, session, agentVars, task,
                 buffers, keys, current, pending, nvs>>

\* Mutant: the named certificate is the one that gets revoked.
LambdaRevokesNamed(r) ==
  /\ revokeRequests' = Invoked(revokeRequests, r)
  /\ active' = active \ {r.cert}
  /\ answers' = answers \cup {[kind |-> "revoked", cert |-> [key |-> 0, copy |-> r.try]]}
  /\ UNCHANGED <<jobStatus, notified, csrRequests, session, agentVars, task,
                 buffers, keys, current, pending, nvs>>

\* The revoking Lambda revokes, detaches and deletes every principal of the
\* thing but the named one; a request AWS refuses may have done part of it.
LambdaRevoke(r) ==
  /\ revokeRequests' = Invoked(revokeRequests, r)
  /\ \E kind \in RevokeAnswers :
       /\ \/ active' = active \cap {r.cert}
          \/ kind = "refused" /\ \E revoked \in SUBSET (active \ {r.cert}) :
                                   active' = active \ revoked
       /\ answers' = answers \cup {[kind |-> kind, cert |-> [key |-> 0, copy |-> r.try]]}
  /\ UNCHANGED <<jobStatus, notified, csrRequests, session, agentVars, task,
                 buffers, keys, current, pending, nvs>>

\* Everything is QoS 0: a request or an answer may be lost.
LoseMessage ==
  /\ "loss" \in Faults
  /\ \/ \E r \in csrRequests : csrRequests' = csrRequests \ {r}
        /\ UNCHANGED <<revokeRequests, answers>>
     \/ \E r \in revokeRequests : revokeRequests' = revokeRequests \ {r}
        /\ UNCHANGED <<csrRequests, answers>>
     \/ \E a \in answers : answers' = answers \ {a}
        /\ UNCHANGED <<csrRequests, revokeRequests>>
  /\ UNCHANGED <<jobStatus, notified, active, session, agentVars, task, buffers,
                 keys, current, pending, nvs>>

(***************************************************************************)
(* The MQTT agent task.                                                    *)
(***************************************************************************)

\* SubscriptionManager_HandleIncomingPublishes finds a callback: a freed filter
\* may still be one for its topic.
Heard(topic) == topic \in brokerSubs /\ (topic \in routes \/ topic[1] \in givenUp)

TopicOf(a) ==
  CASE a.kind = "rejected" -> <<"csr", "rejected">>
    [] a.kind = "revoked"  -> <<"revoke", "accepted">>
    [] a.kind = "refused"  -> <<"revoke", "rejected">>
    [] OTHER               -> <<"csr", "accepted">>

\* Mutant: every answer is taken for one on its accepted topic.
EventOfAccepted(a) ==
  IF a.kind \in {"revoked", "refused"} THEN "AcceptedOldCertificateRevoke"
  ELSE "ReceivedSignedCertificate"

EventOf(a) ==
  CASE a.kind = "rejected" -> "RejectedCertificateSigningRequest"
    [] a.kind = "revoked"  -> "AcceptedOldCertificateRevoke"
    [] a.kind = "refused"  -> "RejectedOldCertificateRevoke"
    [] OTHER               -> "ReceivedSignedCertificate"

\* Mutant: the payload of a rejection is not copied.
DeliverAcceptedOnly(a) ==
  /\ agent = "loop"
  /\ Heard(TopicOf(a))
  /\ answers' = answers \ {a}
  /\ dataBuffer' = IF a.kind = "rejected" THEN dataBuffer ELSE a
  /\ eventQueue' = Enqueue(eventQueue, EventOf(a))
  /\ UNCHANGED <<jobStatus, notified, active, csrRequests, revokeRequests, session,
                 agentVars, pc, currentState, jobBuffer, jobId, topicFilters,
                 certificateId, keys, current, pending, nvs>>

\* prvCreateFromCSRIncomingPublishCallback, prvCertRevokeIncomingPublishCallback.
\* The payload overwrites dataBuffers[0] whether or not the last one was read.
Deliver(a) ==
  /\ agent = "loop"
  /\ Heard(TopicOf(a))
  /\ answers' = answers \ {a}
  /\ dataBuffer' = a
  /\ eventQueue' = Enqueue(eventQueue, EventOf(a))
  /\ UNCHANGED <<jobStatus, notified, active, csrRequests, revokeRequests, session,
                 agentVars, pc, currentState, jobBuffer, jobId, topicFilters,
                 certificateId, keys, current, pending, nvs>>

\* An answer is gone when the session has no subscription to it, and ignored as
\* unsolicited when the device has no callback for it.
Unheard(a) ==
  /\ TopicOf(a) \notin brokerSubs \cap routes
  /\ answers' = answers \ {a}
  /\ UNCHANGED <<jobStatus, notified, active, csrRequests, revokeRequests, session,
                 agentVars, task, buffers, keys, current, pending, nvs>>

\* The reset of everything volatile: a panic, an assertion, exit(1), a power cut.
Restart ==
  /\ agent' = "boot" /\ terminates' = 0
  /\ brokerSubs' = {} /\ routes' = {} /\ givenUp' = {} /\ taken' = 0
  /\ abandoned' = 0 /\ notification' = "none"
  /\ eventQueue' = <<>> /\ pc' = "off" /\ currentState' = "Init"
  /\ jobBuffer' = None /\ jobId' = None /\ dataBuffer' = None
  /\ topicFilters' = None /\ certificateId' = None
  /\ certificate' = None /\ privateKey' = None
  /\ newCertificate' = None /\ newPrivateKey' = None
  /\ UNCHANGED <<keys, nvs>>

\* Mutant: the new certificate is adopted with the old private key.
AdoptCertificateOnly ==
  /\ agent = "loop" /\ terminates > 0
  /\ agent' = "try_new" /\ terminates' = terminates - 1
  /\ brokerSubs' = {}
  /\ certificate' = newCertificate /\ newCertificate' = None /\ newPrivateKey' = None
  /\ UNCHANGED <<cloud, routes, leftover, task, buffers, keys, privateKey, nvs>>

\* Mutant: the session is renewed without taking the new pair.
ReconnectOnly ==
  /\ agent = "loop" /\ terminates > 0
  /\ agent' = "try_new" /\ terminates' = terminates - 1
  /\ brokerSubs' = {}
  /\ UNCHANGED <<cloud, routes, leftover, task, buffers, keys, current, pending, nvs>>

\* The command loop ends with MQTTSuccess: disconnect and UpdateAWSSettings,
\* which copies the new pair with strndup and dies on a NULL one.
HandleTerminate ==
  /\ agent = "loop" /\ terminates > 0
  /\ IF newCertificate = None \/ newPrivateKey = None
     THEN Restart /\ UNCHANGED cloud
     ELSE /\ agent' = "try_new" /\ terminates' = terminates - 1
          /\ brokerSubs' = {}
          /\ certificate' = newCertificate /\ privateKey' = newPrivateKey
          /\ newCertificate' = None /\ newPrivateKey' = None
          /\ UNCHANGED <<cloud, routes, leftover, task, buffers, keys, nvs>>

\* ReconnectWithNewCertificate connects, with cleanSession, and returns true:
\* the renewal agent is told to revoke the old certificate.
Reconnected ==
  /\ agent' = "loop"
  /\ eventQueue' = Enqueue(eventQueue, "RevokeOldCertificate")
  /\ UNCHANGED <<cloud, session, terminates, pc, currentState, buffers, keys, nvs>>

ConnectNew ==
  /\ agent = "try_new" /\ Usable(certificate, privateKey)
  /\ Reconnected
  /\ UNCHANGED <<current, pending>>

\* Two failed attempts with the new pair: ResetAWSCredentials reloads NVS.
FallBack ==
  /\ agent = "try_new"
  /\ ~Usable(certificate, privateKey) \/ "tls" \in Faults
  /\ agent' = "try_old"
  /\ certificate' = nvsCertificate /\ privateKey' = nvsPrivateKey
  /\ UNCHANGED <<cloud, session, terminates, task, buffers, keys, pending, nvs>>

ConnectOld ==
  /\ agent = "try_old" /\ Usable(certificate, privateKey)
  /\ Reconnected
  /\ UNCHANGED <<current, pending>>

\* All attempts exhausted: exit(1).
ConnectOldFails ==
  /\ agent = "try_old" /\ ~Usable(certificate, privateKey)
  /\ Restart /\ UNCHANGED cloud

\* The command loop ends with an error: RestoreMQTTConnection reconnects and
\* prvMQTTAgentProcessing leaves its loop, so no command is served any more.
NetworkError ==
  /\ "neterr" \in Faults /\ agent = "loop"
  /\ agent' = "exited" /\ brokerSubs' = {}
  /\ UNCHANGED <<cloud, routes, leftover, terminates, task, buffers, keys, current, pending,
                 nvs>>

\* DISCONNECT or CONNECT fails on a connection that is up: the assertions of
\* HandleMQTTDisconnect and RestoreMQTTConnection, and the last exit(1) of
\* ReconnectWithNewCertificate.
MQTTFails ==
  /\ "mqtterr" \in Faults
  /\ \/ agent = "loop" /\ (terminates > 0 \/ "neterr" \in Faults)
     \/ agent \in {"try_new", "try_old"} /\ Usable(certificate, privateKey)
  /\ Restart /\ UNCHANGED cloud

\* The agent completes a command whose caller has left.  What it finds where the
\* frame and the filters were may be anything, a later call's in particular: it
\* unsubscribes from those topics and removes those subscriptions, and the task
\* it notifies is this one or none.
LateCompletion ==
  /\ agent = "loop" /\ abandoned > 0
  /\ \/ Restart
     \/ /\ abandoned' = abandoned - 1 /\ notification' = "pending"
        /\ \E topics \in SUBSET (brokerSubs \ {NotifyTopic}) : brokerSubs' = brokerSubs \ topics
        /\ \E topics \in SUBSET (routes \ {NotifyTopic}) : routes' = routes \ topics
        /\ taken' \in 0 .. taken
        /\ UNCHANGED <<givenUp, agentVars, task, buffers, keys, current, pending, nvs>>
  /\ UNCHANGED cloud

\* The OTA agent subscribes to the two topics of a stream and never unsubscribes.
OtaStream ==
  /\ "stream" \in Faults /\ agent = "loop"
  /\ \E n \in {1, 2} :
       /\ Cardinality(routes) + taken + n <= ListSize
       /\ n = 1 => Cardinality(routes) + taken + 1 = ListSize
       /\ taken' = taken + n
  /\ UNCHANGED <<cloud, brokerSubs, routes, givenUp, abandoned, notification, agentVars, task,
                 buffers, keys, current, pending, nvs>>

Crash ==
  /\ "crash" \in Faults /\ agent # "boot"
  /\ Restart /\ UNCHANGED cloud

\* mqttAgentTask connects with the stored pair and subscribes to notify-next;
\* then the renewal task starts and sends itself the first event.
Boot ==
  /\ agent = "boot" /\ Usable(nvsCertificate, nvsPrivateKey)
  /\ agent' = "loop"
  /\ certificate' = nvsCertificate /\ privateKey' = nvsPrivateKey
  /\ brokerSubs' = {NotifyTopic} /\ routes' = {NotifyTopic}
  /\ eventQueue' = <<"Ready">> /\ pc' = "receive"
  /\ UNCHANGED <<cloud, leftover, terminates, currentState, buffers, keys, pending, nvs>>

\* EstablishMQTTSession asserts and the device restarts, for ever.
BootFails ==
  /\ agent = "boot" /\ ~Usable(nvsCertificate, nvsPrivateKey)
  /\ UNCHANGED vars

(***************************************************************************)
(* The renewal agent task.                                                 *)
(***************************************************************************)

\* The agent serves a call: the loop runs and, the command queue being FIFO, no
\* TERMINATE of this task is in front of it.  The call waits for that if there is
\* no notification already, which is what ends its wait.
Serving == agent = "loop" /\ terminates = 0
Served == Serving /\ notification = "none"

\* PublishToTopic returns: its command is completed, or stays behind.
Published ==
  \/ Served /\ UNCHANGED leftover
  \/ /\ notification = "pending"
     /\ notification' = "none" /\ abandoned' = abandoned + 1
     /\ UNCHANGED <<givenUp, taken>>

Take(event) ==
  /\ pc = "receive" /\ eventQueue # <<>>
  /\ Head(eventQueue) = event
  /\ eventQueue' = Tail(eventQueue)

\* A message that was not waited for is sent or not: the frame it is in is gone.
MayBeLost == notification = "pending" \/ abandoned' > 0

\* SendUpdateForJob.  The cloud ignores it when the job has ended, and sees
\* nothing when no job id was ever set or the publish is lost.
UpdateJob(status) ==
  \/ jobStatus' = IF jobId \in Jobs /\ jobStatus[jobId] \notin Terminal
                  THEN [jobStatus EXCEPT ![jobId] = status]
                  ELSE jobStatus
  \/ ("loss" \in Faults \/ MayBeLost) /\ jobStatus' = jobStatus

ReceiveReady ==
  /\ Take("Ready")
  /\ currentState' = "Ready"
  /\ UNCHANGED <<cloud, session, agentVars, pc, buffers, keys, current, pending, nvs>>

\* A document without its fields fails the assertions; only a job that is
\* accepted sets the global job id.
ReceiveJobDocument ==
  /\ pc = "receive" /\ eventQueue # <<>>
  /\ Head(eventQueue) = "ReceivedJobDocument"
  /\ IF jobBuffer \in Incomplete
     THEN Restart
     ELSE /\ Take("ReceivedJobDocument")
          /\ currentState' = "ProcessingJob"
          /\ \/ jobBuffer \in ClientJobs /\ pc' = "accept_job" /\ jobId' = jobBuffer
             \/ jobBuffer \notin ClientJobs /\ pc' = "reject_job" /\ jobId' = jobId
          /\ UNCHANGED <<session, agentVars, jobBuffer, dataBuffer, topicFilters,
                         certificateId, keys, current, pending, nvs>>
  /\ UNCHANGED cloud

\* Mutant: as in RejectJob, the next event is set and never sent.
AcceptJobSilently ==
  /\ pc = "accept_job" /\ Published
  /\ UpdateJob("IN_PROGRESS")
  /\ pc' = "receive"
  /\ UNCHANGED <<notified, active, csrRequests, revokeRequests, answers, brokerSubs, routes,
                 agentVars, eventQueue, currentState, buffers, keys, current, pending, nvs>>

AcceptJob ==
  /\ pc = "accept_job" /\ Published
  /\ UpdateJob("IN_PROGRESS")
  /\ eventQueue' = Enqueue(eventQueue, "ClientCertificateRenewal")
  /\ pc' = "receive"
  /\ UNCHANGED <<notified, active, csrRequests, revokeRequests, answers, brokerSubs, routes,
                 agentVars, currentState, buffers, keys, current, pending, nvs>>

\* nextEvent is set to Ready and never sent: the state stays ProcessingJob.
RejectJob ==
  /\ pc = "reject_job" /\ Published
  /\ UpdateJob("REJECTED")
  /\ pc' = "receive"
  /\ UNCHANGED <<notified, active, csrRequests, revokeRequests, answers, brokerSubs, routes,
                 agentVars, eventQueue, currentState, buffers, keys, current, pending, nvs>>

ReceiveRenewal ==
  /\ Take("ClientCertificateRenewal")
  /\ pc' = "subscribe_csr"
  /\ topicFilters' = "csr"
  /\ UNCHANGED <<cloud, session, agentVars, currentState, jobBuffer, jobId, dataBuffer,
                 certificateId, keys, current, pending, nvs>>

\* SubscriptionManager_AddSubscription: a full list refuses the topic, and the
\* completion callback of the subscription only logs it.
AddRoute(list, others, topic) ==
  IF Cardinality(list) + others < ListSize THEN list \cup {topic} ELSE list

\* SubscribeToTopic for both answers: the broker subscribes to them whether or
\* not the list takes their callbacks.  The heap may give a freed filter's memory
\* back for the same topic, whose element is then found in the list.
Subscribe(api, subs, list, others) ==
  /\ brokerSubs' = subs \cup AnswerTopics(api)
  /\ \E found \in (IF api \in givenUp THEN 0 .. 2 ELSE {0}) :
       found <= others /\ taken' = others - found
  /\ routes' = AddRoute(AddRoute(list, taken', <<api, "accepted">>), taken', <<api, "rejected">>)

\* Mutant: the callbacks are not added to the subscription list.
SubscribeCsrUnrouted ==
  /\ pc = "subscribe_csr" /\ Served
  /\ keys < MaxKeys
  /\ brokerSubs' = brokerSubs \cup AnswerTopics("csr")
  /\ UNCHANGED <<routes, leftover>>
  /\ keys' = keys + 1 /\ newPrivateKey' = keys + 1
  /\ pc' = "publish_csr"
  /\ UNCHANGED <<cloud, agentVars, eventQueue, currentState, buffers, current,
                 newCertificate, nvs>>

\* prvSubscribeCreateFromCSRTopics returns and GenerateCSR makes a key pair.  A
\* call that did not wait returns MQTTSendFailed, which fails an assertion.
SubscribeCsr ==
  /\ pc = "subscribe_csr"
  /\ \/ notification = "pending" /\ Restart
     \/ /\ Served /\ keys < MaxKeys
        /\ Subscribe("csr", brokerSubs, routes, taken)
        /\ keys' = keys + 1 /\ newPrivateKey' = keys + 1
        /\ pc' = "publish_csr"
        /\ UNCHANGED <<givenUp, abandoned, notification, agentVars, eventQueue, currentState,
                       buffers, current, newCertificate, nvs>>
  /\ UNCHANGED cloud

PublishCsr ==
  /\ pc = "publish_csr" /\ Published
  /\ \/ csrRequests' = csrRequests \cup {[key |-> keys, try |-> 1]}
     \/ MayBeLost /\ csrRequests' = csrRequests
  /\ pc' = "csr_published"
  /\ UNCHANGED <<jobStatus, notified, active, revokeRequests, answers, brokerSubs, routes, agentVars,
                 eventQueue, currentState, buffers, keys, current, pending, nvs>>

\* Back from PublishToTopic: the answer may already be queued.
CsrPublished ==
  /\ pc = "csr_published"
  /\ currentState' = "RenewingClientCert"
  /\ eventQueue' = Enqueue(eventQueue, "WaitSignedCertificate")
  /\ pc' = "receive"
  /\ UNCHANGED <<cloud, session, agentVars, buffers, keys, current, pending, nvs>>

ReceiveWait ==
  /\ Take("WaitSignedCertificate")
  /\ currentState' = "WaitingSignedCertificate"
  /\ UNCHANGED <<cloud, session, agentVars, pc, buffers, keys, current, pending, nvs>>

\* prvReceivedCertificateParser reads dataBuffers[0], whatever it now holds:
\* an answer without a certificate fails its assertions.
ReceiveSigned ==
  /\ pc = "receive" /\ eventQueue # <<>>
  /\ Head(eventQueue) = "ReceivedSignedCertificate"
  /\ CASE dataBuffer.kind = "signed" ->
            /\ Take("ReceivedSignedCertificate")
            /\ currentState' = "ProcessingSignedCertificate"
            /\ certificateId' = dataBuffer.cert /\ newCertificate' = dataBuffer.cert
            /\ terminates' = terminates + 1
            /\ UNCHANGED <<cloud, session, agent, pc, jobBuffer, jobId, dataBuffer,
                           topicFilters, keys, current, newPrivateKey, nvs>>
       [] dataBuffer.kind = "unparsable" ->
            /\ Take("ReceivedSignedCertificate")
            /\ currentState' = "ProcessingSignedCertificate"
            /\ pc' = "fail_renewal"
            /\ UNCHANGED <<cloud, session, agentVars, buffers, keys, current, pending, nvs>>
       [] OTHER -> Restart /\ UNCHANGED cloud

\* The events that end the job with Failed, and what their handlers call next.
FailureCall ==
  [RejectedCertificateSigningRequest |-> "fail_csr",
   RejectedSignedCertificate         |-> "fail_renewal",
   RejectedOldCertificateRevoke      |-> "fail_revoke"]

ReceiveFailure ==
  /\ \E event \in DOMAIN FailureCall : Take(event) /\ pc' = FailureCall[event]
  /\ UNCHANGED <<cloud, session, agentVars, currentState, buffers, keys, current,
                 pending, nvs>>

\* Rejected CSR: the topics stay subscribed and no event follows.
FailCsr ==
  /\ pc = "fail_csr" /\ Published
  /\ UpdateJob("FAILED")
  /\ currentState' = "Ready"
  /\ pc' = "receive"
  /\ UNCHANGED <<notified, active, csrRequests, revokeRequests, answers, brokerSubs, routes,
                 agentVars, eventQueue, buffers, keys, current, pending, nvs>>

\* free(certificateId): the heap asserts on a second free of the same block.
FailRenewal ==
  /\ pc = "fail_renewal" /\ (Served \/ notification = "pending")
  /\ IF certificateId = Freed
     THEN Restart
     ELSE /\ Published
          /\ certificateId' = IF certificateId = None THEN None ELSE Freed
          /\ eventQueue' = Enqueue(eventQueue, "Ready")
          /\ pc' = "receive"
          /\ UNCHANGED <<brokerSubs, routes, agentVars, currentState, jobBuffer, jobId,
                         dataBuffer, topicFilters, keys, current, pending, nvs>>
  /\ UpdateJob("FAILED")
  /\ UNCHANGED <<notified, active, csrRequests, revokeRequests, answers>>

ReceiveRevokeOld ==
  /\ Take("RevokeOldCertificate")
  /\ pc' = "revoke"
  /\ UNCHANGED <<cloud, session, agentVars, currentState, buffers, keys, current,
                 pending, nvs>>

\* prvUnSubscribeTopics passes both filters to the agent and frees them.
Unsubscribed(topics) == topics \ AnswerTopics(topicFilters)

\* UnSubscribeToTopic returns before the agent has completed the command: after
\* ten seconds, or at once if there is a notification.
GivesUp == "giveup" \in Faults \/ agent = "exited" \/ notification = "pending"

\* The command stays behind, and the elements of the list with a freed filter.
Held == taken + Cardinality(routes \cap AnswerTopics(topicFilters))
LeaveBehind ==
  /\ givenUp' = givenUp \cup {topicFilters}
  /\ abandoned' = abandoned + 1 /\ notification' = "none"

\* Unsubscribe from the CSR topics, subscribe to the revoke topics, publish
\* certificateId to the revoking Lambda.  The notification of the first call,
\* when it comes late, ends the second, which fails an assertion.
RevokeOldCertificate ==
  /\ pc = "revoke" /\ Serving
  /\ \/ /\ topicFilters \in {None, Freed} \/ GivesUp
        /\ Restart /\ UNCHANGED cloud
     \/ /\ topicFilters \notin {None, Freed}
        /\ \/ /\ notification = "none"
              /\ Subscribe("revoke", Unsubscribed(brokerSubs), Unsubscribed(routes), taken)
              /\ UNCHANGED <<givenUp, abandoned, notification>>
           \/ /\ GivesUp /\ LeaveBehind
              /\ Subscribe("revoke", brokerSubs, Unsubscribed(routes), Held)
        /\ topicFilters' = "revoke"
        /\ \/ revokeRequests' = revokeRequests \cup {[cert |-> certificateId, try |-> 1]}
           \/ MayBeLost /\ revokeRequests' = revokeRequests
        /\ currentState' = "RevokingOldCertificate"
        /\ pc' = "receive"
        /\ UNCHANGED <<jobStatus, notified, active, csrRequests, answers, agentVars,
                       eventQueue, jobBuffer, jobId, dataBuffer, certificateId, keys,
                       current, pending, nvs>>

\* Both answers to a revocation unsubscribe and free certificateId.
ReleaseTopics ==
  /\ routes' = Unsubscribed(routes)
  /\ \/ Served /\ brokerSubs' = Unsubscribed(brokerSubs) /\ UNCHANGED leftover
     \/ GivesUp /\ LeaveBehind /\ taken' = Held /\ UNCHANGED brokerSubs
  /\ topicFilters' = Freed /\ certificateId' = Freed

ReceiveAccepted ==
  /\ Take("AcceptedOldCertificateRevoke")
  /\ pc' = "finish_revoke"
  /\ UNCHANGED <<cloud, session, agentVars, currentState, buffers, keys, current,
                 pending, nvs>>

\* Mutant: success is reported without storing the credentials.
FinishRevokeUnstored ==
  /\ pc = "finish_revoke"
  /\ ReleaseTopics
  /\ pc' = "succeed"
  /\ UNCHANGED <<cloud, agentVars, eventQueue, currentState, jobBuffer, jobId, dataBuffer,
                 keys, current, pending, nvs>>

FinishRevoke ==
  /\ pc = "finish_revoke" /\ (Served \/ GivesUp)
  /\ IF topicFilters \in {None, Freed} \/ certificateId = Freed
     THEN Restart
     ELSE /\ ReleaseTopics
          /\ pc' = "store_certificate"
          /\ UNCHANGED <<agentVars, eventQueue, currentState, jobBuffer, jobId, dataBuffer,
                         keys, current, pending, nvs>>
  /\ UNCHANGED cloud

\* Mutant: the private key is not stored.
StoreCertificateOnly ==
  /\ pc = "store_certificate"
  /\ nvsCertificate' = certificate
  /\ pc' = "succeed"
  /\ UNCHANGED <<cloud, session, agentVars, eventQueue, currentState, buffers, keys,
                 current, pending, nvsPrivateKey>>

\* prvStoreNewCredentials: two separate commits to NVS.
StoreCertificate ==
  /\ pc = "store_certificate"
  /\ nvsCertificate' = certificate
  /\ pc' = "store_key"
  /\ UNCHANGED <<cloud, session, agentVars, eventQueue, currentState, buffers, keys,
                 current, pending, nvsPrivateKey>>

\* Mutant: the key is read from newPrivateKey, NULL since the reconnection.
StoreNewPrivateKey ==
  /\ pc = "store_key"
  /\ nvsPrivateKey' = newPrivateKey
  /\ pc' = "succeed"
  /\ UNCHANGED <<cloud, session, agentVars, eventQueue, currentState, buffers, keys,
                 current, pending, nvsCertificate>>

StorePrivateKey ==
  /\ pc = "store_key"
  /\ nvsPrivateKey' = privateKey
  /\ pc' = "succeed"
  /\ UNCHANGED <<cloud, session, agentVars, eventQueue, currentState, buffers, keys,
                 current, pending, nvsCertificate>>

Succeed ==
  /\ pc = "succeed" /\ Published
  /\ UpdateJob("SUCCEEDED")
  /\ eventQueue' = Enqueue(eventQueue, "Ready")
  /\ pc' = "receive"
  /\ UNCHANGED <<notified, active, csrRequests, revokeRequests, answers, brokerSubs, routes,
                 agentVars, currentState, buffers, keys, current, pending, nvs>>

\* Refused revocation: the new pair stays in RAM and is never stored.
FailRevoke ==
  /\ pc = "fail_revoke" /\ Serving
  /\ IF topicFilters \in {None, Freed} \/ certificateId = Freed
     THEN Restart
     ELSE /\ ReleaseTopics
          /\ eventQueue' = Enqueue(eventQueue, "Ready")
          /\ pc' = "receive"
          /\ UNCHANGED <<agentVars, currentState, jobBuffer, jobId, dataBuffer, keys,
                         current, pending, nvs>>
  /\ UpdateJob("FAILED")
  /\ UNCHANGED <<notified, active, csrRequests, revokeRequests, answers>>

(***************************************************************************)
(* The specification.                                                      *)
(***************************************************************************)

\* A provisioned device that is about to boot, and jobs not yet announced.
Init ==
  /\ jobStatus = [j \in Jobs |-> "QUEUED"] /\ notified = {}
  /\ active = {FirstCertificate}
  /\ csrRequests = {} /\ revokeRequests = {} /\ answers = {}
  /\ brokerSubs = {} /\ routes = {}
  /\ givenUp = {} /\ taken = 0 /\ abandoned = 0 /\ notification = "none"
  /\ agent = "boot" /\ terminates = 0
  /\ eventQueue = <<>> /\ pc = "off" /\ currentState = "Init"
  /\ jobBuffer = None /\ jobId = None /\ dataBuffer = None
  /\ topicFilters = None /\ certificateId = None
  /\ keys = 0
  /\ certificate = None /\ privateKey = None
  /\ newCertificate = None /\ newPrivateKey = None
  /\ nvsCertificate = FirstCertificate /\ nvsPrivateKey = 0

Cloud ==
  \/ \E j \in Jobs : NotifyNext(j)
  \/ \E r \in csrRequests : LambdaSign(r)
  \/ \E r \in revokeRequests : LambdaRevoke(r)

Agent ==
  \/ \E a \in answers : Deliver(a) \/ Unheard(a)
  \/ HandleTerminate \/ ConnectNew \/ FallBack \/ ConnectOld \/ ConnectOldFails

Task ==
  \/ ReceiveReady \/ ReceiveJobDocument \/ ReceiveRenewal \/ ReceiveWait
  \/ ReceiveSigned \/ ReceiveFailure \/ ReceiveRevokeOld \/ ReceiveAccepted
  \/ AcceptJob \/ RejectJob \/ SubscribeCsr \/ PublishCsr \/ CsrPublished
  \/ FailCsr \/ FailRenewal \/ RevokeOldCertificate \/ FinishRevoke
  \/ StoreCertificate \/ StorePrivateKey \/ Succeed \/ FailRevoke

Next ==
  \/ Cloud \/ LoseMessage \/ \E j \in Jobs : JobTimeout(j)
  \/ Agent \/ NetworkError \/ MQTTFails \/ LateCompletion \/ OtaStream
  \/ Crash \/ Boot \/ BootFails
  \/ Task

Spec == Init /\ [][Next]_vars

\* The FreeRTOS scheduler and the cloud keep going; nothing forces a fault.
FairSpec ==
  /\ Spec
  /\ WF_vars(Cloud) /\ WF_vars(Agent) /\ WF_vars(Boot) /\ WF_vars(Task)

(***************************************************************************)
(* Properties.                                                             *)
(***************************************************************************)

Answers == [kind : AnswerKinds, cert : Certificates]

Events == {"Ready", "ReceivedJobDocument", "ClientCertificateRenewal",
           "ReceivedSignedCertificate", "RejectedCertificateSigningRequest",
           "WaitSignedCertificate", "RejectedSignedCertificate",
           "RevokeOldCertificate", "AcceptedOldCertificateRevoke",
           "RejectedOldCertificateRevoke"}

\* The type of every variable of the agents, the cloud and NVS.
TypeOK ==
  /\ jobStatus \in [Jobs -> Terminal \cup {"QUEUED", "IN_PROGRESS"}]
  /\ notified \subseteq Jobs
  /\ active \subseteq Certificates
  /\ csrRequests \subseteq [key : Keys, try : 1 .. MaxInvocations]
  /\ revokeRequests \subseteq [cert : Certificates \cup {None, Freed},
                               try : 1 .. MaxInvocations]
  /\ answers \subseteq Answers
  /\ brokerSubs \subseteq Topics /\ routes \subseteq Topics
  /\ givenUp \subseteq {"csr", "revoke"}
  /\ taken \in Nat /\ abandoned \in Nat /\ notification \in {"none", "pending"}
  /\ agent \in {"boot", "loop", "try_new", "try_old", "exited"}
  /\ terminates \in Nat
  /\ eventQueue \in Seq(Events) /\ Len(eventQueue) <= QueueLength
  /\ pc \in {"off", "receive", "accept_job", "reject_job", "subscribe_csr",
             "publish_csr", "csr_published", "fail_csr", "fail_renewal", "revoke",
             "finish_revoke", "store_certificate", "store_key", "succeed", "fail_revoke"}
  /\ currentState \in {"Init", "Ready", "ProcessingJob", "RenewingClientCert",
                       "WaitingSignedCertificate", "ProcessingSignedCertificate",
                       "RevokingOldCertificate"}
  /\ jobBuffer \in Jobs \cup {None} /\ jobId \in Jobs \cup {None}
  /\ dataBuffer \in Answers \cup {None}
  /\ topicFilters \in {None, Freed, "csr", "revoke"}
  /\ certificateId \in Certificates \cup {None, Freed}
  /\ keys \in Keys
  /\ certificate \in Certificates \cup {None} /\ privateKey \in Keys \cup {None}
  /\ newCertificate \in Certificates \cup {None} /\ newPrivateKey \in Keys \cup {None}
  /\ nvsCertificate \in Certificates /\ nvsPrivateKey \in Keys

\* TypeOK made inductive: the task waits for events exactly while its agent is
\* up, a device that is up has loaded a pair into RAM, and the event that makes
\* prvReceivedCertificateParser read dataBuffers[0] is only queued once
\* something was put there.
TypeInv ==
  /\ TypeOK
  /\ agent = "boot" <=> pc = "off"
  /\ pc = "off" => eventQueue = <<>>
  /\ pc # "off" => certificate # None /\ privateKey # None
  /\ \A i \in 1 .. Len(eventQueue) :
       eventQueue[i] = "ReceivedSignedCertificate" => dataBuffer # None

\* The device always holds, in RAM or in NVS, a pair AWS IoT still accepts:
\* revoking never gets ahead of reconnecting and storing.
NotLockedOut ==
  Usable(certificate, privateKey) \/ Usable(nvsCertificate, nvsPrivateKey)

\* A job is reported SUCCEEDED only when the device could restart there and
\* then: the stored pair is the one in use and the only one still active.
SuccessIsReal ==
  [][\A j \in Jobs :
       jobStatus[j] # "SUCCEEDED" /\ jobStatus'[j] = "SUCCEEDED"
         => /\ Usable(nvsCertificate, nvsPrivateKey)
            /\ active = {nvsCertificate}]_vars

\* Whatever resets, losses and late calls there are, each handler finds the
\* pointers it follows: the new pair when the session is renewed, an answer with
\* a certificate or an error where one is parsed, filters to unsubscribe and a
\* certificate id not yet freed.  A NULL, a dangling one or a revocation's answer
\* there resets the device.
PointersValid ==
  /\ agent = "loop" /\ terminates > 0 => newCertificate # None /\ newPrivateKey # None
  /\ pc = "receive" /\ eventQueue # <<>> /\ Head(eventQueue) = "ReceivedSignedCertificate"
       => dataBuffer.kind \in {"signed", "unparsable"}
  /\ pc \in {"revoke", "finish_revoke", "fail_revoke"} => topicFilters \notin {None, Freed}
  /\ pc \in {"fail_renewal", "finish_revoke", "fail_revoke"} => certificateId # Freed

\* dataBuffers[0] is shared by every answer: while an answer's event waits to
\* be handled, the buffer its pointer leads to still holds that answer.
BufferMatchesEvent ==
  \A i \in 1 .. Len(eventQueue) :
    eventQueue[i] \in {"ReceivedSignedCertificate", "RejectedCertificateSigningRequest",
                      "AcceptedOldCertificateRevoke", "RejectedOldCertificateRevoke"}
      => dataBuffer # None /\ EventOf(dataBuffer) = eventQueue[i]

\* SendEvent_FreeRTOS drops an event when the queue is full and no sender looks
\* at it: five places must be more than the renewal ever fills.
NoEventDropped == Len(eventQueue) < QueueLength

\* Until an unsubscription is given up or the OTA agent has downloaded an image,
\* which leave filters in the list, of the answers the broker sends to this
\* session only the refusal of a CSR can find no callback, and only while the
\* topics of an earlier revocation, still unanswered, take the last places.
AnswersRouted ==
  givenUp = {} /\ taken = 0 =>
    /\ brokerSubs \ routes \subseteq {<<"csr", "rejected">>}
    /\ brokerSubs \subseteq routes \/ AnswerTopics("revoke") \subseteq routes

\* When no job is in progress the stored pair connects, whatever resets came
\* before: the window in which a power cut bricks the device is inside a job.
\* The job is then in progress until its five minutes are over, so that a job
\* that timed out may have left a pair that does not connect.
RestartableBetweenJobs ==
  (\A j \in Jobs : jobStatus[j] \notin {"IN_PROGRESS", "TIMED_OUT"})
     => Usable(nvsCertificate, nvsPrivateKey)

\* A revocation is requested only by a session that proved the new
\* certificate, the one the request spares.
RevokesFromNewSession ==
  [][\A r \in revokeRequests' \ revokeRequests :
        r.try = 1 => certificate = r.cert]_vars

\* A job in progress ends: no answer order makes the agent wait for ever.
JobInProgressEnds ==
  \A j \in Jobs : jobStatus[j] = "IN_PROGRESS" ~> jobStatus[j] \in Terminal

\* A queued job is picked up by an agent that is "Ready to process a renewal
\* job" (cert_renew_agent.h).
QueuedJobStarts ==
  \A j \in Jobs : jobStatus[j] = "QUEUED" ~> jobStatus[j] # "QUEUED"
=============================================================================
