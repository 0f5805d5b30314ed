----------------------------- MODULE JobDispatch -----------------------------
(***************************************************************************)
(* The two agents and the job service over one MQTT agent.  A notification *)
(* is copied to jobBuffers[0] and a pointer to it is sent to the agent of  *)
(* its kind; both agents report to the job in globalJobId.  The agents are *)
(* reduced to the calls they make, in their order, between two events;     *)
(* CertRenewal and OtaAgent model what they do besides.                    *)
(***************************************************************************)
EXTENDS MqttAgent

CONSTANTS
  OtaJobs, RenewalJobs,  \* the jobs, numbered in their order, by kind
  BadJobs,               \* jobs whose document the agent refuses
  None,
  MaxMessages,           \* MAX_MESSAGES, the length of an event queue
  MaxCancels             \* bound on the jobs that end in the cloud by themselves

Jobs == OtaJobs \cup RenewalJobs

ASSUME JobDispatchAssumption ==
  /\ Tasks = {"ota", "renewal"} /\ Jobs \subseteq Nat /\ OtaJobs \cap RenewalJobs = {}
  /\ None \notin Jobs /\ MaxMessages \in Nat /\ MaxCancels \in Nat

VARIABLES
  jobStatus,     \* the job executions in AWS IoT
  announced,     \* the jobs that were on notify-next
  hearing,       \* the session is subscribed to notify-next
  requests,      \* what the agents asked and is to be answered
  jobBuffer,     \* jobBuffers[0]
  globalJobId,
  events,        \* per agent, its event queue
  step,          \* per agent, the call its handler is at, or "receive"
  jobId,         \* per agent, the job it works on
  finished,      \* the jobs whose work was finished
  cancels

cloud == <<jobStatus, announced, hearing, requests, finished, cancels>>
agents == <<jobBuffer, globalJobId, events, step, jobId>>
vars == <<agentVars, cloud, agents>>

Terminal == {"succeeded", "failed", "rejected", "ended"}
Statuses == {"in_progress", "succeeded", "failed", "rejected"}

KindOf(s) ==
  CASE s \in Statuses \cup {"request", "sign", "revoke"} -> "publish"
    [] s \in {"subscribe", "resubscribe"} -> "subscribe"
    [] s \in {"unsubscribe", "unsubscribe_revoked", "unsubscribe_refused"} -> "unsubscribe"
    [] s = "terminate" -> "terminate"

\* The calls of each agent's handlers in their order.
AfterCall ==
  [ota |-> [in_progress |-> "subscribe", subscribe |-> "request", request |-> "receive",
            succeeded |-> "restart", failed |-> "receive", rejected |-> "receive"],
   renewal |-> [in_progress |-> "subscribe", subscribe |-> "sign", sign |-> "receive",
                terminate |-> "receive",
                unsubscribe |-> "resubscribe", resubscribe |-> "revoke", revoke |-> "receive",
                unsubscribe_revoked |-> "succeeded", unsubscribe_refused |-> "failed",
                succeeded |-> "receive", failed |-> "receive", rejected |-> "receive"]]

\* An event is a job document, by the job it was sent for, or the answer to a
\* request, by the first call of the handler that takes it.
Answers == [request |-> {"succeeded", "failed"},
            sign |-> {"terminate", "failed"},
            revoke |-> {"unsubscribe_revoked", "unsubscribe_refused"}]
Good == {"succeeded", "unsubscribe_revoked"}
Document(j) == [job |-> j, first |-> "document"]
AnswerEvent(j, s) == [job |-> j, first |-> s]
Events == [job : Jobs \cup {None},
           first : {"document", "unsubscribe", "terminate", "failed", "unsubscribe_refused"} \cup Good]

Enqueue(t, e) ==
  events' = [events EXCEPT ![t] = IF Len(@) < MaxMessages THEN Append(@, e) ELSE @]

Init ==
  /\ AgentInit
  /\ jobStatus = [j \in Jobs |-> "queued"] /\ announced = {} /\ hearing = TRUE /\ requests = {}
  /\ jobBuffer = None /\ globalJobId = None
  /\ events = [t \in Tasks |-> <<>>] /\ step = [t \in Tasks |-> "receive"]
  /\ jobId = [t \in Tasks |-> None] /\ finished = {} /\ cancels = 0

\* A restart, up to the command loop (Boot).
Restart ==
  /\ AgentReset
  /\ hearing' = TRUE /\ requests' = {} /\ jobBuffer' = None /\ globalJobId' = None
  /\ events' = [t \in Tasks |-> <<>>] /\ step' = [t \in Tasks |-> "receive"]
  /\ jobId' = [t \in Tasks |-> None]
  /\ UNCHANGED <<jobStatus, announced, finished, cancels>>

----------------------------------------------------------------------------
\* The cloud's notifications and answers, handled in the MQTT agent task.

AgentOf(j) == IF j \in OtaJobs THEN "ota" ELSE "renewal"

\* Mutant: the document of a renewal is not copied to the buffer.
prvIncomingPublishCallback_uncopied(j) ==
  /\ jobStatus[j] = "queued" /\ j \notin announced
  /\ \A i \in Jobs : i < j => jobStatus[i] \in Terminal
  /\ announced' = announced \cup {j}
  /\ IF agent = "loop" /\ hearing
     THEN /\ jobBuffer' = IF j \in OtaJobs THEN j ELSE jobBuffer
          /\ Enqueue(AgentOf(j), Document(j))
     ELSE UNCHANGED <<jobBuffer, events>>
  /\ UNCHANGED <<agentVars, jobStatus, hearing, requests, finished, cancels, globalJobId, step,
                 jobId>>

\* The next job is announced when those before it have ended.
prvIncomingPublishCallback(j) ==
  /\ jobStatus[j] = "queued" /\ j \notin announced
  /\ \A i \in Jobs : i < j => jobStatus[i] \in Terminal
  /\ announced' = announced \cup {j}
  /\ IF agent = "loop" /\ hearing
     THEN jobBuffer' = j /\ Enqueue(AgentOf(j), Document(j))
     ELSE UNCHANGED <<jobBuffer, events>>
  /\ UNCHANGED <<agentVars, jobStatus, hearing, requests, finished, cancels, globalJobId, step,
                 jobId>>

\* A job times out or is cancelled: the device is not told.
JobEnds(j) ==
  /\ jobStatus[j] \notin Terminal /\ cancels < MaxCancels
  /\ jobStatus' = [jobStatus EXCEPT ![j] = "ended"]
  /\ cancels' = cancels + 1
  /\ UNCHANGED <<agentVars, announced, hearing, requests, finished, agents>>

\* The image, or the answer of a Lambda: the work of the job it was asked for
\* may be finished with it.
Answer(r) ==
  /\ agent = "loop"
  /\ requests' = requests \ {r}
  /\ \E s \in Answers[r.api] :
       /\ Enqueue(r.task, AnswerEvent(r.job, s))
       /\ finished' = IF s \in Good THEN finished \cup {r.job} ELSE finished
  /\ UNCHANGED <<agentVars, jobStatus, announced, hearing, cancels, jobBuffer, globalJobId, step,
                 jobId>>

----------------------------------------------------------------------------
\* The agents.

Idle(t) == ~Waiting(t) /\ step[t] = "receive" /\ events[t] # <<>>

\* The document is read out of the shared buffer, as it is now.  SetJobId comes
\* after the checks; a document of the other kind is refused by the OTA agent
\* and fails an assertion of the renewal agent.
ReceiveJobDocument(t) ==
  /\ Idle(t) /\ Head(events[t]).first = "document"
  /\ LET own == AgentOf(jobBuffer) = t IN
     \/ /\ own \/ t = "ota"
        /\ events' = [events EXCEPT ![t] = Tail(@)]
        /\ jobId' = [jobId EXCEPT ![t] = jobBuffer]
        /\ IF own /\ jobBuffer \notin BadJobs
           THEN globalJobId' = jobBuffer /\ step' = [step EXCEPT ![t] = "in_progress"]
           ELSE UNCHANGED globalJobId /\ step' = [step EXCEPT ![t] = "rejected"]
        /\ UNCHANGED <<agentVars, cloud, jobBuffer>>
     \/ ~own /\ t = "renewal" /\ Restart

\* Mutant: a refused revocation is handled like one that was accepted.
ReceiveAnswerUnread(t) ==
  /\ Idle(t) /\ Head(events[t]).first # "document"
  /\ LET s == Head(events[t]).first IN
     step' = [step EXCEPT ![t] = IF s = "unsubscribe_refused" THEN "unsubscribe_revoked" ELSE s]
  /\ events' = [events EXCEPT ![t] = Tail(@)]
  /\ UNCHANGED <<agentVars, cloud, jobBuffer, globalJobId, jobId>>

\* No handler looks at the state it is called in.
ReceiveAnswer(t) ==
  /\ Idle(t) /\ Head(events[t]).first # "document"
  /\ step' = [step EXCEPT ![t] = Head(events[t]).first]
  /\ events' = [events EXCEPT ![t] = Tail(@)]
  /\ UNCHANGED <<agentVars, cloud, jobBuffer, globalJobId, jobId>>

CanCall(t) == ~Waiting(t) /\ step[t] \in DOMAIN AfterCall[t]
Proceed(t) == step' = [step EXCEPT ![t] = AfterCall[t][step[t]]]

\* An agent makes its next call; a status goes to the job in globalJobId.
Call(t) ==
  /\ CanCall(t) /\ (step[t] \in Statuses => globalJobId # None)
  /\ Send(t, KindOf(step[t]),
          [job |-> IF step[t] \in Statuses THEN globalJobId ELSE jobId[t], about |-> step[t]])
  /\ IF step[t] = "terminate" THEN Proceed(t) ELSE UNCHANGED step
  /\ UNCHANGED <<cloud, jobBuffer, globalJobId, events, jobId>>

\* Without a job id Jobs_Update fails and nothing is sent.
NoJobToUpdate(t) ==
  /\ CanCall(t) /\ step[t] \in Statuses /\ globalJobId = None
  /\ Proceed(t)
  /\ UNCHANGED <<agentVars, cloud, jobBuffer, globalJobId, events, jobId>>

\* No structure, or no place in the queue, for two seconds: a publish gives up
\* without a word, the other calls fail an assertion.
CallRefused(t) ==
  /\ CanCall(t) /\ (step[t] \in Statuses => globalJobId # None) /\ Blocked
  /\ \/ /\ KindOf(step[t]) = "publish" /\ Proceed(t)
        /\ UNCHANGED <<agentVars, cloud, jobBuffer, globalJobId, events, jobId>>
     \/ KindOf(step[t]) # "publish" /\ Restart

\* A call returns.  Only the renewal agent looks at a result: the subscriptions
\* are asserted.
Return(t) ==
  LET unasserted == t = "renewal" /\ call[t] = [kind |-> "subscribe", xReturnStatus |-> "failed"] IN
  \/ t \in notified /\ unasserted /\ Restart
  \/ /\ ~unasserted
     /\ Notified(t) /\ Proceed(t)
     /\ UNCHANGED <<cloud, jobBuffer, globalJobId, events, jobId>>

GiveUp(t) ==
  /\ TimesOut(t) /\ Proceed(t)
  /\ UNCHANGED <<cloud, jobBuffer, globalJobId, events, jobId>>

\* The OTA agent starts the new image.
RestartAfterUpdate == step["ota"] = "restart" /\ Restart

----------------------------------------------------------------------------
\* The MQTT agent's steps and what they mean here.

\* The update of a job that has ended is refused.
Updated(job, status) ==
  IF job \in Jobs /\ jobStatus[job] \notin Terminal
  THEN [jobStatus EXCEPT ![job] = status] ELSE jobStatus

\* What is published from a dead frame may be anything.
Publish ==
  /\ ProcessPublish
  /\ LET c == commands[Head(commandQueue)] IN
       \/ c.payload.about \in Statuses /\ UNCHANGED requests
          /\ jobStatus' = Updated(c.payload.job, c.payload.about)
       \/ /\ c.payload.about \notin Statuses /\ UNCHANGED jobStatus
          /\ requests' = requests \cup
                           {[task |-> c.task, api |-> c.payload.about, job |-> c.payload.job]}
       \/ ~c.alive /\ UNCHANGED <<jobStatus, requests>>
  /\ UNCHANGED <<announced, hearing, finished, cancels, agents>>

\* Mutant: the event goes to the queue of the other agent.
ReconnectedTellsOta ==
  /\ Reconnect
  /\ hearing' = FALSE /\ requests' = {}
  /\ Enqueue("ota", AnswerEvent(None, "unsubscribe"))
  /\ UNCHANGED <<jobStatus, announced, finished, cancels, jobBuffer, globalJobId, step, jobId>>

\* prvMQTTAgentProcessing tells the renewal agent to revoke, whichever pair it is
\* on (CertRenewal).  The new session has no subscriptions: neither jobs nor
\* answers are heard.
Reconnected ==
  /\ Reconnect
  /\ hearing' = FALSE /\ requests' = {}
  /\ Enqueue("renewal", AnswerEvent(None, "unsubscribe"))
  /\ UNCHANGED <<jobStatus, announced, finished, cancels, jobBuffer, globalJobId, step, jobId>>

\* The session cannot be renewed, or not restored after a network error: exit(1)
\* of ReconnectWithNewCertificate, the assertion of RestoreMQTTConnection.
ReconnectExits == agent \in {"loop", "reconnecting"} /\ Restart

AgentStep ==
  \/ Publish \/ Reconnected
  \/ ((ProcessSubscription \/ ProcessTerminate \/ Acknowledge) /\ UNCHANGED <<cloud, agents>>)

\* A callback finds no task to notify, or an operation no topics, where the
\* frame of the caller was.
DeadContextCrash ==
  /\ agent = "loop"
  /\ \E s \in pendingAcks \cup (IF commandQueue = <<>> THEN {} ELSE {Head(commandQueue)}) :
       ~commands[s].alive
  /\ Restart

TaskStep(t) ==
  \/ ReceiveJobDocument(t) \/ ReceiveAnswer(t)
  \/ Call(t) \/ NoJobToUpdate(t) \/ CallRefused(t) \/ Return(t) \/ GiveUp(t)

Next ==
  \/ \E t \in Tasks : TaskStep(t)
  \/ RestartAfterUpdate
  \/ AgentStep \/ DeadContextCrash \/ ReconnectExits
  \/ (NetworkError /\ UNCHANGED <<cloud, agents>>)
  \/ \E j \in Jobs : prvIncomingPublishCallback(j) \/ JobEnds(j)
  \/ \E r \in requests : Answer(r)

\* The agent task and a task that is notified get their time slices.
Fairness == WF_vars(AgentStep) /\ \A t \in Tasks : WF_vars(Return(t))

Spec == Init /\ [][Next]_vars /\ Fairness

----------------------------------------------------------------------------
\* Every variable has its type.
TypeOK ==
  /\ AgentTypeOK
  /\ jobStatus \in [Jobs -> {"queued", "in_progress"} \cup Terminal]
  /\ announced \subseteq Jobs /\ finished \subseteq Jobs
  /\ {jobBuffer, globalJobId} \subseteq Jobs \cup {None}
  /\ \A t \in Tasks : events[t] \in Seq(Events) /\ jobId[t] \in Jobs \cup {None}
  /\ \A t \in Tasks : step[t] \in {"receive", "restart"} \cup DOMAIN AfterCall[t]
  /\ cancels \in 0 .. MaxCancels

\* While AWS IoT ends no job behind the device's back, the buffer still holds
\* the document that a queued event was sent for.
BufferIsOwn ==
  cancels = 0 =>
    \A t \in Tasks : \A i \in DOMAIN events[t] :
      events[t][i].first = "document" => events[t][i].job = jobBuffer

\* And then a job that the cloud counts as a success is one whose work was
\* finished: no agent's report reaches the other agent's job.
SuccessIsOwn ==
  cancels = 0 => \A j \in Jobs : jobStatus[j] = "succeeded" => j \in finished

\* A call returns, unless the agent task has left its loop for good or the
\* acknowledgement went with a session that the other agent ended, which takes
\* a job that ended behind the device's back.
CallReturns ==
  \A t \in Tasks :
    Waiting(t) ~> \/ ~Waiting(t) \/ agent = "left"
                  \/ (cancels > 0 /\ Awaited(t) \cap unanswered # {})
=============================================================================
