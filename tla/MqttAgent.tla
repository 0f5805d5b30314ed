------------------------------ MODULE MqttAgent ------------------------------
(***************************************************************************)
(* The way a task's call reaches the broker: PublishToTopic,               *)
(* SubscribeToTopic, UnSubscribeToTopic and TerminateMQTTAgent take a      *)
(* command structure from a pool, queue it and wait for the notification   *)
(* that the completion callback sends from the MQTT agent task.  A command *)
(* points to a context on its caller's stack: it is dead once the call has *)
(* returned.  Every variable is volatile; JobDispatch says what the tasks  *)
(* call.                                                                   *)
(***************************************************************************)
EXTENDS Naturals, Sequences, FiniteSets

CONSTANTS
  Tasks,        \* the tasks that call
  PoolSize,     \* MQTT_COMMAND_CONTEXTS_POOL_SIZE
  QueueLength,  \* MQTT_AGENT_COMMAND_QUEUE_LENGTH
  MaxTimeouts   \* bound on the calls a task gives up between two restarts

ASSUME MqttAgentAssumption ==
  PoolSize \in Nat /\ QueueLength \in Nat /\ MaxTimeouts \in Nat /\ IsFiniteSet(Tasks)

VARIABLES
  freeStructures,  \* the pool: structures that hold no command
  commands,        \* the command in each structure
  commandQueue,    \* structures on their way to the agent
  pendingAcks,     \* structures whose packet waits for its acknowledgement
  unanswered,      \* structures whose acknowledgement went with its session
  agent,           \* the agent task: "loop", "reconnecting", "left"
  call,            \* per task, the call it is blocked in: its kind and xReturnStatus
  notified,        \* tasks whose notification is pending
  timeouts         \* per task, calls given up

structures == <<freeStructures, commands, commandQueue, pendingAcks, unanswered>>
agentVars == <<structures, agent, call, notified, timeouts>>

Structures == 1 .. PoolSize
NoCommand == [task |-> "none", kind |-> "none", payload |-> "none", alive |-> FALSE]
NoCall == [kind |-> "none", xReturnStatus |-> "none"]
Waiting(t) == call[t] # NoCall

AgentInit ==
  /\ freeStructures = Structures /\ commands = [s \in Structures |-> NoCommand]
  /\ commandQueue = <<>> /\ pendingAcks = {} /\ unanswered = {}
  /\ agent = "loop"
  /\ call = [t \in Tasks |-> NoCall] /\ notified = {} /\ timeouts = [t \in Tasks |-> 0]

AgentReset ==
  /\ freeStructures' = Structures /\ commands' = [s \in Structures |-> NoCommand]
  /\ commandQueue' = <<>> /\ pendingAcks' = {} /\ unanswered' = {}
  /\ agent' = "loop"
  /\ call' = [t \in Tasks |-> NoCall] /\ notified' = {} /\ timeouts' = [t \in Tasks |-> 0]

----------------------------------------------------------------------------
\* The calling task.

Blocked == freeStructures = {} \/ Len(commandQueue) = QueueLength

\* Mutant: the caller goes on without waiting for the completion.
SendWithoutWaiting(t, kind, payload) ==
  /\ ~Waiting(t) /\ ~Blocked
  /\ LET s == CHOOSE s \in freeStructures : TRUE IN
       /\ freeStructures' = freeStructures \ {s}
       /\ commands' = [commands EXCEPT ![s] = [task |-> t, kind |-> kind, payload |-> payload,
                                               alive |-> TRUE]]
       /\ commandQueue' = Append(commandQueue, s)
  /\ UNCHANGED <<pendingAcks, unanswered, agent, call, notified, timeouts>>

\* Agent_GetCommand and Agent_MessageSend.  A TERMINATE is not waited for.
Send(t, kind, payload) ==
  /\ ~Waiting(t) /\ ~Blocked
  /\ LET s == CHOOSE s \in freeStructures : TRUE IN
       /\ freeStructures' = freeStructures \ {s}
       /\ commands' = [commands EXCEPT ![s] = [task |-> t, kind |-> kind, payload |-> payload,
                                               alive |-> TRUE]]
       /\ commandQueue' = Append(commandQueue, s)
  /\ call' = IF kind = "terminate" THEN call
             ELSE [call EXCEPT ![t] = [kind |-> kind, xReturnStatus |-> "failed"]]
  /\ UNCHANGED <<pendingAcks, unanswered, agent, notified, timeouts>>

\* The caller's frame goes, and with it the contexts of its commands.
LeaveCall(t) ==
  /\ call' = [call EXCEPT ![t] = NoCall]
  /\ commands' = [s \in Structures |->
                    IF commands[s].task = t /\ commands[s].kind # "terminate"
                    THEN [commands[s] EXCEPT !.alive = FALSE] ELSE commands[s]]

\* xTaskNotifyWait ends with any notification of the task, whatever sent it.
Notified(t) ==
  /\ Waiting(t) /\ t \in notified
  /\ notified' = notified \ {t}
  /\ LeaveCall(t)
  /\ UNCHANGED <<freeStructures, commandQueue, pendingAcks, unanswered, agent, timeouts>>

\* UnSubscribeToTopic alone waits for a limited time.
TimesOut(t) ==
  /\ call[t].kind = "unsubscribe" /\ t \notin notified /\ timeouts[t] < MaxTimeouts
  /\ timeouts' = [timeouts EXCEPT ![t] = @ + 1]
  /\ LeaveCall(t)
  /\ UNCHANGED <<freeStructures, commandQueue, pendingAcks, unanswered, agent, notified>>

----------------------------------------------------------------------------
\* The agent task.

\* Mutant: the callback stores the result and does not notify.
CompleteSilently(s, code) ==
  LET t == commands[s].task IN
  /\ call' = [call EXCEPT ![t] = IF Waiting(t) THEN [@ EXCEPT !.xReturnStatus = code] ELSE @]
  /\ UNCHANGED notified
  /\ freeStructures' = freeStructures \cup {s}
  /\ commands' = [commands EXCEPT ![s] = NoCommand]

\* The completion callbacks: the result goes to the context, the task is
\* notified, the structure goes back to the pool.  In a dead context the result
\* overwrites what is there now, which may be the context of the task's next
\* call.  (That it can also destroy the handle of the task is in JobDispatch.)
Complete(s, code) ==
  LET t == commands[s].task IN
  /\ \/ Waiting(t) /\ call' = [call EXCEPT ![t].xReturnStatus = code]
     \/ ~commands[s].alive /\ call' = call
  /\ notified' = notified \cup {t}
  /\ freeStructures' = freeStructures \cup {s}
  /\ commands' = [commands EXCEPT ![s] = NoCommand]

Receiving(kinds) ==
  agent = "loop" /\ commandQueue # <<>> /\ commands[Head(commandQueue)].kind \in kinds

\* A QoS 0 publish is complete when it is written.
ProcessPublish ==
  /\ Receiving({"publish"})
  /\ Complete(Head(commandQueue), "success")
  /\ commandQueue' = Tail(commandQueue)
  /\ UNCHANGED <<pendingAcks, unanswered, agent, timeouts>>

ProcessSubscription ==
  /\ Receiving({"subscribe", "unsubscribe"})
  /\ pendingAcks' = pendingAcks \cup {Head(commandQueue)}
  /\ commandQueue' = Tail(commandQueue)
  /\ UNCHANGED <<freeStructures, commands, unanswered, agent, call, notified, timeouts>>

\* Mutant: the loop ends without giving the structure back.
ProcessTerminateUnreleased ==
  /\ Receiving({"terminate"})
  /\ agent' = "reconnecting"
  /\ commandQueue' = Tail(commandQueue)
  /\ UNCHANGED <<freeStructures, commands, pendingAcks, unanswered, call, notified, timeouts>>

\* Its callback does nothing.
ProcessTerminate ==
  /\ Receiving({"terminate"})
  /\ agent' = "reconnecting"
  /\ freeStructures' = freeStructures \cup {Head(commandQueue)}
  /\ commands' = [commands EXCEPT ![Head(commandQueue)] = NoCommand]
  /\ commandQueue' = Tail(commandQueue)
  /\ UNCHANGED <<pendingAcks, unanswered, call, notified, timeouts>>

Acknowledge ==
  /\ agent = "loop"
  /\ \E s \in pendingAcks : Complete(s, "success") /\ pendingAcks' = pendingAcks \ {s}
  /\ UNCHANGED <<commandQueue, unanswered, agent, timeouts>>

\* A new clean session: what the old one had not acknowledged never will be.
Reconnect ==
  /\ agent = "reconnecting"
  /\ agent' = "loop"
  /\ unanswered' = unanswered \cup pendingAcks /\ pendingAcks' = {}
  /\ UNCHANGED <<freeStructures, commands, commandQueue, call, notified, timeouts>>

\* The command loop ends with an error, after a command that failed or between
\* two of them; the connection is restored, or the attempts are used up, and nobody
\* returns to the loop.  (A refused restoration resets: ReconnectExits.)
NetworkError ==
  /\ agent = "loop" /\ agent' = "left"
  /\ \/ UNCHANGED <<freeStructures, commands, commandQueue, call, notified>>
     \/ /\ Receiving({"publish", "subscribe", "unsubscribe"})
        /\ Complete(Head(commandQueue), "failed")
        /\ commandQueue' = Tail(commandQueue)
  /\ UNCHANGED <<pendingAcks, unanswered, timeouts>>

----------------------------------------------------------------------------
Queued == {commandQueue[i] : i \in 1 .. Len(commandQueue)}
Outstanding == Structures \ freeStructures
Abandoned == {s \in Outstanding : ~commands[s].alive}
Awaited(t) == {s \in Outstanding : commands[s].task = t /\ commands[s].alive
                                   /\ commands[s].kind # "terminate"}

AgentTypeOK ==
  /\ freeStructures \subseteq Structures
  /\ \A s \in Structures : /\ commands[s].task \in Tasks \cup {"none"}
                           /\ commands[s].alive \in BOOLEAN
  /\ commandQueue \in Seq(Structures) /\ Len(commandQueue) <= QueueLength
  /\ pendingAcks \subseteq Structures /\ unanswered \subseteq Structures
  /\ agent \in {"loop", "reconnecting", "left"}
  /\ call \in [Tasks -> [kind : {"none", "publish", "subscribe", "unsubscribe"},
                         xReturnStatus : {"none", "failed", "success"}]]
  /\ notified \subseteq Tasks
  /\ timeouts \in [Tasks -> 0 .. MaxTimeouts]

\* No structure is lost or used twice: each is free, queued, or waiting for an
\* acknowledgement that can or cannot come.
StructuresAccounted ==
  /\ \A i, j \in 1 .. Len(commandQueue) : commandQueue[i] = commandQueue[j] => i = j
  /\ freeStructures \cap (Queued \cup pendingAcks \cup unanswered) = {}
  /\ Queued \cap (pendingAcks \cup unanswered) = {} /\ pendingAcks \cap unanswered = {}
  /\ Outstanding = Queued \cup pendingAcks \cup unanswered

\* A task waits for its own command, or has a notification that ends the wait:
\* no caller of a wait without limit is forgotten, although one notification
\* stands for any number of completions and any completion ends any wait.
WaitingHasReason ==
  \A t \in Tasks : Waiting(t) => Awaited(t) # {} \/ t \in notified

\* A task has at most one command whose context lives, and as many whose
\* context is dead as it has given up calls: a late completion ends the next
\* call early, that call's ends the one after, and the gap never grows.
DeadContextsBounded ==
  \A t \in Tasks :
    /\ Cardinality(Awaited(t)) <= 1
    /\ Cardinality({s \in Abandoned : commands[s].task = t}) <= timeouts[t]
=============================================================================
