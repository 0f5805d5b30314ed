--------------------------- MODULE MqttAgentProofs ---------------------------
(***************************************************************************)
(* For every pool, every queue, any tasks' jobs and every bound on the     *)
(* calls given up: no command structure is lost, no caller of a wait       *)
(* without limit is forgotten, and the commands whose context is dead are  *)
(* no more than the calls given up.  And while no job is cancelled, the    *)
(* work on a job is at one place at a time, so that the job document in    *)
(* the buffer is the one being worked on and success reaches its job.      *)
(***************************************************************************)
EXTENDS JobDispatch, FiniteSetTheorems, TLAPS

Kinds == {"publish", "subscribe", "unsubscribe", "terminate"}
Record(c) == [task |-> c.task, kind |-> c.kind, payload |-> c.payload, alive |-> c.alive]

\* Every command has its record, and what is outstanding belongs to a task; a
\* TERMINATE has no context that could die.
CommandsOK ==
  /\ freeStructures \subseteq Structures
  /\ commands = [s \in Structures |-> commands[s]]
  /\ \A s \in Structures : /\ commands[s] = Record(commands[s])
                           /\ commands[s].alive \in BOOLEAN
                           /\ commands[s].task \in Tasks \cup {"none"}
OutstandingOK ==
  /\ \A s \in Outstanding : /\ commands[s].task \in Tasks /\ commands[s].kind \in Kinds
                            /\ commands[s].kind = "terminate" => commands[s].alive
  /\ \A s \in pendingAcks : commands[s].kind \in {"subscribe", "unsubscribe"}
QueuesOK ==
  /\ commandQueue \in Seq(Structures)
  /\ pendingAcks \subseteq Structures /\ unanswered \subseteq Structures
Calls == [Tasks -> [kind : {"none", "publish", "subscribe", "unsubscribe"},
                    xReturnStatus : {"none", "failed", "success"}]]
TasksOK ==
  /\ call \in Calls /\ notified \subseteq Tasks
  /\ timeouts \in [Tasks -> 0 .. MaxTimeouts]
Shape == CommandsOK /\ OutstandingOK /\ QueuesOK /\ TasksOK

\* The commands of a task that a completion will answer.
Mine(t) == {s \in Outstanding : commands[s].task = t /\ commands[s].kind # "terminate"}

One(b) == IF b THEN 1 ELSE 0

\* The account of a task: every completion to come or pending is for the call
\* it is in or for one it gave up.
Account ==
  \A t \in Tasks :
    /\ Awaited(t) # {} => Waiting(t)
    /\ \A r, s \in Awaited(t) : r = s
    /\ Waiting(t) => Awaited(t) # {} \/ t \in notified
    /\ Cardinality(Mine(t)) + One(t \in notified) <= timeouts[t] + One(Waiting(t))

\* The inductive invariant.
AgentInv == Shape /\ StructuresAccounted /\ Account

-----------------------------------------------------------------------------
\* The queue of commands, seen as a set.

LEMMA AppendQueued ==
  ASSUME NEW s \in Structures, commandQueue \in Seq(Structures), s \notin Queued,
         \A i, j \in 1 .. Len(commandQueue) : commandQueue[i] = commandQueue[j] => i = j,
         commandQueue' = Append(commandQueue, s)
  PROVE  /\ commandQueue' \in Seq(Structures) /\ Queued' = Queued \cup {s}
         /\ \A i, j \in 1 .. Len(commandQueue') : commandQueue'[i] = commandQueue'[j] => i = j
<1>1. /\ commandQueue' \in Seq(Structures) /\ Len(commandQueue') = Len(commandQueue) + 1
      /\ commandQueue'[Len(commandQueue) + 1] = s
      /\ \A i \in 1 .. Len(commandQueue) : commandQueue'[i] = commandQueue[i]
      /\ Len(commandQueue) \in Nat
  OBVIOUS
<1>2. Queued' = Queued \cup {s}
  BY <1>1 DEF Queued
<1>3. \A i, j \in 1 .. Len(commandQueue') : commandQueue'[i] = commandQueue'[j] => i = j
  BY <1>1 DEF Queued
<1> QED
  BY <1>1, <1>2, <1>3

LEMMA TailQueued ==
  ASSUME commandQueue \in Seq(Structures), commandQueue # <<>>,
         \A i, j \in 1 .. Len(commandQueue) : commandQueue[i] = commandQueue[j] => i = j,
         commandQueue' = Tail(commandQueue)
  PROVE  /\ commandQueue' \in Seq(Structures) /\ Queued' = Queued \ {Head(commandQueue)}
         /\ Head(commandQueue) \in Queued /\ Head(commandQueue) \in Structures
         /\ \A i, j \in 1 .. Len(commandQueue') : commandQueue'[i] = commandQueue'[j] => i = j
<1>1. /\ commandQueue' \in Seq(Structures) /\ Len(commandQueue') = Len(commandQueue) - 1
      /\ Head(commandQueue) = commandQueue[1] /\ Head(commandQueue) \in Structures
      /\ \A i \in 1 .. Len(commandQueue') : commandQueue'[i] = commandQueue[i + 1]
      /\ Len(commandQueue) \in Nat \ {0}
  OBVIOUS
<1>2. \A x \in Queued' : x \in Queued /\ x # Head(commandQueue)
  BY <1>1 DEF Queued
<1>3. \A x \in Queued : x # Head(commandQueue) => x \in Queued'
  <2> SUFFICES ASSUME NEW i \in 1 .. Len(commandQueue), commandQueue[i] # commandQueue[1]
               PROVE  commandQueue[i] \in Queued'
    BY <1>1 DEF Queued
  <2>1. i - 1 \in 1 .. Len(commandQueue') /\ commandQueue'[i - 1] = commandQueue[i]
    BY <1>1
  <2> QED
    BY <2>1 DEF Queued
<1>4. \A i, j \in 1 .. Len(commandQueue') : commandQueue'[i] = commandQueue'[j] => i = j
  BY <1>1
<1>5. Head(commandQueue) \in Queued
  BY <1>1 DEF Queued
<1> QED
  BY <1>1, <1>2, <1>3, <1>4, <1>5

-----------------------------------------------------------------------------
\* What each change of the pool and the commands means for a task.

LEMMA MineFinite ==
  ASSUME NEW t PROVE IsFiniteSet(Mine(t)) /\ Cardinality(Mine(t)) \in Nat
<1>1. IsFiniteSet(Structures)
  BY FS_Interval, MqttAgentAssumption DEF Structures
<1>2. Mine(t) \subseteq Structures
  BY DEF Mine, Outstanding
<1> QED
  BY <1>1, <1>2, FS_Subset, FS_CardinalityType

\* A structure is taken for a command whose context lives.
LEMMA Taken ==
  ASSUME CommandsOK, NEW s \in freeStructures, NEW c, c = Record(c),
         c.task \in Tasks, c.alive = TRUE,
         freeStructures' = freeStructures \ {s}, commands' = [commands EXCEPT ![s] = c]
  PROVE  /\ CommandsOK'
         /\ commands'[s] = c /\ \A r \in Structures : r # s => commands'[r] = commands[r]
         /\ Outstanding' = Outstanding \cup {s} /\ s \notin Outstanding
         /\ \A u : Mine(u)' = IF u = c.task /\ c.kind # "terminate" THEN Mine(u) \cup {s}
                              ELSE Mine(u)
         /\ \A u : Awaited(u)' = IF u = c.task /\ c.kind # "terminate" THEN Awaited(u) \cup {s}
                                 ELSE Awaited(u)
<1>1. /\ s \in Structures /\ s \notin Outstanding /\ Outstanding' = Outstanding \cup {s}
      /\ freeStructures' \subseteq Structures
  BY DEF CommandsOK, Outstanding, Structures
<1>2. commands'[s] = c /\ \A r \in Structures : r # s => commands'[r] = commands[r]
  BY <1>1 DEF CommandsOK
<1>3. commands' = [r \in Structures |-> commands'[r]]
  BY <1>1 DEF CommandsOK
<1>4. \A r \in Structures : /\ commands'[r] = Record(commands'[r])
                            /\ commands'[r].alive \in BOOLEAN
                            /\ commands'[r].task \in Tasks \cup {"none"}
  <2> TAKE r \in Structures
  <2>1. CASE r = s
    BY <1>2, <2>1
  <2>2. CASE r # s
    BY <1>2, <2>2 DEF CommandsOK
  <2> QED
    BY <2>1, <2>2
<1>5. \A u : Mine(u)' = IF u = c.task /\ c.kind # "terminate" THEN Mine(u) \cup {s}
                        ELSE Mine(u)
  BY <1>1, <1>2 DEF Mine, Outstanding
<1>6. \A u : Awaited(u)' = IF u = c.task /\ c.kind # "terminate" THEN Awaited(u) \cup {s}
                           ELSE Awaited(u)
  BY <1>1, <1>2 DEF Awaited, Outstanding
<1>7. CommandsOK'
  BY <1>1, <1>3, <1>4 DEF CommandsOK, Structures
<1> QED
  BY <1>1, <1>2, <1>5, <1>6, <1>7

\* A structure goes back to the pool.
LEMMA Released ==
  ASSUME CommandsOK, NEW s \in Outstanding,
         freeStructures' = freeStructures \cup {s},
         commands' = [commands EXCEPT ![s] = NoCommand]
  PROVE  /\ CommandsOK'
         /\ \A r \in Structures : r # s => commands'[r] = commands[r]
         /\ Outstanding' = Outstanding \ {s}
         /\ \A u : Mine(u)' = Mine(u) \ {s}
         /\ \A u : Awaited(u)' = Awaited(u) \ {s}
<1>1. s \in Structures /\ Outstanding' = Outstanding \ {s} /\ freeStructures' \subseteq Structures
  BY DEF CommandsOK, Outstanding, Structures
<1>2. commands'[s] = NoCommand /\ \A r \in Structures : r # s => commands'[r] = commands[r]
  BY <1>1 DEF CommandsOK
<1>3. commands' = [r \in Structures |-> commands'[r]]
  BY <1>1 DEF CommandsOK
<1>4. NoCommand.task = "none" /\ NoCommand.alive = FALSE /\ NoCommand = Record(NoCommand)
  BY DEF Record, NoCommand
<1>5. \A r \in Structures : /\ commands'[r] = Record(commands'[r])
                            /\ commands'[r].alive \in BOOLEAN
                            /\ commands'[r].task \in Tasks \cup {"none"}
  <2> TAKE r \in Structures
  <2>1. CASE r = s
    BY <1>2, <1>4, <2>1
  <2>2. CASE r # s
    BY <1>2, <2>2 DEF CommandsOK
  <2> QED
    BY <2>1, <2>2
<1>6. \A u : Mine(u)' = Mine(u) \ {s}
  BY <1>1, <1>2 DEF Mine, Outstanding
<1>7. \A u : Awaited(u)' = Awaited(u) \ {s}
  BY <1>1, <1>2 DEF Awaited, Outstanding
<1>8. CommandsOK'
  BY <1>1, <1>3, <1>5 DEF CommandsOK, Structures
<1> QED
  BY <1>1, <1>2, <1>6, <1>7, <1>8

\* A task leaves its call: what it waited for is dead now.
LEMMA Left ==
  ASSUME CommandsOK, NEW t \in Tasks, LeaveCall(t), UNCHANGED freeStructures
  PROVE  /\ CommandsOK'
         /\ \A r \in Structures : /\ commands'[r].task = commands[r].task
                                  /\ commands'[r].kind = commands[r].kind
         /\ \A r \in Structures : commands[r].kind = "terminate" => commands'[r] = commands[r]
         /\ Outstanding' = Outstanding
         /\ \A u : Mine(u)' = Mine(u)
         /\ Awaited(t)' = {}
         /\ \A u : u # t => Awaited(u)' = Awaited(u)
<1> DEFINE gone(r) == commands[r].task = t /\ commands[r].kind # "terminate"
<1>1. Outstanding' = Outstanding /\ Outstanding \subseteq Structures
  BY DEF Outstanding, Structures
<1>2. \A r \in Structures :
        commands'[r] = IF gone(r) THEN [commands[r] EXCEPT !.alive = FALSE] ELSE commands[r]
  BY DEF LeaveCall
<1>3. commands' = [r \in Structures |-> commands'[r]]
  BY DEF LeaveCall
<1>4. \A r \in Structures :
        /\ commands'[r] = Record(commands'[r])
        /\ commands'[r].task = commands[r].task /\ commands'[r].kind = commands[r].kind
        /\ commands'[r].alive = (IF gone(r) THEN FALSE ELSE commands[r].alive)
  <2> TAKE r \in Structures
  <2>1. commands[r] = Record(commands[r])
    BY DEF CommandsOK
  <2>2. CASE gone(r)
    BY <1>2, <2>1, <2>2 DEF Record
  <2>3. CASE ~gone(r)
    BY <1>2, <2>1, <2>3
  <2> QED
    BY <2>2, <2>3
<1>5. \A r \in Structures : /\ commands'[r] = Record(commands'[r])
                            /\ commands'[r].alive \in BOOLEAN
                            /\ commands'[r].task \in Tasks \cup {"none"}
  BY <1>4 DEF CommandsOK
<1>6. \A u : Mine(u)' = Mine(u)
  BY <1>1, <1>4 DEF Mine
<1>7. Awaited(t)' = {}
  BY <1>1, <1>4 DEF Awaited
<1>8. \A u : u # t => Awaited(u)' = Awaited(u)
  BY <1>1, <1>4 DEF Awaited
<1>9. \A r \in Structures : commands[r].kind = "terminate" => commands'[r] = commands[r]
  BY <1>2
<1>10. CommandsOK'
  BY <1>3, <1>5 DEF CommandsOK, Structures
<1> QED
  BY <1>1, <1>4, <1>6, <1>7, <1>8, <1>9, <1>10

-----------------------------------------------------------------------------
\* The calls.

LEMMA SendInv ==
  ASSUME AgentInv, NEW t \in Tasks, NEW kind \in Kinds, NEW payload, Send(t, kind, payload)
  PROVE  AgentInv'
<1> DEFINE s == CHOOSE s \in freeStructures : TRUE
           c == [task |-> t, kind |-> kind, payload |-> payload, alive |-> TRUE]
<1>1. /\ s \in freeStructures /\ ~Waiting(t)
      /\ freeStructures' = freeStructures \ {s} /\ commands' = [commands EXCEPT ![s] = c]
      /\ commandQueue' = Append(commandQueue, s)
      /\ call' = IF kind = "terminate" THEN call
                 ELSE [call EXCEPT ![t] = [kind |-> kind, xReturnStatus |-> "failed"]]
      /\ UNCHANGED <<pendingAcks, unanswered, agent, notified, timeouts>>
  BY DEF Send, Blocked
<1>2. c = Record(c) /\ c.task = t /\ c.kind = kind /\ c.alive = TRUE
  BY DEF Record
<1> HIDE DEF s, c
<1>3. CommandsOK /\ s \in Structures
  BY <1>1 DEF AgentInv, Shape, CommandsOK
<1>4. /\ CommandsOK'
      /\ commands'[s] = c /\ \A r \in Structures : r # s => commands'[r] = commands[r]
      /\ Outstanding' = Outstanding \cup {s} /\ s \notin Outstanding
      /\ \A u : Mine(u)' = IF u = c.task /\ c.kind # "terminate" THEN Mine(u) \cup {s}
                           ELSE Mine(u)
      /\ \A u : Awaited(u)' = IF u = c.task /\ c.kind # "terminate" THEN Awaited(u) \cup {s}
                              ELSE Awaited(u)
  BY <1>1, <1>2, <1>3, Taken
<1>5. s \notin Queued /\ s \notin pendingAcks /\ s \notin unanswered
  BY <1>1 DEF AgentInv, StructuresAccounted
<1>6. /\ commandQueue' \in Seq(Structures) /\ Queued' = Queued \cup {s}
      /\ \A i, j \in 1 .. Len(commandQueue') : commandQueue'[i] = commandQueue'[j] => i = j
  BY <1>1, <1>3, <1>5, AppendQueued DEF AgentInv, Shape, QueuesOK, StructuresAccounted
<1>7. TasksOK'
  BY <1>1 DEF AgentInv, Shape, TasksOK, Calls, Kinds
<1>8. OutstandingOK'
  BY <1>1, <1>2, <1>4, <1>5 DEF AgentInv, Shape, OutstandingOK, QueuesOK, Outstanding,
     Structures, Kinds
<1>9. QueuesOK'
  BY <1>1, <1>6 DEF AgentInv, Shape, QueuesOK, Structures
<1>10. StructuresAccounted'
  BY <1>1, <1>4, <1>5, <1>6 DEF AgentInv, StructuresAccounted
<1>11. Account'
  <2> SUFFICES ASSUME NEW u \in Tasks
               PROVE  /\ Awaited(u)' # {} => Waiting(u)'
                      /\ \A q, r \in Awaited(u)' : q = r
                      /\ Waiting(u)' => Awaited(u)' # {} \/ u \in notified'
                      /\ Cardinality(Mine(u)') + One(u \in notified')
                           <= timeouts'[u] + One(Waiting(u)')
    BY DEF Account
  <2>1. CASE u = t /\ kind # "terminate"
    <3>1. Waiting(u)' /\ ~Waiting(u)
      BY <1>1, <2>1 DEF Waiting, NoCall, AgentInv, Shape, TasksOK, Calls, Kinds
    <3>2. Awaited(u) = {} /\ Awaited(u)' = {s}
      BY <1>2, <1>4, <2>1, <3>1 DEF AgentInv, Account
    <3>3. Mine(u)' = Mine(u) \cup {s} /\ s \notin Mine(u)
      BY <1>2, <1>4, <2>1 DEF Mine
    <3>4. Cardinality(Mine(u)') = Cardinality(Mine(u)) + 1
      BY <3>3, MineFinite, FS_AddElement
    <3>5. Cardinality(Mine(u)) + One(u \in notified) <= timeouts[u]
      BY <3>1, MineFinite DEF AgentInv, Account, One, Shape, TasksOK
    <3> QED
      BY <1>1, <3>1, <3>2, <3>4, <3>5, MineFinite DEF One, AgentInv, Shape, TasksOK
  <2>2. CASE ~(u = t /\ kind # "terminate")
    <3>1. call'[u] = call[u]
      BY <1>1, <2>2 DEF AgentInv, Shape, TasksOK, Calls
    <3> QED
      BY <1>1, <1>2, <1>4, <2>2, <3>1 DEF AgentInv, Account, Waiting
  <2> QED
    BY <2>1, <2>2
<1> QED
  BY <1>4, <1>7, <1>8, <1>9, <1>10, <1>11 DEF AgentInv, Shape

\* A task that leaves its call gave one up or took a notification.
LEMMA LeaveInv ==
  ASSUME AgentInv, NEW t \in Tasks, Waiting(t), LeaveCall(t),
         UNCHANGED <<freeStructures, commandQueue, pendingAcks, unanswered>>,
         \/ t \in notified /\ notified' = notified \ {t} /\ UNCHANGED timeouts
         \/ /\ timeouts[t] < MaxTimeouts /\ UNCHANGED notified
            /\ timeouts' = [timeouts EXCEPT ![t] = @ + 1]
  PROVE  AgentInv'
<1>0. CommandsOK
  BY DEF AgentInv, Shape
<1>1. /\ CommandsOK'
      /\ \A r \in Structures : /\ commands'[r].task = commands[r].task
                               /\ commands'[r].kind = commands[r].kind
      /\ \A r \in Structures : commands[r].kind = "terminate" => commands'[r] = commands[r]
      /\ Outstanding' = Outstanding
      /\ \A u : Mine(u)' = Mine(u)
      /\ Awaited(t)' = {}
      /\ \A u : u # t => Awaited(u)' = Awaited(u)
  BY <1>0, Left
<1>2. /\ call' \in Calls /\ ~Waiting(t)'
      /\ \A u \in Tasks : u # t => call'[u] = call[u]
  BY DEF AgentInv, Shape, TasksOK, Calls, LeaveCall, NoCall, Waiting
<1>3. timeouts' \in [Tasks -> 0 .. MaxTimeouts] /\ notified' \subseteq Tasks
  <2>1. timeouts \in [Tasks -> 0 .. MaxTimeouts] /\ notified \subseteq Tasks
    BY DEF AgentInv, Shape, TasksOK
  <2>2. timeouts[t] < MaxTimeouts => timeouts[t] + 1 \in 0 .. MaxTimeouts
    BY <2>1, MqttAgentAssumption
  <2> QED
    BY <2>1, <2>2
<1>4. TasksOK'
  BY <1>2, <1>3 DEF TasksOK, Calls
<1>5. OutstandingOK'
  BY <1>1 DEF AgentInv, Shape, OutstandingOK, QueuesOK, Outstanding, Structures, Kinds
<1>6. QueuesOK'
  BY DEF AgentInv, Shape, QueuesOK, Structures
<1>7. StructuresAccounted'
  <2>1. Queued' = Queued
    BY DEF Queued
  <2> QED
    BY <1>1, <2>1 DEF AgentInv, StructuresAccounted
<1>8. Account'
  <2> SUFFICES ASSUME NEW u \in Tasks
               PROVE  /\ Awaited(u)' # {} => Waiting(u)'
                      /\ \A q, r \in Awaited(u)' : q = r
                      /\ Waiting(u)' => Awaited(u)' # {} \/ u \in notified'
                      /\ Cardinality(Mine(u)') + One(u \in notified')
                           <= timeouts'[u] + One(Waiting(u)')
    BY DEF Account
  <2>1. Cardinality(Mine(u)) + One(u \in notified) <= timeouts[u] + One(Waiting(u))
    BY DEF AgentInv, Account
  <2>2. CASE u = t
    <3>1. Cardinality(Mine(u)) + One(u \in notified') <= timeouts'[u]
      BY <2>1, <2>2, MineFinite DEF One, AgentInv, Shape, TasksOK
    <3> QED
      BY <1>1, <1>2, <1>3, <2>2, <3>1, MineFinite DEF One
  <2>3. CASE u # t
    <3>1. timeouts'[u] = timeouts[u] /\ (u \in notified' <=> u \in notified)
      BY <2>3 DEF AgentInv, Shape, TasksOK
    <3>2. Waiting(u)' <=> Waiting(u)
      BY <1>2, <2>3 DEF Waiting
    <3> QED
      BY <1>1, <2>1, <2>3, <3>1, <3>2 DEF AgentInv, Account, One
  <2> QED
    BY <2>2, <2>3
<1> QED
  BY <1>1, <1>4, <1>5, <1>6, <1>7, <1>8 DEF AgentInv, Shape

-----------------------------------------------------------------------------
\* A completion, wherever the command was.
LEMMA Completed ==
  ASSUME AgentInv, NEW s \in Outstanding, commands[s].kind # "terminate",
         NEW code \in {"failed", "success"}, Complete(s, code), UNCHANGED timeouts
  PROVE  TasksOK' /\ Account'
<1> DEFINE t == commands[s].task
<1>1. t \in Tasks
  BY DEF AgentInv, Shape, OutstandingOK
<1>2. /\ notified' = notified \cup {t} /\ freeStructures' = freeStructures \cup {s}
      /\ commands' = [commands EXCEPT ![s] = NoCommand]
      /\ \/ Waiting(t) /\ call' = [call EXCEPT ![t].xReturnStatus = code]
         \/ call' = call
  BY DEF Complete
<1>3. /\ \A u : Mine(u)' = Mine(u) \ {s}
      /\ \A u : Awaited(u)' = Awaited(u) \ {s}
  BY <1>2, Released DEF AgentInv, Shape
<1>4. \A u : s \in Mine(u) <=> u = t
  BY DEF Mine
<1>5. \A u \in Tasks : s \in Awaited(u) => u = t
  BY DEF Awaited
<1> HIDE DEF t
<1>6. call' \in Calls
  <2>1. CASE call' = call
    BY <2>1 DEF AgentInv, Shape, TasksOK
  <2>2. CASE Waiting(t) /\ call' = [call EXCEPT ![t].xReturnStatus = code]
    BY <1>1, <2>2 DEF AgentInv, Shape, TasksOK, Calls
  <2> QED
    BY <1>2, <2>1, <2>2
<1>7. \A u \in Tasks : Waiting(u)' <=> Waiting(u)
  <2> TAKE u \in Tasks
  <2>1. CASE call' = call
    BY <2>1 DEF Waiting
  <2>2. CASE Waiting(t) /\ call' = [call EXCEPT ![t].xReturnStatus = code]
    <3>1. CASE u = t
      <4>1. call'[u].xReturnStatus = code
        BY <1>1, <2>2, <3>1 DEF AgentInv, Shape, TasksOK, Calls
      <4> QED
        BY <2>2, <3>1, <4>1 DEF Waiting, NoCall
    <3>2. CASE u # t
      BY <1>1, <2>2, <3>2 DEF Waiting, AgentInv, Shape, TasksOK, Calls
    <3> QED
      BY <3>1, <3>2
  <2> QED
    BY <1>2, <2>1, <2>2
<1>8. Account'
  <2> SUFFICES ASSUME NEW u \in Tasks
               PROVE  /\ Awaited(u)' # {} => Waiting(u)'
                      /\ \A q, r \in Awaited(u)' : q = r
                      /\ Waiting(u)' => Awaited(u)' # {} \/ u \in notified'
                      /\ Cardinality(Mine(u)') + One(u \in notified')
                           <= timeouts'[u] + One(Waiting(u)')
    BY DEF Account
  <2>1. Cardinality(Mine(u)) + One(u \in notified) <= timeouts[u] + One(Waiting(u))
    BY DEF AgentInv, Account
  <2>2. Awaited(u)' \subseteq Awaited(u)
    BY <1>3
  <2>3. CASE u = t
    <3>1. Cardinality(Mine(u)') = Cardinality(Mine(u)) - 1
      BY <1>3, <1>4, <2>3, MineFinite, FS_RemoveElement
    <3>2. Cardinality(Mine(u)') + One(u \in notified') <= timeouts[u] + One(Waiting(u))
      BY <2>1, <3>1, MineFinite DEF One, AgentInv, Shape, TasksOK
    <3>3. u \in notified'
      BY <1>2, <2>3
    <3> QED
      BY <1>7, <2>2, <3>2, <3>3 DEF AgentInv, Account, One
  <2>4. CASE u # t
    <3>1. Awaited(u)' = Awaited(u) /\ Mine(u)' = Mine(u) /\ (u \in notified' <=> u \in notified)
      BY <1>2, <1>3, <1>4, <1>5, <2>4
    <3> QED
      BY <1>7, <2>1, <3>1 DEF AgentInv, Account, One
  <2> QED
    BY <2>3, <2>4
<1>9. notified' \subseteq Tasks /\ timeouts' \in [Tasks -> 0 .. MaxTimeouts]
  BY <1>1, <1>2 DEF AgentInv, Shape, TasksOK
<1> QED
  BY <1>6, <1>8, <1>9 DEF TasksOK, Calls

\* What the completion of the command in s leaves to show.
LEMMA CompletedRest ==
  ASSUME AgentInv, NEW s \in Outstanding,
         freeStructures' = freeStructures \cup {s},
         commands' = [commands EXCEPT ![s] = NoCommand],
         s \notin pendingAcks', pendingAcks' \subseteq pendingAcks, UNCHANGED unanswered,
         commandQueue' \in Seq(Structures),
         \A i, j \in 1 .. Len(commandQueue') : commandQueue'[i] = commandQueue'[j] => i = j,
         Queued' \cup pendingAcks' \cup unanswered =
           (Queued \cup pendingAcks \cup unanswered) \ {s},
         Queued' \subseteq Queued
  PROVE  CommandsOK' /\ OutstandingOK' /\ QueuesOK' /\ StructuresAccounted'
<1>1. CommandsOK /\ s \in Structures
  BY DEF AgentInv, Shape, Outstanding
<1>2. /\ CommandsOK'
      /\ \A r \in Structures : r # s => commands'[r] = commands[r]
      /\ Outstanding' = Outstanding \ {s}
  BY <1>1, Released
<1>3. OutstandingOK'
  BY <1>2 DEF AgentInv, Shape, OutstandingOK, QueuesOK, Outstanding, Structures, Kinds
<1>4. QueuesOK'
  BY DEF AgentInv, Shape, QueuesOK, Structures
<1>5. StructuresAccounted'
  BY <1>2 DEF AgentInv, StructuresAccounted
<1> QED
  BY <1>2, <1>3, <1>4, <1>5

\* The head of the queue completes: it was published, or it failed.
LEMMA CompleteHeadInv ==
  ASSUME AgentInv, Receiving({"publish", "subscribe", "unsubscribe"}),
         NEW code \in {"failed", "success"}, Complete(Head(commandQueue), code),
         commandQueue' = Tail(commandQueue), UNCHANGED <<pendingAcks, unanswered, timeouts>>
  PROVE  AgentInv'
<1> DEFINE s == Head(commandQueue)
<1>1. /\ commandQueue' \in Seq(Structures) /\ Queued' = Queued \ {s} /\ s \in Queued
      /\ \A i, j \in 1 .. Len(commandQueue') : commandQueue'[i] = commandQueue'[j] => i = j
  BY TailQueued DEF AgentInv, Shape, QueuesOK, StructuresAccounted, Receiving
<1>2. s \in Outstanding /\ commands[s].kind # "terminate"
  BY <1>1 DEF AgentInv, StructuresAccounted, Receiving
<1>3. Complete(s, code)
  OBVIOUS
<1> HIDE DEF s
<1>4. TasksOK' /\ Account'
  BY <1>2, <1>3, Completed
<1>5. s \notin pendingAcks /\ s \notin unanswered
  BY <1>1 DEF AgentInv, StructuresAccounted
<1>6. /\ freeStructures' = freeStructures \cup {s}
      /\ commands' = [commands EXCEPT ![s] = NoCommand]
  BY <1>3 DEF Complete
<1>7. Queued' \cup pendingAcks' \cup unanswered = (Queued \cup pendingAcks \cup unanswered) \ {s}
  BY <1>1, <1>5
<1>8. Queued' \subseteq Queued /\ s \notin pendingAcks' /\ pendingAcks' \subseteq pendingAcks
  BY <1>1, <1>5
<1>9. CommandsOK' /\ OutstandingOK' /\ QueuesOK' /\ StructuresAccounted'
  BY <1>1, <1>2, <1>6, <1>7, <1>8, CompletedRest
<1> QED
  BY <1>4, <1>9 DEF AgentInv, Shape

LEMMA AcknowledgeInv ==
  ASSUME AgentInv, Acknowledge PROVE AgentInv'
<1>1. PICK s \in pendingAcks : Complete(s, "success") /\ pendingAcks' = pendingAcks \ {s}
  BY DEF Acknowledge
<1>2. UNCHANGED <<commandQueue, unanswered, timeouts>> /\ Queued' = Queued
  BY DEF Acknowledge, Queued
<1>3. s \in Outstanding /\ commands[s].kind # "terminate" /\ s \notin Queued /\ s \notin unanswered
  BY DEF AgentInv, Shape, OutstandingOK, StructuresAccounted
<1>4. TasksOK' /\ Account'
  BY <1>1, <1>2, <1>3, Completed
<1>5. /\ freeStructures' = freeStructures \cup {s}
      /\ commands' = [commands EXCEPT ![s] = NoCommand]
  BY <1>1 DEF Complete
<1>6. /\ commandQueue' \in Seq(Structures)
      /\ \A i, j \in 1 .. Len(commandQueue') : commandQueue'[i] = commandQueue'[j] => i = j
  BY <1>2 DEF AgentInv, Shape, QueuesOK, StructuresAccounted
<1>7. Queued' \cup pendingAcks' \cup unanswered = (Queued \cup pendingAcks \cup unanswered) \ {s}
  BY <1>1, <1>2, <1>3
<1>8. /\ Queued' \subseteq Queued /\ s \notin pendingAcks' /\ pendingAcks' \subseteq pendingAcks
      /\ UNCHANGED unanswered
  BY <1>1, <1>2
<1>9. CommandsOK' /\ OutstandingOK' /\ QueuesOK' /\ StructuresAccounted'
  BY <1>3, <1>5, <1>6, <1>7, <1>8, CompletedRest
<1> QED
  BY <1>4, <1>9 DEF AgentInv, Shape

\* What the account of the tasks is made of does not change.
LEMMA SameAccount ==
  ASSUME AgentInv, UNCHANGED <<call, notified, timeouts>>,
         \A u : Mine(u)' = Mine(u) /\ Awaited(u)' = Awaited(u)
  PROVE  TasksOK' /\ Account'
<1>1. TasksOK'
  BY DEF AgentInv, Shape, TasksOK, Calls
<1>2. \A u \in Tasks : Waiting(u)' <=> Waiting(u)
  BY DEF Waiting
<1>3. Account'
  BY <1>2 DEF AgentInv, Account, One
<1> QED
  BY <1>1, <1>3

LEMMA ProcessSubscriptionInv ==
  ASSUME AgentInv, ProcessSubscription PROVE AgentInv'
<1> DEFINE s == Head(commandQueue)
<1>1. /\ commandQueue' \in Seq(Structures) /\ Queued' = Queued \ {s} /\ s \in Queued
      /\ \A i, j \in 1 .. Len(commandQueue') : commandQueue'[i] = commandQueue'[j] => i = j
  BY TailQueued DEF AgentInv, Shape, QueuesOK, StructuresAccounted, ProcessSubscription, Receiving
<1>2. /\ commands[s].kind \in {"subscribe", "unsubscribe"}
      /\ pendingAcks' = pendingAcks \cup {s}
      /\ UNCHANGED <<freeStructures, commands, unanswered, call, notified, timeouts>>
  BY DEF ProcessSubscription, Receiving
<1> HIDE DEF s
<1>3. s \in Outstanding /\ s \notin pendingAcks /\ s \notin unanswered /\ s \in Structures
  BY <1>1 DEF AgentInv, StructuresAccounted, Outstanding
<1>4. CommandsOK' /\ Outstanding' = Outstanding
  BY <1>2 DEF AgentInv, Shape, CommandsOK, Record, Structures, Outstanding
<1>5. OutstandingOK'
  BY <1>2, <1>4 DEF AgentInv, Shape, OutstandingOK, Kinds
<1>6. QueuesOK'
  BY <1>1, <1>2, <1>3 DEF AgentInv, Shape, QueuesOK, Structures
<1>7. StructuresAccounted'
  BY <1>1, <1>2, <1>3, <1>4 DEF AgentInv, StructuresAccounted
<1>8. TasksOK' /\ Account'
  <2>1. \A u : Mine(u)' = Mine(u) /\ Awaited(u)' = Awaited(u)
    BY <1>2, <1>4 DEF Mine, Awaited
  <2> QED
    BY <1>2, <2>1, SameAccount
<1> QED
  BY <1>4, <1>5, <1>6, <1>7, <1>8 DEF AgentInv, Shape

LEMMA ProcessTerminateInv ==
  ASSUME AgentInv, ProcessTerminate PROVE AgentInv'
<1> DEFINE s == Head(commandQueue)
<1>1. /\ commandQueue' \in Seq(Structures) /\ Queued' = Queued \ {s} /\ s \in Queued
      /\ \A i, j \in 1 .. Len(commandQueue') : commandQueue'[i] = commandQueue'[j] => i = j
  BY TailQueued DEF AgentInv, Shape, QueuesOK, StructuresAccounted, ProcessTerminate, Receiving
<1>2. /\ commands[s].kind = "terminate"
      /\ freeStructures' = freeStructures \cup {s}
      /\ commands' = [commands EXCEPT ![s] = NoCommand]
      /\ UNCHANGED <<pendingAcks, unanswered, call, notified, timeouts>>
  BY DEF ProcessTerminate, Receiving
<1> HIDE DEF s
<1>3. s \in Outstanding /\ s \notin pendingAcks /\ s \notin unanswered
  BY <1>1 DEF AgentInv, StructuresAccounted
<1>4. Queued' \cup pendingAcks' \cup unanswered = (Queued \cup pendingAcks \cup unanswered) \ {s}
  BY <1>1, <1>2, <1>3
<1>5. /\ Queued' \subseteq Queued /\ s \notin pendingAcks' /\ pendingAcks' \subseteq pendingAcks
      /\ UNCHANGED unanswered
  BY <1>1, <1>2, <1>3
<1>6. CommandsOK' /\ OutstandingOK' /\ QueuesOK' /\ StructuresAccounted'
  BY <1>1, <1>2, <1>3, <1>4, <1>5, CompletedRest
<1>7. TasksOK' /\ Account'
  <2>1. \A u : Mine(u)' = Mine(u) \ {s} /\ Awaited(u)' = Awaited(u) \ {s}
    BY <1>2, <1>3, Released DEF AgentInv, Shape
  <2>2. \A u : s \notin Mine(u) /\ s \notin Awaited(u)
    BY <1>2 DEF Mine, Awaited
  <2>3. \A u : Mine(u)' = Mine(u) /\ Awaited(u)' = Awaited(u)
    BY <2>1, <2>2
  <2> QED
    BY <1>2, <2>3, SameAccount
<1> QED
  BY <1>6, <1>7 DEF AgentInv, Shape

LEMMA ReconnectInv ==
  ASSUME AgentInv, Reconnect PROVE AgentInv'
<1>1. /\ unanswered' = unanswered \cup pendingAcks /\ pendingAcks' = {}
      /\ UNCHANGED <<freeStructures, commands, commandQueue, call, notified, timeouts>>
  BY DEF Reconnect
<1>2. CommandsOK' /\ Outstanding' = Outstanding /\ Queued' = Queued
  BY <1>1 DEF AgentInv, Shape, CommandsOK, Record, Structures, Outstanding, Queued
<1>3. OutstandingOK'
  BY <1>1, <1>2 DEF AgentInv, Shape, OutstandingOK, Kinds
<1>4. QueuesOK'
  BY <1>1 DEF AgentInv, Shape, QueuesOK, Structures
<1>5. StructuresAccounted'
  BY <1>1, <1>2 DEF AgentInv, StructuresAccounted
<1>6. \A u : Mine(u)' = Mine(u) /\ Awaited(u)' = Awaited(u)
  BY <1>1, <1>2 DEF Mine, Awaited
<1>7. TasksOK' /\ Account'
  BY <1>1, <1>6, SameAccount
<1> QED
  BY <1>2, <1>3, <1>4, <1>5, <1>7 DEF AgentInv, Shape

\* A step that leaves the pool, the commands and the tasks' calls alone.
LEMMA UnchangedInv ==
  ASSUME AgentInv, UNCHANGED <<structures, call, notified, timeouts>> PROVE AgentInv'
<1>1. UNCHANGED <<freeStructures, commands, commandQueue, pendingAcks, unanswered>>
  BY DEF structures
<1>2. CommandsOK' /\ Outstanding' = Outstanding /\ Queued' = Queued
  BY <1>1 DEF AgentInv, Shape, CommandsOK, Record, Structures, Outstanding, Queued
<1>3. OutstandingOK'
  BY <1>1, <1>2 DEF AgentInv, Shape, OutstandingOK, Kinds
<1>4. QueuesOK'
  BY <1>1 DEF AgentInv, Shape, QueuesOK, Structures
<1>5. StructuresAccounted'
  BY <1>1, <1>2 DEF AgentInv, StructuresAccounted
<1>6. \A u : Mine(u)' = Mine(u) /\ Awaited(u)' = Awaited(u)
  BY <1>1, <1>2 DEF Mine, Awaited
<1>7. TasksOK' /\ Account'
  BY <1>6, SameAccount
<1> QED
  BY <1>2, <1>3, <1>4, <1>5, <1>7 DEF AgentInv, Shape

LEMMA NetworkErrorInv ==
  ASSUME AgentInv, NetworkError PROVE AgentInv'
<1>1. CASE UNCHANGED <<freeStructures, commands, commandQueue, call, notified>>
  BY <1>1, UnchangedInv DEF NetworkError, structures
<1>2. CASE /\ Receiving({"publish", "subscribe", "unsubscribe"})
           /\ Complete(Head(commandQueue), "failed") /\ commandQueue' = Tail(commandQueue)
  BY <1>2, CompleteHeadInv DEF NetworkError
<1> QED
  BY <1>1, <1>2 DEF NetworkError

\* The start, of the device and of every boot after it.
LEMMA StartInv ==
  /\ AgentInit => AgentInv
  /\ AgentReset => AgentInv'
PROOF
<1>1. /\ Record(NoCommand) = NoCommand /\ NoCommand.alive = FALSE /\ NoCommand.task = "none"
      /\ NoCall \in [kind : {"none", "publish", "subscribe", "unsubscribe"},
                     xReturnStatus : {"none", "failed", "success"}]
  BY DEF Record, NoCommand, NoCall
<1>2. 0 \in 0 .. MaxTimeouts /\ Cardinality({}) = 0
  BY MqttAgentAssumption, FS_EmptySet
<1>3. ASSUME AgentInit PROVE AgentInv
  <2>1. \A u : Mine(u) = {} /\ Awaited(u) = {}
    BY <1>3 DEF AgentInit, Mine, Awaited, Outstanding
  <2>2. CommandsOK
    BY <1>1, <1>3 DEF AgentInit, CommandsOK
  <2>3. OutstandingOK /\ QueuesOK /\ TasksOK
    BY <1>1, <1>2, <1>3 DEF AgentInit, OutstandingOK, QueuesOK, TasksOK, Calls, Outstanding
  <2>4. StructuresAccounted
    BY <1>3 DEF AgentInit, StructuresAccounted, Queued, Outstanding
  <2>5. Account
    <3> SUFFICES ASSUME NEW u \in Tasks
                 PROVE  /\ ~Waiting(u) /\ u \notin notified
                        /\ Cardinality(Mine(u)) = 0 /\ timeouts[u] = 0
      BY <2>1 DEF Account, One
    <3> QED
      BY <1>2, <1>3, <2>1 DEF AgentInit, Waiting
  <2> QED
    BY <2>2, <2>3, <2>4, <2>5 DEF AgentInv, Shape
<1>4. ASSUME AgentReset PROVE AgentInv'
  <2>1. \A u : Mine(u)' = {} /\ Awaited(u)' = {}
    BY <1>4 DEF AgentReset, Mine, Awaited, Outstanding, Structures
  <2>2. CommandsOK'
    BY <1>1, <1>4 DEF AgentReset, CommandsOK, Structures
  <2>3. OutstandingOK' /\ QueuesOK' /\ TasksOK'
    BY <1>1, <1>2, <1>4 DEF AgentReset, OutstandingOK, QueuesOK, TasksOK, Calls, Outstanding,
       Structures
  <2>4. StructuresAccounted'
    BY <1>4 DEF AgentReset, StructuresAccounted, Queued, Outstanding, Structures
  <2>5. Account'
    <3> SUFFICES ASSUME NEW u \in Tasks
                 PROVE  /\ ~Waiting(u)' /\ u \notin notified'
                        /\ Cardinality(Mine(u)') = 0 /\ timeouts'[u] = 0
      BY <2>1 DEF Account, One
    <3> QED
      BY <1>2, <1>4, <2>1 DEF AgentReset, Waiting, NoCall
  <2> QED
    BY <2>2, <2>3, <2>4, <2>5 DEF AgentInv, Shape
<1> QED
  BY <1>3, <1>4

-----------------------------------------------------------------------------
\* The steps of the system.

LEMMA KindOfCall ==
  ASSUME NEW t \in Tasks, CanCall(t) PROVE KindOf(step[t]) \in Kinds
<1>1. CASE t = "ota"
  <2>1. step[t] \in {"in_progress", "subscribe", "request", "succeeded", "failed", "rejected"}
    BY <1>1 DEF CanCall, AfterCall
  <2> QED
    BY <2>1 DEF KindOf, Kinds, Statuses
<1>2. CASE t = "renewal"
  <2>1. step[t] \in {"in_progress", "subscribe", "sign", "terminate", "unsubscribe",
                     "resubscribe", "revoke", "unsubscribe_revoked", "unsubscribe_refused",
                     "succeeded", "failed", "rejected"}
    BY <1>2 DEF CanCall, AfterCall
  <2> QED
    BY <2>1 DEF KindOf, Kinds, Statuses
<1> QED
  BY <1>1, <1>2, JobDispatchAssumption

LEMMA RestartInv ==
  Restart => AgentInv'
BY StartInv DEF Restart

LEMMA TaskStepInv ==
  ASSUME AgentInv, NEW t \in Tasks, TaskStep(t) PROVE AgentInv'
<1>1. ASSUME UNCHANGED agentVars PROVE AgentInv'
  BY <1>1, UnchangedInv DEF agentVars
<1>2. CASE ReceiveJobDocument(t)
  BY <1>1, <1>2, RestartInv DEF ReceiveJobDocument
<1>3. CASE ReceiveAnswer(t)
  BY <1>1, <1>3 DEF ReceiveAnswer
<1>4. CASE Call(t)
  BY <1>4, KindOfCall, SendInv DEF Call
<1>5. CASE NoJobToUpdate(t)
  BY <1>1, <1>5 DEF NoJobToUpdate
<1>6. CASE CallRefused(t)
  BY <1>1, <1>6, RestartInv DEF CallRefused
<1>7. CASE Return(t)
  <2>1. CASE Restart
    BY <2>1, RestartInv
  <2>2. CASE Notified(t)
    BY <2>2, LeaveInv DEF Notified
  <2> QED
    BY <1>7, <2>1, <2>2 DEF Return
<1>8. CASE GiveUp(t)
  <2>1. TimesOut(t)
    BY <1>8 DEF GiveUp
  <2>2. Waiting(t)
    BY <2>1 DEF TimesOut, Waiting, NoCall
  <2> QED
    BY <2>1, <2>2, LeaveInv DEF TimesOut
<1> QED
  BY <1>2, <1>3, <1>4, <1>5, <1>6, <1>7, <1>8 DEF TaskStep

LEMMA StepInv ==
  ASSUME AgentInv, [Next]_vars PROVE AgentInv'
<1>1. ASSUME UNCHANGED agentVars PROVE AgentInv'
  BY <1>1, UnchangedInv DEF agentVars
<1>2. ASSUME NEW t \in Tasks, TaskStep(t) PROVE AgentInv'
  BY <1>2, TaskStepInv
<1>3. CASE RestartAfterUpdate \/ DeadContextCrash \/ ReconnectExits
  BY <1>3, RestartInv DEF RestartAfterUpdate, DeadContextCrash, ReconnectExits
<1>4. CASE AgentStep
  <2>1. CASE Publish
    <3>1. /\ Receiving({"publish"}) /\ Complete(Head(commandQueue), "success")
          /\ commandQueue' = Tail(commandQueue) /\ UNCHANGED <<pendingAcks, unanswered, timeouts>>
      BY <2>1 DEF Publish, ProcessPublish
    <3>2. Receiving({"publish", "subscribe", "unsubscribe"})
      BY <3>1 DEF Receiving
    <3> QED
      BY <3>1, <3>2, CompleteHeadInv
  <2>2. CASE Reconnected
    BY <2>2, ReconnectInv DEF Reconnected
  <2>3. CASE ProcessSubscription \/ ProcessTerminate \/ Acknowledge
    BY <2>3, ProcessSubscriptionInv, ProcessTerminateInv, AcknowledgeInv
  <2> QED
    BY <1>4, <2>1, <2>2, <2>3 DEF AgentStep
<1>5. CASE NetworkError
  BY <1>5, NetworkErrorInv
<1>6. ASSUME NEW j \in Jobs, prvIncomingPublishCallback(j) \/ JobEnds(j) PROVE AgentInv'
  BY <1>1, <1>6 DEF prvIncomingPublishCallback, JobEnds
<1>7. ASSUME NEW r \in requests, Answer(r) PROVE AgentInv'
  BY <1>1, <1>7 DEF Answer
<1>8. CASE UNCHANGED vars
  BY <1>1, <1>8 DEF vars
<1> QED
  BY <1>2, <1>3, <1>4, <1>5, <1>6, <1>7, <1>8 DEF Next

LEMMA AgentInvariant ==
  Spec => []AgentInv
<1>1. Init => AgentInv
  BY StartInv DEF Init
<1>2. AgentInv /\ [Next]_vars => AgentInv'
  BY StepInv
<1> QED
  BY <1>1, <1>2, PTL DEF Spec

-----------------------------------------------------------------------------
\* No command structure is lost and none is used twice, whatever the agents
\* call, give up or restart: the pool of freertos_command_pool.c.
THEOREM AccountsForStructures ==
  Spec => []StructuresAccounted
<1>1. AgentInv => StructuresAccounted
  BY DEF AgentInv
<1> QED
  BY <1>1, AgentInvariant, PTL

\* A task that waits without limit (mqtt_common.c, the three commands) has a
\* command that will end the wait, or the notification that does is pending.
THEOREM NoCallerForgotten ==
  Spec => []WaitingHasReason
<1>1. AgentInv => WaitingHasReason
  BY DEF AgentInv, Account, WaitingHasReason
<1> QED
  BY <1>1, AgentInvariant, PTL

\* The commands whose context is dead, which UnSubscribeToTopic leaves behind
\* when it gives up, are no more than the calls given up.
THEOREM DeadContextsAreBounded ==
  Spec => []DeadContextsBounded
<1>1. ASSUME AgentInv, NEW t \in Tasks
      PROVE  /\ Cardinality(Awaited(t)) <= 1
             /\ Cardinality({s \in Abandoned : commands[s].task = t}) <= timeouts[t]
  <2> DEFINE dead == {s \in Abandoned : commands[s].task = t}
  <2>1. Cardinality(Awaited(t)) <= 1
    <3>1. CASE Awaited(t) = {}
      BY <3>1, FS_EmptySet
    <3>2. ASSUME NEW r \in Awaited(t) PROVE Cardinality(Awaited(t)) <= 1
      <4>1. Awaited(t) = {r}
        BY <1>1, <3>2 DEF AgentInv, Account
      <4> QED
        BY <4>1, FS_Singleton
    <3> QED
      BY <3>1, <3>2
  <2>2. dead \subseteq Mine(t) /\ dead \cap Awaited(t) = {} /\ Awaited(t) \subseteq Mine(t)
    BY <1>1 DEF Abandoned, Mine, Awaited, AgentInv, Shape, OutstandingOK
  <2>3. /\ Cardinality(Mine(t)) + One(t \in notified) <= timeouts[t] + One(Waiting(t))
        /\ Waiting(t) => Awaited(t) # {} \/ t \in notified
        /\ timeouts[t] \in Nat
    BY <1>1 DEF AgentInv, Account, Shape, TasksOK
  <2>4. Cardinality(dead) \in Nat /\ Cardinality(dead) <= Cardinality(Mine(t))
    BY <2>2, MineFinite, FS_Subset, FS_CardinalityType
  <2>5. CASE Waiting(t) /\ t \notin notified
    <3>1. PICK r \in Awaited(t) : TRUE
      BY <2>3, <2>5
    <3>2. dead \subseteq Mine(t) \ {r} /\ r \in Mine(t)
      BY <2>2, <3>1
    <3>3. Cardinality(Mine(t) \ {r}) = Cardinality(Mine(t)) - 1 /\ IsFiniteSet(Mine(t) \ {r})
      BY <3>2, MineFinite, FS_RemoveElement
    <3>4. Cardinality(dead) <= Cardinality(Mine(t)) - 1
      BY <3>2, <3>3, FS_Subset
    <3> QED
      BY <2>1, <2>3, <2>4, <2>5, <3>4, MineFinite DEF One
  <2>6. CASE ~(Waiting(t) /\ t \notin notified)
    BY <2>1, <2>3, <2>4, <2>6, MineFinite DEF One
  <2> QED
    BY <2>5, <2>6
<1>2. AgentInv => DeadContextsBounded
  BY <1>1 DEF DeadContextsBounded
<1> QED
  BY <1>2, AgentInvariant, PTL


-----------------------------------------------------------------------------
\* The jobs and the agents that work on them.

Asked == [ota |-> {"request"}, renewal |-> {"sign", "revoke"}]
Answered == [ota |-> {"succeeded", "failed"},
             renewal |-> {"terminate", "failed", "unsubscribe", "unsubscribe_revoked",
                          "unsubscribe_refused"}]
OwnEvents(t) == [job : Jobs \cup {None}, first : {"document"} \cup Answered[t]]
OwnRequests(t) == [task : {t}, api : Asked[t], job : Jobs]
OwnSteps(t) == DOMAIN AfterCall[t]
Payloads(t) == [job : Jobs, about : OwnSteps(t)]

\* What the variables of JobDispatch hold, each agent's part of its own kind.
CloudTypes ==
  /\ jobStatus \in [Jobs -> {"queued", "in_progress"} \cup Terminal]
  /\ announced \subseteq Jobs /\ finished \subseteq Jobs
  /\ cancels \in 0 .. MaxCancels
  /\ \A r \in requests : r.task \in Tasks /\ r \in OwnRequests(r.task)
AgentTypes ==
  /\ jobBuffer \in Jobs \cup {None} /\ globalJobId \in Jobs \cup {None}
  /\ events = [t \in Tasks |-> events[t]] /\ \A t \in Tasks : events[t] \in Seq(OwnEvents(t))
  /\ jobId \in [Tasks -> Jobs \cup {None}]
StepTypes ==
  /\ step = [t \in Tasks |-> step[t]]
  /\ \A t \in Tasks : /\ step[t] \in {"receive", "restart"} \cup OwnSteps(t)
                      /\ Waiting(t) => step[t] \in OwnSteps(t) \ {"terminate"}
CallTypes ==
  /\ agent \in {"loop", "reconnecting", "left"}
  /\ Len(commandQueue) <= QueueLength
  /\ \A s \in Outstanding : /\ commands[s].payload \in Payloads(commands[s].task)
                            /\ commands[s].kind = KindOf(commands[s].payload.about)
DispatchTypes == CloudTypes /\ AgentTypes /\ StepTypes /\ CallTypes

\* An agent does nothing before its first document, which is in the buffer.
Begun ==
  /\ \A t \in Tasks : \A i \in 1 .. Len(events[t]) :
       IF events[t][i].first = "document" THEN jobBuffer # None ELSE jobId[t] # None
  /\ \A t \in Tasks : step[t] \in OwnSteps(t) => jobId[t] # None
  /\ \A s \in Outstanding : jobId[commands[s].task] # None
  /\ \A r \in requests : jobId[r.task] # None
  /\ agent = "reconnecting" => jobId["renewal"] # None

(***************************************************************************)
(* While AWS IoT ends no job by itself, one job is worked on at a time, and *)
(* the work is at one place at a time: an event, a handler, a command, a    *)
(* request, or the agent task on its way to a new session.  A call that is  *)
(* Handed carries the work on with its command.                             *)
(***************************************************************************)
Handed == {"request", "sign", "revoke", "succeeded", "failed", "rejected"}
Working(t) == step[t] \in OwnSteps(t) /\ ~(Waiting(t) /\ step[t] \in Handed)
Carries(s) == s \in Outstanding /\ commands[s].payload.about \in Handed \cup {"terminate"}

Places ==
  {<<"event", t>> : t \in {u \in Tasks : events[u] # <<>>}}
  \cup {<<"step", t>> : t \in {u \in Tasks : Working(u)}}
  \cup {<<"command", s>> : s \in {r \in Structures : Carries(r)}}
  \cup {<<"request", r>> : r \in requests}
  \cup {<<"session", a>> : a \in {agent} \cap {"reconnecting"}}

OnePlace ==
  /\ \A p, q \in Places : p = q
  /\ \A t \in Tasks : Len(events[t]) <= 1

\* A job is announced when those before it have ended.
Live(j) == j \in announced /\ jobStatus[j] \notin Terminal
Serial ==
  /\ \A j \in announced : \A i \in Jobs : i < j => jobStatus[i] \in Terminal
  /\ \A j \in Jobs \ announced : jobStatus[j] = "queued"
  /\ globalJobId \in announced \cup {None}
  /\ \A s \in Outstanding :
       commands[s].payload.about \in Statuses => commands[s].payload.job \in announced
  /\ Places # {} => \E j \in Jobs : Live(j)

\* The work is for the job in globalJobId, from the document until the report.
Attributed ==
  /\ \A t \in Tasks : Working(t) /\ step[t] # "rejected" => jobId[t] = globalJobId
  /\ \A t \in Tasks : events[t] # <<>> =>
       IF Head(events[t]).first = "document"
       THEN /\ Head(events[t]).job = jobBuffer /\ jobBuffer \in announced
            /\ AgentOf(jobBuffer) = t
       ELSE jobId[t] = globalJobId
  /\ \A s \in Outstanding : commands[s].payload.about \in {"request", "sign", "revoke"} =>
       /\ commands[s].payload.job = globalJobId
       /\ jobId[commands[s].task] = globalJobId
  /\ \A s \in Outstanding :
       commands[s].payload.about = "terminate" => jobId["renewal"] = globalJobId
  /\ agent = "reconnecting" => jobId["renewal"] = globalJobId
  /\ \A r \in requests : r.job = globalJobId /\ jobId[r.task] = globalJobId

\* What is reported, or will be reported, as a success was finished.
Earned ==
  /\ \A t \in Tasks : Working(t) /\ step[t] \in Good => globalJobId \in finished
  /\ \A t \in Tasks : events[t] # <<>> /\ Head(events[t]).first \in Good => globalJobId \in finished
  /\ \A s \in Outstanding :
       commands[s].payload.about = "succeeded" => commands[s].payload.job \in finished
  /\ \A j \in Jobs : jobStatus[j] = "succeeded" => j \in finished

WorkInv == OnePlace /\ Serial /\ Attributed /\ Earned
DispatchInv == DispatchTypes /\ Begun /\ (cancels = 0 => WorkInv)

-----------------------------------------------------------------------------
\* What the calls and the agent task leave of the commands.

\* No command but those before it, with what they carry.
Kept ==
  \A s \in Structures : s \in Outstanding' =>
    /\ s \in Outstanding
    /\ commands'[s].task = commands[s].task /\ commands'[s].kind = commands[s].kind
    /\ commands'[s].payload = commands[s].payload
SameCalls == \A t \in Tasks : Waiting(t)' <=> Waiting(t)

\* The calls of the two agents, and what comes after each.
LEMMA OwnStepsAre ==
  /\ Tasks = {"ota", "renewal"}
  /\ OwnSteps("ota") = {"in_progress", "subscribe", "request", "succeeded", "failed", "rejected"}
  /\ OwnSteps("renewal") = {"in_progress", "subscribe", "sign", "terminate", "unsubscribe",
                            "resubscribe", "revoke", "unsubscribe_revoked",
                            "unsubscribe_refused", "succeeded", "failed", "rejected"}
BY JobDispatchAssumption DEF OwnSteps, AfterCall

LEMMA StepAfter ==
  ASSUME NEW t \in Tasks, NEW s \in OwnSteps(t)
  PROVE  /\ AfterCall[t][s] \in {"receive", "restart"} \cup OwnSteps(t)
         /\ AfterCall[t][s] \notin {"terminate", "rejected"}
         /\ s \in Handed \cup {"terminate"} <=> AfterCall[t][s] \in {"receive", "restart"}
         /\ AfterCall[t][s] \in Good => s \in Good
<1>1. CASE t = "ota"
  <2>1. AfterCall[t] = [in_progress |-> "subscribe", subscribe |-> "request",
                        request |-> "receive", succeeded |-> "restart", failed |-> "receive",
                        rejected |-> "receive"]
    BY <1>1 DEF AfterCall
  <2> QED
    BY <1>1, <2>1, OwnStepsAre DEF Handed, Good
<1>2. CASE t = "renewal"
  <2>1. AfterCall[t] =
          [in_progress |-> "subscribe", subscribe |-> "sign", sign |-> "receive",
           terminate |-> "receive",
           unsubscribe |-> "resubscribe", resubscribe |-> "revoke", revoke |-> "receive",
           unsubscribe_revoked |-> "succeeded", unsubscribe_refused |-> "failed",
           succeeded |-> "receive", failed |-> "receive", rejected |-> "receive"]
    BY <1>2 DEF AfterCall
  <2> QED
    BY <1>2, <2>1, OwnStepsAre DEF Handed, Good
<1> QED
  BY <1>1, <1>2, OwnStepsAre

\* What a call is for says of which kind it is.
LEMMA KindIs ==
  ASSUME NEW t \in Tasks, NEW s \in OwnSteps(t)
  PROVE  /\ KindOf(s) \in Kinds
         /\ KindOf(s) = "terminate" <=> s = "terminate"
         /\ KindOf(s) = "publish" <=> s \in Statuses \cup {"request", "sign", "revoke"}
<1>1. s \in {"in_progress", "subscribe", "request", "succeeded", "failed", "rejected", "sign",
             "terminate", "unsubscribe", "resubscribe", "revoke", "unsubscribe_revoked",
             "unsubscribe_refused"}
  BY OwnStepsAre
<1> QED
  BY <1>1 DEF KindOf, Kinds, Statuses

\* A command is sent: it is the only new one.
LEMMA SentCommand ==
  ASSUME AgentInv, Len(commandQueue) <= QueueLength,
         NEW t \in Tasks, NEW kind \in Kinds, NEW payload, Send(t, kind, payload)
  PROVE  \E s \in Structures :
           /\ s \notin Outstanding /\ Outstanding' = Outstanding \cup {s}
           /\ commands'[s].task = t /\ commands'[s].kind = kind /\ commands'[s].payload = payload
           /\ \A r \in Outstanding : commands'[r] = commands[r]
           /\ Len(commandQueue') <= QueueLength /\ agent' = agent
           /\ ~Waiting(t) /\ (Waiting(t)' <=> kind # "terminate")
           /\ \A u \in Tasks : u # t => (Waiting(u)' <=> Waiting(u))
<1> DEFINE s == CHOOSE s \in freeStructures : TRUE
           c == [task |-> t, kind |-> kind, payload |-> payload, alive |-> TRUE]
<1>1. /\ s \in freeStructures /\ ~Waiting(t) /\ Len(commandQueue) # QueueLength
      /\ freeStructures' = freeStructures \ {s} /\ commands' = [commands EXCEPT ![s] = c]
      /\ commandQueue' = Append(commandQueue, s)
      /\ call' = IF kind = "terminate" THEN call
                 ELSE [call EXCEPT ![t] = [kind |-> kind, xReturnStatus |-> "failed"]]
      /\ agent' = agent
  BY DEF Send, Blocked
<1>2. c = Record(c) /\ c.task = t /\ c.kind = kind /\ c.payload = payload /\ c.alive = TRUE
  BY DEF Record
<1> HIDE DEF s, c
<1>3. CommandsOK /\ s \in Structures /\ commandQueue \in Seq(Structures) /\ call \in Calls
  BY <1>1 DEF AgentInv, Shape, CommandsOK, QueuesOK, TasksOK
<1>4. /\ commands'[s] = c /\ \A r \in Structures : r # s => commands'[r] = commands[r]
      /\ Outstanding' = Outstanding \cup {s} /\ s \notin Outstanding
  BY <1>1, <1>2, <1>3, Taken
<1>5. Len(commandQueue') <= QueueLength
  BY <1>1, <1>3, MqttAgentAssumption
<1>6. Waiting(t)' <=> kind # "terminate"
  BY <1>1, <1>3 DEF Waiting, NoCall, Calls, Kinds
<1>7. \A u \in Tasks : u # t => (Waiting(u)' <=> Waiting(u))
  BY <1>1, <1>3 DEF Waiting, Calls
<1>8. Outstanding \subseteq Structures
  BY DEF Outstanding
<1> QED
  BY <1>1, <1>2, <1>3, <1>4, <1>5, <1>6, <1>7, <1>8

\* A call is left: its command is still there.
LEMMA LeftCommands ==
  ASSUME AgentInv, NEW t \in Tasks, LeaveCall(t), UNCHANGED freeStructures
  PROVE  /\ Kept /\ Outstanding' = Outstanding
         /\ ~Waiting(t)' /\ \A u \in Tasks : u # t => (Waiting(u)' <=> Waiting(u))
<1>1. CommandsOK /\ call \in Calls
  BY DEF AgentInv, Shape, TasksOK
<1>2. /\ Outstanding' = Outstanding
      /\ \A r \in Structures : /\ commands'[r].task = commands[r].task
                               /\ commands'[r].kind = commands[r].kind
  BY <1>1, Left
<1>3. \A r \in Structures : commands'[r].payload = commands[r].payload
  <2> TAKE r \in Structures
  <2>1. commands[r] = Record(commands[r])
    BY <1>1 DEF CommandsOK
  <2>2. \/ commands'[r] = [commands[r] EXCEPT !.alive = FALSE]
        \/ commands'[r] = commands[r]
    BY DEF LeaveCall
  <2> QED
    BY <2>1, <2>2 DEF Record
<1>4. ~Waiting(t)' /\ \A u \in Tasks : u # t => (Waiting(u)' <=> Waiting(u))
  BY <1>1 DEF LeaveCall, Waiting, NoCall, Calls
<1> QED
  BY <1>2, <1>3, <1>4 DEF Kept

\* A completion ends no call: it notifies the task that made it.
LEMMA CompletedCommand ==
  ASSUME AgentInv, NEW s \in Outstanding, NEW code \in {"failed", "success"}, Complete(s, code)
  PROVE  Kept /\ SameCalls /\ Outstanding' = Outstanding \ {s}
<1> DEFINE t == commands[s].task
<1>1. t \in Tasks /\ CommandsOK /\ call \in Calls
  BY DEF AgentInv, Shape, OutstandingOK, TasksOK
<1>2. /\ freeStructures' = freeStructures \cup {s}
      /\ commands' = [commands EXCEPT ![s] = NoCommand]
      /\ \/ Waiting(t) /\ call' = [call EXCEPT ![t].xReturnStatus = code]
         \/ call' = call
  BY DEF Complete
<1>3. /\ \A r \in Structures : r # s => commands'[r] = commands[r]
      /\ Outstanding' = Outstanding \ {s}
  BY <1>1, <1>2, Released
<1> HIDE DEF t
<1>4. SameCalls
  <2> SUFFICES ASSUME NEW u \in Tasks PROVE Waiting(u)' <=> Waiting(u)
    BY DEF SameCalls
  <2>1. CASE call' = call
    BY <2>1 DEF Waiting
  <2>2. CASE Waiting(t) /\ call' = [call EXCEPT ![t].xReturnStatus = code]
    <3>1. CASE u = t
      <4>1. call'[u].xReturnStatus = code
        BY <1>1, <2>2, <3>1 DEF Calls
      <4> QED
        BY <2>2, <3>1, <4>1 DEF Waiting, NoCall
    <3>2. CASE u # t
      BY <1>1, <2>2, <3>2 DEF Waiting, Calls
    <3> QED
      BY <3>1, <3>2
  <2> QED
    BY <1>2, <2>1, <2>2
<1> QED
  BY <1>3, <1>4 DEF Kept

\* The command at the head of the queue.
LEMMA HeadCommand ==
  ASSUME AgentInv, Len(commandQueue) <= QueueLength, commandQueue # <<>>
  PROVE  /\ Head(commandQueue) \in Outstanding
         /\ Len(Tail(commandQueue)) <= QueueLength
<1>1. commandQueue \in Seq(Structures) /\ Queued \subseteq Outstanding
  BY DEF AgentInv, Shape, QueuesOK, StructuresAccounted
<1>2. /\ Head(commandQueue) = commandQueue[1] /\ 1 \in 1 .. Len(commandQueue)
      /\ Len(Tail(commandQueue)) = Len(commandQueue) - 1 /\ Len(commandQueue) \in Nat
  BY <1>1
<1>3. Head(commandQueue) \in Queued
  BY <1>2 DEF Queued
<1> QED
  BY <1>1, <1>2, <1>3, MqttAgentAssumption

\* The steps of the agent task that neither publish nor end the session.
LEMMA ServedCommands ==
  ASSUME AgentInv, Len(commandQueue) <= QueueLength,
         ProcessSubscription \/ Acknowledge \/ Reconnect \/ NetworkError
  PROVE  Kept /\ SameCalls /\ Len(commandQueue') <= QueueLength
<1>1. ASSUME UNCHANGED <<freeStructures, commands, call>> PROVE Kept /\ SameCalls
  BY <1>1 DEF Kept, SameCalls, Outstanding, Waiting
<1>2. CASE ProcessSubscription
  BY <1>1, <1>2, HeadCommand DEF ProcessSubscription, Receiving
<1>3. CASE Acknowledge
  <2>1. PICK s \in pendingAcks : Complete(s, "success")
    BY <1>3 DEF Acknowledge
  <2>2. s \in Outstanding
    BY DEF AgentInv, StructuresAccounted
  <2> QED
    BY <1>3, <2>1, <2>2, CompletedCommand DEF Acknowledge
<1>4. CASE Reconnect
  BY <1>1, <1>4 DEF Reconnect
<1>5. CASE NetworkError
  <2>1. CASE UNCHANGED <<freeStructures, commands, commandQueue, call, notified>>
    BY <1>1, <2>1
  <2>2. CASE /\ commandQueue # <<>> /\ Complete(Head(commandQueue), "failed")
             /\ commandQueue' = Tail(commandQueue)
    BY <2>2, HeadCommand, CompletedCommand
  <2> QED
    BY <1>5, <2>1, <2>2 DEF NetworkError, Receiving
<1> QED
  BY <1>2, <1>3, <1>4, <1>5

LEMMA PublishedCommand ==
  ASSUME AgentInv, Len(commandQueue) <= QueueLength, ProcessPublish
  PROVE  /\ Head(commandQueue) \in Outstanding /\ commands[Head(commandQueue)].kind = "publish"
         /\ Kept /\ SameCalls /\ Outstanding' = Outstanding \ {Head(commandQueue)}
         /\ Len(commandQueue') <= QueueLength /\ agent' = agent
BY HeadCommand, CompletedCommand DEF ProcessPublish, Receiving

LEMMA TerminatedCommand ==
  ASSUME AgentInv, Len(commandQueue) <= QueueLength, ProcessTerminate
  PROVE  /\ Head(commandQueue) \in Outstanding
         /\ commands[Head(commandQueue)].kind = "terminate"
         /\ Kept /\ SameCalls /\ Outstanding' = Outstanding \ {Head(commandQueue)}
         /\ Len(commandQueue') <= QueueLength /\ agent' = "reconnecting"
<1> DEFINE s == Head(commandQueue)
<1>1. /\ commands[s].kind = "terminate" /\ commandQueue # <<>>
      /\ freeStructures' = freeStructures \cup {s}
      /\ commands' = [commands EXCEPT ![s] = NoCommand]
      /\ commandQueue' = Tail(commandQueue) /\ call' = call /\ agent' = "reconnecting"
  BY DEF ProcessTerminate, Receiving
<1>2. s \in Outstanding /\ Len(commandQueue') <= QueueLength
  BY <1>1, HeadCommand
<1>3. /\ \A r \in Structures : r # s => commands'[r] = commands[r]
      /\ Outstanding' = Outstanding \ {s}
  BY <1>1, <1>2, Released DEF AgentInv, Shape
<1>4. SameCalls
  BY <1>1 DEF SameCalls, Waiting
<1> QED
  BY <1>1, <1>2, <1>3, <1>4 DEF Kept
-----------------------------------------------------------------------------
\* The types.

\* No command but those before it: what they carry keeps its type.
LEMMA KeptTypes ==
  ASSUME CallTypes, Kept, Len(commandQueue') <= QueueLength,
         agent' \in {"loop", "reconnecting", "left"}
  PROVE  CallTypes'
<1>1. Outstanding' \subseteq Structures
  BY DEF Outstanding, Structures
<1>2. \A s \in Outstanding' : /\ commands'[s].payload \in Payloads(commands'[s].task)
                              /\ commands'[s].kind = KindOf(commands'[s].payload.about)
  BY <1>1 DEF CallTypes, Kept
<1> QED
  BY <1>2 DEF CallTypes, Payloads, OwnSteps, AfterCall, KindOf, Statuses, Jobs

LEMMA SentTypes ==
  ASSUME AgentInv, CallTypes, NEW t \in Tasks, NEW about \in OwnSteps(t),
         NEW job \in Jobs,
         Send(t, KindOf(about), [job |-> job, about |-> about])
  PROVE  CallTypes'
<1> DEFINE payload == [job |-> job, about |-> about]
<1>1. payload \in Payloads(t) /\ payload.about = about
  BY DEF Payloads
<1>2. KindOf(about) \in Kinds /\ Len(commandQueue) <= QueueLength
  BY KindIs DEF CallTypes
<1> HIDE DEF payload
<1>3. PICK s \in Structures :
        /\ s \notin Outstanding /\ Outstanding' = Outstanding \cup {s}
        /\ commands'[s].task = t /\ commands'[s].kind = KindOf(about)
        /\ commands'[s].payload = payload
        /\ \A r \in Outstanding : commands'[r] = commands[r]
        /\ Len(commandQueue') <= QueueLength /\ agent' = agent
  BY <1>2, SentCommand DEF payload
<1>4. \A r \in Outstanding' : /\ commands'[r].payload \in Payloads(commands'[r].task)
                              /\ commands'[r].kind = KindOf(commands'[r].payload.about)
  BY <1>1, <1>3 DEF CallTypes
<1> QED
  BY <1>3, <1>4 DEF CallTypes, Payloads, OwnSteps, AfterCall, KindOf, Statuses, Jobs

\* The step a task proceeds to.
LEMMA ProceedTypes ==
  ASSUME StepTypes, NEW t \in Tasks, step[t] \in OwnSteps(t), Proceed(t),
         ~Waiting(t)', \A u \in Tasks : u # t => (Waiting(u)' <=> Waiting(u))
  PROVE  StepTypes'
<1>1. /\ step' = [u \in Tasks |-> step'[u]]
      /\ step'[t] = AfterCall[t][step[t]]
      /\ \A u \in Tasks : u # t => step'[u] = step[u]
  BY DEF StepTypes, Proceed
<1>2. step'[t] \in {"receive", "restart"} \cup OwnSteps(t)
  BY <1>1, StepAfter
<1>3. \A u \in Tasks : /\ step'[u] \in {"receive", "restart"} \cup OwnSteps(u)
                       /\ Waiting(u)' => step'[u] \in OwnSteps(u) \ {"terminate"}
  BY <1>1, <1>2 DEF StepTypes
<1> QED
  BY <1>1, <1>3 DEF StepTypes, OwnSteps, AfterCall

LEMMA SentEvent ==
  ASSUME AgentTypes, NEW t \in Tasks, NEW e \in OwnEvents(t), Enqueue(t, e)
  PROVE  /\ events' = [u \in Tasks |-> events'[u]]
         /\ \A u \in Tasks : events'[u] \in Seq(OwnEvents(u))
         /\ \A u \in Tasks : u # t => events'[u] = events[u]
         /\ events'[t] \in {events[t], Append(events[t], e)}
<1>1. /\ events' = [u \in Tasks |-> events'[u]]
      /\ \A u \in Tasks : u # t => events'[u] = events[u]
      /\ events'[t] \in {events[t], Append(events[t], e)}
  BY DEF AgentTypes, Enqueue
<1>2. events'[t] \in Seq(OwnEvents(t))
  BY <1>1 DEF AgentTypes
<1> QED
  BY <1>1, <1>2 DEF AgentTypes

LEMMA TakenEvent ==
  ASSUME AgentTypes, NEW t \in Tasks, events[t] # <<>>, events' = [events EXCEPT ![t] = Tail(@)]
  PROVE  /\ events' = [u \in Tasks |-> events'[u]]
         /\ \A u \in Tasks : events'[u] \in Seq(OwnEvents(u))
         /\ \A u \in Tasks : u # t => events'[u] = events[u]
         /\ events'[t] = Tail(events[t]) /\ Head(events[t]) \in OwnEvents(t)
<1>1. /\ events' = [u \in Tasks |-> events'[u]]
      /\ \A u \in Tasks : u # t => events'[u] = events[u]
      /\ events'[t] = Tail(events[t])
  BY DEF AgentTypes
<1>2. events[t] \in Seq(OwnEvents(t))
  BY DEF AgentTypes
<1>3. Tail(events[t]) \in Seq(OwnEvents(t)) /\ Head(events[t]) \in OwnEvents(t)
  BY <1>2
<1> QED
  BY <1>1, <1>3 DEF AgentTypes

\* Primed, the types of the events and the requests are what they were.
LEMMA OwnKinds ==
  /\ \A t : OwnEvents(t)' = OwnEvents(t) /\ OwnRequests(t)' = OwnRequests(t)
  /\ \A t : OwnSteps(t)' = OwnSteps(t)
BY DEF OwnEvents, OwnRequests, OwnSteps, AfterCall, Jobs, Answered, Asked, Good

LEMMA StartTypes ==
  /\ Init => DispatchTypes
  /\ DispatchTypes /\ Restart => DispatchTypes'
<1>1. 0 \in 0 .. MaxCancels /\ 0 <= QueueLength
  BY MqttAgentAssumption, JobDispatchAssumption
<1>2. ASSUME Init PROVE DispatchTypes
  <2>1. CloudTypes
    BY <1>1, <1>2 DEF Init, CloudTypes
  <2>2. AgentTypes
    BY <1>2 DEF Init, AgentTypes
  <2>3. StepTypes
    BY <1>2 DEF Init, AgentInit, StepTypes, Waiting
  <2>4. CallTypes
    BY <1>1, <1>2 DEF Init, AgentInit, CallTypes, Outstanding
  <2> QED
    BY <2>1, <2>2, <2>3, <2>4 DEF DispatchTypes
<1>3. ASSUME DispatchTypes, Restart PROVE DispatchTypes'
  <2>1. CloudTypes'
    BY <1>3 DEF Restart, DispatchTypes, CloudTypes
  <2>2. AgentTypes'
    BY <1>3 DEF Restart, AgentTypes, Jobs
  <2>3. StepTypes'
    BY <1>3 DEF Restart, AgentReset, StepTypes, Waiting, NoCall
  <2>4. CallTypes'
    BY <1>1, <1>3 DEF Restart, AgentReset, CallTypes, Outstanding, Structures
  <2> QED
    BY <2>1, <2>2, <2>3, <2>4 DEF DispatchTypes
<1> QED
  BY <1>2, <1>3
LEMMA ReceiveJobDocumentTypes ==
  ASSUME DispatchTypes, NEW t \in Tasks, ReceiveJobDocument(t)
  PROVE  DispatchTypes'
<1>1. CASE Restart
  BY <1>1, StartTypes
<1>2. CASE ~Restart
  <2>1. /\ events[t] # <<>> /\ ~Waiting(t) /\ events' = [events EXCEPT ![t] = Tail(@)]
        /\ jobId' = [jobId EXCEPT ![t] = jobBuffer] /\ globalJobId' \in {jobBuffer, globalJobId}
        /\ \E s \in {"in_progress", "rejected"} : step' = [step EXCEPT ![t] = s]
        /\ UNCHANGED <<agentVars, cloud, jobBuffer>>
    BY <1>2 DEF ReceiveJobDocument, Idle
  <2>2. AgentTypes'
    BY <2>1, TakenEvent, OwnKinds DEF DispatchTypes, AgentTypes, Jobs
  <2>3. StepTypes'
    <3>1. \A u \in Tasks : Waiting(u)' <=> Waiting(u)
      BY <2>1 DEF Waiting, NoCall, agentVars
    <3>2. /\ step' = [u \in Tasks |-> step'[u]] /\ step'[t] \in {"in_progress", "rejected"}
          /\ \A u \in Tasks : u # t => step'[u] = step[u]
      BY <2>1 DEF DispatchTypes, StepTypes
    <3>3. {"in_progress", "rejected"} \subseteq OwnSteps(t)
      BY OwnStepsAre
    <3> QED
      BY <2>1, <3>1, <3>2, <3>3, OwnKinds DEF DispatchTypes, StepTypes
  <2>4. CloudTypes' /\ CallTypes'
    BY <2>1, OwnKinds DEF DispatchTypes, CloudTypes, CallTypes, cloud, agentVars, structures, Outstanding,
       Structures, Payloads, Jobs
  <2> QED
    BY <2>2, <2>3, <2>4 DEF DispatchTypes
<1> QED
  BY <1>1, <1>2

LEMMA ReceiveAnswerTypes ==
  ASSUME DispatchTypes, NEW t \in Tasks, ReceiveAnswer(t)
  PROVE  DispatchTypes'
<1>1. /\ events[t] # <<>> /\ ~Waiting(t) /\ events' = [events EXCEPT ![t] = Tail(@)]
      /\ Head(events[t]).first # "document"
      /\ step' = [step EXCEPT ![t] = Head(events[t]).first]
      /\ UNCHANGED <<agentVars, cloud, jobBuffer, globalJobId, jobId>>
  BY DEF ReceiveAnswer, Idle
<1>2. AgentTypes'
  BY <1>1, TakenEvent, OwnKinds DEF DispatchTypes, AgentTypes, Jobs
<1>3. StepTypes'
  <2>1. \A u \in Tasks : Waiting(u)' <=> Waiting(u)
    BY <1>1 DEF Waiting, NoCall, agentVars
  <2>2. Head(events[t]).first \in Answered[t]
    BY <1>1, TakenEvent DEF DispatchTypes, OwnEvents
  <2>3. Answered[t] \subseteq OwnSteps(t)
    BY OwnStepsAre DEF Answered
  <2>4. /\ step' = [u \in Tasks |-> step'[u]] /\ step'[t] = Head(events[t]).first
        /\ \A u \in Tasks : u # t => step'[u] = step[u]
    BY <1>1 DEF DispatchTypes, StepTypes
  <2> QED
    BY <1>1, <2>1, <2>2, <2>3, <2>4, OwnKinds DEF DispatchTypes, StepTypes
<1>4. CloudTypes' /\ CallTypes'
  BY <1>1, OwnKinds DEF DispatchTypes, CloudTypes, CallTypes, cloud, agentVars, structures, Outstanding,
     Structures, Payloads, Jobs
<1> QED
  BY <1>2, <1>3, <1>4 DEF DispatchTypes

\* The calls leave the cloud and the events alone.
LEMMA CallStepTypes ==
  ASSUME DispatchTypes, UNCHANGED <<cloud, jobBuffer, globalJobId, events, jobId>>,
         CallTypes', StepTypes'
  PROVE  DispatchTypes'
BY OwnKinds DEF DispatchTypes, CloudTypes, AgentTypes, cloud, Jobs

LEMMA CallTypesKept ==
  ASSUME AgentInv, DispatchTypes, Begun, NEW t \in Tasks, Call(t)
  PROVE  DispatchTypes'
<1> DEFINE job == IF step[t] \in Statuses THEN globalJobId ELSE jobId[t]
<1>1. /\ step[t] \in OwnSteps(t) /\ (step[t] \in Statuses => globalJobId # None)
      /\ Send(t, KindOf(step[t]), [job |-> job, about |-> step[t]])
      /\ IF step[t] = "terminate" THEN Proceed(t) ELSE UNCHANGED step
      /\ UNCHANGED <<cloud, jobBuffer, globalJobId, events, jobId>>
  BY DEF Call, CanCall, OwnSteps
<1>2. job \in Jobs
  BY <1>1 DEF DispatchTypes, AgentTypes, Begun
<1> HIDE DEF job
<1>3. CallTypes'
  BY <1>1, <1>2, SentTypes DEF DispatchTypes
<1>4. /\ ~Waiting(t) /\ (Waiting(t)' <=> KindOf(step[t]) # "terminate")
      /\ \A u \in Tasks : u # t => (Waiting(u)' <=> Waiting(u))
  BY <1>1, KindIs, SentCommand DEF DispatchTypes, CallTypes
<1>5. KindOf(step[t]) = "terminate" <=> step[t] = "terminate"
  BY <1>1, KindIs
<1>6. StepTypes'
  <2>1. CASE step[t] = "terminate"
    BY <1>1, <1>4, <1>5, <2>1, ProceedTypes DEF DispatchTypes
  <2>2. CASE step[t] # "terminate"
    BY <1>1, <1>4, <1>5, <2>2, OwnKinds DEF DispatchTypes, StepTypes
  <2> QED
    BY <2>1, <2>2
<1> QED
  BY <1>1, <1>3, <1>6, CallStepTypes

LEMMA TaskStepTypes ==
  ASSUME AgentInv, DispatchTypes, Begun, NEW t \in Tasks, TaskStep(t)
  PROVE  DispatchTypes'
<1>1. CASE ReceiveJobDocument(t) \/ ReceiveAnswer(t) \/ Call(t) \/ Restart
  BY <1>1, ReceiveJobDocumentTypes, ReceiveAnswerTypes, CallTypesKept, StartTypes
<1>2. ASSUME CanCall(t), Proceed(t),
             UNCHANGED <<agentVars, cloud, jobBuffer, globalJobId, events, jobId>>
      PROVE  DispatchTypes'
  <2>1. CallTypes'
    BY <1>2, OwnKinds DEF DispatchTypes, CallTypes, agentVars, structures, Outstanding, Structures,
       Payloads, Jobs
  <2>2. \A u \in Tasks : Waiting(u)' <=> Waiting(u)
    BY <1>2 DEF Waiting, NoCall, agentVars
  <2>3. StepTypes'
    BY <1>2, <2>2, ProceedTypes DEF DispatchTypes, CanCall, OwnSteps
  <2> QED
    BY <1>2, <2>1, <2>3, CallStepTypes
<1>3. CASE NoJobToUpdate(t)
  BY <1>2, <1>3 DEF NoJobToUpdate
<1>4. CASE CallRefused(t)
  BY <1>1, <1>2, <1>4 DEF CallRefused
<1>5. ASSUME Waiting(t), LeaveCall(t), Proceed(t),
             UNCHANGED <<freeStructures, commandQueue, agent>>,
             UNCHANGED <<cloud, jobBuffer, globalJobId, events, jobId>>
      PROVE  DispatchTypes'
  <2>1. /\ Kept /\ ~Waiting(t)'
        /\ \A u \in Tasks : u # t => (Waiting(u)' <=> Waiting(u))
    BY <1>5, LeftCommands
  <2>2. CallTypes'
    BY <1>5, <2>1, KeptTypes DEF DispatchTypes, CallTypes
  <2>3. step[t] \in OwnSteps(t)
    BY <1>5 DEF DispatchTypes, StepTypes
  <2>4. StepTypes'
    BY <1>5, <2>1, <2>3, ProceedTypes DEF DispatchTypes
  <2> QED
    BY <1>5, <2>2, <2>4, CallStepTypes
<1>6. CASE Return(t)
  BY <1>1, <1>5, <1>6 DEF Return, Notified
<1>7. CASE GiveUp(t)
  <2>1. Waiting(t)
    BY <1>7 DEF GiveUp, TimesOut, Waiting, NoCall
  <2> QED
    BY <1>5, <1>7, <2>1 DEF GiveUp, TimesOut
<1> QED
  BY <1>1, <1>3, <1>4, <1>6, <1>7 DEF TaskStep

\* What the agent task does to the calls.
LEMMA ServedTypes ==
  ASSUME DispatchTypes, Kept, SameCalls, Len(commandQueue') <= QueueLength,
         agent' \in {"loop", "reconnecting", "left"}, UNCHANGED step
  PROVE  CallTypes' /\ StepTypes'
BY KeptTypes, OwnKinds DEF DispatchTypes, StepTypes, SameCalls

LEMMA PublishTypes ==
  ASSUME AgentInv, DispatchTypes, Publish
  PROVE  DispatchTypes'
<1> DEFINE h == Head(commandQueue)
           c == commands[h]
<1>1. /\ h \in Outstanding /\ c.kind = "publish" /\ Kept /\ SameCalls
      /\ Len(commandQueue') <= QueueLength /\ agent' = agent
  BY PublishedCommand DEF Publish, DispatchTypes, CallTypes
<1>2. c.payload \in Payloads(c.task) /\ KindOf(c.payload.about) = "publish" /\ c.task \in Tasks
  BY <1>1 DEF DispatchTypes, CallTypes, AgentInv, Shape, OutstandingOK
<1>3. c.payload.about \in Statuses \cup {"request", "sign", "revoke"}
  BY <1>2, KindIs DEF Payloads
<1>4. \/ c.payload.about \in Statuses /\ UNCHANGED requests
         /\ jobStatus' = Updated(c.payload.job, c.payload.about)
      \/ /\ c.payload.about \notin Statuses /\ UNCHANGED jobStatus
         /\ requests' = requests \cup
                          {[task |-> c.task, api |-> c.payload.about, job |-> c.payload.job]}
      \/ UNCHANGED <<jobStatus, requests>>
  BY DEF Publish
<1>5. UNCHANGED <<announced, hearing, finished, cancels, agents>>
  BY DEF Publish
<1>6. CallTypes' /\ StepTypes'
  BY <1>1, <1>5, ServedTypes DEF agents, DispatchTypes, CallTypes
<1>7. jobStatus' \in [Jobs -> {"queued", "in_progress"} \cup Terminal]
  BY <1>4 DEF DispatchTypes, CloudTypes, Updated, Statuses, Terminal
<1>8. \A r \in requests' : r.task \in Tasks /\ r \in OwnRequests(r.task)
  <2> DEFINE q == [task |-> c.task, api |-> c.payload.about, job |-> c.payload.job]
  <2>1. CASE requests' = requests
    BY <2>1 DEF DispatchTypes, CloudTypes
  <2>2. CASE c.payload.about \notin Statuses /\ requests' = requests \cup {q}
    <3>1. c.payload.about \in Asked[c.task]
      BY <1>2, <1>3, <2>2, OwnStepsAre DEF Asked, Payloads
    <3>2. q \in OwnRequests(c.task) /\ q.task = c.task
      BY <1>2, <3>1 DEF OwnRequests, Payloads
    <3> QED
      BY <1>2, <2>2, <3>2 DEF DispatchTypes, CloudTypes
  <2> QED
    BY <1>4, <2>1, <2>2
<1>9. CloudTypes'
  BY <1>5, <1>7, <1>8, OwnKinds DEF DispatchTypes, CloudTypes, Jobs, Terminal
<1>10. AgentTypes'
  BY <1>5, OwnKinds DEF agents, DispatchTypes, AgentTypes, Jobs
<1> QED
  BY <1>6, <1>9, <1>10 DEF DispatchTypes

LEMMA ReconnectedTypes ==
  ASSUME AgentInv, DispatchTypes, Reconnected
  PROVE  DispatchTypes'
<1>1. /\ Reconnect /\ requests' = {} /\ Enqueue("renewal", AnswerEvent(None, "unsubscribe"))
      /\ UNCHANGED <<jobStatus, announced, finished, cancels, jobBuffer, globalJobId, step, jobId>>
  BY DEF Reconnected
<1>2. agent' = "loop"
  BY <1>1 DEF Reconnect
<1>3. CallTypes' /\ StepTypes'
  BY <1>1, <1>2, ServedCommands, ServedTypes DEF DispatchTypes, CallTypes
<1>4. AnswerEvent(None, "unsubscribe") \in OwnEvents("renewal") /\ "renewal" \in Tasks
  BY OwnStepsAre DEF AnswerEvent, OwnEvents, Answered
<1>5. AgentTypes'
  BY <1>1, <1>4, SentEvent, OwnKinds DEF DispatchTypes, AgentTypes, Jobs
<1>6. CloudTypes'
  BY <1>1 DEF DispatchTypes, CloudTypes, Jobs, Terminal
<1> QED
  BY <1>3, <1>5, <1>6 DEF DispatchTypes

LEMMA AgentStepTypes ==
  ASSUME AgentInv, DispatchTypes, AgentStep \/ (NetworkError /\ UNCHANGED <<cloud, agents>>)
  PROVE  DispatchTypes'
<1>1. CASE Publish \/ Reconnected
  BY <1>1, PublishTypes, ReconnectedTypes
<1>2. ASSUME UNCHANGED <<cloud, agents>>,
             ProcessSubscription \/ ProcessTerminate \/ Acknowledge \/ NetworkError
      PROVE  DispatchTypes'
  <2>1. agent' \in {"loop", "reconnecting", "left"}
    BY <1>2 DEF DispatchTypes, CallTypes, ProcessSubscription, ProcessTerminate, Acknowledge,
       NetworkError
  <2>2. Kept /\ SameCalls /\ Len(commandQueue') <= QueueLength
    BY <1>2, ServedCommands, TerminatedCommand DEF DispatchTypes, CallTypes
  <2>3. CallTypes' /\ StepTypes'
    BY <1>2, <2>1, <2>2, ServedTypes DEF agents
  <2> QED
    BY <1>2, <2>3, CallStepTypes DEF agents
<1> QED
  BY <1>1, <1>2 DEF AgentStep

LEMMA CloudStepTypes ==
  ASSUME DispatchTypes,
         \/ \E j \in Jobs : prvIncomingPublishCallback(j) \/ JobEnds(j)
         \/ \E r \in requests : Answer(r)
  PROVE  DispatchTypes'
<1>1. ASSUME UNCHANGED agentVars, UNCHANGED step PROVE CallTypes' /\ StepTypes'
  <2>1. Kept /\ SameCalls
    BY <1>1 DEF Kept, SameCalls, agentVars, structures, Outstanding, Structures, Waiting, NoCall
  <2> QED
    BY <1>1, <2>1, ServedTypes DEF agentVars, structures, DispatchTypes, CallTypes
<1>2. ASSUME NEW j \in Jobs, prvIncomingPublishCallback(j) PROVE DispatchTypes'
  <2>1. /\ announced' = announced \cup {j}
        /\ \/ jobBuffer' = j /\ Enqueue(AgentOf(j), Document(j))
           \/ UNCHANGED <<jobBuffer, events>>
        /\ UNCHANGED <<agentVars, jobStatus, requests, finished, cancels, globalJobId, step, jobId>>
    BY <1>2 DEF prvIncomingPublishCallback
  <2>2. AgentOf(j) \in Tasks /\ Document(j) \in OwnEvents(AgentOf(j))
    BY OwnStepsAre DEF AgentOf, Document, OwnEvents
  <2>3. AgentTypes'
    BY <2>1, <2>2, SentEvent, OwnKinds DEF DispatchTypes, AgentTypes, Jobs
  <2>4. CloudTypes'
    BY <2>1, OwnKinds DEF DispatchTypes, CloudTypes, Jobs, Terminal
  <2> QED
    BY <1>1, <2>1, <2>3, <2>4 DEF DispatchTypes
<1>3. ASSUME NEW j \in Jobs, JobEnds(j) PROVE DispatchTypes'
  <2>1. /\ jobStatus' = [jobStatus EXCEPT ![j] = "ended"] /\ cancels < MaxCancels
        /\ cancels' = cancels + 1
        /\ UNCHANGED <<agentVars, announced, requests, finished, agents>>
    BY <1>3 DEF JobEnds
  <2>2. cancels' \in 0 .. MaxCancels
    BY <2>1, JobDispatchAssumption DEF DispatchTypes, CloudTypes
  <2>3. CloudTypes'
    BY <2>1, <2>2, OwnKinds DEF DispatchTypes, CloudTypes, Jobs, Terminal
  <2>4. AgentTypes'
    BY <2>1, OwnKinds DEF agents, DispatchTypes, AgentTypes, Jobs
  <2> QED
    BY <1>1, <2>1, <2>3, <2>4 DEF DispatchTypes, agents
<1>4. ASSUME NEW r \in requests, Answer(r) PROVE DispatchTypes'
  <2>1. r.task \in Tasks /\ r \in OwnRequests(r.task)
    BY DEF DispatchTypes, CloudTypes
  <2>2. PICK s \in Answers[r.api] :
          /\ Enqueue(r.task, AnswerEvent(r.job, s))
          /\ finished' = IF s \in Good THEN finished \cup {r.job} ELSE finished
    BY <1>4 DEF Answer
  <2>3. /\ requests' = requests \ {r}
        /\ UNCHANGED <<agentVars, jobStatus, announced, cancels, jobBuffer, globalJobId, step, jobId>>
    BY <1>4 DEF Answer
  <2>4. AnswerEvent(r.job, s) \in OwnEvents(r.task)
    <3>1. s \in Answered[r.task]
      BY <2>1, OwnStepsAre DEF OwnRequests, Asked, Answers, Answered
    <3> QED
      BY <2>1, <3>1 DEF AnswerEvent, OwnEvents, OwnRequests
  <2>5. AgentTypes'
    BY <2>1, <2>2, <2>3, <2>4, SentEvent, OwnKinds DEF DispatchTypes, AgentTypes, Jobs
  <2>6. CloudTypes'
    BY <2>1, <2>2, <2>3, OwnKinds DEF DispatchTypes, CloudTypes, OwnRequests, Jobs, Terminal
  <2> QED
    BY <1>1, <2>3, <2>5, <2>6 DEF DispatchTypes
<1> QED
  BY <1>2, <1>3, <1>4

LEMMA TypesStep ==
  ASSUME AgentInv, DispatchTypes, Begun, [Next]_vars
  PROVE  DispatchTypes'
<1>1. ASSUME NEW t \in Tasks, TaskStep(t) PROVE DispatchTypes'
  BY <1>1, TaskStepTypes
<1>2. CASE RestartAfterUpdate \/ DeadContextCrash \/ ReconnectExits
  BY <1>2, StartTypes DEF RestartAfterUpdate, DeadContextCrash, ReconnectExits
<1>3. CASE AgentStep \/ (NetworkError /\ UNCHANGED <<cloud, agents>>)
  BY <1>3, AgentStepTypes
<1>4. CASE \/ \E j \in Jobs : prvIncomingPublishCallback(j) \/ JobEnds(j)
           \/ \E r \in requests : Answer(r)
  BY <1>4, CloudStepTypes
<1>5. CASE UNCHANGED vars
  <2>1. CallTypes' /\ StepTypes'
    <3>1. Kept /\ SameCalls
      BY <1>5 DEF vars, Kept, SameCalls, agentVars, structures, Outstanding, Structures, Waiting, NoCall
    <3> QED
      BY <1>5, <3>1, ServedTypes DEF vars, agents, agentVars, structures, DispatchTypes, CallTypes
  <2> QED
    BY <1>5, <2>1, CallStepTypes DEF vars, agents
<1> QED
  BY <1>1, <1>2, <1>3, <1>4, <1>5 DEF Next
-----------------------------------------------------------------------------
\* No agent works before it has read its first document.

LEMMA StartBegun ==
  /\ Init => Begun
  /\ Restart => Begun'
<1>1. Structures \ Structures = {} /\ \A t \in Tasks : "receive" \notin OwnSteps(t)
  BY OwnStepsAre
<1>2. ASSUME Init PROVE Begun
  BY <1>1, <1>2 DEF Init, AgentInit, Begun, Outstanding
<1>3. ASSUME Restart PROVE Begun'
  BY <1>1, <1>3, OwnKinds DEF Restart, AgentReset, Begun, Outstanding, Structures
<1> QED
  BY <1>2, <1>3

\* The agents go on, and what they go on with is no more than there was.
LEMMA KeptBegun ==
  ASSUME DispatchTypes, Begun, Kept, UNCHANGED <<jobBuffer, jobId, events>>,
         \A t \in Tasks : step'[t] \in OwnSteps(t) => jobId[t] # None,
         \A r \in requests' : jobId[r.task] # None,
         agent' = "reconnecting" => jobId["renewal"] # None
  PROVE  Begun'
<1>1. \A s \in Outstanding' : jobId[commands'[s].task] # None
  BY DEF Begun, Kept, Outstanding, Structures
<1> QED
  BY <1>1, OwnKinds DEF Begun

LEMMA FirstAndRest ==
  ASSUME NEW S, NEW q \in Seq(S), q # <<>>
  PROVE  /\ Head(q) = q[1] /\ 1 \in 1 .. Len(q)
         /\ \A i \in 1 .. Len(Tail(q)) : i + 1 \in 1 .. Len(q) /\ Tail(q)[i] = q[i + 1]
OBVIOUS

LEMMA ReceiveBegun ==
  ASSUME AgentInv, DispatchTypes, Begun, NEW t \in Tasks, ReceiveJobDocument(t) \/ ReceiveAnswer(t), ~Restart
  PROVE  Begun'
<1>1. /\ events[t] # <<>> /\ events' = [events EXCEPT ![t] = Tail(@)]
      /\ UNCHANGED <<agentVars, cloud, jobBuffer>>
      /\ \/ Head(events[t]).first = "document" /\ jobId' = [jobId EXCEPT ![t] = jobBuffer]
         \/ Head(events[t]).first # "document" /\ jobId' = jobId
      /\ \E s : step' = [step EXCEPT ![t] = s]
  BY DEF ReceiveJobDocument, ReceiveAnswer, Idle
<1>2. /\ \A u \in Tasks : u # t => events'[u] = events[u]
      /\ events'[t] = Tail(events[t]) /\ events[t] \in Seq(OwnEvents(t))
  BY <1>1, TakenEvent DEF DispatchTypes, AgentTypes
<1>3. /\ Head(events[t]) = events[t][1] /\ 1 \in 1 .. Len(events[t])
      /\ \A i \in 1 .. Len(events'[t]) :
           i + 1 \in 1 .. Len(events[t]) /\ events'[t][i] = events[t][i + 1]
  <2> DEFINE q == events[t]
  <2>1. q \in Seq(OwnEvents(t)) /\ q # <<>>
    BY <1>1, <1>2
  <2> HIDE DEF q
  <2>2. /\ Head(q) = q[1] /\ 1 \in 1 .. Len(q)
        /\ \A i \in 1 .. Len(Tail(q)) : i + 1 \in 1 .. Len(q) /\ Tail(q)[i] = q[i + 1]
    BY <2>1, FirstAndRest
  <2> QED
    BY <1>2, <2>2 DEF q
<1>4. /\ jobId'[t] # None /\ \A u \in Tasks : u # t => jobId'[u] = jobId[u]
      /\ \A u \in Tasks : jobId[u] # None => jobId'[u] # None
  BY <1>1, <1>3 DEF Begun, DispatchTypes, AgentTypes
<1>5. \A u \in Tasks : \A i \in 1 .. Len(events'[u]) :
        IF events'[u][i].first = "document" THEN jobBuffer' # None ELSE jobId'[u] # None
  BY <1>1, <1>2, <1>3, <1>4 DEF Begun
<1>6. \A u \in Tasks : step'[u] \in OwnSteps(u) => jobId'[u] # None
  BY <1>1, <1>4 DEF Begun, DispatchTypes, StepTypes
<1>7. /\ \A s \in Outstanding' : jobId'[commands'[s].task] # None
      /\ \A r \in requests' : jobId'[r.task] # None
      /\ agent' = "reconnecting" => jobId'["renewal"] # None
  <2>1. /\ \A s \in Outstanding : commands[s].task \in Tasks
        /\ \A r \in requests : r.task \in Tasks
        /\ "renewal" \in Tasks
    BY OwnStepsAre DEF AgentInv, Shape, OutstandingOK, DispatchTypes, CloudTypes
  <2> QED
    BY <1>1, <1>4, <2>1 DEF Begun, agentVars, structures, cloud, Outstanding, Structures
<1> QED
  BY <1>5, <1>6, <1>7, OwnKinds DEF Begun

LEMMA TaskStepBegun ==
  ASSUME AgentInv, DispatchTypes, Begun, NEW t \in Tasks, TaskStep(t)
  PROVE  Begun'
<1>1. CASE ReceiveJobDocument(t) \/ ReceiveAnswer(t) \/ Restart
  BY <1>1, ReceiveBegun, StartBegun
<1>2. ASSUME step[t] \in OwnSteps(t), Proceed(t) \/ UNCHANGED step
      PROVE  \A u \in Tasks : step'[u] \in OwnSteps(u) => jobId[u] # None
  BY <1>2 DEF Proceed, Begun, DispatchTypes, StepTypes
<1>3. ASSUME Kept, step[t] \in OwnSteps(t), Proceed(t), agent' = agent,
             UNCHANGED <<cloud, jobBuffer, globalJobId, events, jobId>>
      PROVE  Begun'
  BY <1>2, <1>3, KeptBegun DEF Begun, cloud
<1>4. ASSUME CanCall(t), Proceed(t),
             UNCHANGED <<agentVars, cloud, jobBuffer, globalJobId, events, jobId>>
      PROVE  Begun'
  <2>1. Kept /\ agent' = agent
    BY <1>4 DEF Kept, agentVars, structures, Outstanding, Structures
  <2> QED
    BY <1>3, <1>4, <2>1 DEF CanCall, OwnSteps
<1>5. ASSUME Waiting(t), LeaveCall(t), Proceed(t), UNCHANGED <<freeStructures, agent>>,
             UNCHANGED <<cloud, jobBuffer, globalJobId, events, jobId>>
      PROVE  Begun'
  BY <1>3, <1>5, LeftCommands DEF DispatchTypes, StepTypes
<1>6. CASE NoJobToUpdate(t) \/ CallRefused(t)
  BY <1>1, <1>4, <1>6 DEF NoJobToUpdate, CallRefused
<1>7. CASE Return(t)
  BY <1>1, <1>5, <1>7 DEF Return, Notified
<1>8. CASE GiveUp(t)
  <2>1. Waiting(t)
    BY <1>8 DEF GiveUp, TimesOut, Waiting, NoCall
  <2> QED
    BY <1>5, <1>8, <2>1 DEF GiveUp, TimesOut
<1>9. CASE Call(t)
  <2>1. /\ step[t] \in OwnSteps(t) /\ (Proceed(t) \/ UNCHANGED step)
        /\ \E payload : Send(t, KindOf(step[t]), payload)
        /\ UNCHANGED <<cloud, jobBuffer, globalJobId, events, jobId>>
    BY <1>9 DEF Call, CanCall, OwnSteps
  <2>2. \E s : /\ Outstanding' = Outstanding \cup {s} /\ commands'[s].task = t
               /\ \A r \in Outstanding : commands'[r] = commands[r]
               /\ agent' = agent
    BY <2>1, KindIs, SentCommand DEF DispatchTypes, CallTypes
  <2>3. \A s \in Outstanding' : jobId[commands'[s].task] # None
    BY <2>1, <2>2 DEF Begun
  <2>4. \A u \in Tasks : step'[u] \in OwnSteps(u) => jobId[u] # None
    BY <1>2, <2>1
  <2> QED
    BY <2>1, <2>2, <2>3, <2>4, OwnKinds DEF Begun, cloud
<1> QED
  BY <1>1, <1>6, <1>7, <1>8, <1>9 DEF TaskStep

\* An event is sent: a document when the buffer holds one, an answer to an agent
\* that has begun.
LEMMA SentBegun ==
  ASSUME DispatchTypes, Begun, Kept, NEW t \in Tasks, NEW e \in OwnEvents(t), Enqueue(t, e),
         jobBuffer # None => jobBuffer' # None,
         e.first = "document" => jobBuffer' # None,
         e.first # "document" => jobId[t] # None,
         UNCHANGED <<jobId, step>>, requests' \subseteq requests,
         agent' = "reconnecting" => agent = "reconnecting"
  PROVE  Begun'
<1>1. /\ \A u \in Tasks : u # t => events'[u] = events[u]
      /\ events'[t] \in {events[t], Append(events[t], e)} /\ events[t] \in Seq(OwnEvents(t))
  BY SentEvent DEF DispatchTypes, AgentTypes
<1>2. \A i \in 1 .. Len(events'[t]) :
        \/ i \in 1 .. Len(events[t]) /\ events'[t][i] = events[t][i]
        \/ events'[t][i] = e
  BY <1>1
<1>3. \A u \in Tasks : \A i \in 1 .. Len(events'[u]) :
        IF events'[u][i].first = "document" THEN jobBuffer' # None ELSE jobId[u] # None
  BY <1>1, <1>2 DEF Begun
<1>4. \A s \in Outstanding' : jobId[commands'[s].task] # None
  BY DEF Begun, Kept, Outstanding, Structures
<1> QED
  BY <1>3, <1>4, OwnKinds DEF Begun

LEMMA BegunStep ==
  ASSUME AgentInv, DispatchTypes, Begun, [Next]_vars
  PROVE  Begun'
<1>1. ASSUME NEW t \in Tasks, TaskStep(t) PROVE Begun'
  BY <1>1, TaskStepBegun
<1>2. CASE RestartAfterUpdate \/ DeadContextCrash \/ ReconnectExits
  BY <1>2, StartBegun DEF RestartAfterUpdate, DeadContextCrash, ReconnectExits
<1>3. Len(commandQueue) <= QueueLength
  BY DEF DispatchTypes, CallTypes
<1>4. CASE Publish
  <2> DEFINE c == commands[Head(commandQueue)]
  <2>1. Head(commandQueue) \in Outstanding /\ Kept /\ agent' = agent
    BY <1>3, <1>4, PublishedCommand DEF Publish
  <2>2. /\ \/ requests' = requests
           \/ requests' = requests \cup
                            {[task |-> c.task, api |-> c.payload.about, job |-> c.payload.job]}
        /\ UNCHANGED agents
    BY <1>4 DEF Publish
  <2>3. \A r \in requests' : jobId[r.task] # None
    BY <2>1, <2>2 DEF Begun
  <2> QED
    BY <2>1, <2>2, <2>3, KeptBegun DEF Begun, agents
<1>5. CASE Reconnected
  <2>1. /\ Reconnect /\ requests' = {} /\ Enqueue("renewal", AnswerEvent(None, "unsubscribe"))
        /\ UNCHANGED <<jobBuffer, step, jobId>>
    BY <1>5 DEF Reconnected
  <2>2. Kept /\ agent = "reconnecting" /\ agent' = "loop"
    BY <1>3, <2>1, ServedCommands DEF Reconnect
  <2>3. AnswerEvent(None, "unsubscribe") \in OwnEvents("renewal") /\ "renewal" \in Tasks
    BY OwnStepsAre DEF AnswerEvent, OwnEvents, Answered
  <2>4. jobId["renewal"] # None /\ AnswerEvent(None, "unsubscribe").first # "document"
    BY <2>2 DEF Begun, AnswerEvent
  <2> QED
    BY <2>1, <2>2, <2>3, <2>4, SentBegun
<1>6. CASE /\ ProcessSubscription \/ ProcessTerminate \/ Acknowledge \/ NetworkError
           /\ UNCHANGED <<cloud, agents>>
  <2>1. Kept
    BY <1>3, <1>6, ServedCommands, TerminatedCommand
  <2>2. agent' = "reconnecting" => jobId["renewal"] # None
    <3>1. CASE ProcessTerminate
      <4>1. /\ Head(commandQueue) \in Outstanding
            /\ commands[Head(commandQueue)].kind = "terminate"
        BY <1>3, <3>1, TerminatedCommand
      <4>2. commands[Head(commandQueue)].task = "renewal"
        BY <4>1, KindIs, OwnStepsAre
           DEF DispatchTypes, CallTypes, Payloads, AgentInv, Shape, OutstandingOK
      <4> QED
        BY <4>1, <4>2 DEF Begun
    <3>2. CASE ProcessSubscription \/ Acknowledge \/ NetworkError
      BY <3>2 DEF ProcessSubscription, Acknowledge, NetworkError, Begun
    <3> QED
      BY <1>6, <3>1, <3>2
  <2> QED
    BY <1>6, <2>1, <2>2, KeptBegun DEF Begun, cloud, agents
<1>7. ASSUME UNCHANGED agentVars PROVE Kept
  BY <1>7 DEF Kept, agentVars, structures, Outstanding, Structures
<1>8. ASSUME NEW j \in Jobs, prvIncomingPublishCallback(j) PROVE Begun'
  <2>1. /\ \/ jobBuffer' = j /\ Enqueue(AgentOf(j), Document(j))
           \/ UNCHANGED <<jobBuffer, events>>
        /\ UNCHANGED <<agentVars, requests, step, jobId>>
    BY <1>8 DEF prvIncomingPublishCallback
  <2>2. AgentOf(j) \in Tasks /\ Document(j) \in OwnEvents(AgentOf(j)) /\ j # None
        /\ Document(j).first = "document"
    BY OwnStepsAre, JobDispatchAssumption DEF AgentOf, Document, OwnEvents
  <2>3. CASE jobBuffer' = j /\ Enqueue(AgentOf(j), Document(j))
    BY <1>7, <2>1, <2>2, <2>3, SentBegun DEF agentVars
  <2>4. CASE UNCHANGED <<jobBuffer, events>>
    BY <1>7, <2>1, <2>4, KeptBegun DEF Begun, agentVars
  <2> QED
    BY <2>1, <2>3, <2>4
<1>9. ASSUME NEW j \in Jobs, JobEnds(j) PROVE Begun'
  BY <1>7, <1>9, KeptBegun DEF JobEnds, Begun, agents, agentVars
<1>10. ASSUME NEW r \in requests, Answer(r) PROVE Begun'
  <2>1. r.task \in Tasks /\ r \in OwnRequests(r.task)
    BY DEF DispatchTypes, CloudTypes
  <2>2. PICK s \in Answers[r.api] : Enqueue(r.task, AnswerEvent(r.job, s))
    BY <1>10 DEF Answer
  <2>3. /\ requests' = requests \ {r} /\ UNCHANGED <<agentVars, jobBuffer, step, jobId>>
    BY <1>10 DEF Answer
  <2>4. AnswerEvent(r.job, s) \in OwnEvents(r.task) /\ AnswerEvent(r.job, s).first # "document"
    <3>1. s \in Answered[r.task] /\ s # "document"
      BY <2>1, OwnStepsAre DEF OwnRequests, Asked, Answers, Answered
    <3> QED
      BY <2>1, <3>1 DEF AnswerEvent, OwnEvents, OwnRequests
  <2>5. jobId[r.task] # None
    BY DEF Begun
  <2> QED
    BY <1>7, <2>1, <2>2, <2>3, <2>4, <2>5, SentBegun DEF agentVars
<1>11. CASE UNCHANGED vars
  BY <1>7, <1>11, KeptBegun DEF vars, Begun, cloud, agents, agentVars
<1> QED
  BY <1>1, <1>2, <1>4, <1>5, <1>6, <1>8, <1>9, <1>10, <1>11 DEF Next, AgentStep
-----------------------------------------------------------------------------
\* One piece of work at one place.

NoEvents == \A t \in Tasks : events[t] = <<>>
NoSteps == \A t \in Tasks : ~Working(t)
NoCommands == \A s \in Structures : ~Carries(s)
NoRequests == requests = {}
NoSession == agent # "reconnecting"

\* What is at one place is nowhere else.
LEMMA ElsewhereNothing ==
  ASSUME OnePlace
  PROVE  /\ \A t \in Tasks : events[t] # <<>> =>
              /\ \A u \in Tasks : u # t => events[u] = <<>>
              /\ NoSteps /\ NoCommands /\ NoRequests /\ NoSession /\ Places # {}
         /\ \A t \in Tasks : Working(t) =>
              /\ \A u \in Tasks : u # t => ~Working(u)
              /\ NoEvents /\ NoCommands /\ NoRequests /\ NoSession /\ Places # {}
         /\ \A s \in Structures : Carries(s) =>
              /\ \A r \in Structures : r # s => ~Carries(r)
              /\ NoEvents /\ NoSteps /\ NoRequests /\ NoSession /\ Places # {}
         /\ \A r \in requests :
              /\ requests = {r}
              /\ NoEvents /\ NoSteps /\ NoCommands /\ NoSession /\ Places # {}
         /\ agent = "reconnecting" =>
              NoEvents /\ NoSteps /\ NoCommands /\ NoRequests /\ Places # {}
<1>1. \A p, q \in Places : p = q
  BY DEF OnePlace
<1>2. \A t \in Tasks : /\ events[t] # <<>> => <<"event", t>> \in Places
                       /\ Working(t) => <<"step", t>> \in Places
  BY DEF Places
<1>3. /\ \A s \in Structures : Carries(s) => <<"command", s>> \in Places
      /\ \A r \in requests : <<"request", r>> \in Places
      /\ agent = "reconnecting" => <<"session", agent>> \in Places
  BY DEF Places
<1>4. /\ \A t \in Tasks : events[t] # <<>> =>
              /\ \A u \in Tasks : u # t => events[u] = <<>>
              /\ NoSteps /\ NoCommands /\ NoRequests /\ NoSession /\ Places # {}
  BY <1>1, <1>2, <1>3 DEF NoSteps, NoCommands, NoRequests, NoSession
<1>5. \A t \in Tasks : Working(t) =>
              /\ \A u \in Tasks : u # t => ~Working(u)
              /\ NoEvents /\ NoCommands /\ NoRequests /\ NoSession /\ Places # {}
  BY <1>1, <1>2, <1>3 DEF NoEvents, NoCommands, NoRequests, NoSession
<1>6. \A s \in Structures : Carries(s) =>
              /\ \A r \in Structures : r # s => ~Carries(r)
              /\ NoEvents /\ NoSteps /\ NoRequests /\ NoSession /\ Places # {}
  BY <1>1, <1>2, <1>3 DEF NoEvents, NoSteps, NoRequests, NoSession
<1>7. \A r \in requests :
              /\ requests = {r}
              /\ NoEvents /\ NoSteps /\ NoCommands /\ NoSession /\ Places # {}
  BY <1>1, <1>2, <1>3 DEF NoEvents, NoSteps, NoCommands, NoSession
<1>8. agent = "reconnecting" =>
              NoEvents /\ NoSteps /\ NoCommands /\ NoRequests /\ Places # {}
  BY <1>1, <1>2, <1>3 DEF NoEvents, NoSteps, NoCommands, NoRequests
<1> QED
  BY <1>4, <1>5, <1>6, <1>7, <1>8

\* Work that moves to one place is at one place.
LEMMA MovedTo ==
  ASSUME NEW p, \A t \in Tasks : Len(events'[t]) <= 1,
         \A t \in Tasks : events'[t] # <<>> => p = <<"event", t>>,
         \A t \in Tasks : Working(t)' => p = <<"step", t>>,
         \A s \in Structures : Carries(s)' => p = <<"command", s>>,
         \A r \in requests' : p = <<"request", r>>,
         agent' = "reconnecting" => p = <<"session", "reconnecting">>
  PROVE  OnePlace'
<1>1. Structures' = Structures
  BY DEF Structures
<1>2. Places' \subseteq {p}
  BY <1>1 DEF Places
<1> QED
  BY <1>2 DEF OnePlace

LEMMA MovedToStep ==
  ASSUME NEW t \in Tasks, \A u \in Tasks : events'[u] = <<>>,
         \A u \in Tasks : u # t => ~Working(u)', \A s \in Structures : ~Carries(s)',
         requests' = {}, agent' # "reconnecting"
  PROVE  OnePlace'
<1> DEFINE p == <<"step", t>>
<1>1. \A u \in Tasks : Working(u)' => p = <<"step", u>>
  OBVIOUS
<1>2. \A u \in Tasks : Len(events'[u]) <= 1
  <2>1. Len(<<>>) = 0
    OBVIOUS
  <2> QED
    BY <2>1
<1> HIDE DEF p
<1> QED
  BY <1>1, <1>2, MovedTo

\* No work anywhere: there is a job to do only where there is work.
LEMMA NoPlaceLeft ==
  ASSUME NoEvents', NoSteps', NoCommands', NoRequests', NoSession'
  PROVE  OnePlace' /\ Places' = {}
<1>1. Structures' = Structures /\ \A t \in Tasks : Len(events'[t]) <= 1
  BY DEF Structures, NoEvents
<1>2. Places' = {}
  BY <1>1 DEF Places, NoEvents, NoSteps, NoCommands, NoRequests, NoSession
<1> QED
  BY <1>1, <1>2 DEF OnePlace

\* The only live job of an announcement.
LEMMA AnnouncedAlone ==
  ASSUME DispatchTypes, Serial, NEW j \in Jobs, jobStatus[j] = "queued", j \notin announced,
         \A i \in Jobs : i < j => jobStatus[i] \in Terminal
  PROVE  Places = {}
<1>1. \A i \in Jobs : ~Live(i)
  <2> SUFFICES ASSUME NEW i \in Jobs, Live(i) PROVE FALSE
    OBVIOUS
  <2>1. i \in announced /\ jobStatus[i] \notin Terminal /\ i # j /\ "queued" \notin Terminal
    BY DEF Live, Terminal
  <2>2. i \in Nat /\ j \in Nat
    BY JobDispatchAssumption
  <2>3. i < j \/ j < i
    BY <2>1, <2>2
  <2> QED
    BY <2>1, <2>3 DEF Serial
<1> QED
  BY <1>1 DEF Serial
\* Work that stays where it is, or goes on at its step, or is lost.
LEMMA LessWork ==
  ASSUME DispatchTypes, WorkInv, Kept,
         UNCHANGED <<jobStatus, announced, events, jobBuffer, globalJobId, jobId>>,
         finished \subseteq finished', requests' \subseteq requests,
         agent' = "reconnecting" => agent = "reconnecting",
         \A t \in Tasks : Working(t)' => /\ Working(t)
                                         /\ step[t] = "rejected" => step'[t] = "rejected"
                                         /\ step'[t] \in Good => step[t] \in Good
  PROVE  WorkInv'
<1>1. \A s \in Structures : s \in Outstanding' =>
        /\ s \in Outstanding /\ commands'[s].task = commands[s].task
        /\ commands'[s].payload = commands[s].payload
  BY DEF Kept
<1>2. /\ Structures' = Structures /\ Outstanding' \subseteq Structures
      /\ \A s \in Structures : Carries(s)' => Carries(s)
  BY <1>1 DEF Structures, Outstanding, Carries
<1>3. Places' \subseteq Places
  BY <1>2 DEF Places
<1>4. OnePlace'
  BY <1>3 DEF WorkInv, OnePlace
<1>5. Serial'
  BY <1>1, <1>2, <1>3 DEF WorkInv, Serial, Live, Jobs, Terminal, Statuses
<1>6. Attributed'
  <2>1. \A t \in Tasks : Working(t)' /\ step'[t] # "rejected" => jobId'[t] = globalJobId'
    BY DEF WorkInv, Attributed
  <2>2. /\ \A s \in Outstanding' : commands'[s].payload.about \in {"request", "sign", "revoke"} =>
             /\ commands'[s].payload.job = globalJobId'
             /\ jobId'[commands'[s].task] = globalJobId'
        /\ \A s \in Outstanding' :
             commands'[s].payload.about = "terminate" => jobId'["renewal"] = globalJobId'
    BY <1>1, <1>2 DEF WorkInv, Attributed
  <2> QED
    BY <2>1, <2>2 DEF WorkInv, Attributed, AgentOf
<1>7. Earned'
  BY <1>1, <1>2 DEF WorkInv, Earned, Good, Jobs
<1> QED
  BY <1>4, <1>5, <1>6, <1>7 DEF WorkInv

\* The step of a task with nothing at it does not change.
LEMMA SameSteps ==
  ASSUME SameCalls, UNCHANGED step
  PROVE  \A t \in Tasks : Working(t)' <=> Working(t)
BY OwnKinds DEF SameCalls, Working, Handed

\* A task goes on in its handler.
LEMMA ProceedWork ==
  ASSUME DispatchTypes, WorkInv, NEW t \in Tasks, Kept, step[t] \in OwnSteps(t), Proceed(t),
         ~Waiting(t)', \A u \in Tasks : u # t => (Waiting(u)' <=> Waiting(u)),
         agent' = agent, UNCHANGED <<cloud, jobBuffer, globalJobId, events, jobId>>
  PROVE  WorkInv'
<1>1. /\ step'[t] = AfterCall[t][step[t]]
      /\ \A u \in Tasks : u # t => step'[u] = step[u]
  BY DEF Proceed, DispatchTypes, StepTypes
<1>2. /\ step[t] \in Handed => step'[t] \in {"receive", "restart"}
      /\ step'[t] \in Good => step[t] \in Good
      /\ "receive" \notin OwnSteps(t) /\ "restart" \notin OwnSteps(t)
  BY <1>1, StepAfter, OwnStepsAre
<1>3. Working(t)' => Working(t) /\ step[t] \notin Handed
  BY <1>2, OwnKinds DEF Working, Handed
<1>4. \A u \in Tasks : u # t => (Working(u)' <=> Working(u))
  BY <1>1, OwnKinds DEF Working, Handed
<1>5. "rejected" \in Handed
  BY DEF Handed
<1> QED
  BY <1>1, <1>2, <1>3, <1>4, <1>5, LessWork DEF cloud

LEMMA RestartWork ==
  ASSUME DispatchTypes, WorkInv, Restart
  PROVE  WorkInv'
<1>1. /\ Outstanding' = {} /\ \A t \in Tasks : ~Waiting(t)' /\ step'[t] = "receive"
      /\ \A t \in Tasks : events'[t] = <<>>
      /\ requests' = {} /\ agent' = "loop" /\ globalJobId' = None
      /\ UNCHANGED <<jobStatus, announced, finished>>
  BY DEF Restart, AgentReset, Outstanding, Structures, Waiting, NoCall
<1>2. \A t \in Tasks : ~Working(t)'
  BY <1>1, OwnStepsAre, OwnKinds DEF Working
<1>3. OnePlace' /\ Places' = {}
  BY <1>1, <1>2, NoPlaceLeft DEF NoEvents, NoSteps, NoCommands, NoRequests, NoSession, Carries
<1>4. Serial'
  BY <1>1, <1>3 DEF WorkInv, Serial, Terminal, Jobs
<1>5. Attributed'
  BY <1>1, <1>2 DEF Attributed
<1>6. Earned'
  BY <1>1, <1>2 DEF WorkInv, Earned, Jobs
<1> QED
  BY <1>3, <1>4, <1>5, <1>6 DEF WorkInv

LEMMA StartWork ==
  ASSUME Init PROVE WorkInv
<1>1. /\ Outstanding = {} /\ \A t \in Tasks : step[t] = "receive" /\ events[t] = <<>>
      /\ requests = {} /\ agent = "loop" /\ globalJobId = None
      /\ announced = {} /\ \A j \in Jobs : jobStatus[j] = "queued"
  BY DEF Init, AgentInit, Outstanding
<1>2. \A t \in Tasks : ~Working(t)
  BY <1>1, OwnStepsAre DEF Working
<1>3. Places = {}
  BY <1>1, <1>2 DEF Places, Carries
<1>4. OnePlace
  BY <1>1, <1>3 DEF OnePlace
<1>5. Serial
  BY <1>1, <1>3 DEF Serial
<1>6. Attributed /\ Earned
  BY <1>1, <1>2 DEF Attributed, Earned
<1> QED
  BY <1>4, <1>5, <1>6 DEF WorkInv

\* A document is read: the work is at the first step of its agent.
LEMMA ReceiveJobDocumentWork ==
  ASSUME AgentInv, DispatchTypes, Begun, WorkInv, NEW t \in Tasks, ReceiveJobDocument(t), ~Restart
  PROVE  WorkInv'
<1>1. /\ events[t] # <<>> /\ ~Waiting(t) /\ Head(events[t]).first = "document"
      /\ events' = [events EXCEPT ![t] = Tail(@)]
      /\ jobId' = [jobId EXCEPT ![t] = jobBuffer]
      /\ \/ globalJobId' = jobBuffer /\ step' = [step EXCEPT ![t] = "in_progress"]
         \/ UNCHANGED globalJobId /\ step' = [step EXCEPT ![t] = "rejected"]
      /\ UNCHANGED <<agentVars, cloud, jobBuffer>>
  BY DEF ReceiveJobDocument, Idle
<1>2. /\ \A u \in Tasks : u # t => events[u] = <<>>
      /\ NoSteps /\ NoCommands /\ NoRequests /\ NoSession /\ Places # {}
  BY <1>1, ElsewhereNothing DEF WorkInv
<1>3. \A u \in Tasks : events'[u] = <<>>
  <2>1. Len(events[t]) <= 1 /\ events[t] \in Seq(OwnEvents(t))
    BY DEF WorkInv, OnePlace, DispatchTypes, AgentTypes
  <2>2. Tail(events[t]) = <<>>
    BY <1>1, <2>1
  <2> QED
    BY <1>1, <1>2, <2>2, TakenEvent DEF DispatchTypes
<1>4. /\ \A u \in Tasks : u # t => ~Working(u)'
      /\ \A s \in Structures : ~Carries(s)'
  BY <1>1, <1>2, OwnKinds DEF NoSteps, NoCommands, Working, Handed, Carries, DispatchTypes, StepTypes, Waiting, NoCall, agentVars,
     structures, Outstanding, Structures
<1>5. OnePlace'
  <2>1. requests' = {} /\ agent' # "reconnecting"
    BY <1>1, <1>2 DEF NoRequests, NoSession, cloud, agentVars
  <2> QED
    BY <1>3, <1>4, <2>1, MovedToStep
<1>6. UNCHANGED <<jobStatus, announced, finished, requests, agent, commands, Outstanding>>
  BY <1>1 DEF cloud, agentVars, structures, Outstanding, Structures
<1>7. Serial'
  <2>1. jobBuffer \in announced
    BY <1>1 DEF WorkInv, Attributed
  <2> QED
    BY <1>1, <1>2, <1>6, <2>1 DEF WorkInv, Serial, Live, Jobs, Terminal, Statuses
<1>8. step'[t] = "rejected" \/ (jobId'[t] = globalJobId' /\ step'[t] = "in_progress")
  BY <1>1 DEF DispatchTypes, StepTypes, AgentTypes
<1>9. \A s \in Outstanding' : commands'[s].payload.about \notin {"request", "sign", "revoke", "terminate", "succeeded"}
  BY <1>4 DEF Carries, Handed, Outstanding, Structures
<1>10. Attributed'
  BY <1>2, <1>3, <1>4, <1>6, <1>8, <1>9 DEF Attributed, NoRequests, NoSession
<1>11. Earned'
  <2>1. step'[t] \notin Good
    BY <1>8 DEF Good
  <2> QED
    BY <1>3, <1>4, <1>6, <1>9, <2>1 DEF WorkInv, Earned, Good, Jobs
<1> QED
  BY <1>5, <1>7, <1>10, <1>11 DEF WorkInv

LEMMA ReceiveAnswerWork ==
  ASSUME AgentInv, DispatchTypes, Begun, WorkInv, NEW t \in Tasks, ReceiveAnswer(t)
  PROVE  WorkInv'
<1>1. /\ events[t] # <<>> /\ ~Waiting(t) /\ Head(events[t]).first # "document"
      /\ events' = [events EXCEPT ![t] = Tail(@)]
      /\ step' = [step EXCEPT ![t] = Head(events[t]).first]
      /\ UNCHANGED <<agentVars, cloud, jobBuffer, globalJobId, jobId>>
  BY DEF ReceiveAnswer, Idle
<1>2. /\ \A u \in Tasks : u # t => events[u] = <<>>
      /\ NoSteps /\ NoCommands /\ NoRequests /\ NoSession /\ Places # {}
  BY <1>1, ElsewhereNothing DEF WorkInv
<1>3. \A u \in Tasks : events'[u] = <<>>
  <2>1. Len(events[t]) <= 1 /\ events[t] \in Seq(OwnEvents(t))
    BY DEF WorkInv, OnePlace, DispatchTypes, AgentTypes
  <2>2. Tail(events[t]) = <<>>
    BY <1>1, <2>1
  <2> QED
    BY <1>1, <1>2, <2>2, TakenEvent DEF DispatchTypes
<1>4. /\ \A u \in Tasks : u # t => ~Working(u)'
      /\ \A s \in Structures : ~Carries(s)'
  BY <1>1, <1>2, OwnKinds DEF NoSteps, NoCommands, Working, Handed, Carries, DispatchTypes, StepTypes, Waiting, NoCall, agentVars,
     structures, Outstanding, Structures
<1>5. OnePlace'
  <2>1. requests' = {} /\ agent' # "reconnecting"
    BY <1>1, <1>2 DEF NoRequests, NoSession, cloud, agentVars
  <2> QED
    BY <1>3, <1>4, <2>1, MovedToStep
<1>6. UNCHANGED <<jobStatus, announced, finished, requests, agent, commands, Outstanding>>
  BY <1>1 DEF cloud, agentVars, structures, Outstanding, Structures
<1>7. Serial'
  BY <1>1, <1>2, <1>6 DEF WorkInv, Serial, Live, Jobs, Terminal, Statuses
<1>8. /\ step'[t] = Head(events[t]).first /\ jobId'[t] = globalJobId'
      /\ step'[t] \in Good => globalJobId' \in finished'
  BY <1>1, <1>6 DEF DispatchTypes, StepTypes, WorkInv, Attributed, Earned
<1>9. \A s \in Outstanding' : commands'[s].payload.about \notin {"request", "sign", "revoke", "terminate", "succeeded"}
  BY <1>4 DEF Carries, Handed, Outstanding, Structures
<1>10. Attributed'
  BY <1>2, <1>3, <1>4, <1>6, <1>8, <1>9 DEF Attributed, NoRequests, NoSession
<1>11. Earned'
  BY <1>3, <1>4, <1>6, <1>8, <1>9 DEF WorkInv, Earned, Good, Jobs
<1> QED
  BY <1>5, <1>7, <1>10, <1>11 DEF WorkInv
\* A call: the work stays at the step, or goes on with the command.
LEMMA CallWork ==
  ASSUME AgentInv, DispatchTypes, Begun, WorkInv, NEW t \in Tasks, Call(t)
  PROVE  WorkInv'
<1> DEFINE about == step[t]
           job == IF about \in Statuses THEN globalJobId ELSE jobId[t]
<1>1. /\ about \in OwnSteps(t) /\ ~Waiting(t) /\ (about \in Statuses => globalJobId # None)
      /\ Send(t, KindOf(about), [job |-> job, about |-> about])
      /\ IF about = "terminate" THEN Proceed(t) ELSE UNCHANGED step
      /\ UNCHANGED <<cloud, jobBuffer, globalJobId, events, jobId>>
  BY DEF Call, CanCall, OwnSteps
<1>2. PICK s \in Structures :
        /\ s \notin Outstanding /\ Outstanding' = Outstanding \cup {s}
        /\ commands'[s].task = t
        /\ commands'[s].payload = [job |-> job, about |-> about]
        /\ \A r \in Outstanding : commands'[r] = commands[r]
        /\ agent' = agent /\ (Waiting(t)' <=> KindOf(about) # "terminate")
        /\ \A u \in Tasks : u # t => (Waiting(u)' <=> Waiting(u))
  BY <1>1, KindIs, SentCommand DEF DispatchTypes, CallTypes
<1>3. commands'[s].payload.about = about /\ commands'[s].payload.job = job
  BY <1>2
<1>4. Working(t)
  BY <1>1 DEF Working
<1>5. /\ \A u \in Tasks : u # t => ~Working(u)
      /\ NoEvents /\ NoCommands /\ NoRequests /\ NoSession /\ Places # {}
  BY <1>4, ElsewhereNothing DEF WorkInv
<1>6. /\ \A u \in Tasks : u # t => step'[u] = step[u]
      /\ about # "terminate" => step'[t] = about
      /\ about = "terminate" => step'[t] = "receive"
  BY <1>1, OwnStepsAre DEF Proceed, AfterCall, DispatchTypes, StepTypes
<1>7. \A u \in Tasks : u # t => ~Working(u)'
  BY <1>2, <1>5, <1>6, OwnKinds DEF Working, Handed
<1>8. Working(t)' => about \notin Handed \cup {"terminate"} /\ step'[t] = about
  <2>1. "receive" \notin OwnSteps(t)
    BY OwnStepsAre
  <2>2. about # "terminate" => Waiting(t)'
    BY <1>1, <1>2, KindIs
  <2> QED
    BY <1>6, <2>1, <2>2, OwnKinds DEF Working, Handed
<1>9. \A r \in Structures : Carries(r)' => r = s /\ about \in Handed \cup {"terminate"}
  BY <1>2, <1>3, <1>5 DEF NoCommands, Carries, Handed
<1>10. OnePlace'
  <2>1. \A u \in Tasks : events'[u] = <<>> /\ Len(events'[u]) <= 1
    BY <1>1, <1>5 DEF NoEvents, WorkInv, OnePlace
  <2>2. requests' = {} /\ agent' # "reconnecting"
    BY <1>1, <1>2, <1>5 DEF NoRequests, NoSession, cloud
  <2>3. CASE Working(t)'
    BY <1>7, <1>8, <1>9, <2>1, <2>2, <2>3, MovedToStep
  <2>4. CASE ~Working(t)'
    <3> DEFINE p == <<"command", s>>
    <3>1. \A r \in Structures : Carries(r)' => p = <<"command", r>>
      BY <1>9
    <3>2. \A u \in Tasks : ~Working(u)'
      BY <1>7, <2>4
    <3> HIDE DEF p
    <3> QED
      BY <2>1, <2>2, <3>1, <3>2, MovedTo
  <2> QED
    BY <2>3, <2>4
<1>11. UNCHANGED <<jobStatus, announced, finished, requests, agent>>
  BY <1>1, <1>2 DEF cloud
<1>12. \A r \in Outstanding' : r = s \/ (r \in Outstanding /\ commands'[r] = commands[r])
  BY <1>2
<1>13. \A r \in Outstanding : commands[r].payload.about \notin Handed \cup {"terminate"}
  BY <1>5 DEF NoCommands, Carries, Outstanding
<1>14. Serial'
  <2>1. about \in Statuses => job \in announced
    BY <1>1 DEF WorkInv, Serial
  <2>2. \A r \in Outstanding' :
          commands'[r].payload.about \in Statuses => commands'[r].payload.job \in announced'
    BY <1>3, <1>11, <1>12, <2>1 DEF WorkInv, Serial
  <2> QED
    BY <1>1, <1>5, <1>11, <2>2 DEF WorkInv, Serial, Live, Jobs, Terminal, Statuses
<1>15. about # "rejected" => jobId[t] = globalJobId
  BY <1>4 DEF WorkInv, Attributed
<1>16. Attributed'
  <2>1. \A u \in Tasks : Working(u)' /\ step'[u] # "rejected" => jobId'[u] = globalJobId'
    BY <1>1, <1>7, <1>8, <1>15
  <2>2. \A r \in Outstanding' :
          commands'[r].payload.about \in {"request", "sign", "revoke"} =>
             /\ commands'[r].payload.job = globalJobId'
             /\ jobId'[commands'[r].task] = globalJobId'
    <3>1. about \in {"request", "sign", "revoke"} => job = globalJobId
      BY <1>15 DEF Statuses
    <3> QED
      BY <1>1, <1>2, <1>3, <1>12, <1>13, <1>15, <3>1 DEF Handed
  <2>3. \A r \in Outstanding' :
          commands'[r].payload.about = "terminate" => jobId'["renewal"] = globalJobId'
    <3>1. about = "terminate" => t = "renewal"
      BY <1>1, OwnStepsAre
    <3> QED
      BY <1>1, <1>3, <1>12, <1>13, <1>15, <3>1
  <2> QED
    BY <1>1, <1>5, <1>11, <2>1, <2>2, <2>3 DEF Attributed, NoEvents, NoRequests, NoSession
<1>17. Earned'
  <2>1. about \in Good => globalJobId \in finished
    BY <1>4 DEF WorkInv, Earned
  <2>2. \A r \in Outstanding' :
          commands'[r].payload.about = "succeeded" => commands'[r].payload.job \in finished'
    BY <1>3, <1>11, <1>12, <1>13, <2>1 DEF Handed, Statuses, Good
  <2>3. \A u \in Tasks : Working(u)' /\ step'[u] \in Good => globalJobId' \in finished'
    BY <1>1, <1>7, <1>8, <1>11, <2>1
  <2> QED
    BY <1>1, <1>5, <1>11, <2>2, <2>3 DEF WorkInv, Earned, NoEvents, Good, Jobs
<1> QED
  BY <1>10, <1>14, <1>16, <1>17 DEF WorkInv

LEMMA TaskStepWork ==
  ASSUME AgentInv, DispatchTypes, Begun, WorkInv, NEW t \in Tasks, TaskStep(t)
  PROVE  WorkInv'
<1>1. CASE ReceiveJobDocument(t) \/ ReceiveAnswer(t) \/ Call(t) \/ Restart
  BY <1>1, ReceiveJobDocumentWork, ReceiveAnswerWork, CallWork, RestartWork
<1>2. ASSUME CanCall(t), Proceed(t),
             UNCHANGED <<agentVars, cloud, jobBuffer, globalJobId, events, jobId>>
      PROVE  WorkInv'
  <2>1. Kept /\ agent' = agent /\ \A u \in Tasks : Waiting(u)' <=> Waiting(u)
    BY <1>2 DEF Kept, agentVars, structures, Outstanding, Structures, Waiting, NoCall
  <2> QED
    BY <1>2, <2>1, ProceedWork DEF CanCall, OwnSteps
<1>3. ASSUME Waiting(t), LeaveCall(t), Proceed(t), UNCHANGED <<freeStructures, agent>>,
             UNCHANGED <<cloud, jobBuffer, globalJobId, events, jobId>>
      PROVE  WorkInv'
  BY <1>3, LeftCommands, ProceedWork DEF DispatchTypes, StepTypes
<1>4. CASE NoJobToUpdate(t) \/ CallRefused(t)
  BY <1>1, <1>2, <1>4 DEF NoJobToUpdate, CallRefused
<1>5. CASE Return(t)
  BY <1>1, <1>3, <1>5 DEF Return, Notified
<1>6. CASE GiveUp(t)
  <2>1. Waiting(t)
    BY <1>6 DEF GiveUp, TimesOut, Waiting, NoCall
  <2> QED
    BY <1>3, <1>6, <2>1 DEF GiveUp, TimesOut
<1> QED
  BY <1>1, <1>4, <1>5, <1>6 DEF TaskStep
\* A report reaches its job, or a request leaves for the cloud.
LEMMA PublishWork ==
  ASSUME AgentInv, DispatchTypes, Begun, WorkInv, Publish
  PROVE  WorkInv'
<1> DEFINE h == Head(commandQueue)
           c == commands[h]
           q == [task |-> c.task, api |-> c.payload.about, job |-> c.payload.job]
<1>1. /\ h \in Outstanding /\ c.kind = "publish" /\ Kept /\ SameCalls
      /\ Outstanding' = Outstanding \ {h} /\ agent' = agent
  BY PublishedCommand DEF Publish, DispatchTypes, CallTypes
<1>2. c.payload.about \in Statuses \cup {"request", "sign", "revoke"} /\ c.task \in Tasks
  BY <1>1, KindIs DEF DispatchTypes, CallTypes, Payloads, AgentInv, Shape, OutstandingOK
<1>3. \/ c.payload.about \in Statuses /\ UNCHANGED requests
         /\ jobStatus' = Updated(c.payload.job, c.payload.about)
      \/ /\ c.payload.about \notin Statuses /\ UNCHANGED jobStatus
         /\ requests' = requests \cup {q}
      \/ UNCHANGED <<jobStatus, requests>>
  BY DEF Publish
<1>4. UNCHANGED <<announced, finished, events, jobBuffer, globalJobId, step, jobId>>
  BY DEF Publish, agents
<1>5. \A t \in Tasks : Working(t)' <=> Working(t)
  BY <1>1, <1>4, SameSteps
<1>6. CASE UNCHANGED <<jobStatus, requests>>
  BY <1>1, <1>4, <1>5, <1>6, LessWork
<1>7. h \in Structures /\ Structures' = Structures /\ Outstanding' \subseteq Structures
  BY <1>1 DEF Outstanding, Structures
<1>8. \A s \in Structures : s \in Outstanding' =>
        /\ s \in Outstanding /\ s # h /\ commands'[s].task = commands[s].task
        /\ commands'[s].payload = commands[s].payload
  BY <1>1 DEF Kept
<1>9. CASE /\ c.payload.about \in Statuses /\ UNCHANGED requests
           /\ jobStatus' = Updated(c.payload.job, c.payload.about)
  <2>1. c.payload.job \in announced /\ c.payload.job \in Jobs
    BY <1>1, <1>9 DEF WorkInv, Serial, DispatchTypes, CloudTypes
  <2>2. /\ \A j \in Jobs : jobStatus[j] \in Terminal => jobStatus'[j] = jobStatus[j]
        /\ \A j \in Jobs : j # c.payload.job => jobStatus'[j] = jobStatus[j]
        /\ \A j \in Jobs : jobStatus'[j] \in {jobStatus[j], c.payload.about}
        /\ jobStatus' \in [Jobs -> {"queued", "in_progress"} \cup Terminal]
    BY <1>9, <2>1 DEF Updated, DispatchTypes, CloudTypes, Statuses, Terminal
  <2>3. OnePlace' /\ (Places' # {} => \E j \in Jobs : Live(j)')
    <3>1. CASE c.payload.about = "in_progress"
      <4>1. \A s \in Structures : Carries(s)' => Carries(s)
        BY <1>8 DEF Carries, Handed
      <4>2. Places' \subseteq Places
        BY <1>1, <1>4, <1>5, <1>7, <1>9, <4>1 DEF Places
      <4>3. \A j \in Jobs : Live(j) => Live(j)'
        BY <1>4, <2>2, <3>1 DEF Live, Terminal
      <4> QED
        BY <1>4, <4>2, <4>3 DEF WorkInv, OnePlace, Serial
    <3>2. CASE c.payload.about # "in_progress"
      <4>1. Carries(h)
        BY <1>1, <1>9, <3>2 DEF Carries, Handed, Statuses
      <4>2. /\ \A r \in Structures : r # h => ~Carries(r)
            /\ NoEvents /\ NoSteps /\ NoRequests /\ NoSession
        BY <1>7, <4>1, ElsewhereNothing DEF WorkInv
      <4>3. NoCommands'
        BY <1>7, <1>8, <4>2 DEF NoCommands, Carries, Handed
      <4>4. NoEvents' /\ NoSteps' /\ NoRequests' /\ NoSession'
        BY <1>1, <1>4, <1>5, <1>9, <4>2 DEF NoEvents, NoSteps, NoRequests, NoSession
      <4> QED
        BY <4>3, <4>4, NoPlaceLeft
    <3> QED
      BY <3>1, <3>2
  <2>4. Serial'
    <3>1. \A s \in Outstanding' :
            commands'[s].payload.about \in Statuses => commands'[s].payload.job \in announced'
      BY <1>4, <1>7, <1>8 DEF WorkInv, Serial
    <3>2. \A j \in announced' : \A i \in Jobs : i < j => jobStatus'[i] \in Terminal
      BY <1>4, <2>2 DEF WorkInv, Serial
    <3>3. \A j \in Jobs \ announced' : jobStatus'[j] = "queued"
      BY <1>4, <2>1, <2>2 DEF WorkInv, Serial
    <3> QED
      BY <1>4, <2>3, <3>1, <3>2, <3>3 DEF WorkInv, Serial, Jobs, Terminal, Statuses
  <2>5. Attributed'
    BY <1>1, <1>4, <1>5, <1>7, <1>8, <1>9 DEF WorkInv, Attributed, AgentOf
  <2>6. Earned'
    <3>1. c.payload.about = "succeeded" => c.payload.job \in finished
      BY <1>1 DEF WorkInv, Earned
    <3>2. \A j \in Jobs : jobStatus'[j] = "succeeded" => j \in finished
      BY <2>2, <3>1 DEF WorkInv, Earned
    <3> QED
      BY <1>4, <1>5, <1>7, <1>8, <3>2 DEF WorkInv, Earned, Good, Jobs
  <2> QED
    BY <2>3, <2>4, <2>5, <2>6 DEF WorkInv
<1>10. CASE /\ c.payload.about \notin Statuses /\ UNCHANGED jobStatus
            /\ requests' = requests \cup {q}
  <2>1. c.payload.about \in {"request", "sign", "revoke"}
    BY <1>2, <1>10
  <2>2. Carries(h)
    BY <1>1, <2>1 DEF Carries, Handed
  <2>3. /\ \A r \in Structures : r # h => ~Carries(r)
        /\ NoEvents /\ NoSteps /\ NoRequests /\ NoSession /\ Places # {}
    BY <1>7, <2>2, ElsewhereNothing DEF WorkInv
  <2>4. requests' = {q}
    BY <1>10, <2>3 DEF NoRequests
  <2>5. /\ \A s \in Structures : ~Carries(s)'
        /\ \A t \in Tasks : events'[t] = <<>> /\ ~Working(t)'
        /\ agent' # "reconnecting"
    BY <1>1, <1>4, <1>5, <1>8, <2>3 DEF NoEvents, NoSteps, NoSession, Carries, Handed
  <2>6. OnePlace'
    <3> DEFINE p == <<"request", q>>
    <3>1. \A r \in requests' : p = <<"request", r>>
      BY <2>4
    <3>2. \A t \in Tasks : Len(events'[t]) <= 1
      BY <1>4 DEF WorkInv, OnePlace
    <3> HIDE DEF p
    <3> QED
      BY <2>5, <3>1, <3>2, MovedTo
  <2>7. Serial'
    BY <1>4, <1>7, <1>8, <1>10, <2>3 DEF WorkInv, Serial, Live, Jobs, Terminal, Statuses
  <2>8. Attributed'
    <3>1. q.job = globalJobId /\ jobId[q.task] = globalJobId
      BY <1>1, <2>1 DEF WorkInv, Attributed
    <3>2. \A r \in requests' : r.job = globalJobId' /\ jobId'[r.task] = globalJobId'
      BY <1>4, <2>4, <3>1
    <3> QED
      BY <1>4, <1>7, <1>8, <2>5, <3>2 DEF WorkInv, Attributed, AgentOf
  <2>9. Earned'
    BY <1>4, <1>7, <1>8, <1>10, <2>5 DEF WorkInv, Earned, Good, Jobs
  <2> QED
    BY <2>6, <2>7, <2>8, <2>9 DEF WorkInv
<1> QED
  BY <1>3, <1>6, <1>9, <1>10

\* The renewal agent's TERMINATE: the work is with the agent task.
LEMMA TerminateWork ==
  ASSUME AgentInv, DispatchTypes, Begun, WorkInv, ProcessTerminate, UNCHANGED <<cloud, agents>>
  PROVE  WorkInv'
<1> DEFINE h == Head(commandQueue)
<1>1. /\ h \in Outstanding /\ commands[h].kind = "terminate" /\ Kept /\ SameCalls
      /\ Outstanding' = Outstanding \ {h} /\ agent' = "reconnecting"
  BY TerminatedCommand DEF DispatchTypes, CallTypes
<1>2. commands[h].payload.about = "terminate"
  BY <1>1, KindIs DEF DispatchTypes, CallTypes, Payloads, AgentInv, Shape, OutstandingOK
<1>3. h \in Structures /\ Outstanding' \subseteq Structures /\ Carries(h)
  BY <1>1, <1>2 DEF Outstanding, Structures, Carries
<1>4. /\ \A r \in Structures : r # h => ~Carries(r)
      /\ NoEvents /\ NoSteps /\ NoRequests /\ Places # {}
  BY <1>3, ElsewhereNothing DEF WorkInv
<1>5. UNCHANGED <<jobStatus, announced, finished, requests, events, jobBuffer, globalJobId, step, jobId>>
  BY DEF cloud, agents
<1>6. \A s \in Structures : s \in Outstanding' =>
        /\ s \in Outstanding /\ s # h /\ commands'[s].task = commands[s].task
        /\ commands'[s].payload = commands[s].payload
  BY <1>1 DEF Kept
<1>7. /\ \A s \in Structures : ~Carries(s)'
      /\ \A t \in Tasks : events'[t] = <<>> /\ ~Working(t)'
      /\ requests' = {}
  <2>1. \A t \in Tasks : Working(t)' <=> Working(t)
    BY <1>1, <1>5, SameSteps
  <2> QED
    BY <1>4, <1>5, <1>6, <2>1 DEF NoEvents, NoSteps, NoRequests, Carries, Handed
<1>8. OnePlace'
  <2>1. \A t \in Tasks : Len(events'[t]) <= 1
    BY <1>5 DEF WorkInv, OnePlace
  <2> QED
    BY <1>7, <2>1, MovedTo
<1>9. Serial'
  BY <1>3, <1>4, <1>5, <1>6 DEF WorkInv, Serial, Live, Jobs, Terminal, Statuses
<1>10. Attributed'
  <2>1. jobId["renewal"] = globalJobId
    BY <1>1, <1>2 DEF WorkInv, Attributed
  <2> QED
    BY <1>3, <1>5, <1>6, <1>7, <2>1 DEF WorkInv, Attributed
<1>11. Earned'
  BY <1>3, <1>5, <1>6, <1>7 DEF WorkInv, Earned, Good, Jobs
<1> QED
  BY <1>8, <1>9, <1>10, <1>11 DEF WorkInv

\* An event where there was no work: it is the work.
LEMMA SentWork ==
  ASSUME AgentInv, DispatchTypes, WorkInv, NEW t \in Tasks, NEW e \in OwnEvents(t), Enqueue(t, e),
         NoEvents, NoSteps, NoCommands, Kept, SameCalls, UNCHANGED step,
         requests' = {}, agent' # "reconnecting",
         UNCHANGED <<jobStatus, globalJobId, jobId>>,
         announced \subseteq announced', announced' \subseteq Jobs, finished \subseteq finished',
         \A j \in announced' : \A i \in Jobs : i < j => jobStatus[i] \in Terminal,
         \E j \in Jobs : Live(j)',
         IF e.first = "document"
         THEN e.job = jobBuffer' /\ jobBuffer' \in announced' /\ AgentOf(jobBuffer') = t
         ELSE jobId[t] = globalJobId,
         e.first \in Good => globalJobId \in finished'
  PROVE  WorkInv'
<1>1. /\ \A u \in Tasks : u # t => events'[u] = <<>>
      /\ events'[t] \in {<<>>, Append(<<>>, e)}
  BY SentEvent DEF DispatchTypes, NoEvents
<1>2. /\ \A u \in Tasks : Len(events'[u]) <= 1
      /\ events'[t] # <<>> => Head(events'[t]) = e
  <2> DEFINE q == events'[t]
  <2>1. Len(<<>>) = 0 /\ Append(<<>>, e) = <<e>> /\ Len(<<e>>) = 1 /\ Head(<<e>>) = e
    OBVIOUS
  <2>2. q = <<>> \/ q = <<e>>
    BY <1>1, <2>1
  <2>3. \A u \in Tasks : u # t => events'[u] = <<>>
    BY <1>1
  <2> HIDE DEF q
  <2>4. Len(q) <= 1 /\ (q # <<>> => Head(q) = e)
    <3>1. CASE q = <<>>
      BY <2>1, <3>1
    <3>2. CASE q = <<e>>
      BY <2>1, <3>2
    <3> QED
      BY <2>2, <3>1, <3>2
  <2>5. Len(events'[t]) <= 1 /\ (events'[t] # <<>> => Head(events'[t]) = e)
    BY <2>4 DEF q
  <2>6. ASSUME NEW u \in Tasks, u # t
        PROVE  Len(events'[u]) <= 1
    <3>1. events'[u] = <<>>
      BY <2>3, <2>6
    <3> QED
      BY <2>1, <3>1
  <2> QED
    BY <2>5, <2>6
<1>3. \A s \in Structures : s \in Outstanding' =>
        /\ s \in Outstanding /\ commands'[s].task = commands[s].task
        /\ commands'[s].payload = commands[s].payload
  BY DEF Kept
<1>4. /\ \A s \in Structures : ~Carries(s)'
      /\ \A u \in Tasks : ~Working(u)'
      /\ Outstanding' \subseteq Structures
  BY <1>3, SameSteps DEF NoCommands, NoSteps, Carries, Handed, Outstanding, Structures
<1>5. OnePlace'
  <2> DEFINE p == <<"event", t>>
  <2>1. \A u \in Tasks : events'[u] # <<>> => p = <<"event", u>>
    BY <1>1
  <2> HIDE DEF p
  <2> QED
    BY <1>2, <1>4, <2>1, MovedTo
<1>6. Serial'
  <2>1. \A s \in Outstanding' :
          commands'[s].payload.about \in Statuses => commands'[s].payload.job \in announced'
    BY <1>3, <1>4 DEF WorkInv, Serial
  <2> QED
    BY <2>1 DEF WorkInv, Serial, Jobs, Terminal, Statuses
<1>7. Attributed'
  <2>1. \A s \in Outstanding' :
          commands'[s].payload.about \notin {"request", "sign", "revoke", "terminate"}
    BY <1>4 DEF Carries, Handed
  <2> QED
    BY <1>1, <1>2, <1>4, <2>1 DEF Attributed, AgentOf
<1>8. Earned'
  BY <1>1, <1>2, <1>3, <1>4 DEF WorkInv, Earned, Good, Jobs
<1> QED
  BY <1>5, <1>6, <1>7, <1>8 DEF WorkInv
\* The work goes from the agent task to the renewal agent's queue, from the cloud
\* to the queue of the agent that asked, or begins with a document.
LEMMA ReconnectedWork ==
  ASSUME AgentInv, DispatchTypes, WorkInv, Reconnected
  PROVE  WorkInv'
<1> DEFINE e == AnswerEvent(None, "unsubscribe")
<1>1. /\ Reconnect /\ requests' = {} /\ Enqueue("renewal", e)
      /\ UNCHANGED <<jobStatus, announced, finished, jobBuffer, globalJobId, step, jobId>>
  BY DEF Reconnected
<1>2. Kept /\ SameCalls /\ agent = "reconnecting" /\ agent' = "loop"
  BY <1>1, ServedCommands DEF Reconnect, DispatchTypes, CallTypes
<1>3. /\ NoEvents /\ NoSteps /\ NoCommands /\ NoRequests /\ Places # {}
      /\ jobId["renewal"] = globalJobId
  BY <1>2, ElsewhereNothing DEF WorkInv, Attributed
<1>4. /\ e \in OwnEvents("renewal") /\ "renewal" \in Tasks
      /\ e.first # "document" /\ e.first \notin Good
  BY OwnStepsAre DEF AnswerEvent, OwnEvents, Answered, Good
<1>5. \E j \in Jobs : Live(j)'
  BY <1>1, <1>3 DEF WorkInv, Serial, Live, Terminal
<1>6. /\ announced' \subseteq Jobs
      /\ \A j \in announced' : \A i \in Jobs : i < j => jobStatus[i] \in Terminal
  BY <1>1 DEF DispatchTypes, CloudTypes, WorkInv, Serial
<1> HIDE DEF e
<1> QED
  BY <1>1, <1>2, <1>3, <1>4, <1>5, <1>6, SentWork

LEMMA AnswerWork ==
  ASSUME AgentInv, DispatchTypes, WorkInv, NEW r \in requests, Answer(r)
  PROVE  WorkInv'
<1>1. r.task \in Tasks /\ r \in OwnRequests(r.task)
  BY DEF DispatchTypes, CloudTypes
<1>2. PICK s \in Answers[r.api] :
        /\ Enqueue(r.task, AnswerEvent(r.job, s))
        /\ finished' = IF s \in Good THEN finished \cup {r.job} ELSE finished
  BY DEF Answer
<1>3. /\ requests' = requests \ {r}
      /\ UNCHANGED <<agentVars, jobStatus, announced, jobBuffer, globalJobId, step, jobId>>
  BY DEF Answer
<1> DEFINE e == AnswerEvent(r.job, s)
<1>4. /\ NoEvents /\ NoSteps /\ NoCommands /\ NoSession /\ requests = {r} /\ Places # {}
      /\ jobId[r.task] = globalJobId /\ r.job = globalJobId
  BY ElsewhereNothing DEF WorkInv, Attributed
<1>5. Kept /\ SameCalls /\ agent' = agent
  BY <1>3 DEF Kept, SameCalls, agentVars, structures, Outstanding, Structures, Waiting, NoCall
<1>6. e \in OwnEvents(r.task) /\ e.first # "document" /\ e.first = s
  <2>1. s \in Answered[r.task] /\ s # "document"
    BY <1>1, OwnStepsAre DEF OwnRequests, Asked, Answers, Answered
  <2> QED
    BY <1>1, <2>1 DEF AnswerEvent, OwnEvents, OwnRequests
<1>7. \E j \in Jobs : Live(j)'
  BY <1>3, <1>4 DEF WorkInv, Serial, Live, Terminal
<1>8. /\ announced' \subseteq Jobs
      /\ \A j \in announced' : \A i \in Jobs : i < j => jobStatus[i] \in Terminal
  BY <1>3 DEF DispatchTypes, CloudTypes, WorkInv, Serial
<1>9. finished \subseteq finished' /\ (e.first \in Good => globalJobId \in finished')
  BY <1>2, <1>4, <1>6
<1>10. Enqueue(r.task, e) /\ requests' = {}
  BY <1>2, <1>3, <1>4
<1> HIDE DEF e
<1> QED
  BY <1>1, <1>3, <1>4, <1>5, <1>6, <1>7, <1>8, <1>9, <1>10, SentWork DEF NoSession

LEMMA AnnounceWork ==
  ASSUME AgentInv, DispatchTypes, WorkInv, NEW j \in Jobs, prvIncomingPublishCallback(j)
  PROVE  WorkInv'
<1>1. /\ jobStatus[j] = "queued" /\ j \notin announced
      /\ \A i \in Jobs : i < j => jobStatus[i] \in Terminal
      /\ announced' = announced \cup {j}
      /\ \/ jobBuffer' = j /\ Enqueue(AgentOf(j), Document(j))
         \/ UNCHANGED <<jobBuffer, events>>
      /\ UNCHANGED <<agentVars, jobStatus, requests, finished, globalJobId, step, jobId>>
  BY DEF prvIncomingPublishCallback
<1>2. Places = {}
  BY <1>1, AnnouncedAlone DEF WorkInv
<1>3. NoEvents /\ NoSteps /\ NoCommands /\ NoRequests /\ NoSession
  BY <1>2, ElsewhereNothing DEF WorkInv, NoEvents, NoSteps, NoCommands, NoRequests, NoSession
<1>4. Kept /\ SameCalls /\ agent' = agent
  BY <1>1 DEF Kept, SameCalls, agentVars, structures, Outstanding, Structures, Waiting, NoCall
<1>5. "queued" \notin Terminal /\ Live(j)'
  BY <1>1 DEF Live, Terminal
<1>6. /\ announced \subseteq announced' /\ announced' \subseteq Jobs
      /\ \A k \in announced' : \A i \in Jobs : i < k => jobStatus[i] \in Terminal
  BY <1>1 DEF DispatchTypes, CloudTypes, WorkInv, Serial
<1>7. CASE jobBuffer' = j /\ Enqueue(AgentOf(j), Document(j))
  <2> DEFINE e == Document(j)
             t == AgentOf(j)
  <2>1. /\ t \in Tasks /\ e \in OwnEvents(t) /\ e.first = "document" /\ e.job = j
        /\ e.first \notin Good
    BY OwnStepsAre DEF AgentOf, Document, OwnEvents, Good
  <2>2. /\ e.job = jobBuffer' /\ jobBuffer' \in announced' /\ AgentOf(jobBuffer') = t
        /\ Enqueue(t, e)
    BY <1>1, <1>7, <2>1
  <2>3. requests' = {} /\ agent' # "reconnecting"
    BY <1>1, <1>3, <1>4 DEF NoRequests, NoSession
  <2> HIDE DEF e, t
  <2> QED
    BY <1>1, <1>3, <1>4, <1>5, <1>6, <2>1, <2>2, <2>3, SentWork
<1>8. CASE UNCHANGED <<jobBuffer, events>>
  <2>1. \A t \in Tasks : Working(t)' <=> Working(t)
    BY <1>1, <1>4, SameSteps
  <2>2. \A s \in Structures : Carries(s)' <=> Carries(s)
    BY <1>1 DEF agentVars, structures, Carries, Handed, Outstanding, Structures
  <2>3. OnePlace' /\ Places' = {}
    BY <1>1, <1>3, <1>4, <1>8, <2>1, <2>2, NoPlaceLeft
       DEF NoEvents, NoSteps, NoCommands, NoRequests, NoSession, Structures
  <2>4. Serial'
    BY <1>1, <1>6, <2>3
       DEF WorkInv, Serial, Jobs, Terminal, Statuses, agentVars, structures, Outstanding, Structures
  <2>5. Attributed'
    BY <1>1, <1>3, <1>8, <2>1
       DEF WorkInv, Attributed, NoEvents, AgentOf, agentVars, structures, Outstanding, Structures
  <2>6. Earned'
    BY <1>1, <1>8, <2>1 DEF WorkInv, Earned, Good, Jobs, agentVars, structures, Outstanding, Structures
  <2> QED
    BY <2>3, <2>4, <2>5, <2>6 DEF WorkInv
<1> QED
  BY <1>1, <1>7, <1>8

LEMMA WorkStep ==
  ASSUME AgentInv, DispatchTypes, Begun, WorkInv, [Next]_vars, cancels' = 0
  PROVE  WorkInv'
<1>1. ASSUME NEW t \in Tasks, TaskStep(t) PROVE WorkInv'
  BY <1>1, TaskStepWork
<1>2. CASE RestartAfterUpdate \/ DeadContextCrash \/ ReconnectExits
  BY <1>2, RestartWork DEF RestartAfterUpdate, DeadContextCrash, ReconnectExits
<1>3. CASE Publish \/ Reconnected
  BY <1>3, PublishWork, ReconnectedWork
<1>4. ASSUME Kept, SameCalls, UNCHANGED <<cloud, agents>>,
             agent' = "reconnecting" => agent = "reconnecting"
      PROVE  WorkInv'
  <2>1. UNCHANGED <<jobStatus, announced, finished, requests, events, jobBuffer, globalJobId,
                    step, jobId>>
    BY <1>4 DEF cloud, agents
  <2>2. \A t \in Tasks : Working(t)' <=> Working(t)
    BY <1>4, <2>1, SameSteps
  <2> QED
    BY <1>4, <2>1, <2>2, LessWork
<1>5. CASE /\ ProcessSubscription \/ ProcessTerminate \/ Acknowledge \/ NetworkError
           /\ UNCHANGED <<cloud, agents>>
  <2>1. CASE ProcessTerminate
    BY <1>5, <2>1, TerminateWork
  <2>2. CASE ProcessSubscription \/ Acknowledge \/ NetworkError
    <3>1. agent' = "reconnecting" => agent = "reconnecting"
      BY <2>2 DEF ProcessSubscription, Acknowledge, NetworkError
    <3>2. Kept /\ SameCalls
      BY <2>2, ServedCommands DEF DispatchTypes, CallTypes
    <3> QED
      BY <1>4, <1>5, <3>1, <3>2
  <2> QED
    BY <1>5, <2>1, <2>2
<1>6. ASSUME NEW j \in Jobs, prvIncomingPublishCallback(j) \/ JobEnds(j) PROVE WorkInv'
  <2>1. CASE prvIncomingPublishCallback(j)
    BY <2>1, AnnounceWork
  <2>2. CASE JobEnds(j)
    <3>1. cancels' = cancels + 1 /\ cancels \in Nat
      BY <2>2, JobDispatchAssumption DEF JobEnds, DispatchTypes, CloudTypes
    <3> QED
      BY <3>1
  <2> QED
    BY <1>6, <2>1, <2>2
<1>7. ASSUME NEW r \in requests, Answer(r) PROVE WorkInv'
  BY <1>7, AnswerWork
<1>8. CASE UNCHANGED vars
  <2>1. Kept /\ SameCalls
    BY <1>8 DEF vars, Kept, SameCalls, agentVars, structures, Outstanding, Structures, Waiting, NoCall
  <2> QED
    BY <1>4, <1>8, <2>1 DEF vars, agentVars
<1> QED
  BY <1>1, <1>2, <1>3, <1>5, <1>6, <1>7, <1>8 DEF Next, AgentStep

\* The number of jobs that ended by themselves only grows.
LEMMA CancelsStep ==
  ASSUME DispatchTypes, [Next]_vars, cancels' = 0
  PROVE  cancels = 0
<1>1. cancels \in Nat
  BY JobDispatchAssumption DEF DispatchTypes, CloudTypes
<1>2. cancels' \in {cancels, cancels + 1}
  <2>1. ASSUME UNCHANGED cloud \/ Restart PROVE cancels' = cancels
    BY <2>1 DEF cloud, Restart
  <2>2. ASSUME NEW t \in Tasks, TaskStep(t) PROVE cancels' = cancels
    BY <2>1, <2>2 DEF TaskStep, ReceiveJobDocument, ReceiveAnswer, Call, NoJobToUpdate, CallRefused,
       Return, GiveUp
  <2>3. CASE RestartAfterUpdate \/ DeadContextCrash \/ ReconnectExits
    BY <2>1, <2>3 DEF RestartAfterUpdate, DeadContextCrash, ReconnectExits
  <2>4. CASE AgentStep \/ (NetworkError /\ UNCHANGED <<cloud, agents>>)
    BY <2>1, <2>4 DEF AgentStep, Publish, Reconnected
  <2>5. ASSUME NEW j \in Jobs, prvIncomingPublishCallback(j) \/ JobEnds(j)
        PROVE  cancels' \in {cancels, cancels + 1}
    BY <2>5 DEF prvIncomingPublishCallback, JobEnds
  <2>6. ASSUME NEW r \in requests, Answer(r) PROVE cancels' = cancels
    BY <2>6 DEF Answer
  <2>7. CASE UNCHANGED vars
    BY <2>1, <2>7 DEF vars
  <2> QED
    BY <2>2, <2>3, <2>4, <2>5, <2>6, <2>7 DEF Next
<1> QED
  BY <1>1, <1>2

LEMMA DispatchInvariant ==
  Spec => [](AgentInv /\ DispatchInv)
<1>1. Init => AgentInv /\ DispatchInv
  BY StartInv, StartTypes, StartBegun, StartWork DEF Init, DispatchInv
<1>2. AgentInv /\ DispatchInv /\ [Next]_vars => (AgentInv /\ DispatchInv)'
  BY StepInv, TypesStep, BegunStep, WorkStep, CancelsStep DEF DispatchInv
<1> QED
  BY <1>1, <1>2, PTL DEF Spec

-----------------------------------------------------------------------------
\* Every variable of the agents, of the queue of commands and of the job service
\* has its type: no handler is at a call that is not its own.
THEOREM DispatchTypeCorrect ==
  Spec => []TypeOK
<1>1. ASSUME AgentInv, DispatchInv PROVE TypeOK
  <2>1. AgentTypeOK
    BY <1>1 DEF AgentInv, Shape, CommandsOK, QueuesOK, TasksOK, Calls, DispatchInv, DispatchTypes,
       CallTypes, AgentTypeOK
  <2>2. \A t \in Tasks : events[t] \in Seq(Events)
    <3> TAKE t \in Tasks
    <3>1. OwnEvents(t) \subseteq Events
      BY OwnStepsAre DEF OwnEvents, Events, Answered, Good
    <3>2. events[t] \in Seq(OwnEvents(t))
      BY <1>1 DEF DispatchInv, DispatchTypes, AgentTypes
    <3> QED
      BY <3>1, <3>2
  <2>3. \A t \in Tasks : step[t] \in {"receive", "restart"} \cup DOMAIN AfterCall[t]
    BY <1>1 DEF DispatchInv, DispatchTypes, StepTypes, OwnSteps
  <2> QED
    BY <1>1, <2>1, <2>2, <2>3 DEF DispatchInv, DispatchTypes, CloudTypes, AgentTypes, TypeOK
<1> QED
  BY <1>1, DispatchInvariant, PTL

\* While AWS IoT ends no job by itself, jobBuffers[0] holds the document that a
\* queued event was sent for (prvIncomingPublishCallback): only one job is worked
\* on at a time, although both agents share the buffer.
THEOREM BufferHoldsOwnDocument ==
  Spec => []BufferIsOwn
<1>1. ASSUME AgentInv, DispatchInv PROVE BufferIsOwn
  <2> SUFFICES ASSUME cancels = 0, NEW t \in Tasks, NEW i \in DOMAIN events[t],
                      events[t][i].first = "document"
               PROVE  events[t][i].job = jobBuffer
    BY DEF BufferIsOwn
  <2>1. events[t] \in Seq(OwnEvents(t)) /\ Len(events[t]) <= 1
    BY <1>1 DEF DispatchInv, DispatchTypes, AgentTypes, WorkInv, OnePlace
  <2>2. i = 1 /\ events[t] # <<>> /\ Head(events[t]) = events[t][1]
    BY <2>1
  <2> QED
    BY <1>1, <2>2 DEF DispatchInv, WorkInv, Attributed
<1> QED
  BY <1>1, DispatchInvariant, PTL

\* And a job that the cloud counts as a success is one whose work was finished:
\* a report through globalJobId reaches no other job (SendUpdateForJob).
THEOREM SuccessReachesItsJob ==
  Spec => []SuccessIsOwn
<1>1. AgentInv /\ DispatchInv => SuccessIsOwn
  BY DEF DispatchInv, WorkInv, Earned, SuccessIsOwn
<1> QED
  BY <1>1, DispatchInvariant, PTL
=============================================================================
