------------------------------ MODULE OtaAgent ------------------------------
(***************************************************************************)
(* The update of the firmware over the air: the event loop of the OTA      *)
(* agent (ota_agent/src/main.c), its stream callback and single data       *)
(* buffer, the app partition it writes (delta_ota.c), the bootloader's     *)
(* rollback with prvCheckFirmware (mqtt_agent/src/main.c), the AWS IoT job *)
(* and the stream the file is fetched from, one block per request.         *)
(*                                                                         *)
(* As in CertRenewal, pc names the call into the MQTT agent the task is    *)
(* blocked in; the agent serves it while the device is up.  Events carry   *)
(* no payload: the code passes pointers to dataBuffers[0] and jobBuffers.  *)
(* A partition is the sequence of the blocks written to it; every file     *)
(* has the same size.                                                      *)
(***************************************************************************)
EXTENDS Naturals, Sequences, FiniteSets

CONSTANTS
  Jobs,          \* the jobs the cloud creates for this device, 1 .. n in order
  BadDocuments,  \* jobs whose document the parser refuses
  PatchJobs,     \* jobs that deliver a .patch file
  DeadImages,    \* jobs whose image boots but never connects to AWS IoT
  Blocks,        \* blocks of a file
  MaxBlocks,     \* CONFIG_MAX_FILE_SIZE in blocks
  MaxCounter,    \* numOfBlocksRemaining wraps below zero to this value
  MaxDuplicates, \* bound on the blocks the stream delivers twice
  ListSize,      \* SUBSCRIPTION_MANAGER_MAX_SUBSCRIPTIONS
  QueueLength,   \* MAX_MESSAGES of the event queue
  Faults,        \* what the environment may do: a subset of FaultKinds
  Garbled,       \* a block that cannot be decoded
  None           \* NULL, or nothing there yet

FaultKinds == {"crash", "loss", "dup", "garble", "flash", "cancel", "offline"}

ASSUME ConstantsAssumption ==
  /\ Jobs \subseteq Nat \ {0}
  /\ BadDocuments \subseteq Jobs /\ PatchJobs \subseteq Jobs /\ DeadImages \subseteq Jobs
  /\ Blocks \in Nat \ {0} /\ MaxBlocks \in Nat /\ MaxDuplicates \in Nat
  /\ MaxCounter \in Nat /\ MaxCounter > Blocks
  /\ ListSize \in Nat \ {0} /\ QueueLength \in Nat \ {0}
  /\ Faults \subseteq FaultKinds
  /\ None \notin Nat

VARIABLES
  jobStatus, notified,  \* AWS IoT Jobs, as in CertRenewal
  requests,             \* block requests on their way to the stream service
  blocks,               \* blocks on their way to the device
  duplicates,           \* blocks delivered twice so far
  up,                   \* the device is connected and its tasks run
  topics,               \* topics the broker holds for this session
  routes,               \* topics in the device's subscription list
  eventQueue,           \* xOtaEventQueue
  pc,                   \* the OTA task: waiting for an event, or in which call
  otaAgentState,
  jobBuffer,            \* jobBuffers[0]
  globalJobId,
  stream,               \* mqttFileDownloaderContext: whose stream is requested
  filters,              \* whose stream the topic_filters name
  buffer, bufferUsed,   \* dataBuffers[0]
  numOfBlocksRemaining, currentBlockOffset,
  totalBytesReceived,   \* in blocks
  handle,               \* whether update_handle is an open handle
  flash,                \* the blocks in each of the two app partitions
  running,              \* the partition this firmware runs from
  bootSlot, bootState   \* otadata: the selected partition and its image state

cloud == <<jobStatus, notified, requests, blocks, duplicates>>
session == <<up, topics, routes>>
events == <<eventQueue, pc, otaAgentState>>
job == <<jobBuffer, globalJobId, stream, filters>>
data == <<buffer, bufferUsed>>
counters == <<numOfBlocksRemaining, currentBlockOffset, totalBytesReceived>>
partitions == <<handle, flash, running, bootSlot, bootState>>
vars == <<cloud, session, events, job, data, counters, partitions>>

Slots == {"ota_0", "ota_1"}
Other(slot) == CHOOSE s \in Slots : s # slot
Terminal == {"SUCCEEDED", "FAILED", "REJECTED", "CANCELED"}

\* The image of a job; the device leaves the factory with image 0.
Image(j) == [i \in 1 .. Blocks |-> [job |-> j, index |-> i - 1]]
Complete(content) == \E j \in Jobs \cup {0} : content = Image(j)
Connects(content) == \E j \in (Jobs \cup {0}) \ DeadImages : content = Image(j)

\* esp_ota_get_next_update_partition: the one that is not running.
UpdateSlot == Other(running)

\* Mutant: the event is sent again when the queue took it.
EnqueueTwice(queue, event) ==
  IF Len(queue) < QueueLength THEN queue \o <<event, event>> ELSE queue

\* SendEvent_FreeRTOS: with no ticks to wait, a full queue drops the event.
Enqueue(queue, event) ==
  IF Len(queue) < QueueLength THEN Append(queue, event) ELSE queue

(***************************************************************************)
(* AWS IoT Jobs and Streams.                                               *)
(***************************************************************************)

\* The oldest unfinished job is announced once on notify-next; jobs are created
\* while the device is up.
NotifyNext(j) ==
  /\ jobStatus[j] = "QUEUED" /\ j \notin notified /\ up
  /\ \A i \in Jobs : i < j => jobStatus[i] \in Terminal
  /\ notified' = notified \cup {j}
  /\ jobBuffer' = j
  /\ eventQueue' = Enqueue(eventQueue, "ReceivedJobDocument")
  /\ UNCHANGED <<jobStatus, requests, blocks, duplicates, session, pc, otaAgentState,
                 globalJobId, stream, filters, data, counters, partitions>>

\* An operator cancels the job in progress; the device is not told.
CancelJob(j) ==
  /\ "cancel" \in Faults /\ jobStatus[j] = "IN_PROGRESS"
  /\ jobStatus' = [jobStatus EXCEPT ![j] = "CANCELED"]
  /\ UNCHANGED <<notified, requests, blocks, duplicates, session, events, job, data,
                 counters, partitions>>

\* A request beyond the end of the file is answered on the rejected topic, which
\* the callback ignores.
ServeBlock(r) ==
  /\ requests' = requests \ {r}
  /\ blocks' = IF r.index < Blocks THEN blocks \cup {r} ELSE blocks
  /\ UNCHANGED <<jobStatus, notified, duplicates, session, events, job, data, counters,
                 partitions>>

LoseMessage ==
  /\ "loss" \in Faults
  /\ \/ \E r \in requests : requests' = requests \ {r} /\ UNCHANGED blocks
     \/ \E b \in blocks : blocks' = blocks \ {b} /\ UNCHANGED requests
  /\ UNCHANGED <<jobStatus, notified, duplicates, session, events, job, data, counters,
                 partitions>>

\* A block leaves the stream service once, or twice.
Delivered(b) ==
  \/ blocks' = blocks \ {b} /\ duplicates' = duplicates
  \/ /\ "dup" \in Faults /\ duplicates < MaxDuplicates
     /\ blocks' = blocks /\ duplicates' = duplicates + 1

(***************************************************************************)
(* The MQTT agent task.                                                    *)
(***************************************************************************)

\* Mutant: the buffer is taken whether or not it is in use.
OverwriteBuffer(b) ==
  /\ up /\ <<b.job, "data">> \in topics \cap routes
  /\ Delivered(b)
  /\ bufferUsed' = TRUE /\ buffer' = b
  /\ eventQueue' = Enqueue(eventQueue, "ReceivedFileBlock")
  /\ UNCHANGED <<jobStatus, notified, requests, session, pc, otaAgentState, job,
                 counters, partitions>>

\* prvStreamDataIncomingPublishCallback: a block that finds the only buffer in
\* use is dropped; a garbled one takes the buffer like any other.
StreamDataCallback(b) ==
  /\ up /\ <<b.job, "data">> \in topics \cap routes
  /\ Delivered(b)
  /\ IF bufferUsed
     THEN UNCHANGED <<buffer, bufferUsed, eventQueue>>
     ELSE /\ bufferUsed' = TRUE
          /\ \/ buffer' = b
             \/ "garble" \in Faults /\ buffer' = Garbled
          /\ eventQueue' = Enqueue(eventQueue, "ReceivedFileBlock")
  /\ UNCHANGED <<jobStatus, notified, requests, session, pc, otaAgentState, job,
                 counters, partitions>>

\* A block of a stream the session or the subscription list does not know.
Unheard(b) ==
  /\ <<b.job, "data">> \notin topics \cap routes
  /\ blocks' = blocks \ {b}
  /\ UNCHANGED <<jobStatus, notified, requests, duplicates, session, events, job, data,
                 counters, partitions>>

\* A reset: what is volatile is lost, and the bootloader gives a new image one
\* boot to confirm itself before it goes back to the other partition.
Restart ==
  /\ up' = FALSE /\ topics' = {} /\ routes' = {}
  /\ eventQueue' = <<>> /\ pc' = "off" /\ otaAgentState' = "Init"
  /\ jobBuffer' = None /\ globalJobId' = None /\ stream' = None /\ filters' = None
  /\ buffer' = None /\ bufferUsed' = FALSE
  /\ numOfBlocksRemaining' = 0 /\ currentBlockOffset' = 0 /\ totalBytesReceived' = 0
  /\ handle' = "closed"
  /\ bootSlot' = IF bootState = "pending" THEN Other(bootSlot) ELSE bootSlot
  /\ bootState' = IF bootState = "new" THEN "pending" ELSE "valid"
  /\ running' = bootSlot'
  /\ UNCHANGED flash

Crash == "crash" \in Faults /\ Restart /\ UNCHANGED cloud

\* mqttAgentTask: an image that connects cancels its rollback (prvCheckFirmware)
\* and the OTA task starts.
Boot ==
  /\ ~up /\ Connects(flash[running])
  /\ up' = TRUE /\ topics' = {<<0, "notify">>} /\ routes' = {<<0, "notify">>}
  /\ bootState' = "valid"
  /\ eventQueue' = <<"Ready">> /\ pc' = "receive"
  /\ UNCHANGED <<cloud, otaAgentState, job, data, counters, handle, flash, running,
                 bootSlot>>

\* Mutant: the image is confirmed before it tries to connect.
BootFailsConfirmed ==
  /\ ~up /\ (~Connects(flash[running]) \/ "offline" \in Faults)
  /\ bootState' = "valid"
  /\ UNCHANGED <<cloud, session, events, job, data, counters, handle, flash, running,
                 bootSlot>>

\* The connection fails and EstablishMQTTSession asserts.
BootFails ==
  /\ ~up /\ (~Connects(flash[running]) \/ "offline" \in Faults)
  /\ Restart /\ UNCHANGED cloud

(***************************************************************************)
(* The OTA agent task.                                                     *)
(***************************************************************************)

Take(event) ==
  /\ pc = "receive" /\ eventQueue # <<>>
  /\ Head(eventQueue) = event
  /\ eventQueue' = Tail(eventQueue)

\* SendUpdateForJob, for the job id set last.
UpdateJob(status) ==
  \/ jobStatus' = IF globalJobId \in Jobs /\ jobStatus[globalJobId] \notin Terminal
                  THEN [jobStatus EXCEPT ![globalJobId] = status]
                  ELSE jobStatus
  \/ "loss" \in Faults /\ jobStatus' = jobStatus

ReceiveReady ==
  /\ Take("Ready")
  /\ otaAgentState' = "Ready"
  /\ UNCHANGED <<cloud, session, pc, job, data, counters, partitions>>

\* esp_ota_begin erases the partition and opens the handle, or fails.
BeginUpdate ==
  \/ handle' = "open" /\ flash' = [flash EXCEPT ![UpdateSlot] = <<>>]
  \/ "flash" \in Faults /\ handle' = "closed" /\ flash' = flash

\* prvJobDocumentParser, prvInitMqttDownloader, SetOTAUpdateContext: a patch is
\* refused after esp_ota_begin, for there is no ota_patch partition.  Only an
\* accepted job sets the global job id.
ReceiveJobDocument ==
  /\ Take("ReceivedJobDocument")
  /\ otaAgentState' = "ProcessingJob"
  /\ IF jobBuffer \in BadDocuments
     THEN pc' = "reject" /\ UNCHANGED <<globalJobId, stream, counters, handle, flash>>
     ELSE /\ numOfBlocksRemaining' = Blocks /\ currentBlockOffset' = 0
          /\ totalBytesReceived' = 0
          /\ stream' = jobBuffer
          /\ BeginUpdate
          /\ IF handle' = "open" /\ jobBuffer \notin PatchJobs
             THEN globalJobId' = jobBuffer /\ pc' = "accept"
             ELSE globalJobId' = globalJobId /\ pc' = "reject"
  /\ UNCHANGED <<cloud, session, jobBuffer, filters, data, running, bootSlot, bootState>>

\* Back from the update the stream's name is copied, out of jobBuffers[0].
AcceptJob ==
  /\ pc = "accept"
  /\ UpdateJob("IN_PROGRESS")
  /\ filters' = jobBuffer
  /\ pc' = "subscribe"
  /\ UNCHANGED <<notified, requests, blocks, duplicates, session, eventQueue,
                 otaAgentState, jobBuffer, globalJobId, stream, data, counters,
                 partitions>>

\* Mutant: the size of the list is not looked at.
AddRouteUnbounded(list, topic) == list \cup {topic}

\* SubscriptionManager_AddSubscription: a full list refuses the topic.
AddRoute(list, topic) ==
  IF Cardinality(list) < ListSize THEN list \cup {topic} ELSE list

\* Both topics are subscribed, whether or not the list takes their callbacks.
SubscribeStream ==
  /\ pc = "subscribe"
  /\ topics' = topics \cup {<<filters, "data">>, <<filters, "rejected">>}
  /\ routes' = AddRoute(AddRoute(routes, <<filters, "data">>), <<filters, "rejected">>)
  /\ eventQueue' = Enqueue(eventQueue, "RequestFileBlock")
  /\ pc' = "receive"
  /\ UNCHANGED <<cloud, up, otaAgentState, job, data, counters, partitions>>

RejectJob ==
  /\ pc = "reject"
  /\ UpdateJob("REJECTED")
  /\ eventQueue' = Enqueue(eventQueue, "Ready")
  /\ pc' = "receive"
  /\ UNCHANGED <<notified, requests, blocks, duplicates, session, otaAgentState, job,
                 data, counters, partitions>>

ReceiveRequest ==
  /\ Take("RequestFileBlock")
  /\ otaAgentState' = "RequestingFileBlock"
  /\ pc' = "request"
  /\ UNCHANGED <<cloud, session, job, data, counters, partitions>>

PublishRequest ==
  /\ pc = "request"
  /\ requests' = requests \cup {[job |-> stream, index |-> currentBlockOffset]}
  /\ pc' = "receive"
  /\ UNCHANGED <<jobStatus, notified, blocks, duplicates, session, eventQueue,
                 otaAgentState, job, data, counters, partitions>>

Decrement(n) == IF n = 0 THEN MaxCounter ELSE n - 1

\* esp_ota_write_with_offset, at totalBytesReceived.
WriteBlock ==
  \/ /\ handle = "open"
     /\ flash' = [flash EXCEPT ![UpdateSlot] = Append(@, buffer)]
     /\ totalBytesReceived' = totalBytesReceived + 1
  \/ /\ handle = "closed" \/ "flash" \in Faults
     /\ UNCHANGED <<flash, totalBytesReceived>>

\* The next event after a block, by the count of those that remain.
NextEvent == IF numOfBlocksRemaining' = 0 THEN "FinishDownload" ELSE "RequestFileBlock"

\* Mutant: the count is not decremented when the block could not be written.
ReceiveWrittenBlock ==
  /\ pc = "receive" /\ eventQueue # <<>> /\ Head(eventQueue) = "ReceivedFileBlock"
  /\ otaAgentState' = "ProcessingFileBlock"
  /\ bufferUsed' = FALSE
  /\ WriteBlock
  /\ numOfBlocksRemaining' = IF flash' = flash THEN numOfBlocksRemaining
                             ELSE Decrement(numOfBlocksRemaining)
  /\ currentBlockOffset' = currentBlockOffset + 1
  /\ eventQueue' = Enqueue(Tail(eventQueue), NextEvent)
  /\ UNCHANGED <<cloud, session, pc, job, buffer, handle, running, bootSlot, bootState>>

\* prvProcessReceivedDataBlock: a block that cannot be decoded keeps the buffer;
\* one that cannot be written counts all the same; the file must stay below
\* CONFIG_MAX_FILE_SIZE.  Which block it is, is not looked at.
ReceiveFileBlock ==
  /\ pc = "receive" /\ eventQueue # <<>> /\ Head(eventQueue) = "ReceivedFileBlock"
  /\ IF buffer # Garbled /\ totalBytesReceived + 1 >= MaxBlocks
     THEN Restart /\ UNCHANGED cloud
     ELSE /\ otaAgentState' = "ProcessingFileBlock"
          /\ IF buffer = Garbled
             THEN UNCHANGED <<bufferUsed, counters, flash>>
             ELSE /\ bufferUsed' = FALSE
                  /\ WriteBlock
                  /\ numOfBlocksRemaining' = Decrement(numOfBlocksRemaining)
                  /\ currentBlockOffset' = currentBlockOffset + 1
          /\ eventQueue' = Enqueue(Tail(eventQueue), NextEvent)
          /\ UNCHANGED <<cloud, session, pc, job, buffer, handle, running, bootSlot,
                         bootState>>

\* Mutant: the result of esp_ota_end is not looked at.
ReceiveFinishUnchecked ==
  /\ Take("FinishDownload")
  /\ otaAgentState' = "DownloadFinalized"
  /\ handle' = "closed"
  /\ bootSlot' = UpdateSlot /\ bootState' = "new" /\ pc' = "succeed"
  /\ UNCHANGED <<cloud, session, job, data, counters, flash, running>>

\* prvFinishFirmwareUpdate: esp_ota_end closes the handle and refuses anything
\* but a complete image; then the image is selected for the next boot.
ReceiveFinish ==
  /\ Take("FinishDownload")
  /\ otaAgentState' = "DownloadFinalized"
  /\ handle' = "closed"
  /\ IF handle = "open" /\ Complete(flash[UpdateSlot])
     THEN bootSlot' = UpdateSlot /\ bootState' = "new" /\ pc' = "succeed"
     ELSE UNCHANGED <<bootSlot, bootState>> /\ pc' = "fail"
  /\ UNCHANGED <<cloud, session, job, data, counters, flash, running>>

\* Mutant: as after a failure, the agent waits for the next event.
SucceedOnly ==
  /\ pc = "succeed"
  /\ UpdateJob("SUCCEEDED")
  /\ pc' = "receive"
  /\ UNCHANGED <<notified, requests, blocks, duplicates, session, eventQueue,
                 otaAgentState, job, data, counters, partitions>>

Succeed ==
  /\ pc = "succeed"
  /\ UpdateJob("SUCCEEDED")
  /\ pc' = "restart"
  /\ UNCHANGED <<notified, requests, blocks, duplicates, session, eventQueue,
                 otaAgentState, job, data, counters, partitions>>

\* esp_restart after the delay of WAIT_RESPONSE; events that came in between
\* are lost with the queue.
EspRestart == pc = "restart" /\ Restart /\ UNCHANGED cloud

Fail ==
  /\ pc = "fail"
  /\ UpdateJob("FAILED")
  /\ eventQueue' = Enqueue(eventQueue, "Ready")
  /\ pc' = "receive"
  /\ UNCHANGED <<notified, requests, blocks, duplicates, session, otaAgentState, job,
                 data, counters, partitions>>

(***************************************************************************)
(* The specification.                                                      *)
(***************************************************************************)

Init ==
  /\ jobStatus = [j \in Jobs |-> "QUEUED"] /\ notified = {}
  /\ requests = {} /\ blocks = {} /\ duplicates = 0
  /\ up = FALSE /\ topics = {} /\ routes = {}
  /\ eventQueue = <<>> /\ pc = "off" /\ otaAgentState = "Init"
  /\ jobBuffer = None /\ globalJobId = None /\ stream = None /\ filters = None
  /\ buffer = None /\ bufferUsed = FALSE
  /\ numOfBlocksRemaining = 0 /\ currentBlockOffset = 0 /\ totalBytesReceived = 0
  /\ handle = "closed"
  /\ flash = [s \in Slots |-> IF s = "ota_0" THEN Image(0) ELSE <<>>]
  /\ running = "ota_0" /\ bootSlot = "ota_0" /\ bootState = "valid"

Cloud ==
  \/ \E j \in Jobs : NotifyNext(j)
  \/ \E r \in requests : ServeBlock(r)

Agent == \E b \in blocks : StreamDataCallback(b) \/ Unheard(b)

Task ==
  \/ ReceiveReady \/ ReceiveJobDocument \/ AcceptJob \/ SubscribeStream \/ RejectJob
  \/ ReceiveRequest \/ PublishRequest \/ ReceiveFileBlock \/ ReceiveFinish
  \/ Succeed \/ EspRestart \/ Fail

Next ==
  \/ Cloud \/ LoseMessage \/ \E j \in Jobs : CancelJob(j)
  \/ Agent \/ Boot \/ BootFails \/ Crash
  \/ Task

Spec == Init /\ [][Next]_vars

\* The scheduler, the network and the cloud keep going; nothing forces a fault.
FairSpec ==
  Spec /\ WF_vars(Cloud) /\ WF_vars(Agent) /\ WF_vars(Boot) /\ WF_vars(Task)

(***************************************************************************)
(* Properties.                                                             *)
(***************************************************************************)

Events == {"Ready", "ReceivedJobDocument", "RequestFileBlock", "ReceivedFileBlock",
           "FinishDownload"}
StreamBlocks == [job : Jobs, index : 0 .. Blocks - 1]

\* The type of every variable; a partition never grows past the largest file.
TypeOK ==
  /\ jobStatus \in [Jobs -> Terminal \cup {"QUEUED", "IN_PROGRESS"}]
  /\ notified \subseteq Jobs
  /\ requests \subseteq [job : Jobs, index : Nat]
  /\ blocks \subseteq StreamBlocks
  /\ duplicates \in 0 .. MaxDuplicates
  /\ up \in BOOLEAN
  /\ topics \subseteq (Jobs \cup {0}) \X {"notify", "data", "rejected"}
  /\ routes \subseteq topics /\ Cardinality(routes) <= ListSize
  /\ eventQueue \in Seq(Events) /\ Len(eventQueue) <= QueueLength
  /\ pc \in {"off", "receive", "accept", "subscribe", "reject", "request", "succeed",
             "restart", "fail"}
  /\ otaAgentState \in {"Init", "Ready", "ProcessingJob", "RequestingFileBlock",
                        "ProcessingFileBlock", "DownloadFinalized"}
  /\ {jobBuffer, globalJobId, stream, filters} \subseteq Jobs \cup {None}
  /\ buffer \in StreamBlocks \cup {Garbled, None} /\ bufferUsed \in BOOLEAN
  /\ numOfBlocksRemaining \in 0 .. MaxCounter
  /\ currentBlockOffset \in Nat /\ totalBytesReceived \in Nat
  /\ handle \in {"open", "closed"}
  /\ \A s \in Slots : /\ flash[s] \in Seq([job : Jobs \cup {0}, index : 0 .. Blocks - 1])
                      /\ Len(flash[s]) < MaxBlocks
  /\ {running, bootSlot} \subseteq Slots
  /\ bootState \in {"valid", "new", "pending"}

\* At any moment a reset finds an image to boot: nothing is written to the
\* partition selected for the next boot, nor to the one a rollback goes back to.
AlwaysBootable ==
  /\ Complete(flash[bootSlot])
  /\ bootState # "valid" => Connects(flash[Other(bootSlot)])

\* An image whose rollback is cancelled has connected to AWS IoT.
ConfirmedConnects == bootState = "valid" => Connects(flash[bootSlot])

\* A job is reported SUCCEEDED only when a whole image, every block in its place,
\* is what the next boot starts.  It is the job's own image, unless as many blocks
\* came twice as an image has: the image of an earlier update, whose stream the
\* device still listens to, can then arrive again and be taken for this one's.
SuccessIsReal ==
  [][\A j \in Jobs :
       jobStatus[j] # "SUCCEEDED" /\ jobStatus'[j] = "SUCCEEDED"
         => /\ bootSlot # running
            /\ \/ flash[bootSlot] = Image(j)
               \/ duplicates >= Blocks /\ \E i \in Jobs : flash[bootSlot] = Image(i)]_vars

\* The one data buffer belongs to one event: while a block's event waits to be
\* handled no other block can have taken the buffer its pointer leads to.
BufferHasOneOwner ==
  /\ \A i, k \in 1 .. Len(eventQueue) :
       eventQueue[i] = "ReceivedFileBlock" /\ eventQueue[k] = "ReceivedFileBlock" => i = k
  /\ (\E i \in 1 .. Len(eventQueue) : eventQueue[i] = "ReceivedFileBlock") => bufferUsed

\* No event of the OTA queue is dropped: five places are more than it fills.
NoEventDropped == Len(eventQueue) < QueueLength

\* The list of subscriptions is full, of earlier streams that the device still
\* listens to, and the blocks of this job's stream find no callback.
Unrouted(j) ==
  /\ up /\ <<j, "data">> \in topics \ routes
  /\ Cardinality(routes) = ListSize

\* A job in progress ends: a block that cannot be written fails the update and
\* does not make the agent wait for ever.  The one exception is a download that
\* found the list of subscriptions full, as the third without a restart does.
JobInProgressEnds ==
  \A j \in Jobs : jobStatus[j] = "IN_PROGRESS" ~> jobStatus[j] \in Terminal \/ Unrouted(j)

\* A queued job is picked up by an agent whose event says it is "Ready to
\* request a job document" (ota_agent.h).
QueuedJobStarts ==
  \A j \in Jobs : jobStatus[j] = "QUEUED" ~> jobStatus[j] # "QUEUED"
=============================================================================
