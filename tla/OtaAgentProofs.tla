--------------------------- MODULE OtaAgentProofs ---------------------------
(***************************************************************************)
(* For any number of jobs, blocks and places in the queue, and every set   *)
(* of faults: a reset of the OTA device always finds an image to boot, an  *)
(* image that cancelled its rollback has connected, and the one data       *)
(* buffer belongs to at most one event.                                    *)
(*                                                                         *)
(* The second half of the module adds, for an agent whose job no operator  *)
(* cancels and whose queue has five places or more, that no event is       *)
(* dropped and that a job is reported SUCCEEDED only for its own image:    *)
(* RoomInv counts the blocks a download can still expect against those     *)
(* that came twice.                                                        *)
(***************************************************************************)
EXTENDS OtaAgent, FiniteSetTheorems, SequenceTheorems, TLAPS

Waiting(queue, event) == \E i \in 1 .. Len(queue) : queue[i] = event

AtMostOne(queue, event) ==
  \A i, k \in 1 .. Len(queue) : queue[i] = event /\ queue[k] = event => i = k

\* What a partition can hold: the blocks of images and of the files received.
Contents == Seq([job : Jobs \cup {0}, index : 0 .. Blocks - 1])

\* TypeOK but for the size of a partition, which needs more than the types.
Typing ==
  /\ jobStatus \in [Jobs -> Terminal \cup {"QUEUED", "IN_PROGRESS"}]
  /\ notified \subseteq Jobs
  /\ requests \subseteq [job : Jobs, index : Nat]
  /\ blocks \subseteq StreamBlocks
  /\ duplicates \in 0 .. MaxDuplicates
  /\ up \in BOOLEAN
  /\ topics \subseteq (Jobs \cup {0}) \X {"notify", "data", "rejected"}
  /\ routes \subseteq topics /\ IsFiniteSet(routes) /\ Cardinality(routes) <= ListSize
  /\ eventQueue \in Seq(Events) /\ Len(eventQueue) <= QueueLength
  /\ pc \in {"off", "receive", "accept", "subscribe", "reject", "request", "succeed",
             "restart", "fail"}
  /\ otaAgentState \in {"Init", "Ready", "ProcessingJob", "RequestingFileBlock",
                        "ProcessingFileBlock", "DownloadFinalized"}
  /\ {jobBuffer, globalJobId, stream, filters} \subseteq Jobs \cup {None}
  /\ buffer \in StreamBlocks \cup {Garbled, None} /\ bufferUsed \in BOOLEAN
  /\ numOfBlocksRemaining \in 0 .. MaxCounter
  /\ currentBlockOffset \in Nat /\ totalBytesReceived \in Nat
  /\ handle \in {"open", "closed"}
  /\ flash \in [Slots -> Contents]
  /\ {running, bootSlot} \subseteq Slots
  /\ bootState \in {"valid", "new", "pending"}

\* What a stopped device has lost.
Off ==
  /\ up <=> pc # "off"
  /\ ~up => topics = {} /\ eventQueue = <<>> /\ handle = "closed"

\* The pointers an event stands for lead to something when it is handled: a job
\* document is in its buffer, and before there is a stream no block is asked for
\* and no topic of a stream is subscribed.
Pointers ==
  /\ Waiting(eventQueue, "ReceivedJobDocument") => jobBuffer \in Jobs
  /\ stream # None => jobBuffer \in Jobs
  /\ stream = None => /\ pc \in {"off", "receive", "reject"}
                      /\ topics \subseteq {<<0, "notify">>}
                      /\ ~Waiting(eventQueue, "RequestFileBlock")
                      /\ ~Waiting(eventQueue, "ReceivedFileBlock")
                      /\ ~Waiting(eventQueue, "FinishDownload")
  /\ pc = "subscribe" => filters \in Jobs

\* BufferHasOneOwner, and a buffer in use holds a block.
Owner ==
  /\ AtMostOne(eventQueue, "ReceivedFileBlock")
  /\ Waiting(eventQueue, "ReceivedFileBlock") => bufferUsed
  /\ bufferUsed => buffer \in StreamBlocks \cup {Garbled}

\* The open handle is that of the partition being written, and what is there came
\* from streams and is what totalBytesReceived counts, below CONFIG_MAX_FILE_SIZE.
Written ==
  /\ handle = "open" => /\ flash[UpdateSlot] \in Seq(StreamBlocks)
                        /\ Len(flash[UpdateSlot]) = totalBytesReceived
  /\ Blocks < MaxBlocks => \A s \in Slots : Len(flash[s]) < MaxBlocks

\* The rollback: the running image is the confirmed one; or it has just selected
\* the other partition and waits for its restart; or the selected image runs on
\* trial, and the partition it would go back to holds the confirmed one.
Confirmed == bootState = "valid" /\ bootSlot = running /\ Connects(flash[running])
Selected ==
  /\ bootState = "new" /\ bootSlot = UpdateSlot /\ handle = "closed"
  /\ pc \in {"succeed", "restart"}
  /\ (\E j \in Jobs : flash[bootSlot] = Image(j)) /\ Connects(flash[running])
OnTrial ==
  /\ bootState = "pending" /\ bootSlot = running /\ ~up
  /\ Complete(flash[running]) /\ Connects(flash[UpdateSlot])

Rollback ==
  \/ Confirmed /\ pc \notin {"succeed", "restart"}
  \/ Selected
  \/ OnTrial

\* The inductive invariant.
OtaInv == Typing /\ Off /\ Pointers /\ Owner /\ Written /\ Rollback

-----------------------------------------------------------------------------
\* The queue.

\* Sending an event keeps the queue a bounded sequence of events; what waits in
\* it then is the new event or waited before, and a new event that did not wait
\* yet is alone.
LEMMA EnqueueLemma ==
  ASSUME NEW q \in Seq(Events), Len(q) <= QueueLength, NEW e \in Events
  PROVE  /\ Enqueue(q, e) \in Seq(Events) /\ Len(Enqueue(q, e)) <= QueueLength
         /\ \A f : Waiting(Enqueue(q, e), f) => f = e \/ Waiting(q, f)
         /\ \A f : AtMostOne(q, f) /\ (f = e => ~Waiting(q, f)) => AtMostOne(Enqueue(q, e), f)
<1>1. CASE Len(q) < QueueLength
  <2>1. /\ Enqueue(q, e) \in Seq(Events) /\ Len(Enqueue(q, e)) = Len(q) + 1
        /\ \A i \in 1 .. Len(q) : Enqueue(q, e)[i] = q[i]
        /\ Enqueue(q, e)[Len(q) + 1] = e
    BY <1>1, AppendProperties DEF Enqueue
  <2> QED
    BY <1>1, <2>1, ConstantsAssumption DEF Waiting, AtMostOne
<1>2. CASE ~(Len(q) < QueueLength)
  BY <1>2 DEF Enqueue
<1> QED
  BY <1>1, <1>2

\* Receiving an event leaves the others, and none of its kind if it was alone.
LEMMA TailLemma ==
  ASSUME NEW q \in Seq(Events), Len(q) <= QueueLength, q # <<>>
  PROVE  /\ Tail(q) \in Seq(Events) /\ Len(Tail(q)) <= QueueLength
         /\ Waiting(q, Head(q))
         /\ \A f : Waiting(Tail(q), f) => Waiting(q, f)
         /\ \A f : AtMostOne(q, f) => AtMostOne(Tail(q), f)
         /\ AtMostOne(q, Head(q)) => ~Waiting(Tail(q), Head(q))
<1>1. /\ Tail(q) \in Seq(Events) /\ Len(Tail(q)) = Len(q) - 1 /\ Len(q) \in Nat \ {0}
      /\ Head(q) = q[1]
      /\ \A i \in 1 .. Len(Tail(q)) : Tail(q)[i] = q[i + 1]
  BY HeadTailProperties, EmptySeq
<1> QED
  BY <1>1, ConstantsAssumption DEF Waiting, AtMostOne

\* Nothing waits in an empty queue.
LEMMA EmptyLemma ==
  /\ <<>> \in Seq(Events) /\ Len(<<>>) <= QueueLength
  /\ \A f : ~Waiting(<<>>, f) /\ AtMostOne(<<>>, f)
BY ConstantsAssumption DEF Waiting, AtMostOne

-----------------------------------------------------------------------------
\* The partitions and the jobs.

\* There are two partitions.
LEMMA OtherLemma ==
  ASSUME NEW s \in Slots
  PROVE  Other(s) \in Slots /\ Other(s) # s /\ Other(Other(s)) = s
<1>1. Other("ota_0") = "ota_1" /\ Other("ota_1") = "ota_0"
  BY DEF Other, Slots
<1> QED
  BY <1>1 DEF Slots

\* NULL is no job.
LEMMA NoneLemma == None \notin Jobs /\ 0 \notin Jobs
BY ConstantsAssumption

\* A job update leaves every job with a status AWS IoT Jobs knows.
LEMMA UpdateJobLemma ==
  ASSUME jobStatus \in [Jobs -> Terminal \cup {"QUEUED", "IN_PROGRESS"}],
         NEW status \in Terminal \cup {"QUEUED", "IN_PROGRESS"},
         UpdateJob(status)
  PROVE  jobStatus' \in [Jobs -> Terminal \cup {"QUEUED", "IN_PROGRESS"}]
BY DEF UpdateJob

\* An image is a content of its partition, as large as any.
LEMMA ImageLemma ==
  ASSUME NEW j \in Jobs \cup {0}
  PROVE  Image(j) \in Contents /\ Len(Image(j)) = Blocks
<1>1. /\ Image(j) \in [1 .. Blocks -> [job : Jobs \cup {0}, index : 0 .. Blocks - 1]]
      /\ Blocks \in Nat
  BY ConstantsAssumption DEF Image
<1>2. \A i \in 1 .. Blocks : [job |-> j, index |-> i - 1] \in [job : Jobs \cup {0}, index : 0 .. Blocks - 1]
  BY <1>1
<1>3. Image(j) \in Contents
  BY <1>1, <1>2, IsASeq DEF Image, Contents
<1>4. DOMAIN Image(j) = 1 .. Blocks
  BY DEF Image
<1> QED
  BY <1>1, <1>3, <1>4, LenProperties DEF Contents

-----------------------------------------------------------------------------
\* The initial states, and the resets.

LEMMA InitInv == Init => OtaInv
<1> SUFFICES ASSUME Init PROVE OtaInv
  OBVIOUS
<1>1. flash \in [Slots -> Contents] /\ flash["ota_0"] = Image(0) /\ flash["ota_1"] = <<>>
  BY ImageLemma, EmptySeq DEF Init, Slots, Contents
<1>2. Typing
  <2>1. /\ IsFiniteSet(routes) /\ Cardinality(routes) = 0
        /\ eventQueue \in Seq(Events) /\ Len(eventQueue) <= QueueLength
    BY EmptyLemma, FS_EmptySet DEF Init
  <2>2. /\ jobStatus \in [Jobs -> Terminal \cup {"QUEUED", "IN_PROGRESS"}]
        /\ duplicates \in 0 .. MaxDuplicates
        /\ topics \subseteq (Jobs \cup {0}) \X {"notify", "data", "rejected"}
        /\ routes \subseteq topics /\ Cardinality(routes) <= ListSize
        /\ {jobBuffer, globalJobId, stream, filters} \subseteq Jobs \cup {None}
        /\ numOfBlocksRemaining \in 0 .. MaxCounter
    BY <2>1, ConstantsAssumption DEF Init, Typing, Slots
  <2> QED
    BY <1>1, <2>1, <2>2 DEF Init, Typing, Slots
<1>3. Off /\ Pointers /\ Owner
  BY EmptyLemma DEF Init, Off, Pointers, Owner
<1>4. Written
  BY <1>1, ImageLemma, EmptySeq, ConstantsAssumption DEF Init, Written, Slots
<1>5. Rollback
  BY <1>1, ConstantsAssumption DEF Init, Rollback, Confirmed, Connects
<1> QED
  BY <1>2, <1>3, <1>4, <1>5 DEF OtaInv

LEMMA RestartInv ==
  ASSUME OtaInv, Restart, UNCHANGED cloud
  PROVE  OtaInv'
<1>1. /\ bootSlot' \in Slots /\ running' = bootSlot' /\ Other(bootSlot) \in Slots
      /\ Other(Other(bootSlot)) = bootSlot
      /\ running \in Slots /\ Other(running) # running
  BY OtherLemma DEF Restart, OtaInv, Typing
<1>2. Typing'
  <2>1. /\ IsFiniteSet(routes') /\ Cardinality(routes') = 0
        /\ eventQueue' \in Seq(Events) /\ Len(eventQueue') <= QueueLength
    BY EmptyLemma, FS_EmptySet DEF Restart
  <2>2. /\ jobStatus' \in [Jobs -> Terminal \cup {"QUEUED", "IN_PROGRESS"}]
        /\ duplicates' \in 0 .. MaxDuplicates
        /\ topics' \subseteq (Jobs \cup {0}) \X {"notify", "data", "rejected"}
        /\ routes' \subseteq topics' /\ Cardinality(routes') <= ListSize
        /\ {jobBuffer', globalJobId', stream', filters'} \subseteq Jobs \cup {None}
        /\ numOfBlocksRemaining' \in 0 .. MaxCounter
    BY <2>1, ConstantsAssumption DEF Restart, OtaInv, Typing, cloud
  <2> QED
    BY <1>1, <2>1, <2>2 DEF Restart, OtaInv, Typing, cloud
<1>3. Off' /\ Pointers' /\ Owner'
  BY EmptyLemma DEF Restart, Off, Pointers, Owner
<1>4. Written'
  BY DEF Restart, OtaInv, Written
<1>5. Rollback'
  <2>1. CASE Confirmed
    BY <1>1, <2>1 DEF Restart, Rollback, Confirmed, Connects
  <2>2. CASE Selected
    BY <1>1, <2>2, OtherLemma
       DEF Restart, Rollback, Selected, OnTrial, UpdateSlot, Connects, Complete
  <2>3. CASE OnTrial
    BY <1>1, <2>3 DEF Restart, Rollback, OnTrial, Confirmed, UpdateSlot, Connects
  <2> QED
    BY <2>1, <2>2, <2>3 DEF OtaInv, Rollback
<1> QED
  BY <1>2, <1>3, <1>4, <1>5 DEF OtaInv

LEMMA BootInv ==
  ASSUME OtaInv, Boot
  PROVE  OtaInv'
<1>1. /\ eventQueue' = <<"Ready">> /\ eventQueue' \in Seq(Events) /\ Len(eventQueue') = 1
      /\ \A f : AtMostOne(eventQueue', f) /\ (Waiting(eventQueue', f) => f = "Ready")
  BY DEF Boot, Events, Waiting, AtMostOne
<1>2. /\ routes' = {<<0, "notify">>} /\ topics' = {<<0, "notify">>}
      /\ IsFiniteSet(routes') /\ Cardinality(routes') = 1
  BY FS_Singleton DEF Boot
<1>3. Typing'
  BY <1>1, <1>2, ConstantsAssumption
     DEF Boot, OtaInv, Typing, cloud, job, data, counters
<1>4. Off' /\ Pointers' /\ Owner'
  BY <1>1, <1>2, EmptyLemma
     DEF Boot, OtaInv, Off, Pointers, Owner, job, data
<1>5. Written'
  BY DEF Boot, OtaInv, Written, UpdateSlot, counters
<1>6. Rollback'
  BY DEF Boot, OtaInv, Rollback, Confirmed, Selected, OnTrial, Off, Connects
<1> QED
  BY <1>3, <1>4, <1>5, <1>6 DEF OtaInv

-----------------------------------------------------------------------------
\* The cloud and the network.

\* What a step leaves alone when it changes none of the partitions' variables.
LEMMA PartitionsLemma ==
  ASSUME OtaInv, UNCHANGED <<partitions, totalBytesReceived>>, up' = up,
         pc \in {"succeed", "restart"} => pc' \in {"succeed", "restart"},
         pc' \in {"succeed", "restart"} => pc \in {"succeed", "restart"}
  PROVE  Written' /\ Rollback'
BY DEF OtaInv, Written, Rollback, Confirmed, Selected, OnTrial, partitions, UpdateSlot, Connects,
       Complete

LEMMA CloudInv ==
  ASSUME OtaInv, UNCHANGED <<session, events, job, data, counters, partitions>>,
         /\ jobStatus' \in [Jobs -> Terminal \cup {"QUEUED", "IN_PROGRESS"}]
         /\ notified' \subseteq Jobs
         /\ requests' \subseteq [job : Jobs, index : Nat] /\ blocks' \subseteq StreamBlocks
         /\ duplicates' \in 0 .. MaxDuplicates
  PROVE  OtaInv'
<1>1. Typing'
  BY DEF OtaInv, Typing, session, events, job, data, counters, partitions
<1>2. Off' /\ Pointers' /\ Owner'
  BY DEF OtaInv, Off, Pointers, Owner, session, events, job, data, partitions
<1>3. Written' /\ Rollback'
  BY PartitionsLemma DEF session, events, counters
<1> QED
  BY <1>1, <1>2, <1>3 DEF OtaInv

LEMMA NotifyNextInv ==
  ASSUME OtaInv, NEW j \in Jobs, NotifyNext(j)
  PROVE  OtaInv'
<1>1. /\ eventQueue \in Seq(Events) /\ Len(eventQueue) <= QueueLength
      /\ "ReceivedJobDocument" \in Events
      /\ eventQueue' = Enqueue(eventQueue, "ReceivedJobDocument")
  BY DEF OtaInv, Typing, Events, NotifyNext
<1>2. /\ eventQueue' \in Seq(Events) /\ Len(eventQueue') <= QueueLength
      /\ \A f : Waiting(eventQueue', f) => f = "ReceivedJobDocument" \/ Waiting(eventQueue, f)
      /\ AtMostOne(eventQueue, "ReceivedFileBlock") => AtMostOne(eventQueue', "ReceivedFileBlock")
  BY <1>1, EnqueueLemma
<1>3. Typing'
  BY <1>2 DEF NotifyNext, OtaInv, Typing, session, data, counters, partitions
<1>4. Off' /\ Pointers' /\ Owner'
  BY <1>2 DEF NotifyNext, OtaInv, Off, Pointers, Owner, session, data, partitions
<1>5. Written' /\ Rollback'
  BY PartitionsLemma DEF NotifyNext, session, counters
<1> QED
  BY <1>3, <1>4, <1>5 DEF OtaInv

LEMMA CancelJobInv ==
  ASSUME OtaInv, NEW j \in Jobs, CancelJob(j)
  PROVE  OtaInv'
<1>1. jobStatus' \in [Jobs -> Terminal \cup {"QUEUED", "IN_PROGRESS"}]
  BY DEF CancelJob, OtaInv, Typing, Terminal
<1> QED
  BY <1>1, CloudInv DEF CancelJob, OtaInv, Typing

LEMMA ServeBlockInv ==
  ASSUME OtaInv, NEW r \in requests, ServeBlock(r)
  PROVE  OtaInv'
<1>1. r.job \in Jobs /\ r.index \in Nat /\ r = [job |-> r.job, index |-> r.index]
  BY DEF OtaInv, Typing
<1>2. r.index < Blocks => r \in StreamBlocks
  BY <1>1, ConstantsAssumption DEF StreamBlocks
<1>3. blocks' \subseteq StreamBlocks /\ requests' \subseteq [job : Jobs, index : Nat]
  BY <1>2 DEF ServeBlock, OtaInv, Typing
<1> QED
  BY <1>3, CloudInv DEF ServeBlock, OtaInv, Typing

LEMMA LoseMessageInv ==
  ASSUME OtaInv, LoseMessage
  PROVE  OtaInv'
<1>1. blocks' \subseteq StreamBlocks /\ requests' \subseteq [job : Jobs, index : Nat]
  BY DEF LoseMessage, OtaInv, Typing
<1> QED
  BY <1>1, CloudInv DEF LoseMessage, OtaInv, Typing

LEMMA UnheardInv ==
  ASSUME OtaInv, NEW b \in blocks, Unheard(b)
  PROVE  OtaInv'
<1>1. blocks' \subseteq StreamBlocks
  BY DEF Unheard, OtaInv, Typing
<1> QED
  BY <1>1, CloudInv DEF Unheard, OtaInv, Typing

\* The callback takes the buffer only when no event waits for it.
LEMMA StreamDataCallbackInv ==
  ASSUME OtaInv, NEW b \in blocks, StreamDataCallback(b)
  PROVE  OtaInv'
<1>1. /\ eventQueue \in Seq(Events) /\ Len(eventQueue) <= QueueLength
      /\ "ReceivedFileBlock" \in Events /\ b \in StreamBlocks /\ b.job \in Jobs
  BY DEF OtaInv, Typing, Events, StreamBlocks
<1>2. blocks' \subseteq StreamBlocks /\ duplicates' \in 0 .. MaxDuplicates
  BY ConstantsAssumption DEF StreamDataCallback, Delivered, OtaInv, Typing
<1>3. UNCHANGED <<jobStatus, notified, requests, session, pc, otaAgentState, job, counters,
                  partitions>>
  BY DEF StreamDataCallback
<1>4. Written' /\ Rollback'
  BY <1>3, PartitionsLemma DEF session, counters
<1>5. CASE bufferUsed
  <2>1. UNCHANGED <<buffer, bufferUsed, eventQueue>>
    BY <1>5 DEF StreamDataCallback
  <2> QED
    BY <1>2, <1>3, <2>1, CloudInv
       DEF OtaInv, Typing, session, events, job, data, counters, partitions
<1>6. CASE ~bufferUsed
  <2>1. /\ bufferUsed' = TRUE /\ buffer' \in StreamBlocks \cup {Garbled}
        /\ eventQueue' = Enqueue(eventQueue, "ReceivedFileBlock")
    BY <1>1, <1>6 DEF StreamDataCallback
  <2>2. ~Waiting(eventQueue, "ReceivedFileBlock") /\ AtMostOne(eventQueue, "ReceivedFileBlock")
    BY <1>6 DEF OtaInv, Owner
  <2>3. /\ eventQueue' \in Seq(Events) /\ Len(eventQueue') <= QueueLength
        /\ \A f : Waiting(eventQueue', f) => f = "ReceivedFileBlock" \/ Waiting(eventQueue, f)
        /\ AtMostOne(eventQueue', "ReceivedFileBlock")
    BY <1>1, <2>1, <2>2, EnqueueLemma
  <2>4. stream # None
    <3>1. <<b.job, "data">> \in topics /\ <<b.job, "data">> # <<0, "notify">>
      BY DEF StreamDataCallback
    <3> QED
      BY <3>1 DEF OtaInv, Pointers
  <2>5. Typing'
    BY <1>2, <1>3, <2>1, <2>3 DEF OtaInv, Typing, session, job, counters, partitions
  <2>6. Off' /\ Pointers' /\ Owner'
    BY <1>3, <2>1, <2>3, <2>4, StreamDataCallback(b)
       DEF StreamDataCallback, OtaInv, Off, Pointers, Owner, session, job, partitions
  <2> QED
    BY <1>4, <2>5, <2>6 DEF OtaInv
<1> QED
  BY <1>5, <1>6

-----------------------------------------------------------------------------
\* The OTA agent task.

\* Only a device that is up has a task, and only in the calls of a successful
\* update is the other partition selected.
LEMMA TaskLemma ==
  ASSUME OtaInv, pc # "off"
  PROVE  /\ up
         /\ pc \notin {"succeed", "restart"} => Confirmed
         /\ pc \in {"succeed", "restart"} => Selected
BY DEF OtaInv, Off, Rollback, OnTrial, Selected

\* What is left when an event is taken.
LEMMA TakeLemma ==
  ASSUME OtaInv, NEW event, Take(event)
  PROVE  /\ eventQueue' \in Seq(Events) /\ Len(eventQueue') <= QueueLength
         /\ Waiting(eventQueue, event)
         /\ \A f : Waiting(eventQueue', f) => Waiting(eventQueue, f)
         /\ AtMostOne(eventQueue', "ReceivedFileBlock")
         /\ pc = "receive" /\ up /\ Confirmed
<1>1. eventQueue \in Seq(Events) /\ Len(eventQueue) <= QueueLength
  BY DEF OtaInv, Typing
<1>2. AtMostOne(eventQueue, "ReceivedFileBlock")
  BY DEF OtaInv, Owner
<1> QED
  BY <1>1, <1>2, TailLemma, TaskLemma DEF Take

\* What is left when an event is sent that is not a received block.
LEMMA SendLemma ==
  ASSUME OtaInv, NEW event \in Events \ {"ReceivedFileBlock"},
         eventQueue' = Enqueue(eventQueue, event)
  PROVE  /\ eventQueue' \in Seq(Events) /\ Len(eventQueue') <= QueueLength
         /\ \A f : Waiting(eventQueue', f) => f = event \/ Waiting(eventQueue, f)
         /\ AtMostOne(eventQueue', "ReceivedFileBlock")
<1>1. eventQueue \in Seq(Events) /\ Len(eventQueue) <= QueueLength
  BY DEF OtaInv, Typing
<1>2. AtMostOne(eventQueue, "ReceivedFileBlock")
  BY DEF OtaInv, Owner
<1> QED
  BY <1>1, <1>2, EnqueueLemma

LEMMA ReceiveReadyInv ==
  ASSUME OtaInv, ReceiveReady
  PROVE  OtaInv'
<1>1. Take("Ready") /\ UNCHANGED <<cloud, session, pc, job, data, counters, partitions>>
  BY DEF ReceiveReady
<1>2. Typing'
  BY <1>1, TakeLemma
     DEF ReceiveReady, OtaInv, Typing, cloud, session, job, data, counters, partitions
<1>3. Off' /\ Pointers' /\ Owner'
  BY <1>1, TakeLemma DEF OtaInv, Off, Pointers, Owner, session, job, data, partitions
<1>4. Written' /\ Rollback'
  BY <1>1, PartitionsLemma DEF session, counters
<1> QED
  BY <1>2, <1>3, <1>4 DEF OtaInv

LEMMA ReceiveJobDocumentInv ==
  ASSUME OtaInv, ReceiveJobDocument
  PROVE  OtaInv'
<1>1. /\ Take("ReceivedJobDocument") /\ jobBuffer \in Jobs
      /\ pc' \in {"accept", "reject"} /\ globalJobId' \in {globalJobId, jobBuffer}
      /\ UNCHANGED <<cloud, session, jobBuffer, filters, data, running, bootSlot, bootState>>
  BY TakeLemma DEF ReceiveJobDocument, OtaInv, Pointers
<1>2. pc' = "accept" => stream' = jobBuffer
  BY DEF ReceiveJobDocument
<1>3. stream' \in {stream, jobBuffer} /\ (stream # None => stream' # None)
  BY <1>1, NoneLemma DEF ReceiveJobDocument
<1>4. UpdateSlot' = UpdateSlot /\ UpdateSlot \in Slots /\ UpdateSlot # running
  BY <1>1, OtherLemma DEF UpdateSlot, OtaInv, Typing
<1>5. \/ UNCHANGED <<counters, handle, flash>>
      \/ /\ numOfBlocksRemaining' = Blocks /\ currentBlockOffset' = 0 /\ totalBytesReceived' = 0
         /\ \/ handle' = "open" /\ flash' = [flash EXCEPT ![UpdateSlot] = <<>>]
            \/ handle' = "closed" /\ flash' = flash
  BY DEF ReceiveJobDocument, BeginUpdate
<1>6. /\ flash' \in [Slots -> Contents] /\ handle' \in {"open", "closed"}
      /\ numOfBlocksRemaining' \in 0 .. MaxCounter /\ currentBlockOffset' \in Nat
      /\ totalBytesReceived' \in Nat
      /\ flash'[running] = flash[running]
  <2>1. flash \in [Slots -> Contents] /\ <<>> \in Contents
    BY EmptySeq DEF OtaInv, Typing, Contents
  <2>2. flash' = flash \/ flash' = [flash EXCEPT ![UpdateSlot] = <<>>]
    BY <1>5
  <2>3. flash' \in [Slots -> Contents] /\ flash'[running] = flash[running]
    BY <1>4, <2>1, <2>2 DEF OtaInv, Typing
  <2> QED
    BY <1>5, <2>3, ConstantsAssumption DEF OtaInv, Typing, counters
<1>7. Typing'
  BY <1>1, <1>3, <1>6, TakeLemma
     DEF ReceiveJobDocument, OtaInv, Typing, cloud, session, data
<1>8. Off' /\ Pointers' /\ Owner'
  BY <1>1, <1>2, <1>3, TakeLemma, NoneLemma DEF OtaInv, Off, Pointers, Owner, session, data
<1>9. Written'
  <2>1. <<>> \in Seq(StreamBlocks) /\ Len(<<>>) = 0 /\ flash \in [Slots -> Contents]
    BY EmptySeq DEF OtaInv, Typing
  <2>2. CASE UNCHANGED <<counters, handle, flash>>
    BY <1>4, <2>2 DEF OtaInv, Written, counters
  <2>3. CASE handle' = "closed" /\ flash' = flash
    BY <2>3 DEF OtaInv, Written
  <2>4. CASE /\ totalBytesReceived' = 0
             /\ handle' = "open" /\ flash' = [flash EXCEPT ![UpdateSlot] = <<>>]
    <3>1. flash'[UpdateSlot] = <<>> /\ \A s \in Slots : s # UpdateSlot => flash'[s] = flash[s]
      BY <1>4, <2>1, <2>4
    <3> QED
      BY <1>4, <2>1, <2>4, <3>1, ConstantsAssumption DEF OtaInv, Written
  <2> QED
    BY <1>5, <2>2, <2>3, <2>4
<1>10. Rollback'
  BY <1>1, <1>6, TakeLemma DEF Rollback, Confirmed, Connects
<1> QED
  BY <1>7, <1>8, <1>9, <1>10 DEF OtaInv

LEMMA AcceptJobInv ==
  ASSUME OtaInv, AcceptJob
  PROVE  OtaInv'
<1>1. jobStatus' \in [Jobs -> Terminal \cup {"QUEUED", "IN_PROGRESS"}]
  BY UpdateJobLemma DEF AcceptJob, OtaInv, Typing
<1>2. stream # None /\ jobBuffer \in Jobs
  BY DEF AcceptJob, OtaInv, Pointers
<1>3. Typing'
  BY <1>1, <1>2 DEF AcceptJob, OtaInv, Typing, session, data, counters, partitions
<1>4. Off' /\ Pointers' /\ Owner'
  BY <1>2 DEF AcceptJob, OtaInv, Off, Pointers, Owner, session, data, partitions
<1>5. Written' /\ Rollback'
  BY PartitionsLemma DEF AcceptJob, session, counters
<1> QED
  BY <1>3, <1>4, <1>5 DEF OtaInv

\* A full list stays as it is; no list grows past its size.
LEMMA AddRouteLemma ==
  ASSUME NEW list, IsFiniteSet(list), Cardinality(list) <= ListSize, NEW topic
  PROVE  /\ AddRoute(list, topic) \subseteq list \cup {topic}
         /\ IsFiniteSet(AddRoute(list, topic)) /\ Cardinality(AddRoute(list, topic)) <= ListSize
<1>1. IsFiniteSet(list \cup {topic})
  BY FS_AddElement
<1>2. Cardinality(list) < ListSize => Cardinality(list \cup {topic}) <= ListSize
  <2>1. Cardinality(list) \in Nat /\ ListSize \in Nat
    BY FS_CardinalityType, ConstantsAssumption
  <2>2. Cardinality(list \cup {topic}) = IF topic \in list THEN Cardinality(list) ELSE Cardinality(list) + 1
    BY FS_AddElement
  <2> QED
    BY <2>1, <2>2
<1> QED
  BY <1>1, <1>2 DEF AddRoute

LEMMA SubscribeStreamInv ==
  ASSUME OtaInv, SubscribeStream
  PROVE  OtaInv'
<1>1. /\ "RequestFileBlock" \in Events \ {"ReceivedFileBlock"} /\ filters \in Jobs /\ stream # None
      /\ eventQueue' = Enqueue(eventQueue, "RequestFileBlock")
      /\ UNCHANGED <<cloud, up, otaAgentState, job, data, counters, partitions>>
      /\ pc' = "receive" /\ pc = "subscribe"
  BY DEF SubscribeStream, OtaInv, Pointers, Events
<1>2. /\ eventQueue' \in Seq(Events) /\ Len(eventQueue') <= QueueLength
      /\ \A f : Waiting(eventQueue', f) => f = "RequestFileBlock" \/ Waiting(eventQueue, f)
      /\ AtMostOne(eventQueue', "ReceivedFileBlock")
  BY <1>1, SendLemma
<1>3. topics' \subseteq (Jobs \cup {0}) \X {"notify", "data", "rejected"}
  BY <1>1 DEF SubscribeStream, OtaInv, Typing
<1>4. routes' \subseteq topics' /\ IsFiniteSet(routes') /\ Cardinality(routes') <= ListSize
  <2> DEFINE list == AddRoute(routes, <<filters, "data">>)
  <2>1. list \subseteq routes \cup {<<filters, "data">>} /\ IsFiniteSet(list) /\ Cardinality(list) <= ListSize
    BY AddRouteLemma DEF OtaInv, Typing
  <2>2. routes' = AddRoute(list, <<filters, "rejected">>)
    BY DEF SubscribeStream
  <2> HIDE DEF list
  <2>3. /\ routes' \subseteq list \cup {<<filters, "rejected">>}
        /\ IsFiniteSet(routes') /\ Cardinality(routes') <= ListSize
    BY <2>1, <2>2, AddRouteLemma
  <2> QED
    BY <2>1, <2>3 DEF SubscribeStream, OtaInv, Typing
<1>5. Typing'
  BY <1>1, <1>2, <1>3, <1>4 DEF OtaInv, Typing, cloud, job, data, counters, partitions
<1>6. Off' /\ Pointers' /\ Owner'
  BY <1>1, <1>2 DEF OtaInv, Off, Pointers, Owner, job, data, partitions
<1>7. Written' /\ Rollback'
  BY <1>1, PartitionsLemma DEF counters
<1> QED
  BY <1>5, <1>6, <1>7 DEF OtaInv

\* The reports that end a job and leave the agent ready for the next.
LEMMA ReportInv ==
  ASSUME OtaInv, RejectJob \/ Fail
  PROVE  OtaInv'
<1>1. /\ "Ready" \in Events \ {"ReceivedFileBlock"} /\ eventQueue' = Enqueue(eventQueue, "Ready")
      /\ pc \in {"reject", "fail"} /\ pc' = "receive"
      /\ UNCHANGED <<notified, requests, blocks, duplicates, session, otaAgentState, job,
                     data, counters, partitions>>
      /\ \E status \in Terminal : UpdateJob(status)
  BY DEF RejectJob, Fail, Events, Terminal
<1>2. /\ eventQueue' \in Seq(Events) /\ Len(eventQueue') <= QueueLength
      /\ \A f : Waiting(eventQueue', f) => f = "Ready" \/ Waiting(eventQueue, f)
      /\ AtMostOne(eventQueue', "ReceivedFileBlock")
  BY <1>1, SendLemma
<1>3. jobStatus' \in [Jobs -> Terminal \cup {"QUEUED", "IN_PROGRESS"}]
  BY <1>1, UpdateJobLemma DEF OtaInv, Typing
<1>4. Typing'
  BY <1>1, <1>2, <1>3 DEF OtaInv, Typing, session, job, data, counters, partitions
<1>5. Off' /\ Pointers' /\ Owner'
  BY <1>1, <1>2 DEF OtaInv, Off, Pointers, Owner, session, job, data, partitions
<1>6. Written' /\ Rollback'
  BY <1>1, PartitionsLemma DEF session, counters
<1> QED
  BY <1>4, <1>5, <1>6 DEF OtaInv

LEMMA ReceiveRequestInv ==
  ASSUME OtaInv, ReceiveRequest
  PROVE  OtaInv'
<1>1. /\ Take("RequestFileBlock") /\ pc' = "request" /\ stream # None
      /\ UNCHANGED <<cloud, session, job, data, counters, partitions>>
  BY TakeLemma DEF ReceiveRequest, OtaInv, Pointers
<1>2. Typing'
  BY <1>1, TakeLemma
     DEF ReceiveRequest, OtaInv, Typing, cloud, session, job, data, counters, partitions
<1>3. Off' /\ Pointers' /\ Owner'
  BY <1>1, TakeLemma DEF OtaInv, Off, Pointers, Owner, session, job, data, partitions
<1>4. Written' /\ Rollback'
  BY <1>1, TakeLemma, PartitionsLemma DEF session, counters
<1> QED
  BY <1>2, <1>3, <1>4 DEF OtaInv

LEMMA PublishRequestInv ==
  ASSUME OtaInv, PublishRequest
  PROVE  OtaInv'
<1>1. stream \in Jobs /\ currentBlockOffset \in Nat
  BY DEF PublishRequest, OtaInv, Typing, Pointers
<1>2. requests' \subseteq [job : Jobs, index : Nat]
  BY <1>1 DEF PublishRequest, OtaInv, Typing
<1>3. Typing'
  BY <1>2 DEF PublishRequest, OtaInv, Typing, session, job, data, counters, partitions
<1>4. Off' /\ Pointers' /\ Owner'
  BY DEF PublishRequest, OtaInv, Off, Pointers, Owner, session, job, data, partitions
<1>5. Written' /\ Rollback'
  BY PartitionsLemma DEF PublishRequest, session, counters
<1> QED
  BY <1>3, <1>4, <1>5 DEF OtaInv

LEMMA SucceedInv ==
  ASSUME OtaInv, Succeed
  PROVE  OtaInv'
<1>1. jobStatus' \in [Jobs -> Terminal \cup {"QUEUED", "IN_PROGRESS"}]
  BY UpdateJobLemma DEF Succeed, OtaInv, Typing, Terminal
<1>2. Typing'
  BY <1>1 DEF Succeed, OtaInv, Typing, session, job, data, counters, partitions
<1>3. Off' /\ Pointers' /\ Owner'
  BY DEF Succeed, OtaInv, Off, Pointers, Owner, session, job, data, partitions
<1>4. Written' /\ Rollback'
  BY PartitionsLemma DEF Succeed, session, counters
<1> QED
  BY <1>2, <1>3, <1>4 DEF OtaInv

\* A block goes where the handle was opened, and the bound on a file is looked
\* at before it is written.
LEMMA WriteBlockLemma ==
  ASSUME OtaInv, Confirmed, WriteBlock, totalBytesReceived + 1 < MaxBlocks,
         buffer \in StreamBlocks, UNCHANGED <<handle, running>>
  PROVE  /\ flash' \in [Slots -> Contents] /\ flash'[running] = flash[running]
         /\ totalBytesReceived' \in Nat
         /\ Written'
<1>1. /\ UpdateSlot \in Slots /\ UpdateSlot # running /\ UpdateSlot' = UpdateSlot
      /\ running \in Slots /\ flash \in [Slots -> Contents] /\ totalBytesReceived \in Nat
  BY OtherLemma DEF UpdateSlot, OtaInv, Typing
<1>2. CASE UNCHANGED <<flash, totalBytesReceived>>
  BY <1>1, <1>2 DEF OtaInv, Written
<1>3. CASE /\ handle = "open"
           /\ flash' = [flash EXCEPT ![UpdateSlot] = Append(@, buffer)]
           /\ totalBytesReceived' = totalBytesReceived + 1
  <2>1. /\ flash[UpdateSlot] \in Contents
        /\ buffer \in [job : Jobs \cup {0}, index : 0 .. Blocks - 1]
    BY <1>1 DEF StreamBlocks
  <2>2. /\ Append(flash[UpdateSlot], buffer) \in Contents
        /\ Len(Append(flash[UpdateSlot], buffer)) = Len(flash[UpdateSlot]) + 1
    BY <2>1, AppendProperties DEF Contents
  <2>3. /\ flash' \in [Slots -> Contents] /\ flash'[running] = flash[running]
        /\ flash'[UpdateSlot] = Append(flash[UpdateSlot], buffer)
        /\ \A s \in Slots : s # UpdateSlot => flash'[s] = flash[s]
    BY <1>1, <1>3, <2>2
  <2>4. /\ Len(flash'[UpdateSlot]) = totalBytesReceived'
        /\ flash'[UpdateSlot] \in Seq(StreamBlocks)
    BY <1>3, <2>2, <2>3, AppendProperties DEF OtaInv, Written
  <2>5. Written'
    BY <1>1, <1>3, <2>3, <2>4 DEF OtaInv, Written
  <2> QED
    BY <1>1, <1>3, <2>3, <2>5
<1> QED
  BY <1>2, <1>3 DEF WriteBlock

LEMMA ReceiveFileBlockInv ==
  ASSUME OtaInv, ReceiveFileBlock
  PROVE  OtaInv'
<1>1. CASE buffer # Garbled /\ totalBytesReceived + 1 >= MaxBlocks
  BY <1>1, RestartInv DEF ReceiveFileBlock
<1>2. CASE ~(buffer # Garbled /\ totalBytesReceived + 1 >= MaxBlocks)
  <2> DEFINE rest == Tail(eventQueue)
  <2>1. /\ otaAgentState' = "ProcessingFileBlock"
        /\ eventQueue' = Enqueue(rest, NextEvent)
        /\ UNCHANGED <<cloud, session, pc, job, buffer, handle, running, bootSlot, bootState>>
    BY <1>2 DEF ReceiveFileBlock
  <2>2. /\ pc = "receive" /\ eventQueue # <<>> /\ Head(eventQueue) = "ReceivedFileBlock"
        /\ eventQueue \in Seq(Events) /\ Len(eventQueue) <= QueueLength
        /\ AtMostOne(eventQueue, "ReceivedFileBlock")
    BY DEF ReceiveFileBlock, OtaInv, Typing, Owner
  <2>3. /\ rest \in Seq(Events) /\ Len(rest) <= QueueLength
        /\ Waiting(eventQueue, "ReceivedFileBlock")
        /\ \A f : Waiting(rest, f) => Waiting(eventQueue, f)
        /\ AtMostOne(rest, "ReceivedFileBlock") /\ ~Waiting(rest, "ReceivedFileBlock")
    BY <2>2, TailLemma
  <2> HIDE DEF rest
  <2>4. NextEvent \in Events /\ NextEvent # "ReceivedFileBlock"
    BY DEF NextEvent, Events
  <2>5. /\ eventQueue' \in Seq(Events) /\ Len(eventQueue') <= QueueLength
        /\ \A f : Waiting(eventQueue', f) => f = NextEvent \/ Waiting(eventQueue, f)
        /\ ~Waiting(eventQueue', "ReceivedFileBlock")
        /\ AtMostOne(eventQueue', "ReceivedFileBlock")
    BY <2>1, <2>3, <2>4, EnqueueLemma
  <2>6. /\ Confirmed /\ up /\ stream # None /\ bufferUsed
        /\ buffer \in StreamBlocks \cup {Garbled}
    BY <2>2, <2>3, TaskLemma DEF OtaInv, Pointers, Owner
  <2>7. /\ flash' \in [Slots -> Contents] /\ flash'[running] = flash[running]
        /\ totalBytesReceived' \in Nat /\ Written'
        /\ numOfBlocksRemaining' \in 0 .. MaxCounter /\ currentBlockOffset' \in Nat
        /\ bufferUsed' \in BOOLEAN
    <3>1. CASE buffer = Garbled
      <4>1. UNCHANGED <<bufferUsed, counters, flash, handle, running>>
        BY <1>2, <2>1, <3>1 DEF ReceiveFileBlock
      <4> QED
        BY <4>1 DEF OtaInv, Typing, Written, UpdateSlot, counters
    <3>2. CASE buffer # Garbled
      <4>1. /\ bufferUsed' = FALSE /\ WriteBlock
            /\ numOfBlocksRemaining' = Decrement(numOfBlocksRemaining)
            /\ currentBlockOffset' = currentBlockOffset + 1
        BY <1>2, <3>2 DEF ReceiveFileBlock
      <4>2. numOfBlocksRemaining' \in 0 .. MaxCounter /\ currentBlockOffset' \in Nat
        BY <4>1, ConstantsAssumption DEF Decrement, OtaInv, Typing
      <4>3. totalBytesReceived + 1 < MaxBlocks /\ buffer \in StreamBlocks
        BY <1>2, <2>6, <3>2, ConstantsAssumption DEF OtaInv, Typing
      <4>4. /\ flash' \in [Slots -> Contents] /\ flash'[running] = flash[running]
            /\ totalBytesReceived' \in Nat /\ Written'
        BY <2>1, <2>6, <4>1, <4>3, WriteBlockLemma
      <4> QED
        BY <4>1, <4>2, <4>4
    <3> QED
      BY <3>1, <3>2
  <2>8. Typing'
    BY <2>1, <2>5, <2>7 DEF OtaInv, Typing, cloud, session, job
  <2>9. Off' /\ Pointers' /\ Owner'
    BY <2>1, <2>2, <2>4, <2>5, <2>6 DEF NextEvent, OtaInv, Off, Pointers, Owner, session, job
  <2>10. Rollback'
    BY <2>1, <2>2, <2>6, <2>7 DEF Rollback, Confirmed, Connects
  <2> QED
    BY <2>7, <2>8, <2>9, <2>10 DEF OtaInv
<1> QED
  BY <1>1, <1>2

\* A complete image that came from streams is not the one the device was made with.
LEMMA CompleteLemma ==
  ASSUME NEW content \in Seq(StreamBlocks), Complete(content)
  PROVE  \E j \in Jobs : content = Image(j)
<1>1. PICK j \in Jobs \cup {0} : content = Image(j)
  BY DEF Complete
<1>2. 1 \in 1 .. Len(content) /\ content[1].job = j
  <2>1. 1 \in 1 .. Blocks /\ Len(content) = Blocks
    BY <1>1, ImageLemma, ConstantsAssumption
  <2>2. Image(j)[1] = [job |-> j, index |-> 1 - 1]
    BY <2>1 DEF Image
  <2> QED
    BY <1>1, <2>1, <2>2
<1>3. content[1] \in StreamBlocks
  BY <1>2, ElementOfSeq
<1>4. j \in Jobs
  BY <1>2, <1>3 DEF StreamBlocks
<1> QED
  BY <1>1, <1>4

\* Only a complete image is selected, and its handle is closed.
LEMMA ReceiveFinishInv ==
  ASSUME OtaInv, ReceiveFinish
  PROVE  OtaInv'
<1>1. /\ Take("FinishDownload") /\ handle' = "closed" /\ pc' \in {"succeed", "fail"}
      /\ bootSlot' \in {bootSlot, UpdateSlot} /\ bootState' \in {bootState, "new"}
      /\ UNCHANGED <<cloud, session, job, data, counters, flash, running>>
  BY DEF ReceiveFinish
<1>2. UpdateSlot' = UpdateSlot /\ UpdateSlot \in Slots
  BY <1>1, OtherLemma DEF UpdateSlot, OtaInv, Typing
<1>3. Typing'
  BY <1>1, <1>2, TakeLemma
     DEF ReceiveFinish, OtaInv, Typing, cloud, session, job, data, counters
<1>4. stream # None
  BY <1>1, TakeLemma DEF OtaInv, Pointers
<1>5. Off' /\ Pointers' /\ Owner'
  BY <1>1, <1>4, TakeLemma DEF OtaInv, Off, Pointers, Owner, session, job, data
<1>6. Written'
  BY <1>1 DEF OtaInv, Written
<1>7. Rollback'
  <2>1. handle = "open" /\ Complete(flash[UpdateSlot]) => \E j \in Jobs : flash[UpdateSlot] = Image(j)
    BY CompleteLemma DEF OtaInv, Written
  <2> QED
    BY <1>1, <1>2, <2>1, TakeLemma
       DEF ReceiveFinish, Rollback, Confirmed, Selected, Connects
<1> QED
  BY <1>3, <1>5, <1>6, <1>7 DEF OtaInv

-----------------------------------------------------------------------------
\* Every step keeps the invariant.

LEMMA NextInv == OtaInv /\ [Next]_vars => OtaInv'
<1> SUFFICES ASSUME OtaInv, [Next]_vars PROVE OtaInv'
  OBVIOUS
<1>1. CASE Cloud
  BY <1>1, NotifyNextInv, ServeBlockInv DEF Cloud
<1>2. CASE LoseMessage
  BY <1>2, LoseMessageInv
<1>3. CASE \E j \in Jobs : CancelJob(j)
  BY <1>3, CancelJobInv
<1>4. CASE Agent
  BY <1>4, StreamDataCallbackInv, UnheardInv DEF Agent
<1>5. CASE Boot
  BY <1>5, BootInv
<1>6. CASE BootFails \/ Crash \/ EspRestart
  BY <1>6, RestartInv DEF BootFails, Crash, EspRestart
<1>7. CASE ReceiveReady \/ ReceiveJobDocument \/ AcceptJob \/ SubscribeStream
  BY <1>7, ReceiveReadyInv, ReceiveJobDocumentInv, AcceptJobInv, SubscribeStreamInv
<1>8. CASE RejectJob \/ Fail \/ ReceiveRequest \/ PublishRequest
  BY <1>8, ReportInv, ReceiveRequestInv, PublishRequestInv
<1>9. CASE ReceiveFileBlock \/ ReceiveFinish \/ Succeed
  BY <1>9, ReceiveFileBlockInv, ReceiveFinishInv, SucceedInv
<1>10. CASE UNCHANGED vars
  <2>1. UNCHANGED <<cloud, session, events, job, data, counters, partitions>>
    BY <1>10 DEF vars
  <2> QED
    BY <2>1, CloudInv DEF OtaInv, Typing, cloud
<1> QED
  BY <1>1, <1>2, <1>3, <1>4, <1>5, <1>6, <1>7, <1>8, <1>9, <1>10 DEF Next, Task

\* The inductive invariant holds of every behaviour, whatever the faults.
THEOREM OtaInvariant == Spec => []OtaInv
<1> QED
  BY InitInv, NextInv, PTL DEF Spec

\* Every variable of the OTA agent keeps its type, when the image the device is
\* made with is below CONFIG_MAX_FILE_SIZE as any other must be: no partition
\* then grows past that size.
THEOREM OtaTypeCorrect == ASSUME Blocks < MaxBlocks PROVE Spec => []TypeOK
<1>1. OtaInv => TypeOK
  BY DEF OtaInv, Typing, Written, TypeOK, Contents
<1> QED
  BY <1>1, OtaInvariant, PTL

\* A reset at any moment finds a complete image to boot and, while that one is
\* not confirmed, another to go back to that connects (delta_ota.c and the
\* bootloader): whatever is lost, duplicated, garbled or cancelled.
THEOREM OtaAlwaysBootable == Spec => []AlwaysBootable
<1>1. OtaInv => AlwaysBootable
  <2> SUFFICES ASSUME OtaInv PROVE AlwaysBootable
    OBVIOUS
  <2>1. running \in Slots /\ Other(UpdateSlot) = running
    BY OtherLemma DEF OtaInv, Typing, UpdateSlot
  <2>2. \A content : Connects(content) => Complete(content)
    BY DEF Connects, Complete
  <2>3. \A content : (\E j \in Jobs : content = Image(j)) => Complete(content)
    BY DEF Complete
  <2> QED
    BY <2>1, <2>2, <2>3
       DEF OtaInv, Rollback, Confirmed, Selected, OnTrial, AlwaysBootable, UpdateSlot
<1> QED
  BY <1>1, OtaInvariant, PTL

\* An image whose rollback is cancelled has connected (prvCheckFirmware).
THEOREM OtaConfirmedConnects == Spec => []ConfirmedConnects
<1>1. OtaInv => ConfirmedConnects
  BY DEF OtaInv, Rollback, Confirmed, Selected, OnTrial, ConfirmedConnects
<1> QED
  BY <1>1, OtaInvariant, PTL

\* While a block's event waits, no other block can have taken the buffer that its
\* pointer leads to (prvStreamDataIncomingPublishCallback).
THEOREM OtaBufferHasOneOwner == Spec => []BufferHasOneOwner
<1>1. OtaInv => BufferHasOneOwner
  BY DEF OtaInv, Owner, AtMostOne, Waiting, BufferHasOneOwner
<1> QED
  BY <1>1, OtaInvariant, PTL

\* Only Succeed reports a success.
LEMMA SucceedLemma ==
  ASSUME OtaInv, Next, NEW j \in Jobs, jobStatus[j] # "SUCCEEDED", jobStatus'[j] = "SUCCEEDED"
  PROVE  Succeed
<1>1. jobStatus' # jobStatus
  OBVIOUS
<1>2. jobStatus \in [Jobs -> Terminal \cup {"QUEUED", "IN_PROGRESS"}]
  BY DEF OtaInv, Typing
<1>3. ~Cloud /\ ~LoseMessage /\ ~Agent /\ ~Boot /\ ~BootFails /\ ~Crash
  BY <1>1 DEF Cloud, NotifyNext, ServeBlock, LoseMessage, Agent, StreamDataCallback, Unheard,
              Boot, BootFails, Crash, cloud
<1>4. ~ \E i \in Jobs : CancelJob(i)
  BY <1>2 DEF CancelJob
<1>5. ~AcceptJob /\ ~RejectJob /\ ~Fail
  BY <1>2 DEF AcceptJob, RejectJob, Fail, UpdateJob
<1>6. /\ ~ReceiveReady /\ ~ReceiveJobDocument /\ ~SubscribeStream /\ ~ReceiveRequest
      /\ ~PublishRequest /\ ~ReceiveFileBlock /\ ~ReceiveFinish /\ ~EspRestart
  BY <1>1 DEF ReceiveReady, ReceiveJobDocument, SubscribeStream, ReceiveRequest,
              PublishRequest, ReceiveFileBlock, ReceiveFinish, EspRestart, cloud
<1> QED
  BY <1>3, <1>4, <1>5, <1>6 DEF Next, Task

\* What every job reported SUCCEEDED has in common (the first half of
\* SuccessIsReal): a whole image that came from a stream, every block in its
\* place, is in the other partition, and the next boot starts it.
THEOREM OtaSuccessIsWhole ==
  Spec => [][\A j \in Jobs :
               jobStatus[j] # "SUCCEEDED" /\ jobStatus'[j] = "SUCCEEDED"
                 => bootSlot # running /\ \E i \in Jobs : flash[bootSlot] = Image(i)]_vars
<1> DEFINE Reported ==
             \A j \in Jobs : jobStatus[j] # "SUCCEEDED" /\ jobStatus'[j] = "SUCCEEDED"
               => bootSlot # running /\ \E i \in Jobs : flash[bootSlot] = Image(i)
<1>1. OtaInv /\ [Next]_vars => [Reported]_vars
  <2> SUFFICES ASSUME OtaInv, Next, NEW j \in Jobs,
                      jobStatus[j] # "SUCCEEDED", jobStatus'[j] = "SUCCEEDED"
               PROVE  bootSlot # running /\ \E i \in Jobs : flash[bootSlot] = Image(i)
    OBVIOUS
  <2>1. Succeed
    BY SucceedLemma
  <2>2. Selected
    BY <2>1, TaskLemma DEF Succeed
  <2>3. UpdateSlot # running
    BY OtherLemma DEF OtaInv, Typing, UpdateSlot
  <2> QED
    BY <2>2, <2>3 DEF Selected
<1> QED
  BY <1>1, OtaInvariant, PTL DEF Spec

-----------------------------------------------------------------------------
\* Room in the queue: counting events.

One(b) == IF b THEN 1 ELSE 0

Places(queue, event) == {i \in 1 .. Len(queue) : queue[i] = event}
Count(queue, event) == Cardinality(Places(queue, event))

\* Every e that waits is in front of every f.
Before(queue, e, f) == \A i \in Places(queue, e), k \in Places(queue, f) : i < k

\* At most one e waits behind an f.
OneBehind(queue, e, f) ==
  \A m \in Places(queue, f), i, k \in Places(queue, e) : m < i /\ m < k => i = k

-----------------------------------------------------------------------------

\* Counting the events of a kind.
LEMMA CountLemma ==
  ASSUME NEW q \in Seq(Events), NEW e
  PROVE  /\ IsFiniteSet(Places(q, e)) /\ Count(q, e) \in Nat
         /\ Count(q, e) = 0 <=> ~Waiting(q, e)
         /\ AtMostOne(q, e) => Count(q, e) <= 1
<1>1. IsFiniteSet(1 .. Len(q)) /\ Places(q, e) \subseteq 1 .. Len(q) /\ Len(q) \in Nat
  BY FS_Interval, LenProperties DEF Places
<1>2. IsFiniteSet(Places(q, e)) /\ Count(q, e) \in Nat
  BY <1>1, FS_Subset, FS_CardinalityType DEF Count
<1>3. Count(q, e) = 0 <=> Places(q, e) = {}
  BY <1>2, FS_EmptySet DEF Count
<1>4. Places(q, e) = {} <=> ~Waiting(q, e)
  BY DEF Places, Waiting
<1>5. ASSUME AtMostOne(q, e) PROVE Count(q, e) <= 1
  <2>1. CASE Places(q, e) = {}
    BY <2>1, <1>3
  <2>2. CASE Places(q, e) # {}
    <3>1. PICK i \in Places(q, e) : TRUE
      BY <2>2
    <3>2. Places(q, e) = {i}
      BY <1>5, <3>1 DEF Places, AtMostOne
    <3>3. Cardinality({i}) = 1
      BY FS_Singleton
    <3> QED
      BY <3>2, <3>3 DEF Count
  <2> QED
    BY <2>1, <2>2
<1> QED
  BY <1>2, <1>3, <1>4, <1>5

\* The cardinality of a union of two sets with no common element.
LEMMA DisjointUnion ==
  ASSUME NEW S, NEW T, IsFiniteSet(S), IsFiniteSet(T), S \cap T = {}
  PROVE  /\ IsFiniteSet(S \cup T)
         /\ Cardinality(S \cup T) = Cardinality(S) + Cardinality(T)
<1>1. /\ IsFiniteSet(S \cup T)
      /\ Cardinality(S \cup T) = Cardinality(S) + Cardinality(T) - Cardinality(S \cap T)
  BY FS_Union
<1>2. Cardinality(S \cap T) = 0
  BY FS_EmptySet
<1>3. Cardinality(S) \in Nat /\ Cardinality(T) \in Nat
  BY FS_CardinalityType
<1> QED
  BY <1>1, <1>2, <1>3

\* The length of a queue is the number of its events, kind by kind.
LEMMA LenLemma ==
  ASSUME NEW q \in Seq(Events)
  PROVE  Len(q) = Count(q, "Ready") + Count(q, "ReceivedJobDocument")
                    + Count(q, "RequestFileBlock") + Count(q, "ReceivedFileBlock")
                    + Count(q, "FinishDownload")
<1> DEFINE R == Places(q, "Ready")
           D == Places(q, "ReceivedJobDocument")
           Q == Places(q, "RequestFileBlock")
           B == Places(q, "ReceivedFileBlock")
           F == Places(q, "FinishDownload")
<1>1. IsFiniteSet(R) /\ IsFiniteSet(D) /\ IsFiniteSet(Q) /\ IsFiniteSet(B) /\ IsFiniteSet(F)
  BY CountLemma
<1>2. R \cap D = {} /\ (R \cup D) \cap Q = {} /\ (R \cup D \cup Q) \cap B = {}
        /\ (R \cup D \cup Q \cup B) \cap F = {}
  BY DEF Places
<1>3. 1 .. Len(q) = R \cup D \cup Q \cup B \cup F
  BY ElementOfSeq DEF Places, Events
<1>4. Cardinality(1 .. Len(q)) = Len(q)
  <2>1. Len(q) \in Nat /\ Len(q) \in Int /\ 1 \in Int
    BY LenProperties
  <2>2. Cardinality(1 .. Len(q)) = IF 1 > Len(q) THEN 0 ELSE Len(q) - 1 + 1
    BY <2>1, FS_Interval
  <2> QED
    BY <2>1, <2>2
<1> HIDE DEF R, D, Q, B, F
<1>5. IsFiniteSet(R \cup D) /\ Cardinality(R \cup D) = Cardinality(R) + Cardinality(D)
  BY <1>1, <1>2, DisjointUnion
<1>6. /\ IsFiniteSet(R \cup D \cup Q)
      /\ Cardinality(R \cup D \cup Q) = Cardinality(R \cup D) + Cardinality(Q)
  BY <1>1, <1>2, <1>5, DisjointUnion
<1>7. /\ IsFiniteSet(R \cup D \cup Q \cup B)
      /\ Cardinality(R \cup D \cup Q \cup B) = Cardinality(R \cup D \cup Q) + Cardinality(B)
  BY <1>1, <1>2, <1>6, DisjointUnion
<1>8. Cardinality(R \cup D \cup Q \cup B \cup F)
        = Cardinality(R \cup D \cup Q \cup B) + Cardinality(F)
  BY <1>1, <1>2, <1>7, DisjointUnion
<1> QED
  BY <1>3, <1>4, <1>5, <1>6, <1>7, <1>8 DEF Count, R, D, Q, B, F

\* What sending an event adds.
LEMMA SendCount ==
  ASSUME NEW q \in Seq(Events), Len(q) < QueueLength, NEW e \in Events
  PROVE  /\ Enqueue(q, e) \in Seq(Events) /\ Len(Enqueue(q, e)) = Len(q) + 1
         /\ \A f : Count(Enqueue(q, e), f) = Count(q, f) + One(f = e)
         /\ \A f : Waiting(Enqueue(q, e), f) <=> f = e \/ Waiting(q, f)
         /\ \A f, g : Before(q, f, g) /\ (f = e => g # e /\ ~Waiting(q, g))
                        => Before(Enqueue(q, e), f, g)
         /\ \A f, g : OneBehind(q, f, g) /\ f # e => OneBehind(Enqueue(q, e), f, g)
         /\ \A f, g : Before(q, f, g) /\ f # g => OneBehind(Enqueue(q, e), f, g)
<1> DEFINE p == Enqueue(q, e)
<1>1. /\ p \in Seq(Events) /\ Len(p) = Len(q) + 1 /\ Len(q) \in Nat
      /\ \A i \in 1 .. Len(q) : p[i] = q[i]
      /\ p[Len(q) + 1] = e
  BY AppendProperties DEF Enqueue
<1> HIDE DEF p
<1>2. \A f : Places(p, f) = IF f = e THEN Places(q, f) \cup {Len(q) + 1} ELSE Places(q, f)
  BY <1>1 DEF Places
<1>3. \A f : \A i \in Places(q, f) : i \in Nat /\ i < Len(q) + 1
  BY <1>1 DEF Places
<1>4. ASSUME NEW f PROVE Count(p, f) = Count(q, f) + One(f = e)
  <2>1. IsFiniteSet(Places(q, f)) /\ Len(q) + 1 \notin Places(q, f)
    BY <1>3, CountLemma
  <2>2. Cardinality(Places(q, f) \cup {Len(q) + 1}) = Cardinality(Places(q, f)) + 1
    BY <2>1, FS_AddElement
  <2>3. Cardinality(Places(q, f)) \in Nat
    BY <2>1, FS_CardinalityType
  <2>4. CASE f = e
    BY <1>2, <2>2, <2>4 DEF Count, One
  <2>5. CASE f # e
    BY <1>2, <2>3, <2>5 DEF Count, One
  <2> QED
    BY <2>4, <2>5
<1>5. \A f : Waiting(p, f) <=> f = e \/ Waiting(q, f)
  BY <1>1 DEF Waiting
<1>6. \A f, g : Before(q, f, g) /\ (f = e => g # e /\ ~Waiting(q, g)) => Before(p, f, g)
  <2>1. \A g : ~Waiting(q, g) => Places(q, g) = {}
    BY DEF Waiting, Places
  <2> QED
    BY <1>2, <1>3, <2>1 DEF Before
<1>7. \A f, g : OneBehind(q, f, g) /\ f # e => OneBehind(p, f, g)
  BY <1>2, <1>3, <1>1 DEF OneBehind
<1>8. \A f, g : Before(q, f, g) /\ f # g => OneBehind(p, f, g)
  BY <1>2, <1>3, <1>1 DEF OneBehind, Before
<1> QED
  BY <1>1, <1>4, <1>5, <1>6, <1>7, <1>8 DEF p

\* What taking the first event removes, and what its place says of the others.
LEMMA TakeCount ==
  ASSUME NEW q \in Seq(Events), q # <<>>
  PROVE  /\ Tail(q) \in Seq(Events) /\ Len(Tail(q)) = Len(q) - 1
         /\ \A f : Count(Tail(q), f) = Count(q, f) - One(f = Head(q))
         /\ \A f : f # Head(q) => (Waiting(Tail(q), f) <=> Waiting(q, f))
         /\ \A f, g : Before(q, f, g) => Before(Tail(q), f, g)
         /\ \A f, g : OneBehind(q, f, g) => OneBehind(Tail(q), f, g)
         /\ \A f : f # Head(q) /\ Before(q, f, Head(q)) => Count(q, f) = 0
         /\ \A f : f # Head(q) /\ OneBehind(q, f, Head(q)) => Count(q, f) <= 1
<1> DEFINE t == Tail(q)
           h == Head(q)
<1>1. /\ t \in Seq(Events) /\ Len(t) = Len(q) - 1 /\ Len(q) \in Nat \ {0}
      /\ h = q[1]
      /\ \A i \in 1 .. Len(t) : t[i] = q[i + 1]
  BY HeadTailProperties, EmptySeq
<1> HIDE DEF t, h
<1>2. \A f : \A i \in Places(t, f) : i \in Nat /\ i + 1 \in Places(q, f)
  BY <1>1 DEF Places
<1>3. \A f : \A i \in Places(q, f) : i \in Nat /\ (i # 1 => i - 1 \in Places(t, f))
  BY <1>1 DEF Places
<1>4. \A f : 1 \in Places(q, f) <=> f = h
  BY <1>1 DEF Places
<1>5. ASSUME NEW f PROVE Count(t, f) = Count(q, f) - One(f = h)
  <2> DEFINE S == Places(q, f) \ {1}
             shift == [i \in Places(t, f) |-> i + 1]
  <2>1. IsFiniteSet(Places(t, f)) /\ IsFiniteSet(Places(q, f))
    BY <1>1, CountLemma
  <2>2. shift \in Bijection(Places(t, f), S)
    <3>1. shift \in [Places(t, f) -> S]
      BY <1>2 DEF Places
    <3>2. \A i, k \in Places(t, f) : shift[i] = shift[k] => i = k
      BY <1>2
    <3>3. \A k \in S : \E i \in Places(t, f) : shift[i] = k
      <4> SUFFICES ASSUME NEW k \in S PROVE k - 1 \in Places(t, f) /\ shift[k - 1] = k
        OBVIOUS
      <4>1. k - 1 \in Places(t, f) /\ k \in Nat
        BY <1>3
      <4> QED
        BY <4>1
    <3> QED
      BY <3>1, <3>2, <3>3 DEF Bijection, Injection, Surjection, IsInjective
  <2> HIDE DEF S, shift
  <2>3. Cardinality(S) = Cardinality(Places(t, f))
    <3>1. ExistsBijection(Places(t, f), S)
      BY <2>2 DEF ExistsBijection
    <3> QED
      BY <2>1, <3>1, FS_Bijection
  <2>4. Cardinality(S) = IF 1 \in Places(q, f) THEN Cardinality(Places(q, f)) - 1
                         ELSE Cardinality(Places(q, f))
    BY <2>1, FS_RemoveElement DEF S
  <2>5. Cardinality(Places(q, f)) \in Nat
    BY <2>1, FS_CardinalityType
  <2> QED
    BY <1>4, <2>3, <2>4, <2>5 DEF Count, One
<1>6. \A f : f # h => (Waiting(t, f) <=> Waiting(q, f))
  <2>1. \A f : (Waiting(t, f) <=> Places(t, f) # {}) /\ (Waiting(q, f) <=> Places(q, f) # {})
    BY DEF Waiting, Places
  <2>2. \A f : f # h => (Places(t, f) # {} <=> Places(q, f) # {})
    BY <1>2, <1>3, <1>4
  <2> QED
    BY <2>1, <2>2
<1>7. \A f, g : Before(q, f, g) => Before(t, f, g)
  BY <1>2 DEF Before
<1>8. \A f, g : OneBehind(q, f, g) => OneBehind(t, f, g)
  <2> SUFFICES ASSUME NEW f, NEW g, OneBehind(q, f, g),
                      NEW m \in Places(t, g), NEW i \in Places(t, f), NEW k \in Places(t, f),
                      m < i, m < k
               PROVE  i = k
    BY DEF OneBehind
  <2>1. m + 1 \in Places(q, g) /\ i + 1 \in Places(q, f) /\ k + 1 \in Places(q, f)
        /\ m \in Nat /\ i \in Nat /\ k \in Nat
    BY <1>2
  <2>2. i + 1 = k + 1
    BY <2>1 DEF OneBehind
  <2> QED
    BY <2>1, <2>2
<1>9. \A f : f # h /\ Before(q, f, h) => Count(q, f) = 0
  <2> SUFFICES ASSUME NEW f, f # h, Before(q, f, h) PROVE Places(q, f) = {}
    BY FS_EmptySet DEF Count
  <2> QED
    BY <1>3, <1>4, <1>1 DEF Before, Places
<1>10. \A f : f # h /\ OneBehind(q, f, h) => Count(q, f) <= 1
  <2> SUFFICES ASSUME NEW f, f # h, OneBehind(q, f, h) PROVE AtMostOne(q, f)
    BY CountLemma
  <2>1. \A i, k \in Places(q, f) : 1 < i /\ 1 < k
    BY <1>3, <1>4, <1>1 DEF Places
  <2>2. \A i, k \in Places(q, f) : i = k
    BY <1>4, <2>1 DEF OneBehind
  <2> QED
    BY <2>2 DEF AtMostOne, Places
<1> QED
  BY <1>1, <1>5, <1>6, <1>7, <1>8, <1>9, <1>10 DEF t, h

-----------------------------------------------------------------------------
\* The blocks on their way to the device, asked for or sent, of the streams of some
\* jobs that this session has subscribed.
AskedFor(reqs, tops, js) ==
  {r \in reqs : r.index < Blocks /\ r.job \in js /\ <<r.job, "data">> \in tops}
OnWay(blks, tops, js) == {b \in blks : b.job \in js /\ <<b.job, "data">> \in tops}
Inbound(reqs, blks, tops, js) ==
  Cardinality(AskedFor(reqs, tops, js)) + Cardinality(OnWay(blks, tops, js))

\* The blocks of a partition that are not of the job j.
Strangers(content, j) == Cardinality({i \in 1 .. Len(content) : content[i].job # j})

\* The blocks on their way are finitely many.
LEMMA InboundType ==
  ASSUME NEW reqs, NEW blks, IsFiniteSet(reqs), IsFiniteSet(blks), NEW tops, NEW js
  PROVE  /\ IsFiniteSet(AskedFor(reqs, tops, js)) /\ IsFiniteSet(OnWay(blks, tops, js))
         /\ Cardinality(AskedFor(reqs, tops, js)) \in Nat
         /\ Cardinality(OnWay(blks, tops, js)) \in Nat
         /\ Inbound(reqs, blks, tops, js) \in Nat
<1>1. AskedFor(reqs, tops, js) \subseteq reqs /\ OnWay(blks, tops, js) \subseteq blks
  BY DEF AskedFor, OnWay
<1>2. IsFiniteSet(AskedFor(reqs, tops, js)) /\ IsFiniteSet(OnWay(blks, tops, js))
  BY <1>1, FS_Subset
<1>3. /\ Cardinality(AskedFor(reqs, tops, js)) \in Nat
      /\ Cardinality(OnWay(blks, tops, js)) \in Nat
  BY <1>2, FS_CardinalityType
<1> QED
  BY <1>2, <1>3 DEF Inbound

\* Fewer messages, fewer topics or fewer jobs: no more blocks on their way.
LEMMA InboundSubset ==
  ASSUME NEW reqs, NEW blks, IsFiniteSet(reqs), IsFiniteSet(blks), NEW tops, NEW js,
         NEW reqs2 \in SUBSET reqs, NEW blks2 \in SUBSET blks,
         NEW tops2 \in SUBSET tops, NEW js2 \in SUBSET js
  PROVE  Inbound(reqs2, blks2, tops2, js2) <= Inbound(reqs, blks, tops, js)
<1>1. /\ AskedFor(reqs2, tops2, js2) \subseteq AskedFor(reqs, tops, js)
      /\ OnWay(blks2, tops2, js2) \subseteq OnWay(blks, tops, js)
  BY DEF AskedFor, OnWay
<1>2. /\ IsFiniteSet(AskedFor(reqs, tops, js)) /\ IsFiniteSet(OnWay(blks, tops, js))
      /\ Cardinality(AskedFor(reqs, tops, js)) \in Nat
      /\ Cardinality(OnWay(blks, tops, js)) \in Nat
  BY InboundType
<1>3. /\ Cardinality(AskedFor(reqs2, tops2, js2)) <= Cardinality(AskedFor(reqs, tops, js))
      /\ Cardinality(OnWay(blks2, tops2, js2)) <= Cardinality(OnWay(blks, tops, js))
  BY <1>1, <1>2, FS_Subset
<1>4. /\ Cardinality(AskedFor(reqs2, tops2, js2)) \in Nat
      /\ Cardinality(OnWay(blks2, tops2, js2)) \in Nat
  BY <1>1, <1>2, FS_Subset, FS_CardinalityType
<1> QED
  BY <1>2, <1>3, <1>4 DEF Inbound

\* A request that is served becomes one block at most.
LEMMA InboundServe ==
  ASSUME NEW reqs, NEW blks, IsFiniteSet(reqs), IsFiniteSet(blks), NEW tops, NEW js,
         NEW r \in reqs
  PROVE  /\ IsFiniteSet(blks \cup {r})
         /\ r.index < Blocks
              => Inbound(reqs \ {r}, blks \cup {r}, tops, js) <= Inbound(reqs, blks, tops, js)
<1>1. IsFiniteSet(blks \cup {r}) /\ IsFiniteSet(reqs \ {r})
  BY FS_AddElement, FS_RemoveElement
<1>2. CASE r.index < Blocks /\ r.job \in js /\ <<r.job, "data">> \in tops
  <2>1. /\ AskedFor(reqs \ {r}, tops, js) = AskedFor(reqs, tops, js) \ {r}
        /\ r \in AskedFor(reqs, tops, js)
        /\ OnWay(blks \cup {r}, tops, js) = OnWay(blks, tops, js) \cup {r}
    BY <1>2 DEF AskedFor, OnWay
  <2>2. /\ IsFiniteSet(AskedFor(reqs, tops, js)) /\ IsFiniteSet(OnWay(blks, tops, js))
        /\ Cardinality(AskedFor(reqs, tops, js)) \in Nat
        /\ Cardinality(OnWay(blks, tops, js)) \in Nat
    BY InboundType
  <2>3. Cardinality(AskedFor(reqs, tops, js) \ {r}) = Cardinality(AskedFor(reqs, tops, js)) - 1
    BY <2>1, <2>2, FS_RemoveElement
  <2>4. \/ Cardinality(OnWay(blks, tops, js) \cup {r}) = Cardinality(OnWay(blks, tops, js))
        \/ Cardinality(OnWay(blks, tops, js) \cup {r}) = Cardinality(OnWay(blks, tops, js)) + 1
    BY <2>2, FS_AddElement
  <2>5. Inbound(reqs \ {r}, blks \cup {r}, tops, js)
          = Cardinality(AskedFor(reqs, tops, js)) - 1 + Cardinality(OnWay(blks, tops, js) \cup {r})
    BY <2>1, <2>3 DEF Inbound
  <2>6. Inbound(reqs \ {r}, blks \cup {r}, tops, js) <= Inbound(reqs, blks, tops, js)
    BY <2>2, <2>4, <2>5 DEF Inbound
  <2> QED
    BY <1>1, <2>6
<1>3. CASE ~(r.job \in js /\ <<r.job, "data">> \in tops)
  <2>1. /\ AskedFor(reqs \ {r}, tops, js) = AskedFor(reqs, tops, js)
        /\ OnWay(blks \cup {r}, tops, js) = OnWay(blks, tops, js)
    BY <1>3 DEF AskedFor, OnWay
  <2> QED
    BY <1>1, <2>1, InboundType DEF Inbound
<1> QED
  BY <1>1, <1>2, <1>3

\* A block that is delivered, once, is no longer on its way.
LEMMA InboundDeliver ==
  ASSUME NEW reqs, NEW blks, IsFiniteSet(reqs), IsFiniteSet(blks), NEW tops, NEW js,
         NEW b \in blks, <<b.job, "data">> \in tops
  PROVE  Inbound(reqs, blks \ {b}, tops, js) = Inbound(reqs, blks, tops, js) - One(b.job \in js)
<1>1. /\ IsFiniteSet(AskedFor(reqs, tops, js)) /\ IsFiniteSet(OnWay(blks, tops, js))
      /\ Cardinality(AskedFor(reqs, tops, js)) \in Nat
      /\ Cardinality(OnWay(blks, tops, js)) \in Nat
  BY InboundType
<1>2. CASE b.job \in js
  <2>1. OnWay(blks \ {b}, tops, js) = OnWay(blks, tops, js) \ {b} /\ b \in OnWay(blks, tops, js)
    BY <1>2 DEF OnWay
  <2>2. Cardinality(OnWay(blks, tops, js) \ {b}) = Cardinality(OnWay(blks, tops, js)) - 1
    BY <1>1, <2>1, FS_RemoveElement
  <2>3. Cardinality(OnWay(blks \ {b}, tops, js)) = Cardinality(OnWay(blks, tops, js)) - 1
    BY <2>1, <2>2
  <2>4. Inbound(reqs, blks \ {b}, tops, js) = Inbound(reqs, blks, tops, js) - 1
    BY <1>1, <2>3 DEF Inbound
  <2> QED
    BY <1>2, <2>4 DEF One
<1>3. CASE b.job \notin js
  <2>1. OnWay(blks \ {b}, tops, js) = OnWay(blks, tops, js)
    BY <1>3 DEF OnWay
  <2>2. Inbound(reqs, blks \ {b}, tops, js) = Inbound(reqs, blks, tops, js) - 0
    BY <1>1, <2>1 DEF Inbound
  <2> QED
    BY <1>3, <2>2 DEF One
<1> QED
  BY <1>2, <1>3

\* A new request counts if it is within the file and of a job that counts.
LEMMA InboundAsk ==
  ASSUME NEW reqs, NEW blks, IsFiniteSet(reqs), IsFiniteSet(blks), NEW tops, NEW js, NEW r
  PROVE  /\ IsFiniteSet(reqs \cup {r})
         /\ Inbound(reqs \cup {r}, blks, tops, js)
              <= Inbound(reqs, blks, tops, js) + One(r.index < Blocks /\ r.job \in js)
<1>1. /\ IsFiniteSet(AskedFor(reqs, tops, js)) /\ IsFiniteSet(OnWay(blks, tops, js))
      /\ Cardinality(AskedFor(reqs, tops, js)) \in Nat
      /\ Cardinality(OnWay(blks, tops, js)) \in Nat
  BY InboundType
<1>2. IsFiniteSet(reqs \cup {r})
  BY FS_AddElement
<1>3. CASE r.index < Blocks /\ r.job \in js /\ <<r.job, "data">> \in tops
  <2>1. AskedFor(reqs \cup {r}, tops, js) = AskedFor(reqs, tops, js) \cup {r}
    BY <1>3 DEF AskedFor
  <2>2. \/ Cardinality(AskedFor(reqs, tops, js) \cup {r}) = Cardinality(AskedFor(reqs, tops, js))
        \/ Cardinality(AskedFor(reqs, tops, js) \cup {r}) = Cardinality(AskedFor(reqs, tops, js)) + 1
    BY <1>1, FS_AddElement
  <2>3. One(r.index < Blocks /\ r.job \in js) = 1
    BY <1>3 DEF One
  <2> QED
    BY <1>1, <1>2, <2>1, <2>2, <2>3 DEF Inbound
<1>4. CASE ~(r.index < Blocks /\ r.job \in js /\ <<r.job, "data">> \in tops)
  <2>1. AskedFor(reqs \cup {r}, tops, js) = AskedFor(reqs, tops, js)
    BY <1>4 DEF AskedFor
  <2>2. One(r.index < Blocks /\ r.job \in js) \in {0, 1}
    BY DEF One
  <2> QED
    BY <1>1, <1>2, <2>1, <2>2 DEF Inbound
<1> QED
  BY <1>3, <1>4

\* Subscribing a stream of which nothing was asked for adds nothing.
LEMMA InboundSubscribe ==
  ASSUME NEW reqs, NEW blks, NEW tops, NEW js, NEW j,
         \A r \in reqs \cup blks : r.job # j
  PROVE  Inbound(reqs, blks, tops \cup {<<j, "data">>, <<j, "rejected">>}, js)
           = Inbound(reqs, blks, tops, js)
<1> DEFINE more == tops \cup {<<j, "data">>, <<j, "rejected">>}
<1>1. \A r \in reqs \cup blks : <<r.job, "data">> \in more <=> <<r.job, "data">> \in tops
  OBVIOUS
<1> HIDE DEF more
<1>2. AskedFor(reqs, more, js) = AskedFor(reqs, tops, js) /\ OnWay(blks, more, js) = OnWay(blks, tops, js)
  BY <1>1 DEF AskedFor, OnWay
<1> QED
  BY <1>2 DEF Inbound, more

\* Nothing reaches a session without streams.
LEMMA InboundNone ==
  ASSUME NEW reqs, NEW blks, NEW tops \in SUBSET {<<0, "notify">>}, NEW js
  PROVE  Inbound(reqs, blks, tops, js) = 0
<1>1. \A j : <<j, "data">> \notin tops
  OBVIOUS
<1>2. AskedFor(reqs, tops, js) = {} /\ OnWay(blks, tops, js) = {}
  BY <1>1 DEF AskedFor, OnWay
<1> QED
  BY <1>2, FS_EmptySet DEF Inbound

\* Strangers in a partition: none in an erased one, one more when one is written,
\* all of them in the image of another job.
LEMMA StrangersLemma ==
  ASSUME NEW c \in Seq(StreamBlocks), NEW j
  PROVE  /\ Strangers(c, j) \in Nat /\ Strangers(<<>>, j) = 0
         /\ \A b \in StreamBlocks : Strangers(Append(c, b), j) = Strangers(c, j) + One(b.job # j)
         /\ \A i \in Jobs : c = Image(i) /\ i # j => Strangers(c, j) = Blocks
<1> DEFINE S(d) == {i \in 1 .. Len(d) : d[i].job # j}
<1>1. IsFiniteSet(S(c)) /\ Cardinality(S(c)) \in Nat /\ Len(c) \in Nat
  <2>1. S(c) \subseteq 1 .. Len(c) /\ IsFiniteSet(1 .. Len(c)) /\ Len(c) \in Nat
    BY FS_Interval, LenProperties
  <2> QED
    BY <2>1, FS_Subset, FS_CardinalityType
<1>2. S(<<>>) = {}
  BY EmptySeq
<1>3. ASSUME NEW b \in StreamBlocks
      PROVE  Cardinality(S(Append(c, b))) = Cardinality(S(c)) + One(b.job # j)
  <2> DEFINE d == Append(c, b)
  <2>1. /\ Len(d) = Len(c) + 1 /\ d[Len(c) + 1] = b
        /\ \A i \in 1 .. Len(c) : d[i] = c[i]
    BY AppendProperties
  <2> HIDE DEF d
  <2>2. S(d) = IF b.job # j THEN S(c) \cup {Len(c) + 1} ELSE S(c)
    BY <1>1, <2>1
  <2>3. Len(c) + 1 \notin S(c)
    BY <1>1
  <2> HIDE DEF S
  <2>4. Cardinality(S(c) \cup {Len(c) + 1}) = Cardinality(S(c)) + 1
    BY <1>1, <2>3, FS_AddElement
  <2>5. CASE b.job # j
    BY <2>2, <2>4, <2>5 DEF One, d
  <2>6. CASE b.job = j
    BY <1>1, <2>2, <2>6 DEF One, d
  <2> QED
    BY <2>5, <2>6
<1>4. ASSUME NEW i \in Jobs, c = Image(i), i # j PROVE Cardinality(S(c)) = Blocks
  <2>1. Len(c) = Blocks /\ Blocks \in Nat \ {0}
    BY <1>4, ImageLemma, ConstantsAssumption
  <2>2. \A k \in 1 .. Blocks : c[k].job = i
    BY <1>4 DEF Image
  <2>3. S(c) = 1 .. Blocks
    BY <1>4, <2>1, <2>2
  <2>4. Cardinality(1 .. Blocks) = IF 1 > Blocks THEN 0 ELSE Blocks - 1 + 1
    BY <2>1, FS_Interval
  <2> QED
    <3>1. Cardinality(1 .. Blocks) = Blocks
      BY <2>1, <2>4
    <3> QED
      BY <2>3, <3>1
<1> QED
  BY <1>1, <1>2, <1>3, <1>4, FS_EmptySet DEF Strangers

-----------------------------------------------------------------------------
\* One job at a time, while none is cancelled.

\* A job has been announced and has not ended; and its document has been handled.
Open == \E j \in notified : jobStatus[j] \notin Terminal
Working == Open /\ ~Waiting(eventQueue, "ReceivedJobDocument")

\* Jobs are announced in order, each when those before it have ended, and the
\* buffer holds the last one.
Announced ==
  /\ \A j \in Jobs : jobStatus[j] # "QUEUED" => j \in notified
  /\ \A i \in notified, j \in Jobs : j < i => jobStatus[j] \in Terminal
  /\ jobBuffer \in Jobs => jobBuffer \in notified /\ \A i \in notified : i <= jobBuffer

\* A document that is about to be handled, or is being handled, is that of an open
\* job; the job the agent reports on before that has ended, and one that has not
\* is the one whose stream is asked for.
Handled ==
  /\ AtMostOne(eventQueue, "ReceivedJobDocument")
  /\ Waiting(eventQueue, "ReceivedJobDocument") \/ pc \in {"accept", "subscribe", "reject"}
       => jobBuffer \in notified /\ jobStatus[jobBuffer] \notin Terminal
  /\ pc \in {"accept", "subscribe", "reject"} => ~Waiting(eventQueue, "ReceivedJobDocument")
  /\ Waiting(eventQueue, "ReceivedJobDocument") => stream # jobBuffer
  /\ pc \in {"accept", "subscribe"} => stream = jobBuffer
  /\ pc = "accept" => globalJobId = jobBuffer
  /\ pc = "subscribe" => filters = jobBuffer
  /\ stream \in Jobs => stream \in notified
  /\ globalJobId \in Jobs =>
       /\ globalJobId \in notified
       /\ Waiting(eventQueue, "ReceivedJobDocument") \/ pc = "reject"
            => jobStatus[globalJobId] \in Terminal
       /\ jobStatus[globalJobId] \notin Terminal => globalJobId = stream

\* Blocks are asked for only of streams of announced jobs, and not of one whose
\* topics are yet to be subscribed.
Streams ==
  /\ IsFiniteSet(requests) /\ IsFiniteSet(blocks)
  /\ \A r \in requests \cup blocks :
       /\ r.job \in notified
       /\ Waiting(eventQueue, "ReceivedJobDocument") \/ pc \in {"accept", "subscribe"}
            => r.job # jobBuffer

Stopped == pc = "off" => ~bufferUsed /\ stream = None

Serial == Announced /\ Handled /\ Streams /\ Stopped

\* The next job is announced only when there is no open one.
LEMMA NotifyLemma ==
  ASSUME OtaInv, Serial, NEW j \in Jobs, NotifyNext(j)
  PROVE  ~Open
<1>1. \A i \in notified : i \in Jobs /\ i \in Nat /\ j \in Nat
  BY ConstantsAssumption DEF OtaInv, Typing
<1>2. \A i \in notified : i # j /\ ~(j < i)
  BY DEF NotifyNext, Serial, Announced, Terminal
<1>3. \A i \in notified : i < j
  BY <1>1, <1>2
<1> QED
  BY <1>1, <1>3 DEF NotifyNext, Open

\* A report changes the status of the job in globalJobId only, if it has not ended.
LEMMA ReportLemma ==
  ASSUME OtaInv, NEW status, UpdateJob(status), NEW j \in Jobs
  PROVE  \/ jobStatus'[j] = jobStatus[j]
         \/ j = globalJobId /\ jobStatus[j] \notin Terminal /\ jobStatus'[j] = status
BY DEF UpdateJob, OtaInv, Typing

\* Steps that take no document and leave jobs and messages alone.
LEMMA SameSerial ==
  ASSUME OtaInv, Serial, pc' \notin {"off", "accept", "subscribe", "reject"},
         UNCHANGED <<jobStatus, notified, requests, blocks, job>>,
         Waiting(eventQueue', "ReceivedJobDocument") => Waiting(eventQueue, "ReceivedJobDocument"),
         AtMostOne(eventQueue', "ReceivedJobDocument")
  PROVE  Serial'
BY DEF Serial, Announced, Handled, Streams, Stopped, job

\* The job that is announced is the next one, and its document the only one.
LEMMA NotifyNextSerial ==
  ASSUME OtaInv, Serial, NEW j \in Jobs, NotifyNext(j)
  PROVE  Serial'
<1>1. \A i \in notified : i \in Jobs /\ jobStatus[i] \in Terminal /\ i \in Nat /\ j \in Nat
  BY NotifyLemma, ConstantsAssumption DEF Open, OtaInv, Typing
<1>2. \A i \in notified : i # j /\ i <= j
  BY <1>1 DEF NotifyNext, Serial, Announced, Terminal
<1>3. /\ jobStatus[j] = "QUEUED" /\ notified' = notified \cup {j} /\ jobBuffer' = j
      /\ eventQueue' = Enqueue(eventQueue, "ReceivedJobDocument")
      /\ UNCHANGED <<jobStatus, requests, blocks, pc, bufferUsed, globalJobId, stream, filters>>
      /\ "QUEUED" \notin Terminal /\ j \in Nat
  BY ConstantsAssumption DEF NotifyNext, data, Terminal
<1>4. /\ ~Waiting(eventQueue, "ReceivedJobDocument")
      /\ pc \notin {"accept", "subscribe", "reject"}
  BY <1>1 DEF Serial, Handled
<1>5. /\ eventQueue \in Seq(Events) /\ Len(eventQueue) <= QueueLength
      /\ "ReceivedJobDocument" \in Events
  BY DEF OtaInv, Typing, Events
<1>6. AtMostOne(eventQueue', "ReceivedJobDocument")
  BY <1>3, <1>4, <1>5, EnqueueLemma DEF Serial, Handled
<1>7. Announced'
  <2>1. \A i \in Jobs : i < j => jobStatus[i] \in Terminal
    BY DEF NotifyNext
  <2> QED
    BY <1>1, <1>2, <1>3, <2>1 DEF Serial, Announced
<1>8. Handled'
  <2>1. stream \in Jobs \cup {None} /\ None \notin Jobs /\ j \notin notified
    BY NoneLemma DEF OtaInv, Typing, NotifyNext
  <2>2. stream # j
    BY <2>1 DEF Serial, Handled
  <2> QED
    BY <1>1, <1>3, <1>4, <1>6, <2>2 DEF Serial, Handled
<1>9. Streams'
  BY <1>2, <1>3, <1>4 DEF Serial, Streams
<1> QED
  BY <1>3, <1>7, <1>8, <1>9 DEF Serial, Stopped

\* Sending an event leaves those that wait.
LEMMA KeepLemma ==
  ASSUME NEW q \in Seq(Events), NEW e \in Events, NEW f, Waiting(q, f)
  PROVE  Waiting(Enqueue(q, e), f)
<1>1. CASE Len(q) < QueueLength
  <2>1. /\ Enqueue(q, e) = Append(q, e) /\ Len(Append(q, e)) = Len(q) + 1 /\ Len(q) \in Nat
        /\ \A i \in 1 .. Len(q) : Append(q, e)[i] = q[i]
    BY <1>1, AppendProperties DEF Enqueue
  <2> QED
    BY <2>1 DEF Waiting
<1> QED
  BY <1>1 DEF Enqueue

\* The network and the callback: messages disappear, or become blocks.
LEMMA NetworkSerial ==
  ASSUME OtaInv, Serial,
         UNCHANGED <<jobStatus, notified, pc, job>>,
         requests' \subseteq requests, blocks' \subseteq blocks \cup requests,
         IsFiniteSet(blocks'), bufferUsed' = bufferUsed \/ pc # "off",
         Waiting(eventQueue', "ReceivedJobDocument") <=> Waiting(eventQueue, "ReceivedJobDocument"),
         AtMostOne(eventQueue', "ReceivedJobDocument")
  PROVE  Serial'
<1>1. IsFiniteSet(requests')
  BY FS_Subset DEF Serial, Streams
<1> QED
  BY <1>1 DEF Serial, Announced, Handled, Streams, Stopped, job

\* A request becomes a block of the same stream, or is lost.
LEMMA CloudSerial ==
  ASSUME OtaInv, Serial, (\E r \in requests : ServeBlock(r)) \/ LoseMessage
  PROVE  Serial'
<1>1. /\ UNCHANGED <<jobStatus, notified, pc, job, bufferUsed, eventQueue>>
      /\ requests' \subseteq requests /\ blocks' \subseteq blocks \cup requests
  BY DEF ServeBlock, LoseMessage, events, data
<1>2. IsFiniteSet(blocks')
  BY <1>1, FS_Subset, FS_Union DEF Serial, Streams
<1> QED
  BY <1>1, <1>2, NetworkSerial DEF Serial, Handled

\* A block becomes an event that is no document.
LEMMA AgentSerial ==
  ASSUME OtaInv, Serial, NEW b \in blocks, StreamDataCallback(b) \/ Unheard(b)
  PROVE  Serial'
<1>1. /\ UNCHANGED <<jobStatus, notified, pc, job, requests>>
      /\ blocks' \subseteq blocks
      /\ bufferUsed' = bufferUsed \/ pc # "off"
      /\ \/ eventQueue' = eventQueue
         \/ eventQueue' = Enqueue(eventQueue, "ReceivedFileBlock")
  BY DEF StreamDataCallback, Delivered, Unheard, events, data, OtaInv, Off
<1>2. IsFiniteSet(blocks')
  BY <1>1, FS_Subset DEF Serial, Streams
<1>3. /\ Waiting(eventQueue', "ReceivedJobDocument") <=> Waiting(eventQueue, "ReceivedJobDocument")
      /\ AtMostOne(eventQueue', "ReceivedJobDocument")
  <2>1. /\ eventQueue \in Seq(Events) /\ Len(eventQueue) <= QueueLength
        /\ "ReceivedFileBlock" \in Events
        /\ AtMostOne(eventQueue, "ReceivedJobDocument")
    BY DEF OtaInv, Typing, Events, Serial, Handled
  <2>2. CASE eventQueue' = Enqueue(eventQueue, "ReceivedFileBlock")
    <3>1. /\ Waiting(eventQueue', "ReceivedJobDocument") => Waiting(eventQueue, "ReceivedJobDocument")
          /\ AtMostOne(eventQueue', "ReceivedJobDocument")
      BY <2>1, <2>2, EnqueueLemma
    <3>2. Waiting(eventQueue, "ReceivedJobDocument") => Waiting(eventQueue', "ReceivedJobDocument")
      BY <2>1, <2>2, KeepLemma
    <3> QED
      BY <3>1, <3>2
  <2> QED
    BY <1>1, <2>1, <2>2
<1> QED
  BY <1>1, <1>2, <1>3, NetworkSerial

\* A reset forgets what was being handled, and the cloud forgets nothing.
LEMMA RestartSerial ==
  ASSUME OtaInv, Serial, Restart, UNCHANGED cloud
  PROVE  Serial'
BY EmptyLemma, NoneLemma
   DEF Restart, cloud, Serial, Announced, Handled, Streams, Stopped

\* The first event is no document.
LEMMA BootSerial ==
  ASSUME OtaInv, Serial, Boot
  PROVE  Serial'
<1>1. pc = "off" /\ ~Waiting(eventQueue, "ReceivedJobDocument")
  BY EmptyLemma DEF Boot, OtaInv, Off
<1>2. eventQueue' = <<"Ready">> /\ Len(eventQueue') = 1 /\ eventQueue'[1] = "Ready"
  BY DEF Boot
<1>3. /\ AtMostOne(eventQueue', "ReceivedJobDocument")
      /\ ~Waiting(eventQueue', "ReceivedJobDocument")
  BY <1>2 DEF AtMostOne, Waiting
<1> QED
  BY <1>3, SameSerial DEF Boot, cloud

\* Taking an event that is no document.
LEMMA TakeSerial ==
  ASSUME OtaInv, Serial, NEW event, Take(event)
  PROVE  /\ Waiting(eventQueue', "ReceivedJobDocument") => Waiting(eventQueue, "ReceivedJobDocument")
         /\ AtMostOne(eventQueue', "ReceivedJobDocument")
         /\ event = "ReceivedJobDocument" => ~Waiting(eventQueue', "ReceivedJobDocument")
BY TailLemma DEF Take, OtaInv, Typing, Serial, Handled

\* Sending an event that is no document.
LEMMA SendSerial ==
  ASSUME OtaInv, Serial, NEW event \in Events \ {"ReceivedJobDocument"},
         eventQueue' = Enqueue(eventQueue, event)
  PROVE  /\ Waiting(eventQueue', "ReceivedJobDocument") => Waiting(eventQueue, "ReceivedJobDocument")
         /\ AtMostOne(eventQueue', "ReceivedJobDocument")
BY EnqueueLemma DEF OtaInv, Typing, Serial, Handled

\* Events that say nothing of a job.
LEMMA ReceiveSerial ==
  ASSUME OtaInv, Serial, ReceiveReady \/ ReceiveRequest \/ ReceiveFinish
  PROVE  Serial'
<1>1. /\ \E event : Take(event)
      /\ pc' \in {"receive", "request", "succeed", "fail"}
      /\ UNCHANGED <<cloud, job>>
  BY DEF ReceiveReady, ReceiveRequest, ReceiveFinish, Take
<1> QED
  BY <1>1, TakeSerial, SameSerial DEF cloud

\* The document that is handled is that of the open job.
LEMMA ReceiveJobDocumentSerial ==
  ASSUME OtaInv, Serial, ReceiveJobDocument
  PROVE  Serial'
<1>1. /\ Take("ReceivedJobDocument") /\ pc' \in {"accept", "reject"}
      /\ UNCHANGED <<cloud, jobBuffer, filters, data>>
      /\ stream' \in {stream, jobBuffer} /\ globalJobId' \in {globalJobId, jobBuffer}
      /\ pc' = "accept" => stream' = jobBuffer /\ globalJobId' = jobBuffer
      /\ pc' = "reject" => globalJobId' = globalJobId
  BY DEF ReceiveJobDocument
<1>2. /\ Waiting(eventQueue, "ReceivedJobDocument")
      /\ ~Waiting(eventQueue', "ReceivedJobDocument")
      /\ AtMostOne(eventQueue', "ReceivedJobDocument")
  BY <1>1, TakeSerial, TakeLemma
<1>3. jobBuffer \in notified /\ jobStatus[jobBuffer] \notin Terminal
  BY <1>2 DEF Serial, Handled
<1>4. Announced'
  BY <1>1 DEF Serial, Announced, cloud
<1>5. Handled'
  BY <1>1, <1>2, <1>3 DEF Serial, Handled, cloud
<1>6. Streams' /\ Stopped'
  BY <1>1, <1>2 DEF Serial, Streams, Stopped, cloud
<1> QED
  BY <1>4, <1>5, <1>6 DEF Serial

\* The job that is accepted is open, and stays so.
LEMMA AcceptJobSerial ==
  ASSUME OtaInv, Serial, AcceptJob
  PROVE  Serial' /\ (Open' <=> Open)
<1>1. /\ pc = "accept" /\ pc' = "subscribe" /\ filters' = jobBuffer
      /\ UNCHANGED <<notified, requests, blocks, eventQueue, jobBuffer, globalJobId, stream, data>>
  BY DEF AcceptJob
<1>2. jobBuffer \in notified /\ globalJobId = jobBuffer
  BY <1>1 DEF Serial, Handled
<1>3. \A j \in Jobs : /\ jobStatus'[j] \in Terminal <=> jobStatus[j] \in Terminal
                      /\ jobStatus'[j] = jobStatus[j] \/ j \in notified
  BY <1>2, ReportLemma DEF AcceptJob, Terminal
<1>4. \A j \in notified : j \in Jobs
  BY DEF OtaInv, Typing
<1>5. Announced'
  BY <1>1, <1>3, <1>4 DEF Serial, Announced
<1>6. Handled'
  BY <1>1, <1>3, <1>4 DEF Serial, Handled
<1>7. Streams' /\ Stopped'
  BY <1>1 DEF Serial, Streams, Stopped
<1> QED
  BY <1>1, <1>3, <1>4, <1>5, <1>6, <1>7 DEF Serial, Open

\* The stream that is subscribed is that of the job.
LEMMA SubscribeStreamSerial ==
  ASSUME OtaInv, Serial, SubscribeStream
  PROVE  Serial'
<1>1. /\ eventQueue' = Enqueue(eventQueue, "RequestFileBlock") /\ pc' = "receive"
      /\ UNCHANGED <<cloud, job>>
      /\ "RequestFileBlock" \in Events \ {"ReceivedJobDocument"}
  BY DEF SubscribeStream, Events
<1> QED
  BY <1>1, SendSerial, SameSerial DEF cloud

\* The reports of the end of a job.  A refusal is sent for the job before, which
\* has ended.
LEMMA ReportSerial ==
  ASSUME OtaInv, Serial, RejectJob \/ Succeed \/ Fail
  PROVE  Serial' /\ (RejectJob => jobStatus' = jobStatus)
<1>1. /\ pc' \in {"receive", "restart"}
      /\ UNCHANGED <<notified, requests, blocks, job, data>>
      /\ \E status \in Terminal : UpdateJob(status)
      /\ \/ eventQueue' = Enqueue(eventQueue, "Ready") \/ eventQueue' = eventQueue
      /\ "Ready" \in Events \ {"ReceivedJobDocument"}
  BY DEF RejectJob, Succeed, Fail, Terminal, Events
<1>2. /\ Waiting(eventQueue', "ReceivedJobDocument") => Waiting(eventQueue, "ReceivedJobDocument")
      /\ AtMostOne(eventQueue', "ReceivedJobDocument")
  BY <1>1, SendSerial DEF Serial, Handled
<1>3. \A j \in Jobs : /\ jobStatus[j] \in Terminal => jobStatus'[j] \in Terminal
                      /\ jobStatus'[j] = jobStatus[j] \/ (j = globalJobId /\ jobStatus[j] \notin Terminal)
  BY <1>1, ReportLemma
<1>4. \A j \in notified : j \in Jobs
  BY DEF OtaInv, Typing
<1>5. RejectJob => jobStatus' = jobStatus
  BY DEF RejectJob, UpdateJob, Serial, Handled
<1>6. Announced'
  BY <1>1, <1>3, <1>4 DEF Serial, Announced, Handled, job
<1>7. Handled'
  <2>1. /\ stream' = stream /\ globalJobId' = globalJobId /\ jobBuffer' = jobBuffer
        /\ filters' = filters
    BY <1>1 DEF job
  <2>2. Waiting(eventQueue, "ReceivedJobDocument")
          => jobBuffer \in notified /\ jobStatus'[jobBuffer] \notin Terminal
    BY <1>3, <1>4 DEF Serial, Handled
  <2> QED
    BY <1>1, <1>2, <1>3, <2>1, <2>2 DEF Serial, Handled
<1>8. Streams' /\ Stopped'
  BY <1>1, <1>2 DEF Serial, Streams, Stopped, job, data
<1> QED
  BY <1>5, <1>6, <1>7, <1>8 DEF Serial

\* What is asked for is of a job that was announced.
LEMMA PublishRequestSerial ==
  ASSUME OtaInv, Serial, PublishRequest
  PROVE  Serial'
<1>1. /\ pc = "request" /\ pc' = "receive"
      /\ requests' = requests \cup {[job |-> stream, index |-> currentBlockOffset]}
      /\ UNCHANGED <<jobStatus, notified, blocks, eventQueue, job, data>>
  BY DEF PublishRequest
<1>2. stream \in notified
  BY <1>1 DEF OtaInv, Typing, Pointers, Serial, Handled
<1>3. IsFiniteSet(requests')
  BY <1>1, FS_AddElement DEF Serial, Streams
<1>4. ~Waiting(eventQueue, "ReceivedJobDocument") \/ stream # jobBuffer
  BY DEF Serial, Handled
<1> QED
  BY <1>1, <1>2, <1>3, <1>4 DEF Serial, Announced, Handled, Streams, Stopped, job

\* A block that is handled says nothing of a job, unless the device restarts.
LEMMA ReceiveFileBlockSerial ==
  ASSUME OtaInv, Serial, ReceiveFileBlock
  PROVE  Serial'
<1>1. CASE Restart /\ UNCHANGED cloud
  BY <1>1, RestartSerial
<1>2. CASE ~(Restart /\ UNCHANGED cloud)
  <2> DEFINE rest == Tail(eventQueue)
  <2>1. /\ pc = "receive" /\ eventQueue # <<>> /\ Head(eventQueue) = "ReceivedFileBlock"
        /\ UNCHANGED <<cloud, pc, job>> /\ eventQueue' = Enqueue(rest, NextEvent)
    BY <1>2 DEF ReceiveFileBlock
  <2>2. /\ eventQueue \in Seq(Events) /\ Len(eventQueue) <= QueueLength
        /\ AtMostOne(eventQueue, "ReceivedJobDocument")
    BY DEF OtaInv, Typing, Serial, Handled
  <2>3. /\ rest \in Seq(Events) /\ Len(rest) <= QueueLength
        /\ Waiting(rest, "ReceivedJobDocument") => Waiting(eventQueue, "ReceivedJobDocument")
        /\ AtMostOne(rest, "ReceivedJobDocument")
    BY <2>1, <2>2, TailLemma
  <2>4. NextEvent \in Events /\ NextEvent # "ReceivedJobDocument"
    BY DEF NextEvent, Events
  <2> HIDE DEF rest
  <2>5. /\ Waiting(eventQueue', "ReceivedJobDocument") => Waiting(eventQueue, "ReceivedJobDocument")
        /\ AtMostOne(eventQueue', "ReceivedJobDocument")
    BY <2>1, <2>3, <2>4, EnqueueLemma
  <2> QED
    BY <2>1, <2>5, SameSerial DEF cloud
<1> QED
  BY <1>1, <1>2

-----------------------------------------------------------------------------
\* The blocks a download can expect, and the places they take in the queue.

Readies == Count(eventQueue, "Ready")
Documents == Count(eventQueue, "ReceivedJobDocument")
Asks == Count(eventQueue, "RequestFileBlock")
Arrivals == Count(eventQueue, "ReceivedFileBlock")
Finishes == Count(eventQueue, "FinishDownload")

\* A garbled block keeps the data buffer, and none can follow it.
Stuck == bufferUsed /\ ~Waiting(eventQueue, "ReceivedFileBlock")

\* No block of the job in progress has been asked for yet.
Idle == ~Working \/ pc \in {"accept", "subscribe"}

\* The blocks that may still be handled, and the requests for more.
Owed == Inbound(requests, blocks, topics, Jobs) + Arrivals
Asking == IF pc \in {"accept", "subscribe", "request"} THEN 1 ELSE 0
Pending == Asks + Asking
Load == Owed + Pending

\* The one block of a download in progress.
Due == IF Working /\ currentBlockOffset < Blocks THEN 1 ELSE 0

\* One block is on its way at a time, and one more for each that came twice; what
\* is handled beyond the last block came twice.
Loads ==
  /\ Load <= duplicates + Due
  /\ stream # None /\ currentBlockOffset >= Blocks
       => Owed + currentBlockOffset <= duplicates + Blocks

\* numOfBlocksRemaining has wrapped once at most.
Counters ==
  stream # None =>
    /\ currentBlockOffset <= Blocks => numOfBlocksRemaining = Blocks - currentBlockOffset
    /\ currentBlockOffset > Blocks
         => numOfBlocksRemaining = MaxCounter + 1 + Blocks - currentBlockOffset

\* A download finishes once, after its last block, and its job ends after that.
Phase ==
  /\ Finishes >= 1 \/ pc \in {"succeed", "fail"} => Working /\ currentBlockOffset >= Blocks
  /\ stream # None /\ ~Working => currentBlockOffset >= Blocks
  /\ pc \in {"accept", "subscribe"} => currentBlockOffset = 0
  /\ stream # None /\ currentBlockOffset >= Blocks /\ Finishes = 0 => handle = "closed"

\* What waits in front of what.
Order ==
  /\ Before(eventQueue, "FinishDownload", "ReceivedFileBlock")
  /\ Before(eventQueue, "Ready", "FinishDownload")
  /\ Before(eventQueue, "Ready", "ReceivedJobDocument")
  /\ Before(eventQueue, "RequestFileBlock", "FinishDownload")
  /\ OneBehind(eventQueue, "RequestFileBlock", "ReceivedFileBlock")
  /\ Idle => Before(eventQueue, "RequestFileBlock", "ReceivedFileBlock")

\* How many of each wait.
Tally ==
  /\ Readies <= 1 /\ Finishes <= 1 /\ Asks + Finishes <= 2
  /\ Idle => Asks + Finishes <= 1
  /\ pc \in {"succeed", "restart", "fail"} => Readies = 0 /\ Asks + Finishes = 0
  /\ pc \in {"accept", "subscribe", "reject"} => Readies = 0 /\ Finishes = 0

\* The blocks of other streams that are on their way, in the data buffer and in
\* the partition being written: each came twice.
OnTheWay == Inbound(requests, blocks, topics, Jobs \ {stream})
InBuffer == IF Arrivals >= 1 /\ buffer # Garbled /\ buffer.job # stream THEN 1 ELSE 0
InPartition == IF handle = "open" THEN Strangers(flash[UpdateSlot], stream) ELSE 0
Elsewhere == OnTheWay + InBuffer
Misplaced == Elsewhere + InPartition
Foreign == stream # None => Misplaced <= duplicates

Orderly == Loads /\ Counters /\ Phase /\ Order /\ Tally /\ Foreign

\* With the buffer kept no block follows, and the events only become fewer: what the
\* call that pc names may still send counts, and the document of a next job.
Pledge == CASE pc = "fail" -> 2
            [] pc \in {"accept", "subscribe", "reject"} -> 1
            [] OTHER -> 0
NextJob == IF Open THEN 0 ELSE 1
Spent ==
  /\ Len(eventQueue) + Pledge + Finishes + NextJob <= 4
  /\ Finishes >= 1 => handle = "closed" \/ flash[UpdateSlot] = <<>>
  /\ pc \notin {"succeed", "restart"}

\* What the agent is about to report.
Earned == pc = "succeed" => flash[bootSlot] = Image(stream) \/ duplicates >= Blocks

Sound == (Stuck => Spent) /\ (~Stuck => Orderly) /\ Earned

RoomInv == Serial /\ (duplicates <= MaxCounter => Sound)

-----------------------------------------------------------------------------
\* What the arithmetic needs to know.

\* From n blocks and d duplicates to m and e: what is more came twice.
Covers(d, n, e, m) == m + d <= n + e

\* What is covered stays within the same bounds, and so does a sum with it.
LEMMA CoverLemma ==
  /\ \A d, n, e, m \in Nat :
       (m <= n /\ d <= e) \/ (m <= n + 1 /\ e = d + 1) => Covers(d, n, e, m)
  /\ \A d, n, e, m, c \in Nat : Covers(d, n, e, m) => Covers(d, n + c, e, m + c)
  /\ \A d, n, e, m \in Nat : Covers(d, n, e, m) /\ n <= d => m <= e
  /\ \A d, n, e, m, b \in Nat : Covers(d, n, e, m) /\ n <= d + b => m <= e + b
  /\ \A d, n, e, m, b, c \in Nat : Covers(d, n, e, m) /\ n + c <= d + b => m + c <= e + b
BY DEF Covers

\* Everything that is counted is a number.
LEMMA Sizes ==
  ASSUME OtaInv, Serial
  PROVE  /\ Readies \in Nat /\ Documents \in Nat /\ Asks \in Nat /\ Arrivals \in Nat
         /\ Finishes \in Nat /\ Documents <= 1 /\ Arrivals <= 1
         /\ Len(eventQueue) = Readies + Documents + Asks + Arrivals + Finishes
         /\ Documents = 0 <=> ~Waiting(eventQueue, "ReceivedJobDocument")
         /\ Arrivals = 0 <=> ~Waiting(eventQueue, "ReceivedFileBlock")
         /\ Finishes = 0 <=> ~Waiting(eventQueue, "FinishDownload")
         /\ Readies = 0 <=> ~Waiting(eventQueue, "Ready")
         /\ Asks = 0 <=> ~Waiting(eventQueue, "RequestFileBlock")
         /\ \A js : Inbound(requests, blocks, topics, js) \in Nat
         /\ Owed \in Nat /\ duplicates \in Nat /\ currentBlockOffset \in Nat
         /\ Blocks \in Nat \ {0} /\ MaxCounter \in Nat
<1>1. eventQueue \in Seq(Events)
  BY DEF OtaInv, Typing
<1>2. AtMostOne(eventQueue, "ReceivedJobDocument") /\ AtMostOne(eventQueue, "ReceivedFileBlock")
  BY DEF Serial, Handled, OtaInv, Owner
<1>3. /\ Readies \in Nat /\ Documents \in Nat /\ Asks \in Nat /\ Arrivals \in Nat /\ Finishes \in Nat
      /\ Documents <= 1 /\ Arrivals <= 1
      /\ Documents = 0 <=> ~Waiting(eventQueue, "ReceivedJobDocument")
      /\ Arrivals = 0 <=> ~Waiting(eventQueue, "ReceivedFileBlock")
      /\ Finishes = 0 <=> ~Waiting(eventQueue, "FinishDownload")
      /\ Readies = 0 <=> ~Waiting(eventQueue, "Ready")
      /\ Asks = 0 <=> ~Waiting(eventQueue, "RequestFileBlock")
  BY <1>1, <1>2, CountLemma DEF Readies, Documents, Asks, Arrivals, Finishes
<1>4. Len(eventQueue) = Readies + Documents + Asks + Arrivals + Finishes
  BY <1>1, LenLemma DEF Readies, Documents, Asks, Arrivals, Finishes
<1>5. \A js : Inbound(requests, blocks, topics, js) \in Nat
  BY InboundType DEF Serial, Streams
<1>6. Owed \in Nat
  BY <1>3, <1>5 DEF Owed
<1>7. /\ duplicates \in Nat /\ currentBlockOffset \in Nat /\ Blocks \in Nat \ {0}
      /\ MaxCounter \in Nat
  BY ConstantsAssumption DEF OtaInv, Typing
<1> QED
  BY <1>3, <1>4, <1>5, <1>6, <1>7

\* Those of them that are single numbers.
LEMMA Numbers ==
  ASSUME OtaInv, Serial
  PROVE  /\ Readies \in Nat /\ Documents \in Nat /\ Asks \in Nat /\ Arrivals \in Nat
         /\ Finishes \in Nat /\ Documents <= 1 /\ Arrivals <= 1
         /\ Owed \in Nat /\ duplicates \in Nat /\ currentBlockOffset \in Nat
         /\ Blocks \in Nat \ {0} /\ MaxCounter \in Nat
BY Sizes

\* Four events are the most.
LEMMA RoomLemma ==
  ASSUME OtaInv, Serial, Sound
  PROVE  Len(eventQueue) <= 4 /\ Len(eventQueue) \in Nat
<1>0. /\ Readies \in Nat /\ Documents \in Nat /\ Asks \in Nat /\ Arrivals \in Nat
      /\ Finishes \in Nat /\ Documents <= 1 /\ Arrivals <= 1
      /\ Len(eventQueue) = Readies + Documents + Asks + Arrivals + Finishes
  BY Sizes
<1>1. CASE Stuck
  <2>1. Len(eventQueue) + Pledge + Finishes + NextJob <= 4
    BY <1>1 DEF Sound, Spent
  <2>2. Pledge \in Nat /\ NextJob \in Nat
    BY DEF Pledge, NextJob
  <2> QED
    BY <1>0, <2>1, <2>2
<1>2. CASE ~Stuck
  <2>1. Tally
    BY <1>2 DEF Sound, Orderly
  <2>2. Documents >= 1 => Idle
    BY Sizes DEF Idle, Working
  <2> QED
    BY <1>0, <2>1, <2>2 DEF Tally
<1> QED
  BY <1>1, <1>2

\* Sending an event, when there is room for it.
LEMMA SendTally ==
  ASSUME OtaInv, Len(eventQueue) < QueueLength,
         NEW event \in Events, eventQueue' = Enqueue(eventQueue, event)
  PROVE  /\ Len(eventQueue') = Len(eventQueue) + 1
         /\ Readies' = IF event = "Ready" THEN Readies + 1 ELSE Readies
         /\ Documents' = IF event = "ReceivedJobDocument" THEN Documents + 1 ELSE Documents
         /\ Asks' = IF event = "RequestFileBlock" THEN Asks + 1 ELSE Asks
         /\ Arrivals' = IF event = "ReceivedFileBlock" THEN Arrivals + 1 ELSE Arrivals
         /\ Finishes' = IF event = "FinishDownload" THEN Finishes + 1 ELSE Finishes
         /\ \A f : Waiting(eventQueue', f) <=> f = event \/ Waiting(eventQueue, f)
         /\ \A f, g : Before(eventQueue, f, g) /\ (f = event => g # event /\ ~Waiting(eventQueue, g))
                        => Before(eventQueue', f, g)
         /\ \A f, g : OneBehind(eventQueue, f, g) /\ f # event => OneBehind(eventQueue', f, g)
         /\ \A f, g : Before(eventQueue, f, g) /\ f # g => OneBehind(eventQueue', f, g)
<1>1. eventQueue \in Seq(Events)
  BY DEF OtaInv, Typing
<1>2. \A f : Count(eventQueue, f) \in Nat
  BY <1>1, CountLemma
<1>3. \A f : Count(eventQueue', f) = Count(eventQueue, f) + One(f = event)
  BY <1>1, SendCount
<1>4. \A f : Count(eventQueue', f) = IF event = f THEN Count(eventQueue, f) + 1 ELSE Count(eventQueue, f)
  BY <1>2, <1>3 DEF One
<1>5. /\ Len(eventQueue') = Len(eventQueue) + 1
      /\ \A f : Waiting(eventQueue', f) <=> f = event \/ Waiting(eventQueue, f)
      /\ \A f, g : Before(eventQueue, f, g) /\ (f = event => g # event /\ ~Waiting(eventQueue, g))
                     => Before(eventQueue', f, g)
      /\ \A f, g : OneBehind(eventQueue, f, g) /\ f # event => OneBehind(eventQueue', f, g)
      /\ \A f, g : Before(eventQueue, f, g) /\ f # g => OneBehind(eventQueue', f, g)
  BY <1>1, SendCount
<1> QED
  BY <1>4, <1>5 DEF Readies, Documents, Asks, Arrivals, Finishes

\* Taking one.
LEMMA TakeTally ==
  ASSUME OtaInv, eventQueue # <<>>
  PROVE  /\ Tail(eventQueue) \in Seq(Events) /\ Len(Tail(eventQueue)) = Len(eventQueue) - 1
         /\ Waiting(eventQueue, Head(eventQueue))
         /\ \A f : Count(Tail(eventQueue), f)
                    = IF f = Head(eventQueue) THEN Count(eventQueue, f) - 1 ELSE Count(eventQueue, f)
         /\ \A f : f # Head(eventQueue) => (Waiting(Tail(eventQueue), f) <=> Waiting(eventQueue, f))
         /\ \A f, g : Before(eventQueue, f, g) => Before(Tail(eventQueue), f, g)
         /\ \A f, g : OneBehind(eventQueue, f, g) => OneBehind(Tail(eventQueue), f, g)
         /\ \A f : f # Head(eventQueue) /\ Before(eventQueue, f, Head(eventQueue))
                   => Count(eventQueue, f) = 0
         /\ \A f : f # Head(eventQueue) /\ OneBehind(eventQueue, f, Head(eventQueue))
                   => Count(eventQueue, f) <= 1
<1>1. eventQueue \in Seq(Events)
  BY DEF OtaInv, Typing
<1>2. \A f : Count(eventQueue, f) \in Nat
  BY <1>1, CountLemma
<1>3. \A f : Count(Tail(eventQueue), f) = Count(eventQueue, f) - One(f = Head(eventQueue))
  BY <1>1, TakeCount
<1>4. \A f : Count(Tail(eventQueue), f)
               = IF f = Head(eventQueue) THEN Count(eventQueue, f) - 1 ELSE Count(eventQueue, f)
  BY <1>2, <1>3 DEF One
<1>5. /\ Tail(eventQueue) \in Seq(Events) /\ Len(Tail(eventQueue)) = Len(eventQueue) - 1
      /\ \A f : f # Head(eventQueue) => (Waiting(Tail(eventQueue), f) <=> Waiting(eventQueue, f))
      /\ \A f, g : Before(eventQueue, f, g) => Before(Tail(eventQueue), f, g)
      /\ \A f, g : OneBehind(eventQueue, f, g) => OneBehind(Tail(eventQueue), f, g)
      /\ \A f : f # Head(eventQueue) /\ Before(eventQueue, f, Head(eventQueue))
                => Count(eventQueue, f) = 0
      /\ \A f : f # Head(eventQueue) /\ OneBehind(eventQueue, f, Head(eventQueue))
                => Count(eventQueue, f) <= 1
  BY <1>1, TakeCount
<1>6. Waiting(eventQueue, Head(eventQueue))
  <2>1. Len(eventQueue) <= QueueLength
    BY DEF OtaInv, Typing
  <2> QED
    BY <1>1, <2>1, TailLemma
<1> QED
  BY <1>4, <1>5, <1>6

\* The queue after an event is taken from it.
LEMMA TakeStep ==
  ASSUME OtaInv, NEW event, eventQueue # <<>>, Head(eventQueue) = event,
         eventQueue' = Tail(eventQueue)
  PROVE  /\ Len(eventQueue') = Len(eventQueue) - 1
         /\ Readies' = IF event = "Ready" THEN Readies - 1 ELSE Readies
         /\ Documents' = IF event = "ReceivedJobDocument" THEN Documents - 1 ELSE Documents
         /\ Asks' = IF event = "RequestFileBlock" THEN Asks - 1 ELSE Asks
         /\ Arrivals' = IF event = "ReceivedFileBlock" THEN Arrivals - 1 ELSE Arrivals
         /\ Finishes' = IF event = "FinishDownload" THEN Finishes - 1 ELSE Finishes
         /\ \A f : f # event => (Waiting(eventQueue', f) <=> Waiting(eventQueue, f))
         /\ \A f, g : Before(eventQueue, f, g) => Before(eventQueue', f, g)
         /\ \A f, g : OneBehind(eventQueue, f, g) => OneBehind(eventQueue', f, g)
         /\ Waiting(eventQueue, event)
<1>1. /\ \A f : Count(eventQueue', f)
                 = IF f = event THEN Count(eventQueue, f) - 1 ELSE Count(eventQueue, f)
      /\ Len(eventQueue') = Len(eventQueue) - 1
      /\ \A f : f # event => (Waiting(eventQueue', f) <=> Waiting(eventQueue, f))
      /\ \A f, g : Before(eventQueue, f, g) => Before(eventQueue', f, g)
      /\ \A f, g : OneBehind(eventQueue, f, g) => OneBehind(eventQueue', f, g)
      /\ Waiting(eventQueue, event)
  BY TakeTally
<1> QED
  BY <1>1 DEF Readies, Documents, Asks, Arrivals, Finishes

-----------------------------------------------------------------------------
\* The agent whose buffer is kept.

\* The hypotheses: no job is cancelled, and the queue has five places.
Roomy == QueueLength >= 5 /\ "cancel" \notin Faults

Kept == Stuck /\ Spent

\* Nothing else is asked of an agent whose buffer is kept.
LEMMA KeptSound == Kept => Sound
BY DEF Kept, Sound, Spent, Earned

\* The sum in Spent, for any one step.
LEMMA KeptSum ==
  ASSUME OtaInv, Serial, Kept
  PROVE  /\ Len(eventQueue) \in Nat /\ Finishes \in Nat /\ NextJob \in {0, 1}
         /\ Len(eventQueue) + Pledge + Finishes + NextJob <= 4
         /\ Len(eventQueue) <= 4
<1>1. /\ Len(eventQueue) \in Nat /\ Finishes \in Nat
      /\ Len(eventQueue) <= 4
  BY Sizes, RoomLemma, KeptSound
<1>2. NextJob \in {0, 1}
  BY DEF NextJob
<1> QED
  BY <1>1, <1>2 DEF Kept, Spent

\* A step that leaves the task, its queue and its job alone.
LEMMA QuietKept ==
  ASSUME Kept,
         UNCHANGED <<eventQueue, pc, bufferUsed, jobStatus, notified, handle, flash, running>>
  PROVE  Kept'
BY DEF Kept, Stuck, Spent, Pledge, Finishes, Open, NextJob, UpdateSlot

\* Sending an event other than those of a block.
LEMMA SendKept ==
  ASSUME OtaInv, Serial, Kept, Roomy,
         NEW event \in {"Ready", "ReceivedJobDocument", "RequestFileBlock"},
         eventQueue' = Enqueue(eventQueue, event)
  PROVE  /\ Len(eventQueue') = Len(eventQueue) + 1 /\ Finishes' = Finishes
         /\ ~Waiting(eventQueue', "ReceivedFileBlock")
<1>1. Len(eventQueue) < QueueLength /\ event \in Events
  BY KeptSum, ConstantsAssumption DEF Roomy, Events
<1> QED
  BY <1>1, SendTally DEF Kept, Stuck

\* The document of the next job takes the place left for it.
LEMMA NotifyNextKept ==
  ASSUME OtaInv, Serial, Kept, Roomy, NEW j \in Jobs, NotifyNext(j)
  PROVE  Kept'
<1>1. /\ eventQueue' = Enqueue(eventQueue, "ReceivedJobDocument")
      /\ UNCHANGED <<pc, bufferUsed, handle, flash, running, jobStatus>>
      /\ notified' = notified \cup {j} /\ jobStatus[j] \notin Terminal
  BY DEF NotifyNext, data, partitions, Terminal
<1>2. NextJob = 1 /\ NextJob' = 0
  BY <1>1, NotifyLemma DEF Open, NextJob
<1>3. /\ Len(eventQueue') = Len(eventQueue) + 1 /\ Finishes' = Finishes
      /\ ~Waiting(eventQueue', "ReceivedFileBlock")
  BY <1>1, SendKept
<1>4. Pledge' = Pledge /\ Pledge \in Nat
  BY <1>1 DEF Pledge
<1>5. Len(eventQueue') + Pledge' + Finishes' + NextJob' <= 4
  BY <1>2, <1>3, <1>4, KeptSum
<1> QED
  BY <1>1, <1>3, <1>5 DEF Kept, Stuck, Spent, UpdateSlot

\* Receiving an event other than FinishDownload.
LEMMA ReceiveKept ==
  ASSUME OtaInv, Serial, Kept, ReceiveReady \/ ReceiveRequest \/ ReceiveJobDocument
  PROVE  Kept'
<1> DEFINE event == Head(eventQueue)
<1>1. /\ Take(event) /\ event # "FinishDownload"
      /\ pc = "receive" /\ pc' \in {"receive", "request", "accept", "reject"}
      /\ UNCHANGED <<jobStatus, notified, bufferUsed, running>>
      /\ \/ UNCHANGED <<handle, flash>> \/ handle' = "closed"
         \/ flash' = [flash EXCEPT ![UpdateSlot] = <<>>]
  BY DEF ReceiveReady, ReceiveRequest, ReceiveJobDocument, Take, BeginUpdate, cloud, data, partitions
<1>2. eventQueue # <<>> /\ eventQueue' = Tail(eventQueue)
  BY <1>1 DEF Take
<1>3. /\ Len(eventQueue') = Len(eventQueue) - 1 /\ Finishes' = Finishes
      /\ Waiting(eventQueue, event)
      /\ event # "ReceivedFileBlock"
           => (Waiting(eventQueue', "ReceivedFileBlock") <=> Waiting(eventQueue, "ReceivedFileBlock"))
  BY <1>1, <1>2, TakeStep
<1>4. ~Waiting(eventQueue', "ReceivedFileBlock")
  BY <1>3 DEF Kept, Stuck
<1>5. Pledge = 0 /\ Pledge' \in {0, 1} /\ NextJob' = NextJob
  BY <1>1 DEF Pledge, Open, NextJob
<1>6. Len(eventQueue') + Pledge' + Finishes' + NextJob' <= 4
  BY <1>3, <1>4, <1>5, KeptSum
<1>7. Finishes >= 1 => handle' = "closed" \/ flash'[UpdateSlot'] = <<>>
  <2>1. UpdateSlot' = UpdateSlot /\ UpdateSlot \in Slots /\ flash \in [Slots -> Contents]
    BY <1>1, OtherLemma DEF UpdateSlot, OtaInv, Typing
  <2> QED
    BY <1>1, <2>1 DEF Kept, Spent
<1> QED
  BY <1>1, <1>3, <1>4, <1>6, <1>7 DEF Kept, Stuck, Spent

\* Without a handle or with an empty partition the update fails.
LEMMA ReceiveFinishKept ==
  ASSUME OtaInv, Serial, Kept, ReceiveFinish
  PROVE  Kept'
<1>1. /\ Take("FinishDownload") /\ pc = "receive"
      /\ UNCHANGED <<jobStatus, notified, bufferUsed, running, flash>> /\ handle' = "closed"
      /\ eventQueue # <<>> /\ Head(eventQueue) = "FinishDownload"
      /\ eventQueue' = Tail(eventQueue)
  BY DEF ReceiveFinish, Take, cloud, data
<1>2. /\ Len(eventQueue') = Len(eventQueue) - 1
      /\ Waiting(eventQueue, "FinishDownload")
      /\ Finishes' = Finishes - 1
      /\ Waiting(eventQueue', "ReceivedFileBlock") <=> Waiting(eventQueue, "ReceivedFileBlock")
  BY <1>1, TakeStep
<1>3. Finishes' = Finishes - 1 /\ Finishes >= 1 /\ ~Waiting(eventQueue', "ReceivedFileBlock")
  BY <1>2, Sizes DEF Kept, Stuck
<1>4. pc' = "fail"
  <2>1. handle = "closed" \/ flash[UpdateSlot] = <<>>
    BY <1>3 DEF Kept, Spent
  <2>2. ~Complete(<<>>)
    <3>1. Len(<<>>) = 0
      BY EmptySeq
    <3> QED
      BY <3>1, ImageLemma, ConstantsAssumption DEF Complete
  <2> QED
    BY <2>1, <2>2 DEF ReceiveFinish
<1>5. Pledge = 0 /\ Pledge' = 2 /\ NextJob' = NextJob
  BY <1>1, <1>4 DEF Pledge, Open, NextJob
<1>6. Len(eventQueue') + Pledge' + Finishes' + NextJob' <= 4
  BY <1>2, <1>3, <1>5, KeptSum
<1> QED
  BY <1>1, <1>3, <1>4, <1>6 DEF Kept, Stuck, Spent

\* The calls: what each may still send, it sends.
LEMMA CallKept ==
  ASSUME OtaInv, Serial, Kept, Roomy, AcceptJob \/ SubscribeStream \/ RejectJob \/ Fail
  PROVE  Kept'
<1>1. UNCHANGED <<notified, bufferUsed, handle, flash, running>>
  BY DEF AcceptJob, SubscribeStream, RejectJob, Fail, cloud, data, partitions
<1>2. UpdateSlot' = UpdateSlot
  BY <1>1 DEF UpdateSlot
<1>3. NextJob' \in {0, 1}
  BY DEF NextJob
<1>4. CASE AcceptJob
  <2>1. eventQueue' = eventQueue /\ pc = "accept" /\ pc' = "subscribe" /\ (Open' <=> Open)
    BY <1>4, AcceptJobSerial DEF AcceptJob
  <2>2. Pledge' = Pledge /\ NextJob' = NextJob /\ Finishes' = Finishes
    BY <2>1 DEF Pledge, NextJob, Finishes
  <2> QED
    BY <1>1, <1>2, <2>1, <2>2 DEF Kept, Stuck, Spent
<1>5. CASE SubscribeStream \/ RejectJob
  <2>1. /\ \E event \in {"Ready", "RequestFileBlock"} : eventQueue' = Enqueue(eventQueue, event)
        /\ pc \in {"subscribe", "reject"} /\ pc' = "receive" /\ jobStatus' = jobStatus
    BY <1>5, ReportSerial DEF SubscribeStream, RejectJob, cloud
  <2>2. /\ Len(eventQueue') = Len(eventQueue) + 1 /\ Finishes' = Finishes
        /\ ~Waiting(eventQueue', "ReceivedFileBlock")
    BY <2>1, SendKept
  <2>3. Pledge = 1 /\ Pledge' = 0 /\ NextJob' = NextJob
    BY <1>1, <2>1 DEF Pledge, NextJob, Open
  <2>4. Len(eventQueue') + Pledge' + Finishes' + NextJob' <= 4
    BY <2>2, <2>3, KeptSum
  <2> QED
    BY <1>1, <1>2, <2>1, <2>2, <2>4 DEF Kept, Stuck, Spent
<1>6. CASE Fail
  <2>1. eventQueue' = Enqueue(eventQueue, "Ready") /\ pc = "fail" /\ pc' = "receive"
    BY <1>6 DEF Fail
  <2>2. /\ Len(eventQueue') = Len(eventQueue) + 1 /\ Finishes' = Finishes
        /\ ~Waiting(eventQueue', "ReceivedFileBlock")
    BY <2>1, SendKept
  <2>3. Pledge = 2 /\ Pledge' = 0
    BY <2>1 DEF Pledge
  <2>4. Len(eventQueue') + Pledge' + Finishes' + NextJob' <= 4
    BY <1>3, <2>2, <2>3, KeptSum
  <2> QED
    BY <1>1, <1>2, <2>1, <2>2, <2>4 DEF Kept, Stuck, Spent
<1> QED
  BY <1>4, <1>5, <1>6

\* Every step of such an agent keeps the buffer, but a reset.
LEMMA KeptStep ==
  ASSUME OtaInv, Serial, Kept, Roomy, [Next]_vars
  PROVE  Kept' \/ (Restart /\ UNCHANGED cloud)
<1>1. ~Boot
  BY DEF Boot, OtaInv, Off, Serial, Stopped, Kept, Stuck
<1>2. ~Succeed /\ ~ReceiveFileBlock
  <2>1. ReceiveFileBlock => Waiting(eventQueue, "ReceivedFileBlock")
    BY TailLemma DEF ReceiveFileBlock, OtaInv, Typing
  <2> QED
    BY <2>1 DEF Succeed, Kept, Stuck, Spent
<1>3. ASSUME NEW b \in blocks, StreamDataCallback(b) \/ Unheard(b) PROVE Kept'
  BY <1>3, QuietKept
     DEF StreamDataCallback, Unheard, Kept, Stuck, partitions, events, data
<1>4. ASSUME NEW r \in requests, ServeBlock(r) PROVE Kept'
  BY <1>4, QuietKept DEF ServeBlock, partitions, events, data
<1>5. CASE LoseMessage \/ PublishRequest
  <2>1. UNCHANGED <<eventQueue, bufferUsed, jobStatus, notified, handle, flash, running>>
    BY <1>5 DEF LoseMessage, PublishRequest, partitions, events, data
  <2>2. Pledge' = Pledge /\ pc' \notin {"succeed", "restart"}
    BY <1>5 DEF LoseMessage, PublishRequest, events, Pledge, Kept, Spent
  <2> QED
    BY <2>1, <2>2 DEF Kept, Stuck, Spent, Finishes, Open, NextJob, UpdateSlot
<1>6. ~ \E j \in Jobs : CancelJob(j)
  BY DEF Roomy, CancelJob
<1>7. CASE UNCHANGED vars
  BY <1>7, QuietKept DEF vars, cloud, events, data, partitions
<1> QED
  BY <1>1, <1>2, <1>3, <1>4, <1>5, <1>6, <1>7,
     NotifyNextKept, ReceiveKept, ReceiveFinishKept, CallKept
     DEF Next, Cloud, Agent, Task, BootFails, Crash, EspRestart

-----------------------------------------------------------------------------
\* The agent whose buffer is given back.

\* The three counts of Foreign.
LEMMA ForeignType ==
  ASSUME OtaInv, Serial
  PROVE  OnTheWay \in Nat /\ InBuffer \in Nat /\ InPartition \in Nat
         /\ Elsewhere \in Nat /\ Misplaced \in Nat
<1>1. OnTheWay \in Nat
  BY Sizes DEF OnTheWay
<1>2. InBuffer \in Nat
  BY DEF InBuffer
<1>3. InPartition \in Nat
  BY StrangersLemma DEF InPartition, OtaInv, Written
<1>4. Elsewhere \in Nat
  BY <1>1, <1>2 DEF Elsewhere
<1>5. Misplaced \in Nat
  BY <1>3, <1>4 DEF Misplaced
<1> QED
  BY <1>1, <1>2, <1>3, <1>4, <1>5

\* Requests and blocks go from one place to the next, or come twice, and the
\* download does not move on.
LEMMA FlowOrderly ==
  ASSUME OtaInv, Serial, Orderly,
         UNCHANGED <<stream, numOfBlocksRemaining, currentBlockOffset, handle, flash, running,
                     jobStatus, notified>>,
         pc' = pc \/ (pc \in {"receive", "request"} /\ pc' \in {"receive", "request"}),
         Readies' \in Nat, Readies' <= Readies, Asks' \in Nat, Asks' <= Asks, Finishes' = Finishes,
         Waiting(eventQueue', "ReceivedJobDocument") <=> Waiting(eventQueue, "ReceivedJobDocument"),
         Order => Order',
         duplicates' \in Nat, Owed' \in Nat, Load' \in Nat, Elsewhere' \in Nat,
         Covers(duplicates, Load, duplicates', Load'),
         currentBlockOffset >= Blocks => Covers(duplicates, Owed, duplicates', Owed'),
         Covers(duplicates, Elsewhere, duplicates', Elsewhere')
  PROVE  Orderly'
<1>1. (Working' <=> Working) /\ (Idle' <=> Idle)
  BY DEF Working, Open, Idle
<1>2. Due' = Due /\ Due \in Nat
  BY <1>1 DEF Due
<1>3. InPartition' = InPartition /\ InPartition \in Nat
  BY ForeignType DEF InPartition, UpdateSlot
<1>4. \A m, n \in Nat : m + n \in Nat
  OBVIOUS
<1>5. Loads'
  <2>1. /\ Owed \in Nat /\ Owed' \in Nat /\ duplicates \in Nat /\ duplicates' \in Nat
        /\ Load' \in Nat /\ currentBlockOffset \in Nat /\ Blocks \in Nat
    BY Numbers
  <2>2. Load \in Nat
    BY Numbers DEF Load, Pending, Asking
  <2>3. Load' <= duplicates' + Due
    BY <1>2, <2>1, <2>2, CoverLemma DEF Orderly, Loads
  <2>4. stream # None /\ currentBlockOffset >= Blocks
          => Owed' + currentBlockOffset <= duplicates' + Blocks
    BY <2>1, CoverLemma DEF Orderly, Loads
  <2> QED
    BY <1>2, <2>3, <2>4 DEF Loads
<1>6. Counters' /\ Phase' /\ Order'
  BY <1>1 DEF Orderly, Counters, Phase
<1>7. Tally'
  <2>1. /\ Readies \in Nat /\ Asks \in Nat /\ Finishes \in Nat
        /\ \A m, n, k \in Nat : m <= n => m + k <= n + k
        /\ \A m, k, c \in Nat : m + k \in Nat /\ (m <= k /\ k <= c => m <= c)
    BY Numbers
  <2>2. Readies' <= 1 /\ (Readies = 0 => Readies' = 0)
    BY <2>1 DEF Orderly, Tally
  <2>3. Asks' + Finishes <= Asks + Finishes /\ Asks' + Finishes \in Nat /\ Asks + Finishes \in Nat
    BY <2>1
  <2>4. /\ Asks' + Finishes <= 2 /\ (Idle => Asks' + Finishes <= 1)
        /\ Asks + Finishes = 0 => Asks' + Finishes = 0
    BY <2>3 DEF Orderly, Tally
  <2> QED
    BY <1>1, <2>2, <2>4 DEF Orderly, Tally
<1>8. Foreign'
  <2>1. Misplaced = Elsewhere + InPartition /\ Misplaced' = Elsewhere' + InPartition
    BY <1>3 DEF Misplaced
  <2>2. Elsewhere \in Nat /\ Elsewhere' \in Nat /\ duplicates \in Nat /\ duplicates' \in Nat
    BY ForeignType, Numbers
  <2>3. Misplaced \in Nat /\ Misplaced' \in Nat
    BY <1>3, <1>4, <2>1, <2>2
  <2>4. Covers(duplicates, Misplaced, duplicates', Misplaced')
    BY <1>3, <2>1, <2>2, CoverLemma
  <2> QED
    BY <2>2, <2>3, <2>4, CoverLemma DEF Orderly, Foreign
<1> QED
  BY <1>5, <1>6, <1>7, <1>8 DEF Orderly

\* What covers the blocks covers the load, when no request was sent or answered.
LEMMA LoadCovers ==
  ASSUME OtaInv, Serial, duplicates' \in Nat, Owed' \in Nat, Pending' = Pending,
         Covers(duplicates, Owed, duplicates', Owed')
  PROVE  Load' \in Nat /\ Covers(duplicates, Load, duplicates', Load')
<1>1. Pending \in Nat
  BY Numbers DEF Pending, Asking
<1>2. Load = Owed + Pending /\ Load' = Owed' + Pending
  BY <1>1 DEF Load
<1>3. \A m, n \in Nat : m + n \in Nat
  OBVIOUS
<1>4. Owed \in Nat /\ duplicates \in Nat
  BY Numbers
<1> QED
  BY <1>1, <1>2, <1>3, <1>4, CoverLemma

\* Steps that leave the task and its queue alone, and add no block.
LEMMA QuietOrderly ==
  ASSUME OtaInv, Serial, Orderly,
         UNCHANGED <<eventQueue, pc, stream, buffer, numOfBlocksRemaining, currentBlockOffset,
                     handle, flash, running, jobStatus, notified>>,
         \A js : /\ Inbound(requests', blocks', topics', js) \in Nat
                 /\ Inbound(requests', blocks', topics', js) <= Inbound(requests, blocks, topics, js),
         duplicates' \in Nat, duplicates' >= duplicates
  PROVE  Orderly'
<1>1. /\ Arrivals' = Arrivals /\ InBuffer' = InBuffer
      /\ Arrivals \in Nat /\ InBuffer \in Nat
  BY Numbers, ForeignType DEF Arrivals, InBuffer
<1>2. \A m, n, c \in Nat : m <= n => m + c <= n + c /\ m + c \in Nat /\ n + c \in Nat
  OBVIOUS
<1>3. /\ Owed' <= Owed /\ Owed' \in Nat /\ Owed \in Nat
      /\ Elsewhere' <= Elsewhere /\ Elsewhere' \in Nat /\ Elsewhere \in Nat
  <2>1. \A js : Inbound(requests, blocks, topics, js) \in Nat
    BY Sizes
  <2>2. /\ Owed = Inbound(requests, blocks, topics, Jobs) + Arrivals
        /\ Owed' = Inbound(requests', blocks', topics', Jobs) + Arrivals
        /\ Elsewhere = Inbound(requests, blocks, topics, Jobs \ {stream}) + InBuffer
        /\ Elsewhere' = Inbound(requests', blocks', topics', Jobs \ {stream}) + InBuffer
    BY <1>1 DEF Owed, Elsewhere, OnTheWay
  <2> QED
    BY <1>1, <1>2, <2>1, <2>2
<1>4. /\ Covers(duplicates, Owed, duplicates', Owed')
      /\ Covers(duplicates, Elsewhere, duplicates', Elsewhere')
  BY <1>1, <1>3, CoverLemma, Numbers
<1>5. /\ Pending' = Pending /\ Readies' = Readies /\ Asks' = Asks /\ Finishes' = Finishes
      /\ Order => Order'
  BY DEF Pending, Asking, Readies, Asks, Finishes, Order, Idle, Working, Open
<1>6. Readies' \in Nat /\ Readies' <= Readies /\ Asks' \in Nat /\ Asks' <= Asks
  BY <1>5, Numbers
<1> QED
  BY <1>3, <1>4, <1>5, <1>6, LoadCovers, FlowOrderly

\* The cloud and the network, and a block that nothing takes.
LEMMA NetworkOrderly ==
  ASSUME OtaInv, Serial, Orderly,
         \/ \E r \in requests : ServeBlock(r)
         \/ LoseMessage
         \/ \E b \in blocks : Unheard(b) \/ (StreamDataCallback(b) /\ bufferUsed)
         \/ UNCHANGED vars
  PROVE  Orderly'
<1>1. IsFiniteSet(requests) /\ IsFiniteSet(blocks)
  BY DEF Serial, Streams
<1>2. UNCHANGED <<topics, eventQueue, pc, stream, buffer, numOfBlocksRemaining, currentBlockOffset,
                  handle, flash, running, jobStatus, notified>>
  BY DEF ServeBlock, LoseMessage, Unheard, StreamDataCallback, vars, cloud, session, events, job,
         data, counters, partitions
<1>3. duplicates' >= duplicates /\ duplicates' \in Nat
  <2>1. duplicates' = duplicates \/ duplicates' = duplicates + 1
    BY DEF ServeBlock, LoseMessage, Unheard, StreamDataCallback, Delivered, vars, cloud
  <2> QED
    BY <2>1, Numbers
<1>4. \A js : /\ Inbound(requests', blocks', topics', js) \in Nat
              /\ Inbound(requests', blocks', topics', js) <= Inbound(requests, blocks, topics, js)
  <2>1. CASE \E r \in requests : ServeBlock(r) /\ r.index < Blocks
    <3>1. PICK r \in requests : ServeBlock(r) /\ r.index < Blocks
      BY <2>1
    <3>2. requests' = requests \ {r} /\ blocks' = blocks \cup {r}
      BY <3>1 DEF ServeBlock
    <3>3. IsFiniteSet(requests') /\ IsFiniteSet(blocks')
      BY <1>1, <3>2, FS_RemoveElement, FS_AddElement
    <3> QED
      BY <1>1, <1>2, <3>1, <3>2, <3>3, InboundServe, InboundType
  <2>2. CASE ~ \E r \in requests : ServeBlock(r) /\ r.index < Blocks
    <3>1. requests' \subseteq requests /\ blocks' \subseteq blocks
      BY <2>2 DEF ServeBlock, LoseMessage, Unheard, StreamDataCallback, Delivered, vars, cloud
    <3>2. IsFiniteSet(requests') /\ IsFiniteSet(blocks')
      BY <1>1, <3>1, FS_Subset
    <3>3. \A js : Inbound(requests', blocks', topics', js) \in Nat
      BY <3>2, InboundType
    <3>4. \A js : Inbound(requests', blocks', topics, js) <= Inbound(requests, blocks, topics, js)
      <4> SUFFICES ASSUME NEW js
                   PROVE  Inbound(requests', blocks', topics, js) <= Inbound(requests, blocks, topics, js)
        OBVIOUS
      <4> QED
        BY <1>1, <3>1, InboundSubset
    <3> QED
      BY <1>2, <3>3, <3>4
  <2> QED
    BY <2>1, <2>2
<1> QED
  BY <1>2, <1>3, <1>4, QuietOrderly

\* A device that has just started, or is about to.
LEMMA StartOrderly ==
  ASSUME OtaInv, Serial, pc' \in {"off", "receive"},
         stream' = None, topics' \subseteq {<<0, "notify">>}, duplicates' = duplicates,
         eventQueue' \in {<<>>, <<"Ready">>}
  PROVE  Orderly'
<1>1. /\ Readies' \in {0, 1} /\ Asks' = 0 /\ Arrivals' = 0 /\ Finishes' = 0
      /\ \A e, f : e # "Ready" => Before(eventQueue', e, f)
      /\ \A e, f : f # "Ready" => Before(eventQueue', e, f)
      /\ \A e, f : f # "Ready" => OneBehind(eventQueue', e, f)
  <2>1. /\ eventQueue' \in Seq(Events) /\ Len(eventQueue') \in 0 .. 1
        /\ \A i \in 1 .. Len(eventQueue') : i = 1 /\ eventQueue'[i] = "Ready"
    <3>1. CASE eventQueue' = <<>>
      <4>1. Len(eventQueue') = 0 /\ eventQueue' \in Seq(Events)
        BY <3>1, EmptyLemma, EmptySeq
      <4> QED
        BY <4>1
    <3>2. CASE eventQueue' = <<"Ready">>
      <4>1. /\ Len(eventQueue') = 1 /\ eventQueue'[1] = "Ready" /\ eventQueue' \in Seq(Events)
        BY <3>2 DEF Events
      <4> QED
        BY <4>1
    <3> QED
      BY <3>1, <3>2
  <2>4. /\ \A f : f # "Ready" => Places(eventQueue', f) = {}
        /\ AtMostOne(eventQueue', "Ready")
    BY <2>1 DEF Places, AtMostOne
  <2>2. \A f : f # "Ready" => Count(eventQueue', f) = 0
    BY <2>4, FS_EmptySet DEF Count
  <2>3. Readies' \in {0, 1}
    <3>1. Readies' \in Nat /\ Readies' <= 1
      BY <2>1, <2>4, CountLemma DEF Readies
    <3> QED
      BY <3>1
  <2> QED
    BY <2>4, <2>2, <2>3 DEF Asks, Arrivals, Finishes, Before, OneBehind
<1>2. Inbound(requests', blocks', topics', Jobs) = 0
  BY InboundNone
<1>3. Load' = 0
  <2>1. Asking' = 0
    BY DEF Asking
  <2> QED
    BY <1>1, <1>2, <2>1 DEF Load, Pending, Owed
<1>4. Due' \in Nat
  BY DEF Due
<1>5. Loads'
  BY <1>3, <1>4, Sizes DEF Loads
<1>6. Counters' /\ Phase' /\ Foreign' /\ Tally'
  BY <1>1 DEF Counters, Phase, Foreign, Tally
<1>7. Order'
  BY <1>1 DEF Order
<1> QED
  BY <1>5, <1>6, <1>7 DEF Orderly

\* A reset leaves nothing to wait for, and a free buffer.
LEMMA RestartOrderly ==
  ASSUME OtaInv, Serial, Restart /\ UNCHANGED cloud
  PROVE  Orderly' /\ ~Stuck'
BY StartOrderly DEF Restart, cloud, Stuck

\* So does the boot that follows.
LEMMA BootOrderly ==
  ASSUME OtaInv, Serial, Boot
  PROVE  Orderly' /\ ~Stuck'
BY StartOrderly DEF Boot, cloud, Stuck, Serial, Stopped, OtaInv, Off, job, data

\* The job is announced when none is open.
LEMMA NotifyNextOrderly ==
  ASSUME OtaInv, Serial, Orderly, Roomy, Len(eventQueue) <= 4, NEW j \in Jobs, NotifyNext(j)
  PROVE  Orderly'
<1>1. /\ eventQueue' = Enqueue(eventQueue, "ReceivedJobDocument")
      /\ "ReceivedJobDocument" \in Events
      /\ UNCHANGED <<requests, blocks, topics, duplicates, pc, stream, buffer, numOfBlocksRemaining,
                     currentBlockOffset, handle, flash, running>>
  BY DEF NotifyNext, session, data, counters, partitions, Events
<1>2. Len(eventQueue) < QueueLength /\ ~Open
  BY RoomLemma, NotifyLemma, ConstantsAssumption DEF Roomy, OtaInv, Typing
<1>3. /\ Readies' = Readies /\ Asks' = Asks /\ Arrivals' = Arrivals /\ Finishes' = Finishes
      /\ Waiting(eventQueue', "ReceivedJobDocument")
      /\ \A f, g : Before(eventQueue, f, g) /\ f # "ReceivedJobDocument" => Before(eventQueue', f, g)
      /\ \A f, g : OneBehind(eventQueue, f, g) /\ f # "ReceivedJobDocument"
                     => OneBehind(eventQueue', f, g)
  BY <1>1, <1>2, SendTally
<1>4. ~Working /\ ~Working' /\ Idle /\ Idle'
  BY <1>2, <1>3 DEF Working, Idle
<1>5. Load' = Load /\ Owed' = Owed /\ Misplaced' = Misplaced
  BY <1>1, <1>3 DEF Load, Pending, Asking, Owed, Misplaced, Elsewhere, OnTheWay, InBuffer, InPartition, UpdateSlot
<1>6. Loads'
  <2>1. Due = 0 /\ Due' = 0
    BY <1>4 DEF Due
  <2> QED
    BY <1>1, <1>5, <2>1 DEF Orderly, Loads
<1>7. Counters' /\ Phase' /\ Order' /\ Tally' /\ Foreign'
  BY <1>1, <1>3, <1>4, <1>5 DEF Orderly, Counters, Phase, Order, Tally, Foreign
<1> QED
  BY <1>6, <1>7 DEF Orderly

\* A block takes the free buffer: it is no longer on its way, unless it comes again.
LEMMA CallbackOrderly ==
  ASSUME OtaInv, Serial, Orderly, Roomy, Len(eventQueue) <= 4,
         NEW b \in blocks, StreamDataCallback(b), ~bufferUsed
  PROVE  Orderly' /\ ~Stuck'
<1>1. /\ eventQueue' = Enqueue(eventQueue, "ReceivedFileBlock")
      /\ "ReceivedFileBlock" \in Events
      /\ UNCHANGED <<jobStatus, notified, requests, topics, pc, stream, numOfBlocksRemaining,
                     currentBlockOffset, handle, flash, running>>
      /\ bufferUsed' /\ (buffer' = b \/ buffer' = Garbled)
      /\ <<b.job, "data">> \in topics
      /\ \/ blocks' = blocks \ {b} /\ duplicates' = duplicates
         \/ blocks' = blocks /\ duplicates' = duplicates + 1
  BY DEF StreamDataCallback, Delivered, session, job, counters, partitions, Events
<1>2. Len(eventQueue) < QueueLength /\ ~Waiting(eventQueue, "ReceivedFileBlock")
  BY RoomLemma, ConstantsAssumption DEF Roomy, OtaInv, Typing, Owner
<1>3. /\ Readies' = Readies /\ Asks' = Asks /\ Arrivals' = Arrivals + 1 /\ Finishes' = Finishes
      /\ Waiting(eventQueue', "ReceivedFileBlock")
      /\ Waiting(eventQueue', "ReceivedJobDocument") <=> Waiting(eventQueue, "ReceivedJobDocument")
      /\ \A f, g : Before(eventQueue, f, g) /\ f # "ReceivedFileBlock" => Before(eventQueue', f, g)
      /\ \A f, g : OneBehind(eventQueue, f, g) /\ f # "ReceivedFileBlock"
                     => OneBehind(eventQueue', f, g)
  BY <1>1, <1>2, SendTally
<1>4. Arrivals = 0 /\ Arrivals' = 1
  BY <1>2, <1>3, Sizes
<1>5. (Working' <=> Working) /\ (Idle' <=> Idle)
  BY <1>1, <1>3 DEF Working, Open, Idle
<1>6. IsFiniteSet(requests) /\ IsFiniteSet(blocks) /\ b.job \in Jobs
  BY DEF Serial, Streams, OtaInv, Typing, StreamBlocks
\* What the block no longer counts on its way, a second copy of it allows.
<1>7. \A js : /\ Inbound(requests, blocks, topics, js) \in Nat
              /\ Inbound(requests', blocks', topics', js) \in Nat
              /\ \/ duplicates' = duplicates + 1
                    /\ Inbound(requests', blocks', topics', js) = Inbound(requests, blocks, topics, js)
                 \/ duplicates' = duplicates
                    /\ Inbound(requests', blocks', topics', js)
                         = Inbound(requests, blocks, topics, js) - One(b.job \in js)
  <2>1. IsFiniteSet(blocks')
    BY <1>1, <1>6, FS_RemoveElement
  <2>2. \A js : /\ Inbound(requests, blocks, topics, js) \in Nat
                /\ Inbound(requests', blocks', topics', js) \in Nat
    BY <1>1, <1>6, <2>1, InboundType
  <2> QED
    BY <1>1, <1>6, <2>2, InboundDeliver
<1>0. /\ duplicates \in Nat /\ duplicates' \in Nat
      /\ duplicates' = duplicates \/ duplicates' = duplicates + 1
  BY <1>1, Numbers
<1>8. Covers(duplicates, Owed, duplicates', Owed') /\ Owed' \in Nat
  <2>1. One(b.job \in Jobs) = 1
    BY <1>6 DEF One
  <2> HIDE DEF One
  <2>2. /\ Inbound(requests, blocks, topics, Jobs) \in Nat
        /\ Inbound(requests', blocks', topics', Jobs) \in Nat
        /\ \/ duplicates' = duplicates + 1
              /\ Inbound(requests', blocks', topics', Jobs) = Inbound(requests, blocks, topics, Jobs)
           \/ duplicates' = duplicates
              /\ Inbound(requests', blocks', topics', Jobs) = Inbound(requests, blocks, topics, Jobs) - 1
    BY <1>7, <2>1
  <2>3. /\ Owed = Inbound(requests, blocks, topics, Jobs)
        /\ Owed' = Inbound(requests', blocks', topics', Jobs) + 1
    BY <1>4, <2>2 DEF Owed
  <2>4. /\ Owed \in Nat /\ Owed' \in Nat
        /\ (Owed' <= Owed /\ duplicates <= duplicates')
             \/ (Owed' <= Owed + 1 /\ duplicates' = duplicates + 1)
    BY <1>0, <2>2, <2>3
  <2> QED
    BY <1>0, <2>4, CoverLemma
<1>9. Covers(duplicates, Elsewhere, duplicates', Elsewhere') /\ Elsewhere' \in Nat
  <2>1. InBuffer = 0 /\ (InBuffer' = 0 \/ (InBuffer' = 1 /\ b.job \in Jobs \ {stream}))
    BY <1>1, <1>4, <1>6 DEF InBuffer
  <2>2. /\ OnTheWay \in Nat /\ OnTheWay' \in Nat
        /\ \/ duplicates' = duplicates + 1 /\ OnTheWay' = OnTheWay
           \/ duplicates' = duplicates /\ OnTheWay' = OnTheWay - One(b.job \in Jobs \ {stream})
    BY <1>1, <1>7 DEF OnTheWay
  <2>3. \/ duplicates' = duplicates + 1 /\ OnTheWay' = OnTheWay
        \/ duplicates' = duplicates /\ OnTheWay' = OnTheWay /\ InBuffer' = 0
        \/ duplicates' = duplicates /\ OnTheWay' = OnTheWay - 1
    BY <2>1, <2>2 DEF One
  <2>4. OnTheWay \in Nat /\ OnTheWay' \in Nat /\ (InBuffer' = 0 \/ InBuffer' = 1)
    BY <2>1, <2>2
  <2>5. /\ Elsewhere \in Nat /\ Elsewhere' \in Nat
        /\ (Elsewhere' <= Elsewhere /\ duplicates <= duplicates')
             \/ (Elsewhere' <= Elsewhere + 1 /\ duplicates' = duplicates + 1)
    BY <1>0, <2>1, <2>3, <2>4 DEF Elsewhere
  <2> QED
    BY <1>0, <2>5, CoverLemma
<1>10. Order => Order'
  BY <1>3, <1>5 DEF Order
<1>11. /\ Pending' = Pending
       /\ Readies' \in Nat /\ Readies' <= Readies /\ Asks' \in Nat /\ Asks' <= Asks
  BY <1>1, <1>3, Numbers DEF Pending, Asking
<1>12. Load' \in Nat /\ Covers(duplicates, Load, duplicates', Load')
  BY <1>0, <1>8, <1>11, LoadCovers
<1>13. Orderly'
  BY <1>0, <1>1, <1>3, <1>8, <1>9, <1>10, <1>11, <1>12, FlowOrderly
<1> QED
  BY <1>1, <1>3, <1>13 DEF Stuck

\* An event that starts nothing: the agent is ready, or about to ask for a block.
LEMMA ReceiveOrderly ==
  ASSUME OtaInv, Serial, Orderly, ~Stuck, ReceiveReady \/ ReceiveRequest
  PROVE  Orderly' /\ ~Stuck'
<1>1. PICK event :
        /\ eventQueue # <<>> /\ eventQueue' = Tail(eventQueue) /\ Head(eventQueue) = event
        /\ pc = "receive"
        /\ (event = "Ready" /\ pc' = "receive") \/ (event = "RequestFileBlock" /\ pc' = "request")
        /\ UNCHANGED <<cloud, topics, job, data, counters, partitions>>
  <2>1. CASE ReceiveReady
    BY <2>1 DEF ReceiveReady, Take, session
  <2>2. CASE ReceiveRequest
    BY <2>2 DEF ReceiveRequest, Take, session
  <2> QED
    BY <2>1, <2>2
<1>2. /\ Readies' = IF event = "Ready" THEN Readies - 1 ELSE Readies
      /\ Asks' = IF event = "RequestFileBlock" THEN Asks - 1 ELSE Asks
      /\ Arrivals' = Arrivals /\ Finishes' = Finishes
      /\ \A f : f # event => (Waiting(eventQueue', f) <=> Waiting(eventQueue, f))
      /\ \A f, g : Before(eventQueue, f, g) => Before(eventQueue', f, g)
      /\ \A f, g : OneBehind(eventQueue, f, g) => OneBehind(eventQueue', f, g)
      /\ Waiting(eventQueue, event)
  BY <1>1, TakeStep
<1>3. (event = "Ready" => Readies >= 1) /\ (event = "RequestFileBlock" => Asks >= 1)
  <2>1. Waiting(eventQueue, event)
    BY <1>2
  <2>2. /\ Readies \in Nat /\ Asks \in Nat
        /\ Readies = 0 <=> ~Waiting(eventQueue, "Ready")
        /\ Asks = 0 <=> ~Waiting(eventQueue, "RequestFileBlock")
    BY Sizes
  <2> QED
    BY <2>1, <2>2
<1>4. /\ Readies' \in Nat /\ Readies' <= Readies /\ Asks' \in Nat /\ Asks' <= Asks
      /\ Pending' = Pending
  <2>1. CASE event = "Ready"
    <3>1. /\ Readies' = Readies - 1 /\ Asks' = Asks /\ Asking' = Asking
          /\ Readies \in Nat /\ Asks \in Nat /\ Readies >= 1
      BY <1>1, <1>2, <1>3, <2>1, Numbers DEF Asking
    <3> QED
      BY <3>1 DEF Pending
  <2>2. CASE event = "RequestFileBlock"
    <3>1. /\ Readies' = Readies /\ Asks' = Asks - 1 /\ Asking' = 1 /\ Asking = 0
          /\ Readies \in Nat /\ Asks \in Nat /\ Asks >= 1
      BY <1>1, <1>2, <1>3, <2>2, Numbers DEF Asking
    <3> QED
      BY <3>1 DEF Pending
  <2> QED
    BY <1>1, <2>1, <2>2
<1>5. Owed' = Owed /\ Elsewhere' = Elsewhere /\ duplicates' = duplicates
  BY <1>1, <1>2 DEF Owed, Elsewhere, OnTheWay, InBuffer, cloud, job, data
<1>6. /\ Owed \in Nat /\ Elsewhere \in Nat /\ duplicates \in Nat
      /\ Covers(duplicates, Owed, duplicates, Owed)
      /\ Covers(duplicates, Elsewhere, duplicates, Elsewhere)
  <2>1. \A d, n \in Nat : Covers(d, n, d, n)
    BY DEF Covers
  <2> QED
    BY <2>1, Numbers, ForeignType
<1>7. (Idle' <=> Idle) /\ (Order => Order')
  BY <1>1, <1>2 DEF Idle, Working, Open, Order, cloud
<1>8. Load' \in Nat /\ Covers(duplicates, Load, duplicates', Load')
  BY <1>4, <1>5, <1>6, LoadCovers
<1>9. Orderly'
  <2>1. /\ UNCHANGED <<stream, numOfBlocksRemaining, currentBlockOffset, handle, flash, running,
                       jobStatus, notified>>
        /\ Waiting(eventQueue', "ReceivedJobDocument") <=> Waiting(eventQueue, "ReceivedJobDocument")
    BY <1>1, <1>2 DEF cloud, job, counters, partitions
  <2> QED
    BY <1>1, <1>2, <1>4, <1>5, <1>6, <1>7, <1>8, <2>1, FlowOrderly
<1>10. ~Stuck'
  BY <1>1, <1>2 DEF Stuck, data
<1> QED
  BY <1>9, <1>10

\* The request that is published is for the next block, of the stream of the job.
LEMMA PublishRequestOrderly ==
  ASSUME OtaInv, Serial, Orderly, ~Stuck, PublishRequest
  PROVE  Orderly' /\ ~Stuck'
<1> DEFINE r == [job |-> stream, index |-> currentBlockOffset]
<1>1. /\ pc = "request" /\ pc' = "receive" /\ requests' = requests \cup {r}
      /\ UNCHANGED <<jobStatus, notified, blocks, duplicates, topics, eventQueue, job, data, counters,
                     partitions>>
      /\ r.job = stream /\ r.index = currentBlockOffset
  BY DEF PublishRequest, session
<1> HIDE DEF r
<1>2. stream \in Jobs
  BY <1>1 DEF OtaInv, Typing, Pointers
<1>3. /\ IsFiniteSet(requests) /\ IsFiniteSet(blocks)
      /\ IsFiniteSet(requests')
  BY <1>1, FS_AddElement DEF Serial, Streams
<1>4. \A js : /\ Inbound(requests, blocks, topics, js) \in Nat
              /\ Inbound(requests', blocks, topics, js) \in Nat
              /\ Inbound(requests', blocks, topics, js)
                   <= Inbound(requests, blocks, topics, js) + One(r.index < Blocks /\ r.job \in js)
  BY <1>1, <1>3, InboundType, InboundAsk
<1>5. /\ \A d, n, m \in Nat : m <= n => Covers(d, n, d, m)
      /\ \A m, n, c \in Nat : m <= n => m + c <= n + c /\ m + c \in Nat /\ n + c \in Nat
      /\ \A m, n, c \in Nat : m <= n + 1 => m + c <= n + (c + 1) /\ m + c \in Nat /\ n + (c + 1) \in Nat
  BY DEF Covers
<1>6. Arrivals' = Arrivals /\ Arrivals \in Nat /\ InBuffer' = InBuffer /\ InBuffer \in Nat
  BY <1>1, Numbers, ForeignType DEF Arrivals, InBuffer, job, data
<1>7. /\ Elsewhere' \in Nat /\ Elsewhere' <= Elsewhere
  <2>1. One(r.index < Blocks /\ r.job \in Jobs \ {stream}) = 0
    BY <1>1 DEF One
  <2>2. /\ OnTheWay \in Nat /\ OnTheWay' \in Nat
        /\ OnTheWay' <= OnTheWay + One(r.index < Blocks /\ r.job \in Jobs \ {stream})
    BY <1>1, <1>4 DEF OnTheWay, job
  <2>3. OnTheWay' <= OnTheWay
    BY <2>1, <2>2
  <2>4. Elsewhere = OnTheWay + InBuffer /\ Elsewhere' = OnTheWay' + InBuffer
    BY <1>6 DEF Elsewhere
  <2> QED
    BY <1>5, <1>6, <2>2, <2>3, <2>4
<1>8. /\ Inbound(requests', blocks', topics', Jobs) \in Nat
      /\ Inbound(requests, blocks, topics, Jobs) \in Nat
      /\ Inbound(requests', blocks', topics', Jobs) <= Inbound(requests, blocks, topics, Jobs) + 1
      /\ currentBlockOffset >= Blocks
           => Inbound(requests', blocks', topics', Jobs) <= Inbound(requests, blocks, topics, Jobs)
  <2>1. CASE currentBlockOffset < Blocks
    <3>1. One(r.index < Blocks /\ r.job \in Jobs) = 1
      BY <1>1, <1>2, <2>1 DEF One
    <3>2. /\ Inbound(requests', blocks', topics', Jobs) \in Nat
          /\ Inbound(requests, blocks, topics, Jobs) \in Nat
          /\ Inbound(requests', blocks', topics', Jobs) <= Inbound(requests, blocks, topics, Jobs) + 1
      BY <1>1, <1>4, <3>1
    <3> QED
      BY <2>1, <3>2, Numbers
  <2>2. CASE ~(currentBlockOffset < Blocks)
    <3>1. One(r.index < Blocks /\ r.job \in Jobs) = 0
      BY <1>1, <2>2 DEF One
    <3>2. /\ Inbound(requests', blocks', topics', Jobs) \in Nat
          /\ Inbound(requests, blocks, topics, Jobs) \in Nat
          /\ Inbound(requests', blocks', topics', Jobs) <= Inbound(requests, blocks, topics, Jobs) + 0
      BY <1>1, <1>4, <3>1
    <3> QED
      BY <3>2
  <2> QED
    BY <2>1, <2>2
<1>9. Owed' \in Nat /\ Owed' <= Owed + 1 /\ (currentBlockOffset >= Blocks => Owed' <= Owed)
  <2>1. /\ Owed = Inbound(requests, blocks, topics, Jobs) + Arrivals
        /\ Owed' = Inbound(requests', blocks', topics', Jobs) + Arrivals
    BY <1>6 DEF Owed
  <2>2. \A m, n, c \in Nat : /\ m + c \in Nat
                             /\ m <= n + 1 => m + c <= (n + c) + 1
                             /\ m <= n => m + c <= n + c
    OBVIOUS
  <2> QED
    BY <1>6, <1>8, <2>1, <2>2
<1>10. Load' \in Nat /\ Load' <= Load /\ Load \in Nat
  <2>1. Asks' = Asks /\ Asks \in Nat /\ Asking = 1 /\ Asking' = 0
    BY <1>1, Numbers DEF Asks, Asking
  <2>2. Load = Owed + (Asks + 1) /\ Load' = Owed' + Asks
    BY <2>1 DEF Load, Pending
  <2>3. Owed \in Nat
    BY Numbers
  <2> QED
    BY <1>5, <1>9, <2>1, <2>2, <2>3
<1>11. /\ Covers(duplicates, Load, duplicates, Load')
       /\ currentBlockOffset >= Blocks => Covers(duplicates, Owed, duplicates, Owed')
       /\ Covers(duplicates, Elsewhere, duplicates, Elsewhere')
  <2>1. duplicates \in Nat /\ Owed \in Nat /\ Elsewhere \in Nat
    BY Numbers, ForeignType
  <2> QED
    BY <1>5, <1>7, <1>9, <1>10, <2>1
<1>12. /\ Readies' = Readies /\ Asks' = Asks /\ Finishes' = Finishes /\ (Order => Order')
       /\ duplicates' = duplicates /\ duplicates \in Nat
       /\ UNCHANGED <<stream, numOfBlocksRemaining, currentBlockOffset, handle, flash, running>>
  BY <1>1, Numbers DEF Readies, Asks, Finishes, Order, Idle, Working, Open, job, counters, partitions
<1>13. Readies' \in Nat /\ Readies' <= Readies /\ Asks' \in Nat /\ Asks' <= Asks
  BY <1>12, Numbers
<1>14. Orderly'
  BY <1>1, <1>7, <1>9, <1>10, <1>11, <1>12, <1>13, FlowOrderly
<1> QED
  BY <1>1, <1>14 DEF Stuck, data

\* The report that a job is accepted changes only what is next.
LEMMA AcceptJobOrderly ==
  ASSUME OtaInv, Serial, Orderly, ~Stuck, AcceptJob
  PROVE  Orderly' /\ ~Stuck'
<1>1. /\ pc = "accept" /\ pc' = "subscribe" /\ (Open' <=> Open)
      /\ UNCHANGED <<requests, blocks, duplicates, topics, eventQueue, stream, buffer, bufferUsed,
                     numOfBlocksRemaining, currentBlockOffset, handle, flash, running>>
  BY AcceptJobSerial DEF AcceptJob, session, data, counters, partitions
<1>2. (Working' <=> Working) /\ Idle /\ Idle'
  BY <1>1 DEF Working, Idle
<1>3. /\ Load' = Load /\ Owed' = Owed /\ Misplaced' = Misplaced /\ Due' = Due
      /\ Readies' = Readies /\ Asks' = Asks /\ Arrivals' = Arrivals /\ Finishes' = Finishes
  BY <1>1, <1>2 DEF Load, Pending, Asking, Owed, Misplaced, Elsewhere, OnTheWay, InBuffer,
                    InPartition, UpdateSlot, Due, Readies, Asks, Arrivals, Finishes
<1>4. Loads'
  BY <1>1, <1>3 DEF Orderly, Loads
<1>5. Counters' /\ Phase' /\ Order' /\ Tally' /\ Foreign'
  BY <1>1, <1>2, <1>3 DEF Orderly, Counters, Phase, Order, Tally, Foreign
<1> QED
  BY <1>1, <1>4, <1>5 DEF Orderly, Stuck

\* Once the stream is subscribed its first block is asked for.
LEMMA SubscribeStreamOrderly ==
  ASSUME OtaInv, Serial, Orderly, ~Stuck, Roomy, Len(eventQueue) <= 4, SubscribeStream
  PROVE  Orderly' /\ ~Stuck'
<1>1. /\ pc = "subscribe" /\ pc' = "receive"
      /\ eventQueue' = Enqueue(eventQueue, "RequestFileBlock")
      /\ "RequestFileBlock" \in Events
      /\ topics' = topics \cup {<<filters, "data">>, <<filters, "rejected">>}
      /\ UNCHANGED <<jobStatus, notified, requests, blocks, duplicates, stream, buffer, bufferUsed,
                     numOfBlocksRemaining, currentBlockOffset, handle, flash, running>>
  BY DEF SubscribeStream, cloud, job, data, counters, partitions, Events
<1>2. Len(eventQueue) < QueueLength
  BY ConstantsAssumption DEF Roomy, OtaInv, Typing
<1>3. /\ Readies' = Readies /\ Asks' = Asks + 1 /\ Arrivals' = Arrivals /\ Finishes' = Finishes
      /\ \A f : f # "RequestFileBlock" => (Waiting(eventQueue', f) <=> Waiting(eventQueue, f))
      /\ \A f, g : Before(eventQueue, f, g) /\ (f = "RequestFileBlock" => g # f /\ ~Waiting(eventQueue, g))
                     => Before(eventQueue', f, g)
      /\ \A f, g : Before(eventQueue, f, g) /\ f # g => OneBehind(eventQueue', f, g)
  BY <1>1, <1>2, SendTally
<1>4. /\ \A r \in requests \cup blocks : r.job # filters
      /\ Working /\ Working' /\ Idle /\ ~Idle'
  BY <1>1, <1>3 DEF Serial, Streams, Handled, Working, Open, Idle
<1>5. \A js : Inbound(requests', blocks', topics', js) = Inbound(requests, blocks, topics, js)
  BY <1>1, <1>4, InboundSubscribe
<1>6. Owed' = Owed /\ Misplaced' = Misplaced /\ Due' = Due
  BY <1>1, <1>3, <1>4, <1>5
     DEF Owed, Misplaced, Elsewhere, OnTheWay, InBuffer, InPartition, UpdateSlot, Due
<1>7. Load' = Load
  <2>1. Asking = 1 /\ Asking' = 0 /\ Asks \in Nat
    BY <1>1, Numbers DEF Asking
  <2>2. Pending' = Pending
    BY <1>3, <2>1 DEF Pending
  <2> QED
    BY <1>6, <2>2 DEF Load
<1>8. Loads'
  BY <1>1, <1>6, <1>7 DEF Orderly, Loads
<1>9. Readies = 0 /\ Finishes = 0 /\ Asks <= 1 /\ ~Waiting(eventQueue, "FinishDownload")
  <2>1. Asks \in Nat /\ (Finishes = 0 <=> ~Waiting(eventQueue, "FinishDownload"))
    BY Sizes
  <2>2. Readies = 0 /\ Finishes = 0 /\ Asks + Finishes <= 1
    BY <1>1, <1>4 DEF Orderly, Tally
  <2> QED
    BY <2>1, <2>2
<1>10. Tally'
  <2>1. Readies' = 0 /\ Finishes' = 0 /\ (Asks' = 1 \/ Asks' = 2)
    BY <1>3, <1>9, Numbers
  <2>2. Asks' + Finishes' <= 2
    <3>1. CASE Asks' = 1
      BY <2>1, <3>1
    <3>2. CASE Asks' = 2
      BY <2>1, <3>2
    <3> QED
      BY <2>1, <3>1, <3>2
  <2> QED
    BY <1>1, <1>4, <2>1, <2>2 DEF Tally
<1>11. Order'
  BY <1>3, <1>4, <1>9 DEF Orderly, Order
<1>12. Counters' /\ Phase' /\ Foreign'
  BY <1>1, <1>3, <1>4, <1>6 DEF Orderly, Counters, Phase, Foreign
<1> QED
  BY <1>1, <1>3, <1>8, <1>10, <1>11, <1>12 DEF Orderly, Stuck

\* A refusal changes the status of no job, and the agent is ready.
LEMMA RejectJobOrderly ==
  ASSUME OtaInv, Serial, Orderly, ~Stuck, Roomy, Len(eventQueue) <= 4, RejectJob
  PROVE  Orderly' /\ ~Stuck'
<1>1. /\ pc = "reject" /\ pc' = "receive" /\ eventQueue' = Enqueue(eventQueue, "Ready")
      /\ "Ready" \in Events
      /\ UNCHANGED <<jobStatus, notified, requests, blocks, duplicates, topics, stream, buffer,
                     bufferUsed, numOfBlocksRemaining, currentBlockOffset, handle, flash, running>>
  BY ReportSerial DEF RejectJob, session, job, data, counters, partitions, Events
<1>2. Len(eventQueue) < QueueLength
  BY ConstantsAssumption DEF Roomy, OtaInv, Typing
<1>3. /\ Readies' = Readies + 1 /\ Asks' = Asks /\ Arrivals' = Arrivals /\ Finishes' = Finishes
      /\ \A f : f # "Ready" => (Waiting(eventQueue', f) <=> Waiting(eventQueue, f))
      /\ \A f, g : Before(eventQueue, f, g) /\ (f = "Ready" => g # f /\ ~Waiting(eventQueue, g))
                     => Before(eventQueue', f, g)
      /\ \A f, g : OneBehind(eventQueue, f, g) /\ f # "Ready" => OneBehind(eventQueue', f, g)
  BY <1>1, <1>2, SendTally
<1>4. (Working' <=> Working) /\ (Idle' <=> Idle)
  BY <1>1, <1>3 DEF Working, Open, Idle
<1>5. Owed' = Owed /\ Misplaced' = Misplaced /\ Due' = Due /\ Load' = Load
  BY <1>1, <1>3, <1>4
     DEF Owed, Misplaced, Elsewhere, OnTheWay, InBuffer, InPartition, UpdateSlot, Due, Load, Pending,
         Asking
<1>6. /\ Readies = 0 /\ Finishes = 0 /\ ~Waiting(eventQueue, "FinishDownload")
      /\ ~Waiting(eventQueue, "ReceivedJobDocument")
  BY <1>1, Sizes DEF Orderly, Tally, Serial, Handled
<1>7. Loads'
  BY <1>1, <1>5 DEF Orderly, Loads
<1>8. Tally'
  BY <1>1, <1>3, <1>4, <1>6 DEF Orderly, Tally
<1>9. Order'
  BY <1>3, <1>4, <1>6 DEF Orderly, Order
<1>10. Counters' /\ Phase' /\ Foreign'
  BY <1>1, <1>3, <1>4, <1>5 DEF Orderly, Counters, Phase, Foreign
<1> QED
  BY <1>1, <1>3, <1>7, <1>8, <1>9, <1>10 DEF Orderly, Stuck

\* A document is handled when nothing of the job before is left to do: a download
\* starts over, and what is still on its way for it came twice.
LEMMA ReceiveJobDocumentOrderly ==
  ASSUME OtaInv, Serial, Orderly, ~Stuck, ReceiveJobDocument
  PROVE  Orderly' /\ ~Stuck'
<1>1. /\ pc = "receive" /\ pc' \in {"accept", "reject"}
      /\ eventQueue # <<>> /\ Head(eventQueue) = "ReceivedJobDocument" /\ eventQueue' = Tail(eventQueue)
      /\ UNCHANGED <<jobStatus, notified, requests, blocks, duplicates, topics, buffer, bufferUsed,
                     running>>
  BY DEF ReceiveJobDocument, Take, cloud, session, data
<1>2. /\ Readies' = Readies /\ Asks' = Asks /\ Arrivals' = Arrivals /\ Finishes' = Finishes
      /\ \A f : f # "ReceivedJobDocument" => (Waiting(eventQueue', f) <=> Waiting(eventQueue, f))
      /\ \A f, g : Before(eventQueue, f, g) => Before(eventQueue', f, g)
      /\ \A f, g : OneBehind(eventQueue, f, g) => OneBehind(eventQueue', f, g)
      /\ Waiting(eventQueue, "ReceivedJobDocument")
  BY <1>1, TakeStep
<1>3. Open /\ ~Working /\ Working' /\ Idle /\ (Idle' <=> pc' = "accept")
  <2>1. ~Waiting(eventQueue', "ReceivedJobDocument")
    <3>1. Take("ReceivedJobDocument")
      BY DEF ReceiveJobDocument
    <3> QED
      BY <3>1, TakeSerial
  <2>2. Open
    BY <1>2 DEF Serial, Handled, Open
  <2> QED
    BY <1>1, <1>2, <2>1, <2>2 DEF Working, Open, Idle
<1>4. Readies = 0 /\ Finishes = 0
  <2>1. Before(eventQueue, "Ready", "ReceivedJobDocument")
    BY DEF Orderly, Order
  <2>2. Readies = 0
    BY <1>1, <2>1, TakeTally DEF Readies
  <2>3. Finishes \in Nat /\ ~(Finishes >= 1)
    BY <1>3, Numbers DEF Orderly, Phase
  <2> QED
    BY <2>2, <2>3
<1>5. Order' /\ Tally'
  BY <1>1, <1>2, <1>3, <1>4 DEF Orderly, Order, Tally
<1>6. /\ Owed' = Owed /\ Owed \in Nat /\ duplicates' = duplicates /\ duplicates \in Nat
      /\ Asking = 0 /\ (Asking' = IF pc' = "accept" THEN 1 ELSE 0)
      /\ Asks \in Nat /\ Due = 0 /\ Blocks \in Nat \ {0}
  BY <1>1, <1>2, <1>3, Numbers DEF Owed, Asking, Due
<1>7. /\ Pending = Asks /\ (Pending' = IF pc' = "accept" THEN Asks + 1 ELSE Asks)
  BY <1>2, <1>6 DEF Pending
<1>8. Owed + Asks <= duplicates /\ (Load' = IF pc' = "accept" THEN Owed + (Asks + 1) ELSE Owed + Asks)
  <2>1. Load = Owed + Asks
    BY <1>7 DEF Load
  <2>2. Load' = IF pc' = "accept" THEN Owed + (Asks + 1) ELSE Owed + Asks
    BY <1>6, <1>7 DEF Load
  <2> QED
    BY <1>6, <2>1, <2>2 DEF Orderly, Loads
<1>9. CASE jobBuffer \in BadDocuments
  <2>1. pc' = "reject" /\ UNCHANGED <<stream, numOfBlocksRemaining, currentBlockOffset, handle, flash>>
    BY <1>9 DEF ReceiveJobDocument, counters
  <2>2. Load' = Owed + Asks /\ Due' \in {0, 1}
    BY <1>8, <2>1 DEF Due
  <2>3. Load' <= duplicates' + Due'
    <3>1. CASE Due' = 0
      BY <1>6, <1>8, <2>2, <3>1
    <3>2. CASE Due' = 1
      BY <1>6, <1>8, <2>2, <3>2
    <3> QED
      BY <2>2, <3>1, <3>2
  <2>4. Loads'
    BY <1>6, <2>1, <2>3 DEF Orderly, Loads
  <2>5. Misplaced' = Misplaced
    BY <1>1, <1>2, <2>1 DEF Misplaced, Elsewhere, OnTheWay, InBuffer, InPartition, UpdateSlot
  <2>6. Counters' /\ Phase' /\ Foreign'
    BY <1>1, <1>2, <1>3, <1>4, <2>1, <2>5 DEF Orderly, Counters, Phase, Foreign
  <2> QED
    BY <1>1, <1>2, <1>5, <2>4, <2>6 DEF Orderly, Stuck
<1>10. CASE jobBuffer \notin BadDocuments
  <2>1. /\ numOfBlocksRemaining' = Blocks /\ currentBlockOffset' = 0 /\ stream' = jobBuffer
        /\ BeginUpdate
    BY <1>10 DEF ReceiveJobDocument
  <2>2. Due' = 1
    BY <1>3, <1>6, <2>1 DEF Due
  <2>3. Load' <= duplicates' + Due'
    <3>1. CASE pc' = "accept"
      BY <1>6, <1>8, <2>2, <3>1
    <3>2. CASE pc' # "accept"
      BY <1>6, <1>8, <2>2, <3>2
    <3> QED
      BY <3>1, <3>2
  <2>4. Loads'
    BY <1>6, <2>1, <2>3 DEF Loads
  <2>5. Counters' /\ Phase'
    BY <1>1, <1>2, <1>3, <1>4, <1>6, <2>1 DEF Counters, Phase
  <2>6. InPartition' = 0
    <3>1. UpdateSlot' = UpdateSlot /\ UpdateSlot \in Slots /\ flash \in [Slots -> Contents]
      BY <1>1, OtherLemma DEF UpdateSlot, OtaInv, Typing
    <3>2. handle' = "open" => flash'[UpdateSlot'] = <<>>
      BY <2>1, <3>1 DEF BeginUpdate
    <3>3. \A j : Strangers(<<>>, j) = 0
      <4>1. <<>> \in Seq(StreamBlocks)
        BY EmptySeq
      <4> QED
        BY <4>1, StrangersLemma
    <3> QED
      BY <3>2, <3>3 DEF InPartition
  <2>7. InBuffer' <= Arrivals /\ InBuffer' \in Nat
    BY <1>2, Numbers DEF InBuffer
  <2>8. /\ OnTheWay' = Inbound(requests, blocks, topics, Jobs \ {jobBuffer})
        /\ Inbound(requests, blocks, topics, Jobs \ {jobBuffer}) <= Inbound(requests, blocks, topics, Jobs)
        /\ Inbound(requests, blocks, topics, Jobs \ {jobBuffer}) \in Nat
        /\ Inbound(requests, blocks, topics, Jobs) \in Nat
    <3>1. OnTheWay' = Inbound(requests, blocks, topics, Jobs \ {jobBuffer})
      BY <1>1, <2>1 DEF OnTheWay
    <3>2. /\ IsFiniteSet(requests) /\ IsFiniteSet(blocks)
          /\ requests \in SUBSET requests /\ blocks \in SUBSET blocks /\ topics \in SUBSET topics
          /\ Jobs \ {jobBuffer} \in SUBSET Jobs
      BY DEF Serial, Streams
    <3>3. Inbound(requests, blocks, topics, Jobs \ {jobBuffer}) <= Inbound(requests, blocks, topics, Jobs)
      BY <3>2, InboundSubset
    <3> QED
      BY <3>1, <3>3, Sizes
  <2>9. Misplaced' <= duplicates
    <3>1. \A m, n, c, d \in Nat : m <= n /\ c <= d => m + c <= n + d /\ m + c \in Nat
      OBVIOUS
    <3>2. Elsewhere' <= Owed /\ Elsewhere' \in Nat
      <4>1. PICK m \in Nat, k \in Nat : m = OnTheWay' /\ k = InBuffer'
        BY <2>7, <2>8
      <4>2. /\ Owed = Inbound(requests, blocks, topics, Jobs) + Arrivals /\ Elsewhere' = m + k
            /\ m <= Inbound(requests, blocks, topics, Jobs) /\ k <= Arrivals
        BY <2>7, <2>8, <4>1 DEF Elsewhere, Owed
      <4> QED
        BY <2>8, <3>1, <4>2, Numbers
    <3>3. Misplaced' = Elsewhere'
      <4>1. Misplaced' = Elsewhere' + 0
        BY <2>6 DEF Misplaced
      <4>2. \A m \in Nat : m + 0 = m
        OBVIOUS
      <4> QED
        BY <3>2, <4>1, <4>2
    <3>4. Owed <= duplicates
      BY <1>6, <1>8
    <3>5. \A m, n, d \in Nat : m <= n /\ n <= d => m <= d
      OBVIOUS
    <3> QED
      BY <1>6, <3>2, <3>3, <3>4, <3>5
  <2>10. Foreign'
    BY <1>6, <2>9 DEF Foreign
  <2> QED
    BY <1>1, <1>2, <1>5, <2>4, <2>5, <2>10 DEF Orderly, Stuck
<1> QED
  BY <1>9, <1>10

\* The end of a download: nothing else is left for it in the queue, and what goes to
\* be selected is the job's image, or one of which every block came twice.
LEMMA ReceiveFinishOrderly ==
  ASSUME OtaInv, Serial, Orderly, ~Stuck, ReceiveFinish
  PROVE  Orderly' /\ ~Stuck' /\ Earned'
<1>1. /\ pc = "receive" /\ pc' \in {"succeed", "fail"} /\ handle' = "closed"
      /\ eventQueue # <<>> /\ Head(eventQueue) = "FinishDownload" /\ eventQueue' = Tail(eventQueue)
      /\ UNCHANGED <<jobStatus, notified, requests, blocks, duplicates, topics, stream, buffer,
                     bufferUsed, numOfBlocksRemaining, currentBlockOffset, flash, running>>
  BY DEF ReceiveFinish, Take, cloud, session, job, data, counters
<1>2. /\ Readies' = Readies /\ Asks' = Asks /\ Arrivals' = Arrivals /\ Finishes' = Finishes - 1
      /\ \A f : f # "FinishDownload" => (Waiting(eventQueue', f) <=> Waiting(eventQueue, f))
      /\ \A f, g : Before(eventQueue, f, g) => Before(eventQueue', f, g)
      /\ \A f, g : OneBehind(eventQueue, f, g) => OneBehind(eventQueue', f, g)
      /\ Waiting(eventQueue, "FinishDownload")
  BY <1>1, TakeStep
<1>3. Finishes = 1 /\ Finishes' = 0
  <2>1. Finishes \in Nat /\ (Finishes = 0 <=> ~Waiting(eventQueue, "FinishDownload"))
    BY Sizes
  <2>2. Finishes = 1
    BY <1>2, <2>1 DEF Orderly, Tally
  <2> QED
    BY <1>2, <2>2
<1>4. Readies = 0 /\ Asks = 0
  BY <1>1, TakeTally DEF Orderly, Order, Readies, Asks
<1>5. Working /\ Working' /\ currentBlockOffset >= Blocks /\ ~Idle /\ ~Idle'
  BY <1>1, <1>2, <1>3 DEF Orderly, Phase, Working, Open, Idle
<1>6. Owed' = Owed /\ Elsewhere' = Elsewhere /\ Due' = Due /\ Load' = Load
  BY <1>1, <1>2, <1>5
     DEF Owed, Elsewhere, OnTheWay, InBuffer, Due, Load, Pending, Asking
<1>7. Loads'
  BY <1>1, <1>6 DEF Orderly, Loads
<1>8. Counters' /\ Phase' /\ Order' /\ Tally'
  BY <1>1, <1>2, <1>3, <1>4, <1>5 DEF Orderly, Counters, Phase, Order, Tally
<1>9. Foreign'
  <2>1. InPartition' = 0 /\ InPartition \in Nat /\ Elsewhere \in Nat /\ duplicates \in Nat
    BY <1>1, ForeignType, Numbers DEF InPartition
  <2>2. Misplaced' = Elsewhere + 0
    BY <1>6, <2>1 DEF Misplaced
  <2>3. Elsewhere + InPartition <= duplicates => Elsewhere + 0 <= duplicates
    BY <2>1
  <2> QED
    BY <1>1, <2>2, <2>3 DEF Orderly, Foreign, Misplaced
<1>10. Earned'
  <2> SUFFICES ASSUME pc' = "succeed"
               PROVE  flash[UpdateSlot] = Image(stream) \/ duplicates >= Blocks
    <3>1. /\ pc' = "succeed" => bootSlot' = UpdateSlot
          /\ flash' = flash /\ stream' = stream /\ duplicates' = duplicates
      BY <1>1 DEF ReceiveFinish
    <3> QED
      BY <3>1 DEF Earned
  <2>1. handle = "open" /\ Complete(flash[UpdateSlot])
    BY DEF ReceiveFinish
  <2>2. flash[UpdateSlot] \in Seq(StreamBlocks)
    BY <2>1 DEF OtaInv, Written
  <2>3. PICK i \in Jobs : flash[UpdateSlot] = Image(i)
    BY <2>1, <2>2, CompleteLemma
  <2>4. CASE i # stream
    <3>1. InPartition = Blocks
      BY <2>1, <2>2, <2>3, <2>4, StrangersLemma DEF InPartition
    <3>2. stream # None
      BY <1>2 DEF OtaInv, Pointers
    <3>3. Elsewhere + InPartition <= duplicates /\ Elsewhere \in Nat /\ Blocks \in Nat
          /\ duplicates \in Nat
      BY <3>2, ForeignType, Numbers DEF Orderly, Foreign, Misplaced
    <3> QED
      BY <3>1, <3>3
  <2> QED
    BY <2>3, <2>4
<1> QED
  BY <1>1, <1>2, <1>7, <1>8, <1>9, <1>10 DEF Orderly, Stuck

\* The report of the end of a job is sent when no event of it waits.
LEMMA EndOrderly ==
  ASSUME OtaInv, Serial, Orderly, ~Stuck, Roomy, Len(eventQueue) <= 4, Succeed \/ Fail
  PROVE  Orderly' /\ ~Stuck'
<1>1. /\ pc \in {"succeed", "fail"} /\ pc' \in {"receive", "restart"}
      /\ \/ eventQueue' = eventQueue
         \/ eventQueue' = Enqueue(eventQueue, "Ready") /\ pc' = "receive"
      /\ "Ready" \in Events
      /\ UNCHANGED <<notified, requests, blocks, duplicates, topics, stream, buffer,
                     bufferUsed, numOfBlocksRemaining, currentBlockOffset, handle, flash, running>>
  BY DEF Succeed, Fail, session, job, data, counters, partitions, Events
<1>2. Len(eventQueue) < QueueLength
  BY ConstantsAssumption DEF Roomy, OtaInv, Typing
<1>3. Readies = 0 /\ Asks = 0 /\ Finishes = 0
  <2>1. Readies = 0 /\ Asks + Finishes = 0 /\ Asks \in Nat /\ Finishes \in Nat
    BY <1>1, Numbers DEF Orderly, Tally
  <2> QED
    BY <2>1
<1>4. /\ ~Waiting(eventQueue, "RequestFileBlock") /\ ~Waiting(eventQueue, "FinishDownload")
      /\ ~Waiting(eventQueue, "ReceivedJobDocument")
      /\ currentBlockOffset >= Blocks
  BY <1>1, <1>3, Sizes DEF Orderly, Phase, Working
<1>5. /\ Readies' \in {0, 1} /\ (pc' = "restart" => Readies' = 0)
      /\ Asks' = 0 /\ Arrivals' = Arrivals /\ Finishes' = 0
      /\ \A f : f # "Ready" => (Waiting(eventQueue', f) <=> Waiting(eventQueue, f))
  <2>1. CASE eventQueue' = eventQueue /\ pc' = "restart"
    BY <1>3, <2>1 DEF Readies, Asks, Arrivals, Finishes
  <2>2. CASE eventQueue' = Enqueue(eventQueue, "Ready") /\ pc' = "receive"
    BY <1>1, <1>2, <1>3, <2>2, SendTally
  <2> QED
    BY <1>1, <2>1, <2>2 DEF Succeed, Fail
<1>6. Order'
  <2>1. \A f : ~Waiting(eventQueue', f) <=> Places(eventQueue', f) = {}
    BY DEF Waiting, Places
  <2> QED
    BY <1>4, <1>5, <2>1 DEF Order, Before, OneBehind
<1>7. Tally'
  <2>1. Asks' + Finishes' = 0
    BY <1>5
  <2> QED
    BY <1>1, <1>5, <2>1 DEF Tally
<1>8. /\ Owed' = Owed /\ Misplaced' = Misplaced /\ Load' = Load
      /\ Due = 0 /\ Due' = 0
  <2>1. Blocks \in Nat /\ currentBlockOffset \in Nat
    BY Numbers
  <2>2. Asks' = Asks
    BY <1>3, <1>5
  <2> QED
    BY <1>1, <1>4, <1>5, <2>1, <2>2
       DEF Owed, Misplaced, Elsewhere, OnTheWay, InBuffer, InPartition, UpdateSlot, Due, Load,
           Pending, Asking
<1>9. Loads'
  BY <1>1, <1>8 DEF Orderly, Loads
<1>10. Counters' /\ Phase' /\ Foreign'
  BY <1>1, <1>3, <1>4, <1>5, <1>8 DEF Orderly, Counters, Phase, Foreign
<1> QED
  BY <1>1, <1>5, <1>6, <1>7, <1>9, <1>10 DEF Orderly, Stuck

\* A block is handled: its event gives way to the next.
LEMMA BlockStep ==
  ASSUME OtaInv, Serial, eventQueue # <<>>, Head(eventQueue) = "ReceivedFileBlock",
         NEW event \in {"RequestFileBlock", "FinishDownload"},
         eventQueue' = Enqueue(Tail(eventQueue), event)
  PROVE  /\ Len(eventQueue') = Len(eventQueue)
         /\ Readies' = Readies
         /\ Asks' = IF event = "RequestFileBlock" THEN Asks + 1 ELSE Asks
         /\ Finishes' = IF event = "FinishDownload" THEN Finishes + 1 ELSE Finishes
         /\ Arrivals = 1 /\ Arrivals' = 0
         /\ Waiting(eventQueue, "ReceivedFileBlock") /\ ~Waiting(eventQueue', "ReceivedFileBlock")
         /\ Waiting(eventQueue', "ReceivedJobDocument") <=> Waiting(eventQueue, "ReceivedJobDocument")
         /\ \A f, g : Before(eventQueue, f, g) /\ (f = event => g # f /\ ~Waiting(Tail(eventQueue), g))
                        => Before(eventQueue', f, g)
         /\ ~Waiting(Tail(eventQueue), "ReceivedFileBlock")
         /\ Finishes = 0 => ~Waiting(Tail(eventQueue), "FinishDownload")
<1>1. PICK rest : rest = Tail(eventQueue)
  OBVIOUS
<1>2. /\ rest \in Seq(Events) /\ Len(rest) = Len(eventQueue) - 1
      /\ \A f : Count(rest, f)
                  = IF f = "ReceivedFileBlock" THEN Count(eventQueue, f) - 1 ELSE Count(eventQueue, f)
      /\ \A f : f # "ReceivedFileBlock" => (Waiting(rest, f) <=> Waiting(eventQueue, f))
      /\ \A f, g : Before(eventQueue, f, g) => Before(rest, f, g)
      /\ Waiting(eventQueue, "ReceivedFileBlock")
  BY <1>1, TakeTally
<1>3. Len(eventQueue) \in Nat /\ Len(eventQueue) <= QueueLength /\ QueueLength \in Nat
  BY ConstantsAssumption DEF OtaInv, Typing
<1>4. Len(rest) < QueueLength /\ event \in Events /\ eventQueue' = Enqueue(rest, event)
  BY <1>1, <1>2, <1>3 DEF Events
<1>5. /\ Len(eventQueue') = Len(rest) + 1
      /\ \A f : Count(eventQueue', f) = Count(rest, f) + One(f = event)
      /\ \A f : Waiting(eventQueue', f) <=> f = event \/ Waiting(rest, f)
      /\ \A f, g : Before(rest, f, g) /\ (f = event => g # event /\ ~Waiting(rest, g))
                     => Before(eventQueue', f, g)
  BY <1>2, <1>4, SendCount
<1>6. Len(eventQueue') = Len(eventQueue)
  BY <1>2, <1>3, <1>5
<1>7. Arrivals = 1
  <2>1. Arrivals \in Nat /\ Arrivals <= 1 /\ (Arrivals = 0 <=> ~Waiting(eventQueue, "ReceivedFileBlock"))
    BY Sizes
  <2> QED
    BY <1>2, <2>1
<1>8. ~Waiting(rest, "ReceivedFileBlock")
  <2>1. Count(rest, "ReceivedFileBlock") = 0
    BY <1>2, <1>7 DEF Arrivals
  <2> QED
    BY <1>2, <2>1, CountLemma
<1>9. \A f : f # "ReceivedFileBlock"
              => Count(eventQueue', f) = IF f = event THEN Count(eventQueue, f) + 1 ELSE Count(eventQueue, f)
  <2>1. \A f : Count(eventQueue, f) \in Nat
    BY CountLemma DEF OtaInv, Typing
  <2> QED
    BY <1>2, <1>5, <2>1 DEF One
<1>10. Count(eventQueue', "ReceivedFileBlock") = 0
  <2>1. One("ReceivedFileBlock" = event) = 0
    BY DEF One
  <2> QED
    BY <1>2, <1>5, <1>7, <2>1 DEF Arrivals
<1>11. /\ Readies' = Readies
       /\ Asks' = IF event = "RequestFileBlock" THEN Asks + 1 ELSE Asks
       /\ Finishes' = IF event = "FinishDownload" THEN Finishes + 1 ELSE Finishes
       /\ Arrivals' = 0
  BY <1>9, <1>10 DEF Readies, Asks, Finishes, Arrivals
<1>12. /\ ~Waiting(eventQueue', "ReceivedFileBlock")
       /\ Waiting(eventQueue', "ReceivedJobDocument") <=> Waiting(eventQueue, "ReceivedJobDocument")
       /\ \A f, g : Before(eventQueue, f, g) /\ (f = event => g # f /\ ~Waiting(rest, g))
                      => Before(eventQueue', f, g)
  BY <1>2, <1>5, <1>8
<1>13. Finishes = 0 => ~Waiting(rest, "FinishDownload")
  BY <1>2, Sizes
<1> QED
  BY <1>1, <1>2, <1>6, <1>7, <1>8, <1>11, <1>12, <1>13

\* What waits when a block is handled, and what remains to be counted.
LEMMA BlockCounts ==
  ASSUME OtaInv, Serial, Orderly, duplicates <= MaxCounter, pc = "receive",
         eventQueue # <<>>, Head(eventQueue) = "ReceivedFileBlock"
  PROVE  /\ Finishes = 0 /\ Asks <= 1 /\ (Idle => Asks = 0) /\ stream # None
         /\ currentBlockOffset < Blocks
              => /\ Working /\ ~Idle
                 /\ numOfBlocksRemaining = Blocks - currentBlockOffset
         /\ currentBlockOffset = Blocks => numOfBlocksRemaining = 0 /\ handle = "closed"
         /\ currentBlockOffset > Blocks
              => /\ numOfBlocksRemaining = MaxCounter + 1 + Blocks - currentBlockOffset
                 /\ numOfBlocksRemaining >= 2
         /\ currentBlockOffset >= Blocks => handle = "closed"
<1>1. Waiting(eventQueue, "ReceivedFileBlock") /\ Arrivals >= 1
  BY TakeTally, Sizes
<1>2. stream # None
  BY <1>1 DEF OtaInv, Pointers
<1>3. Finishes = 0
  BY TakeTally DEF Orderly, Order, Finishes
<1>4. Asks <= 1
  BY TakeTally DEF Orderly, Order, Asks
<1>5. Idle => Asks = 0
  BY TakeTally DEF Orderly, Order, Asks
<1>6. currentBlockOffset < Blocks => Working /\ ~Idle
  <2>1. Blocks \in Nat /\ currentBlockOffset \in Nat
    BY Numbers
  <2> QED
    BY <1>2, <2>1 DEF Orderly, Phase, Idle
<1>7. /\ currentBlockOffset < Blocks => numOfBlocksRemaining = Blocks - currentBlockOffset
      /\ currentBlockOffset = Blocks => numOfBlocksRemaining = 0
      /\ currentBlockOffset > Blocks
           => numOfBlocksRemaining = MaxCounter + 1 + Blocks - currentBlockOffset
  BY <1>2, Numbers DEF Orderly, Counters
<1>8. currentBlockOffset >= Blocks => handle = "closed"
  BY <1>2, <1>3 DEF Orderly, Phase
<1>9. currentBlockOffset > Blocks => numOfBlocksRemaining >= 2
  <2>1. Owed >= 1 /\ Owed \in Nat
    <3>1. /\ Owed = Inbound(requests, blocks, topics, Jobs) + Arrivals
          /\ Inbound(requests, blocks, topics, Jobs) \in Nat
          /\ Arrivals \in Nat
      BY Sizes DEF Owed
    <3> QED
      BY <1>1, <3>1
  <2>2. /\ Blocks \in Nat /\ currentBlockOffset \in Nat /\ MaxCounter \in Nat /\ duplicates \in Nat
    BY Numbers
  <2>3. currentBlockOffset >= Blocks => Owed + currentBlockOffset <= duplicates + Blocks
    BY <1>2 DEF Orderly, Loads
  <2> QED
    BY <1>7, <2>1, <2>2, <2>3
<1> QED
  BY <1>2, <1>3, <1>4, <1>5, <1>6, <1>7, <1>8, <1>9, Numbers

\* A garbled block keeps the buffer, and with it the room in the queue.
LEMMA GarbledKept ==
  ASSUME OtaInv, Serial, Orderly, duplicates <= MaxCounter, ReceiveFileBlock, buffer = Garbled
  PROVE  Kept'
<1>1. /\ pc = "receive" /\ pc' = "receive"
      /\ eventQueue # <<>> /\ Head(eventQueue) = "ReceivedFileBlock"
      /\ UNCHANGED <<jobStatus, notified, bufferUsed, numOfBlocksRemaining, handle, flash, running>>
      /\ eventQueue' = Enqueue(Tail(eventQueue), NextEvent)
  BY DEF ReceiveFileBlock, cloud, counters
<1>2. NextEvent = IF numOfBlocksRemaining = 0 THEN "FinishDownload" ELSE "RequestFileBlock"
  BY <1>1 DEF NextEvent
<1>3. PICK event \in {"RequestFileBlock", "FinishDownload"} :
        /\ event = NextEvent
        /\ event = "FinishDownload" <=> numOfBlocksRemaining = 0
  BY <1>2
<1>4. /\ Len(eventQueue') = Len(eventQueue)
      /\ Finishes' = IF event = "FinishDownload" THEN Finishes + 1 ELSE Finishes
      /\ Arrivals = 1 /\ Waiting(eventQueue, "ReceivedFileBlock")
      /\ ~Waiting(eventQueue', "ReceivedFileBlock")
  BY <1>1, <1>3, BlockStep
<1>5. /\ Finishes = 0 /\ Asks <= 1 /\ (Idle => Asks = 0)
      /\ numOfBlocksRemaining = 0 => handle = "closed"
  <2>1. /\ Finishes = 0 /\ Asks <= 1 /\ (Idle => Asks = 0)
        /\ currentBlockOffset < Blocks => numOfBlocksRemaining = Blocks - currentBlockOffset
        /\ currentBlockOffset > Blocks => numOfBlocksRemaining >= 2
        /\ currentBlockOffset = Blocks => handle = "closed"
    BY <1>1, BlockCounts
  <2>2. Blocks \in Nat /\ currentBlockOffset \in Nat
    BY Numbers
  <2> QED
    BY <2>1, <2>2
<1>6. Finishes' \in {0, 1} /\ (Finishes' = 1 => numOfBlocksRemaining = 0)
  BY <1>3, <1>4, <1>5
<1>7. Stuck'
  BY <1>1, <1>4 DEF Stuck, OtaInv, Owner
<1>8. NextJob' = NextJob /\ Pledge' = 0
  BY <1>1 DEF NextJob, Open, Pledge
<1>9. Len(eventQueue) + NextJob <= 3
  <2>1. /\ Len(eventQueue) = Readies + Documents + Asks + 1
        /\ Readies \in Nat /\ Documents \in Nat /\ Asks \in Nat
        /\ Documents <= 1 /\ (Documents = 0 <=> ~Waiting(eventQueue, "ReceivedJobDocument"))
    BY <1>4, <1>5, Sizes
  <2>2. Readies <= 1
    BY DEF Orderly, Tally
  <2>3. CASE Idle
    <3>1. Documents + NextJob <= 1
      <4>1. CASE Documents = 0
        BY <4>1 DEF NextJob
      <4>2. CASE Documents # 0
        <5>1. NextJob = 0
          BY <2>1, <4>2 DEF NextJob, Open, Serial, Handled
        <5> QED
          BY <2>1, <5>1
      <4> QED
        BY <4>1, <4>2
    <3>2. NextJob \in {0, 1}
      BY DEF NextJob
    <3> QED
      BY <1>5, <2>1, <2>2, <2>3, <3>1, <3>2
  <2>4. CASE ~Idle
    <3>1. Documents = 0 /\ NextJob = 0
      BY <2>1, <2>4 DEF Idle, Working, NextJob
    <3> QED
      BY <1>5, <2>1, <2>2, <3>1
  <2> QED
    BY <2>3, <2>4
<1>10. Len(eventQueue') + Pledge' + Finishes' + NextJob' <= 4
  <2>1. Len(eventQueue) \in Nat /\ NextJob \in {0, 1}
    BY DEF OtaInv, Typing, NextJob
  <2>2. CASE Finishes' = 0
    BY <1>4, <1>8, <1>9, <2>1, <2>2
  <2>3. CASE Finishes' = 1
    BY <1>4, <1>8, <1>9, <2>1, <2>3
  <2> QED
    BY <1>6, <2>2, <2>3
<1>11. Finishes' >= 1 => handle' = "closed"
  BY <1>1, <1>5, <1>6
<1> QED
  BY <1>1, <1>7, <1>10, <1>11 DEF Kept, Spent

\* A block of another stream goes from the buffer to the partition, or nowhere.
LEMMA BlockForeign ==
  ASSUME OtaInv, Serial, Orderly, stream # None, Arrivals = 1, Arrivals' = 0,
         buffer \in StreamBlocks, buffer # Garbled, WriteBlock,
         UNCHANGED <<requests, blocks, topics, duplicates, stream, handle, running>>
  PROVE  Foreign'
<1>1. OnTheWay' = OnTheWay /\ InBuffer' = 0 /\ OnTheWay \in Nat
  BY ForeignType DEF OnTheWay, InBuffer
<1>2. InBuffer = One(buffer.job # stream) /\ InBuffer \in Nat
  BY ForeignType DEF InBuffer, One
<1>3. UpdateSlot' = UpdateSlot /\ UpdateSlot \in Slots /\ flash \in [Slots -> Contents]
  BY OtherLemma DEF UpdateSlot, OtaInv, Typing
<1>4. InPartition' = InPartition \/ InPartition' = InPartition + InBuffer
  <2>1. CASE handle = "closed"
    BY <2>1 DEF InPartition
  <2>2. CASE handle = "open" /\ flash' = flash
    BY <1>3, <2>2 DEF InPartition
  <2>3. CASE handle = "open" /\ flash' = [flash EXCEPT ![UpdateSlot] = Append(@, buffer)]
    <3>1. flash'[UpdateSlot'] = Append(flash[UpdateSlot], buffer) /\ flash[UpdateSlot] \in Seq(StreamBlocks)
      BY <1>3, <2>3 DEF OtaInv, Written
    <3>2. Strangers(Append(flash[UpdateSlot], buffer), stream)
            = Strangers(flash[UpdateSlot], stream) + One(buffer.job # stream)
      BY <3>1, StrangersLemma
    <3>3. /\ InPartition = Strangers(flash[UpdateSlot], stream)
          /\ InPartition' = Strangers(Append(flash[UpdateSlot], buffer), stream)
      BY <2>3, <3>1 DEF InPartition
    <3> QED
      BY <1>2, <3>2, <3>3
  <2> QED
    BY <2>1, <2>2, <2>3 DEF WriteBlock, OtaInv, Typing
<1>5. Elsewhere' = OnTheWay + 0 /\ Elsewhere = OnTheWay + InBuffer
  BY <1>1 DEF Elsewhere
<1>6. /\ InPartition \in Nat /\ duplicates \in Nat /\ Elsewhere + InPartition <= duplicates
  BY ForeignType, Numbers DEF Orderly, Foreign, Misplaced
<1>7. PICK p \in {InPartition, InPartition + InBuffer} : p = InPartition'
  BY <1>4
<1>8. Elsewhere' = OnTheWay
  BY <1>1, <1>5
<1>9. OnTheWay + p <= duplicates
  <2>1. (OnTheWay + InBuffer) + InPartition <= duplicates
    BY <1>5, <1>6
  <2>2. p = InPartition \/ p = InPartition + InBuffer
    OBVIOUS
  <2>3. /\ OnTheWay \in Nat /\ InBuffer \in Nat /\ InPartition \in Nat /\ duplicates \in Nat
    BY <1>1, <1>2, <1>6
  <2> QED
    BY <2>1, <2>2, <2>3
<1>10. Misplaced' = OnTheWay + p
  BY <1>7, <1>8 DEF Misplaced
<1> QED
  BY <1>9, <1>10 DEF Foreign

\* A block that is handled moves the download on, or came twice.
LEMMA BlockOrderly ==
  ASSUME OtaInv, Serial, Orderly, ~Stuck, duplicates <= MaxCounter,
         ReceiveFileBlock, buffer # Garbled, ~(Restart /\ UNCHANGED cloud)
  PROVE  Orderly' /\ ~Stuck'
<1>1. /\ pc = "receive" /\ pc' = "receive"
      /\ eventQueue # <<>> /\ Head(eventQueue) = "ReceivedFileBlock"
      /\ WriteBlock /\ bufferUsed' = FALSE
      /\ numOfBlocksRemaining' = Decrement(numOfBlocksRemaining)
      /\ currentBlockOffset' = currentBlockOffset + 1
      /\ eventQueue' = Enqueue(Tail(eventQueue), NextEvent)
      /\ UNCHANGED <<jobStatus, notified, requests, blocks, duplicates, topics, stream, buffer, handle,
                     running>>
  BY DEF ReceiveFileBlock, cloud, session, job
<1>2. /\ Finishes = 0 /\ Asks <= 1 /\ (Idle => Asks = 0) /\ stream # None
      /\ currentBlockOffset < Blocks
           => /\ Working /\ ~Idle
              /\ numOfBlocksRemaining = Blocks - currentBlockOffset
      /\ currentBlockOffset = Blocks => numOfBlocksRemaining = 0
      /\ currentBlockOffset > Blocks
           => /\ numOfBlocksRemaining = MaxCounter + 1 + Blocks - currentBlockOffset
              /\ numOfBlocksRemaining >= 2
      /\ currentBlockOffset >= Blocks => handle = "closed"
  BY <1>1, BlockCounts
<1>3. /\ Blocks \in Nat \ {0} /\ MaxCounter \in Nat /\ MaxCounter > Blocks
      /\ currentBlockOffset \in Nat /\ Owed \in Nat /\ duplicates \in Nat /\ Asks \in Nat
  BY Numbers, ConstantsAssumption
\* The last block of the file is the only one that leaves none.
<1>4. /\ numOfBlocksRemaining' = 0 <=> currentBlockOffset + 1 = Blocks
      /\ currentBlockOffset + 1 <= Blocks => numOfBlocksRemaining' = Blocks - (currentBlockOffset + 1)
      /\ currentBlockOffset + 1 > Blocks
           => numOfBlocksRemaining' = MaxCounter + 1 + Blocks - (currentBlockOffset + 1)
  <2>1. CASE currentBlockOffset < Blocks
    <3>1. numOfBlocksRemaining = Blocks - currentBlockOffset /\ numOfBlocksRemaining # 0
      BY <1>2, <1>3, <2>1
    <3>2. numOfBlocksRemaining' = numOfBlocksRemaining - 1
      BY <1>1, <3>1 DEF Decrement
    <3> QED
      BY <1>3, <2>1, <3>1, <3>2
  <2>2. CASE currentBlockOffset = Blocks
    <3>1. numOfBlocksRemaining' = MaxCounter
      BY <1>1, <1>2, <2>2 DEF Decrement
    <3> QED
      BY <1>3, <2>2, <3>1
  <2>3. CASE currentBlockOffset > Blocks
    <3>1. /\ numOfBlocksRemaining = MaxCounter + 1 + Blocks - currentBlockOffset
          /\ numOfBlocksRemaining >= 2 /\ numOfBlocksRemaining # 0
      BY <1>2, <1>3, <2>3
    <3>2. numOfBlocksRemaining' = numOfBlocksRemaining - 1
      BY <1>1, <3>1 DEF Decrement
    <3> QED
      BY <1>3, <2>3, <3>1, <3>2
  <2> QED
    BY <1>3, <2>1, <2>2, <2>3
<1>5. PICK event \in {"RequestFileBlock", "FinishDownload"} :
        /\ event = NextEvent
        /\ event = "FinishDownload" <=> currentBlockOffset + 1 = Blocks
  BY <1>4 DEF NextEvent
<1>6. /\ Readies' = Readies
      /\ Asks' = IF event = "RequestFileBlock" THEN Asks + 1 ELSE Asks
      /\ Finishes' = IF event = "FinishDownload" THEN Finishes + 1 ELSE Finishes
      /\ Arrivals = 1 /\ Arrivals' = 0
      /\ Waiting(eventQueue, "ReceivedFileBlock") /\ ~Waiting(eventQueue', "ReceivedFileBlock")
      /\ Waiting(eventQueue', "ReceivedJobDocument") <=> Waiting(eventQueue, "ReceivedJobDocument")
      /\ \A f, g : Before(eventQueue, f, g) /\ (f = event => g # f /\ ~Waiting(Tail(eventQueue), g))
                     => Before(eventQueue', f, g)
      /\ ~Waiting(Tail(eventQueue), "ReceivedFileBlock")
      /\ Finishes = 0 => ~Waiting(Tail(eventQueue), "FinishDownload")
  BY <1>1, <1>5, BlockStep
<1>7. (Working' <=> Working) /\ (Idle' <=> Idle)
  BY <1>1, <1>6 DEF Working, Open, Idle
<1>8. Finishes' = (IF currentBlockOffset + 1 = Blocks THEN 1 ELSE 0)
  BY <1>2, <1>5, <1>6
<1>9. Asks' = (IF currentBlockOffset + 1 = Blocks THEN Asks ELSE Asks + 1)
  BY <1>5, <1>6
<1>10. Order'
  <2>1. /\ Before(eventQueue', "FinishDownload", "ReceivedFileBlock")
        /\ Before(eventQueue', "Ready", "FinishDownload")
        /\ Before(eventQueue', "Ready", "ReceivedJobDocument")
        /\ Before(eventQueue', "RequestFileBlock", "FinishDownload")
    BY <1>2, <1>6 DEF Orderly, Order
  <2>2. Places(eventQueue', "ReceivedFileBlock") = {}
    BY <1>6 DEF Waiting, Places
  <2> QED
    BY <2>1, <2>2 DEF Order, Before, OneBehind
<1>11. Tally'
  <2>1. Readies' <= 1
    BY <1>6 DEF Orderly, Tally
  <2>2. (Asks = 0 \/ Asks = 1) /\ (Idle => Asks = 0) /\ (Idle => currentBlockOffset + 1 # Blocks)
    BY <1>2, <1>3
  <2>3. Finishes' <= 1 /\ Asks' + Finishes' <= 2 /\ (Idle => Asks' + Finishes' <= 1)
    <3>1. CASE currentBlockOffset + 1 = Blocks
      <4>1. Finishes' = 1 /\ Asks' = Asks /\ ~Idle
        BY <1>8, <1>9, <2>2, <3>1
      <4> QED
        BY <2>2, <4>1
    <3>2. CASE currentBlockOffset + 1 # Blocks
      <4>1. Finishes' = 0 /\ Asks' = Asks + 1
        BY <1>8, <1>9, <3>2
      <4> QED
        BY <2>2, <4>1
    <3> QED
      BY <3>1, <3>2
  <2> QED
    BY <1>1, <1>7, <2>1, <2>3 DEF Tally
<1>12. Counters'
  BY <1>1, <1>4 DEF Counters
<1>13. Phase'
  <2>1. Finishes' >= 1 => Working /\ currentBlockOffset + 1 >= Blocks
    BY <1>2, <1>3, <1>8
  <2>2. ~Working => currentBlockOffset + 1 >= Blocks
    BY <1>2, <1>3
  <2>3. currentBlockOffset + 1 >= Blocks /\ Finishes' = 0 => handle = "closed"
    BY <1>2, <1>3, <1>8
  <2> QED
    BY <1>1, <1>7, <2>1, <2>2, <2>3 DEF Phase
<1>14. Owed' = Owed - 1 /\ Owed >= 1
  <2>1. PICK n \in Nat : n = Inbound(requests, blocks, topics, Jobs)
    BY Sizes
  <2>2. Owed = n + 1 /\ Owed' = n + 0
    BY <1>1, <1>6, <2>1 DEF Owed
  <2> QED
    BY <2>1, <2>2
<1>15. /\ Load = Owed + Asks
       /\ Load' = IF currentBlockOffset + 1 = Blocks THEN (Owed - 1) + Asks ELSE (Owed - 1) + (Asks + 1)
  <2>1. Asking = 0 /\ Asking' = 0
    BY <1>1 DEF Asking
  <2>2. Pending = Asks /\ Pending' = IF currentBlockOffset + 1 = Blocks THEN Asks ELSE Asks + 1
    BY <1>3, <1>9, <2>1 DEF Pending
  <2> QED
    BY <1>14, <2>2 DEF Load
<1>16. /\ Due = IF currentBlockOffset < Blocks THEN 1 ELSE 0
       /\ Due' = IF currentBlockOffset + 1 < Blocks THEN 1 ELSE 0
  <2>1. Due = IF currentBlockOffset < Blocks THEN 1 ELSE 0
    BY <1>2 DEF Due
  <2>2. currentBlockOffset + 1 < Blocks => Working
    BY <1>2, <1>3
  <2> QED
    BY <1>1, <1>7, <2>1, <2>2 DEF Due
<1>17. Loads'
  <2>1. Owed + Asks <= duplicates + (IF currentBlockOffset < Blocks THEN 1 ELSE 0)
    BY <1>15, <1>16 DEF Orderly, Loads
  <2>2. currentBlockOffset >= Blocks => Owed + currentBlockOffset <= duplicates + Blocks
    BY <1>2 DEF Orderly, Loads
  <2>3. Load' <= duplicates + Due'
    <3>1. CASE currentBlockOffset + 1 < Blocks
      <4>1. Load' = (Owed - 1) + (Asks + 1) /\ Due' = 1
        BY <1>3, <1>15, <1>16, <3>1
      <4>2. Owed + Asks <= duplicates + 1
        BY <1>3, <2>1, <3>1
      <4> QED
        BY <1>3, <4>1, <4>2
    <3>2. CASE currentBlockOffset + 1 = Blocks
      <4>1. Load' = (Owed - 1) + Asks /\ Due' = 0
        BY <1>3, <1>15, <1>16, <3>2
      <4>2. Owed + Asks <= duplicates + 1
        BY <1>3, <2>1, <3>2
      <4> QED
        BY <1>3, <4>1, <4>2
    <3>3. CASE currentBlockOffset >= Blocks
      <4>1. Load' = (Owed - 1) + (Asks + 1) /\ Due' = 0
        BY <1>3, <1>15, <1>16, <3>3
      <4>2. Owed + Asks <= duplicates + 0
        BY <1>3, <2>1, <3>3
      <4> QED
        BY <1>3, <4>1, <4>2
    <3> QED
      BY <1>3, <3>1, <3>2, <3>3
  <2>4. currentBlockOffset + 1 >= Blocks => (Owed - 1) + (currentBlockOffset + 1) <= duplicates + Blocks
    <3>1. CASE currentBlockOffset >= Blocks
      BY <1>3, <2>2, <3>1
    <3>2. CASE currentBlockOffset + 1 = Blocks
      <4>1. Owed + Asks <= duplicates + 1
        BY <1>3, <2>1, <3>2
      <4> QED
        BY <1>3, <3>2, <4>1
    <3> QED
      BY <1>3, <3>1, <3>2
  <2> QED
    BY <1>1, <1>14, <2>3, <2>4 DEF Loads
<1>18. Foreign'
  <2>1. buffer \in StreamBlocks
    BY <1>6 DEF OtaInv, Owner, ReceiveFileBlock
  <2> QED
    BY <1>1, <1>2, <1>6, <2>1, BlockForeign
<1> QED
  BY <1>1, <1>10, <1>11, <1>12, <1>13, <1>17, <1>18 DEF Orderly, Stuck

-----------------------------------------------------------------------------
\* Every step keeps the order.

\* Jobs are served one at a time, in every step.
LEMMA SerialStep ==
  ASSUME OtaInv, Serial, Roomy, [Next]_vars
  PROVE  Serial'
<1>1. ~ \E j \in Jobs : CancelJob(j)
  BY DEF Roomy, CancelJob
<1>2. CASE Cloud \/ LoseMessage
  BY <1>2, NotifyNextSerial, CloudSerial DEF Cloud
<1>3. CASE Agent
  BY <1>3, AgentSerial DEF Agent
<1>4. CASE Boot \/ BootFails \/ Crash \/ EspRestart
  BY <1>4, BootSerial, RestartSerial DEF BootFails, Crash, EspRestart
<1>5. CASE ReceiveReady \/ ReceiveJobDocument \/ AcceptJob \/ SubscribeStream
  BY <1>5, ReceiveSerial, ReceiveJobDocumentSerial, AcceptJobSerial, SubscribeStreamSerial
<1>6. CASE RejectJob \/ Succeed \/ Fail \/ ReceiveFinish
  BY <1>6, ReportSerial, ReceiveSerial
<1>7. CASE ReceiveRequest \/ PublishRequest \/ ReceiveFileBlock
  BY <1>7, ReceiveSerial, PublishRequestSerial, ReceiveFileBlockSerial
<1>8. CASE UNCHANGED vars
  <2>1. UNCHANGED <<jobStatus, notified, requests, blocks, pc, job, bufferUsed, eventQueue>>
    BY <1>8 DEF vars, cloud, events, data
  <2> QED
    BY <2>1 DEF Serial, Announced, Handled, Streams, Stopped, job
<1> QED
  BY <1>1, <1>2, <1>3, <1>4, <1>5, <1>6, <1>7, <1>8 DEF Next, Task

\* What is about to be reported stays what was selected.
LEMMA EarnedStep ==
  ASSUME OtaInv, Earned, [Next]_vars, ~ReceiveFinish
  PROVE  Earned'
<1>1. CASE pc' # "succeed"
  BY <1>1 DEF Earned
<1>2. CASE pc' = "succeed"
  <2>1. pc = "succeed" /\ UNCHANGED <<flash, bootSlot, stream>>
        /\ (duplicates' = duplicates \/ duplicates' = duplicates + 1)
    <3>1. CASE Cloud \/ LoseMessage \/ Agent \/ \E j \in Jobs : CancelJob(j)
      BY <1>2, <3>1
         DEF Cloud, NotifyNext, ServeBlock, LoseMessage, Agent, StreamDataCallback, Delivered, Unheard,
             CancelJob, events, job, partitions
    <3>2. CASE UNCHANGED vars
      BY <1>2, <3>2 DEF vars, cloud, events, job, partitions
    <3>3. ~Boot /\ ~BootFails /\ ~Crash /\ ~Task
      BY <1>2 DEF Boot, BootFails, Crash, Restart, Task, ReceiveReady, ReceiveJobDocument, AcceptJob,
                  SubscribeStream, RejectJob, ReceiveRequest, PublishRequest, ReceiveFileBlock, Succeed,
                  EspRestart, Fail, Take
    <3> QED
      BY <3>1, <3>2, <3>3 DEF Next
  <2>2. duplicates \in Nat /\ Blocks \in Nat
    BY ConstantsAssumption DEF OtaInv, Typing
  <2>3. duplicates >= Blocks => duplicates' >= Blocks
    BY <2>1, <2>2
  <2> QED
    BY <2>1, <2>3 DEF Earned
<1> QED
  BY <1>1, <1>2

\* The buffer is not kept by a step that leaves it, or its event, alone.
LEMMA QuietFree ==
  ASSUME OtaInv, ~Stuck, bufferUsed' = bufferUsed, NEW event \in Events,
         eventQueue' = eventQueue \/ eventQueue' = Enqueue(eventQueue, event)
  PROVE  ~Stuck'
BY KeepLemma DEF Stuck, OtaInv, Typing

\* With a free buffer every step keeps the counts, or garbles the block in it.
LEMMA OrderlyStep ==
  ASSUME OtaInv, Serial, Orderly, ~Stuck, Len(eventQueue) <= 4, duplicates <= MaxCounter,
         Roomy, [Next]_vars
  PROVE  (Orderly' /\ ~Stuck') \/ Kept'
<1>1. ~ \E j \in Jobs : CancelJob(j)
  BY DEF Roomy, CancelJob
<1>2. ASSUME NEW j \in Jobs, NotifyNext(j) PROVE Orderly' /\ ~Stuck'
  <2>1. /\ eventQueue' = Enqueue(eventQueue, "ReceivedJobDocument") /\ bufferUsed' = bufferUsed
        /\ "ReceivedJobDocument" \in Events
    BY <1>2 DEF NotifyNext, data, Events
  <2> QED
    BY <1>2, <2>1, NotifyNextOrderly, QuietFree
<1>3. ASSUME \/ \E r \in requests : ServeBlock(r)
             \/ LoseMessage
             \/ \E b \in blocks : Unheard(b) \/ (StreamDataCallback(b) /\ bufferUsed)
             \/ UNCHANGED vars
      PROVE  Orderly' /\ ~Stuck'
  <2>1. UNCHANGED <<eventQueue, bufferUsed>>
    BY <1>3 DEF ServeBlock, LoseMessage, Unheard, StreamDataCallback, vars, events, data
  <2>2. Orderly'
    BY <1>3, NetworkOrderly
  <2> QED
    BY <2>1, <2>2 DEF Stuck
<1>4. ASSUME NEW b \in blocks, StreamDataCallback(b), ~bufferUsed PROVE Orderly' /\ ~Stuck'
  BY <1>4, CallbackOrderly
<1>5. CASE BootFails \/ Crash \/ EspRestart
  BY <1>5, RestartOrderly DEF BootFails, Crash, EspRestart
<1>6. CASE Boot
  BY <1>6, BootOrderly
<1>7. CASE ReceiveReady \/ ReceiveRequest \/ ReceiveJobDocument \/ ReceiveFinish
  BY <1>7, ReceiveOrderly, ReceiveJobDocumentOrderly, ReceiveFinishOrderly
<1>8. CASE AcceptJob \/ SubscribeStream \/ RejectJob
  BY <1>8, AcceptJobOrderly, SubscribeStreamOrderly, RejectJobOrderly
<1>9. CASE PublishRequest \/ Succeed \/ Fail
  BY <1>9, PublishRequestOrderly, EndOrderly
<1>10. CASE ReceiveFileBlock
  BY <1>10, RestartOrderly, BlockOrderly, GarbledKept
<1> QED
  BY <1>1, <1>2, <1>3, <1>4, <1>5, <1>6, <1>7, <1>8, <1>9, <1>10 DEF Next, Cloud, Agent, Task

\* Both kinds of agent.
LEMMA SoundStep ==
  ASSUME OtaInv, Serial, Sound, duplicates <= MaxCounter, Roomy, [Next]_vars
  PROVE  Sound'
<1>1. Kept' => Sound'
  BY DEF Kept, Sound, Spent, Earned
<1>2. ASSUME Restart /\ UNCHANGED cloud PROVE Sound'
  <2>1. Orderly' /\ ~Stuck'
    BY <1>2, RestartOrderly
  <2>2. Earned'
    BY <1>2 DEF Restart, Earned
  <2> QED
    BY <2>1, <2>2 DEF Sound
<1>3. CASE Stuck
  <2>1. Kept
    BY <1>3 DEF Sound, Kept
  <2> QED
    BY <1>1, <1>2, <2>1, KeptStep
<1>4. CASE ~Stuck
  <2>1. Orderly /\ Earned /\ Len(eventQueue) <= 4
    BY <1>4, RoomLemma DEF Sound
  <2>2. (Orderly' /\ ~Stuck') \/ Kept'
    BY <1>4, <2>1, OrderlyStep
  <2>3. Earned'
    BY <1>4, <2>1, EarnedStep, ReceiveFinishOrderly
  <2> QED
    BY <1>1, <2>2, <2>3 DEF Sound
<1> QED
  BY <1>3, <1>4

\* The invariant is inductive, together with OtaInv.
LEMMA RoomStep == ASSUME Roomy PROVE OtaInv /\ RoomInv /\ [Next]_vars => RoomInv'
<1> SUFFICES ASSUME OtaInv, RoomInv, [Next]_vars PROVE RoomInv'
  OBVIOUS
<1>1. Serial'
  BY SerialStep DEF RoomInv
<1>2. ASSUME duplicates' <= MaxCounter PROVE Sound'
  <2>1. duplicates' = duplicates \/ duplicates' = duplicates + 1
    BY DEF Next, Cloud, NotifyNext, ServeBlock, LoseMessage, CancelJob, Agent, StreamDataCallback,
           Delivered, Unheard, Boot, BootFails, Crash, Task, ReceiveReady, ReceiveJobDocument,
           AcceptJob, SubscribeStream, RejectJob, ReceiveRequest, PublishRequest, ReceiveFileBlock,
           ReceiveFinish, Succeed, EspRestart, Fail, vars, cloud
  <2>2. duplicates \in Nat /\ MaxCounter \in Nat
    BY ConstantsAssumption DEF OtaInv, Typing
  <2>3. duplicates <= MaxCounter
    BY <1>2, <2>1, <2>2
  <2> QED
    BY <2>3, SoundStep DEF RoomInv
<1> QED
  BY <1>1, <1>2 DEF RoomInv

\* At first nothing is announced and nothing waits.
LEMMA RoomInit == Init => RoomInv
<1> SUFFICES ASSUME Init PROVE RoomInv
  OBVIOUS
<1>1. Serial
  <2>1. IsFiniteSet({})
    BY FS_EmptySet
  <2> QED
    BY <2>1, EmptyLemma, NoneLemma
       DEF Init, Serial, Announced, Handled, Streams, Stopped
<1>2. \A f : Places(eventQueue, f) = {} /\ Count(eventQueue, f) = 0 /\ ~Waiting(eventQueue, f)
  <2>1. \A f : ~Waiting(eventQueue, f)
    BY EmptyLemma DEF Init
  <2>2. \A f : Places(eventQueue, f) = {}
    BY <2>1 DEF Places, Waiting
  <2> QED
    BY <2>1, <2>2, FS_EmptySet DEF Count
<1>3. Readies = 0 /\ Asks = 0 /\ Arrivals = 0 /\ Finishes = 0
  BY <1>2 DEF Readies, Asks, Arrivals, Finishes
<1>4. Loads
  <2>1. Inbound(requests, blocks, topics, Jobs) = 0
    BY InboundNone DEF Init
  <2>2. Asking = 0 /\ Due \in {0, 1} /\ duplicates = 0 /\ stream = None
    BY DEF Init, Asking, Due
  <2>3. Load = 0
    BY <1>3, <2>1, <2>2 DEF Load, Owed, Pending
  <2> QED
    BY <2>2, <2>3 DEF Loads
<1>5. Counters /\ Phase /\ Foreign /\ Tally
  BY <1>3 DEF Init, Counters, Phase, Foreign, Tally
<1>6. Order
  BY <1>2 DEF Order, Before, OneBehind
<1>7. Sound
  BY <1>4, <1>5, <1>6 DEF Sound, Orderly, Stuck, Earned, Init
<1> QED
  BY <1>1, <1>7 DEF RoomInv

\* The invariant behind the two theorems that follow, for an agent whose queue has
\* five places and whose job no operator cancels.
THEOREM OtaRoom ==
  ASSUME "cancel" \notin Faults, QueueLength >= 5
  PROVE  Spec => []RoomInv
<1>1. OtaInv /\ RoomInv /\ [Next]_vars => RoomInv'
  BY RoomStep DEF Roomy
<1> QED
  BY <1>1, RoomInit, OtaInvariant, PTL DEF Spec

\* No event of the OTA queue is dropped (SendEvent_FreeRTOS does not wait for a
\* place): four of the five places of MAX_MESSAGES are as many as are ever taken,
\* unless an operator cancels the job in progress, after which the next job can be
\* announced while the events of this one still wait, or blocks come twice as often
\* as numOfBlocksRemaining has values.
THEOREM OtaNoEventDropped ==
  ASSUME "cancel" \notin Faults, QueueLength >= 5, MaxDuplicates <= MaxCounter
  PROVE  Spec => []NoEventDropped
<1>1. OtaInv /\ RoomInv => NoEventDropped
  <2> SUFFICES ASSUME OtaInv, RoomInv PROVE NoEventDropped
    OBVIOUS
  <2>1. duplicates <= MaxCounter
    BY ConstantsAssumption DEF OtaInv, Typing
  <2>2. Len(eventQueue) <= 4 /\ Len(eventQueue) \in Nat
    BY <2>1, RoomLemma DEF RoomInv
  <2> QED
    BY <2>2, ConstantsAssumption DEF NoEventDropped
<1> QED
  BY <1>1, OtaInvariant, OtaRoom, PTL

\* A job is reported SUCCEEDED only when the next boot starts its own image, or one
\* of which every block came twice (prvFinishFirmwareUpdate looks at the image and
\* not at the job it is of).
THEOREM OtaSuccessIsReal ==
  ASSUME "cancel" \notin Faults, QueueLength >= 5
  PROVE  Spec => SuccessIsReal
<1> DEFINE Whole ==
             \A j \in Jobs : jobStatus[j] # "SUCCEEDED" /\ jobStatus'[j] = "SUCCEEDED"
               => bootSlot # running /\ \E i \in Jobs : flash[bootSlot] = Image(i)
           Real ==
             \A j \in Jobs : jobStatus[j] # "SUCCEEDED" /\ jobStatus'[j] = "SUCCEEDED"
               => /\ bootSlot # running
                  /\ \/ flash[bootSlot] = Image(j)
                     \/ duplicates >= Blocks /\ \E i \in Jobs : flash[bootSlot] = Image(i)
<1>1. OtaInv /\ RoomInv /\ [Next]_vars /\ [Whole]_vars => [Real]_vars
  <2> SUFFICES ASSUME OtaInv, RoomInv, Next, Whole, NEW j \in Jobs,
                      jobStatus[j] # "SUCCEEDED", jobStatus'[j] = "SUCCEEDED"
               PROVE  flash[bootSlot] = Image(j) \/ duplicates >= Blocks
    OBVIOUS
  <2>1. Succeed
    BY SucceedLemma
  <2>2. j = globalJobId /\ jobStatus[j] \notin Terminal
    BY <2>1, ReportLemma DEF Succeed
  <2>3. j = stream
    BY <2>2 DEF RoomInv, Serial, Handled
  <2>4. CASE duplicates <= MaxCounter
    BY <2>1, <2>3, <2>4 DEF RoomInv, Sound, Earned, Succeed
  <2>5. CASE ~(duplicates <= MaxCounter)
    BY <2>5, ConstantsAssumption DEF OtaInv, Typing
  <2> QED
    BY <2>4, <2>5
<1> QED
  BY <1>1, OtaInvariant, OtaRoom, OtaSuccessIsWhole, PTL DEF Spec, SuccessIsReal

=============================================================================
