# Verification of the ESP32 device-security firmware

TLA+ modules, TLC configurations and TLAPS proofs for the firmware and the AWS
Lambdas of this repository: a camera device (ESP32, FreeRTOS) that is provisioned
with fleet provisioning, renews its client certificate and updates its firmware
over the air, all over MQTT with AWS IoT Core.

## Files

| Module | What it is |
| --- | --- |
| `CertRenewal` | renewal of the client certificate: renewal task, reconnection, NVS, job, two Lambdas |
| `MCCertRenewal` | its instances for TLC and its refinement of `CertRotation` |
| `CertRotation` | abstract specification: what rotating a certificate safely means, with a theorem |
| `CertRenewalProofs`, `CertRoutesProofs` | theorems about `CertRenewal`: types, and the routing of answers |
| `CertRotationProofs` | theorems about `CertRenewal`: the chain of a renewal, the refinement of `CertRotation`, what a reset can and cannot break |
| `OtaAgent` | firmware update: OTA task, stream, partitions, rollback, job |
| `OtaAgentProofs` | theorems about `OtaAgent`: rollback and partitions, the room in its queue, what a reported success means |
| `SubscriptionManager` | the array of subscriptions that routes publishes to callbacks |
| `RoutingTable` | abstract specification of that array, as its header promises: a bounded set of routes, every one of which a publish reaches |
| `MCSubscriptionManager` | their instances for TLC |
| `SubscriptionManagerProofs` | theorems about `SubscriptionManager` |
| `Wifi` | bringing up the station: `prvStartWifi`, the event handler, the retry counter |
| `Onboarding` | from power-on to a session with the device's own credentials, with fleet provisioning and its hook; extends `Wifi` |
| `Boot` | the order of the task starts and of the queues against the first job; extends `Onboarding` |
| `BootProofs` | theorems about these three |
| `MqttAgent` | the commands the tasks queue, their contexts, completions and notifications |
| `JobDispatch` | both agents over one `MqttAgent`: shared job buffer, shared job id, two event queues |
| `MqttAgentProofs` | theorems about `MqttAgent` under `JobDispatch`, and about `JobDispatch` |

Model checking: `tlc -config <cfg> <module>`; proofs: `tlapm <module>.tla`.
`PROJECT.json` lists the runs, the lines each definition models, the hazards and
the theorems.

## Inventory

For each component: its state, its operations, how it interacts, what is hard
about it and what makes it correct.

**Certificate renewal agent** (`Components/tasks/cert_renew_agent`).
*State*: `currentState`, an event queue of five, one shared payload buffer
`dataBuffers[0]`, two heap pointers `topic_filters`, one `certificateId`; the
credentials `AWSConnectSettings` with a current and a new pair.
*Operations*: the cases of `prvProcessingEvent` and two publish callbacks that run
in the MQTT agent task. *Interaction*: commands to the MQTT agent
(`PublishToTopic`, `SubscribeToTopic`, `UnSubscribeToTopic`, `TerminateMQTTAgent`)
in which the task blocks; events from the agent (`UpdateStatusRenew`). *Hard*: the
answers race the task's own events, the buffer is overwritten by every answer,
pointers are freed and keep their value, the old certificate is revoked before the
new one is stored. *Correct when*: the device always holds a pair AWS accepts, a
job reported successful is, every job ends.

**MQTT agent: task, connection, credentials** (`mqtt_agent/src/main.c`,
`mqtt_connection.c`, `mqtt_aws_credentials.c`). *State*: the session (clean, so the
broker forgets the subscriptions), the credentials in RAM, the OTA image state.
*Operations*: boot and connect with backoff, `prvCheckFirmware`, the command loop,
reconnection with the new pair with fall back to the stored one, reconnection
after a network error. *Hard*: subscriptions lost on reconnection, the loop left
after a network error, revocation after a fall back.

**MQTT agent: commands and job dispatch** (`mqtt_common.c`, and the coreMQTT-Agent
port). *State*: a pool of ten command structures and a queue of 25; command contexts
on the callers' stacks; one notification per task; `jobBuffers[0]` and `globalJobId`,
shared by both agents. *Operations*: publish and subscribe (wait without limit),
unsubscribe (gives up after ten seconds), terminate (does not wait), the completion
callbacks, the dispatch of a job document, the update of a job. *Hard*: a caller
that gives up while its context is in the queue; the notification of an old command
ends the wait for a new one; one agent ends the session under the other's
subscription; two jobs that share a buffer. *Correct when*: no structure is lost,
no caller is forgotten, documents and reports reach their own job.

**Signing and revoking Lambdas** (`Terraform/certificate_*`). Stateless code over
AWS IoT's certificates: create, activate and attach; revoke and delete every
principal of the thing but the named one. Invoked at least once; they answer with
QoS 0. The request Lambda creates the job with a timeout of five minutes.

**OTA agent** (`Components/tasks/ota_agent`). *State*: event queue of five, one
data buffer with an in-use flag, the counters of blocks and bytes, the update
handle, the two app partitions and `otadata`. *Operations*: the cases of
`prvProcessOTAEvents` and the stream callback. *Hard*: blocks lost, duplicated or
undecodable; a flash that refuses a write; a reset at any step; an image that does
not connect. *Correct when*: a reset always finds an image to boot, only an image
that connected is confirmed, success means the whole image is selected.

**Delta OTA** (`delta_ota.c`). Chooses the partition; a patch needs an `ota_patch`
partition the table does not have, so it is always refused.

**Subscription manager**. *State*: an array of four elements with holes.
*Operations*: add, remove, dispatch, all called in the MQTT agent task. *Correct
when* it behaves as a set of routes and holds no route twice.

**Event queues** (`queue_handler`). Sending never waits: a full queue drops the
event and no sender looks at the result. Receiving blocks.

**Onboarding** (`mqtt_onboarding.c`). *State*: the AWS namespace of NVS with its flag,
the credentials in RAM, the ownership token. *Operations*: session with the claim
pair, CSR, registration, three NVS writes, session with the new pair, the flag off.
*Interaction*: fleet provisioning over MQTT, each answer given a fixed time. *Hard*: a
reset between any two steps; answers that are late, lost or of an earlier attempt.
*Correct when* a device that thinks it is onboarded can connect.

**Fleet provisioning validation** (`fleet_provisioning_validation.py`). *State*: the
table entry of the device. The hook reads it and switches it off in two calls, before
the registration it allows takes effect.

**Wi-Fi and hardware set-up** (`setup_hw/main.c`). *State*: `retry_number`, the event
group. `prvStartWifi` waits for a bit that only the event handler sets; the counter
is never reset.

**Boot sequence** (`main/main.c`). `app_main` starts the MQTT agent task, waits for its
notification and starts the two agents, each of which creates its own queue. *Hard*:
the topic is subscribed before any queue exists. *Correct when* the device comes up.

**Key-value store**, **network transport**,
**application task**, **image upload Lambda**, **build and deployment**,
**third-party libraries**: see "Not modelled".

## How the models correspond to the code

**Tasks.** Every FreeRTOS task runs at the same priority and can be preempted, so a
step is what one task does between two points where its order against the others
matters. The tasks interact through the queues and through blocking calls into the
MQTT agent. A handler is split exactly at those calls: variable `pc` names the call
the task is blocked in (`"receive"` is `ReceiveEvent_FreeRTOS`). A blocked call
completes only while the agent runs its command loop and, the command queue being
FIFO, no TERMINATE of the same task is in front of it (`Served`). Everything the
handler does after the call up to the next one, its event included, is one action.

**Queues.** `Enqueue` drops on a full queue, `Take` removes the head. Events carry
no payload: the code passes pointers to `dataBuffers[0]` and `jobBuffers[0]`, so the
handlers of the models read `dataBuffer` and `jobBuffer` as they are when the event
is handled, not as they were when it was sent.

**Pointers.** `None` is NULL, `Freed` a pointer to freed memory. Using either
where the code would crash resets the device (`Restart`).

**Certificates** are `[key, copy]`: the key pair they were issued for and the Lambda
invocation that issued them. `Usable(cert, key)` is a TLS handshake AWS accepts:
the certificate is active and matches the key. NVS holds certificate and key as two
values written by two actions.

**Sessions.** `brokerSubs` (in `OtaAgent`, `topics`) is what the broker holds for
the clean session, `routes` the device's list. A subscription reaches both, a
reconnection empties the first only, and a full list refuses a topic (`AddRoute`)
while the broker takes it: a message is delivered when its topic is in both.

**Flash.** A partition is the sequence of blocks written to it; `esp_ota_end`
accepts exactly a complete image. The bootloader gives a new image one boot to
confirm itself, `otadata` is `bootSlot` with `bootState`.

**Faults** of the renewal and of OTA are a constant, the set of what the environment
may do in a run. Renewal: `crash` (from outside, at any step), `loss` (of any message), `tls`
(the handshake with a valid new pair fails), `neterr` (the command loop ends with an error),
`mqtterr` (DISCONNECT or CONNECT fails on a connection that is up), `giveup` (an
unsubscription is not acknowledged within ten seconds), `stream` (the OTA agent downloads an
image), `jobtimeout` (the five minutes of a job are over). OTA: `crash`, `loss`, `dup`,
`garble` (a block that cannot be decoded), `flash` (a write or `esp_ota_begin` fails),
`cancel` and `offline` (a good image cannot connect this time). In `Boot` faults are
counted: `drops` for the station, `faults` for crashes, losses, late answers, refusals,
broken links and a refused CONNECT.

**Resets from inside.** Besides `crash`, the renewal model resets the device where the code
does: a job document without an operation or a certName (`Incomplete`;
`ReceiveJobDocument`), a subscription that returns `MQTTSendFailed`
(`SubscribeCsr`, `RevokeOldCertificate`), a payload without certificate
(`ReceiveSigned`), a NULL or freed pointer (`HandleTerminate`, `FailRenewal`,
`FinishRevoke`, `FailRevoke`, `RevokeOldCertificate`), an MQTT error while the
session is renewed or restored (`MQTTFails`), no pair that connects
(`ConnectOldFails`), and a completion that finds anything in a dead frame (`LateCompletion`).

**Giving up.** `UnSubscribeToTopic` alone waits for a limited time. When it gives up
(`GivesUp`, `LeaveBehind`) the command stays in the agent (`abandoned`), and the caller
frees its filters all the same, so that their elements keep places in the list (`taken`) and
still match their topic if the heap hands the memory out for it again (`givenUp`,
`Heard`, `Subscribe`). The late notification (`notification`) ends the task's next call: a
publish returns with its command left behind (`Published`), and a subscription
fails its assertion. What the late completion unsubscribes and removes is what
it finds where the frame was, so any of the topics (`LateCompletion`). `OtaStream` takes
places in the same list, two for a stream, or the last one.

**Onboarding.** `pc` is where `mqttAgentTask` is: a step is one blocking call
(`"await_csr"` and `"await_register"` are `ProcessLoopWithTimeout`) or one NVS write. The
device starts as `nvs.csv` flashes it, with a private key, a certificate and a thing name,
and either its flag off, as in the file, and that pair registered, or its flag on, for a
device that is to onboard, and the pair unknown to AWS IoT. A key names its certificate and
its ownership token. The thing's name is a conversion, `ThingOf`: the template registers
`esp32-<MAC>`, the hook checks the MAC, and the policy admits a client id that is the
attached thing's name (`Admitted`). The flash is `nvs`, the RAM
`AWSConnectSettings`; `Restart` keeps the first and the cloud. Answers are taken as the
code takes them, whichever request they answer. `DisableOnBoarding` sets the flag
without `nvs_commit`; it is modelled as durable, since the NVS library writes
a value when it is set. The
attempts of `EstablishMQTTSession` back off for hours, so they are used up only when
nothing else can still happen that would make one succeed. A CONNECT that the broker
refuses fails the assertion behind it.

**Boot.** A job announced between the subscription and the creation of its queue fails
the assertion in `SendEvent_FreeRTOS` (`NotifyNext`). `WaitForPacketAck` ignores the
packet identifier and spends its whole second, so it is one step. When the session breaks
under the command loop, `LeaveCommandLoop` restores it or not, and the agent never enters
its loop again (`pc = "left"`).

**Commands.** A structure is a number, its command a record: the task whose frame holds
the context, the kind, what it is about, and `alive`, whether that frame still stands.
`Send` is `MQTTAgent_Publish` and its like with `Agent_GetCommand` and
`Agent_MessageSend`; `Notified` ends a wait with whatever notification there is;
`TimesOut` is the ten seconds of `UnSubscribeToTopic`. `Complete` stands for the three
callbacks. A completion whose context is dead may write into a living one, do
nothing that is seen, or crash (`DeadContextCrash`). The command loop is a library; it
is modelled as used: a publish is complete when written, a subscription when
acknowledged, TERMINATE ends the loop, a network error ends it for good or, when the
CONNECT that follows is refused, resets the device (`ReconnectExits`).

**Job dispatch.** Each agent is reduced to the calls it makes between two events, in
their order (`AfterCall`); `CertRenewal` and `OtaAgent` model the rest. `jobBuffer` is
read when the event is handled. A status goes to `globalJobId`: a refusal, sent before
`SetJobId`, to the job before, or nowhere.

## Runs

| Run | Properties | What it shows |
| --- | --- | --- |
| `cr_lossy` | `NotLockedOut`, `BufferMatchesEvent`, `PointersValid`, `SuccessIsReal`, `RotatesSafely` | Lost messages, network errors and OTA streams never leave the device without an accepted pair, no freed pointer is followed, the payload buffer still holds the answer its event is about, success is real, and the renewal refines `CertRotation`. |
| `cr_live` | `JobInProgressEnds` | With no loss a renewal ends whatever the Lambdas answer and whichever pair connects. |
| `cr_crash` | `RestartableBetweenJobs`, `RevokesFromNewSession` | Over one renewal with resets anywhere, from inside as well, a timeout of the job and Lambdas invoked twice: the stored pair connects while no job is in progress or timed out; only a session on the new pair asks for the revocation, and it spares that pair. |
| `cr_faults` | `TypeInv`, `AnswersRouted`, `NoEventDropped` | Under all eight faults together the inductive invariant holds and five places are enough; which answers find a callback is exactly known until a filter is left behind or a stream takes places in the list. |
| `cr_fallback` | `RevokesFromNewSession` (violated) | After a fall back to the old certificate its revocation is requested. |
| `cr_deaf` | `QueuedJobStarts` (violated) | After a successful renewal the device no longer hears of jobs. |
| `ota_faults` | `TypeOK`, `AlwaysBootable`, `ConfirmedConnects`, `BufferHasOneOwner`, `NoEventDropped`, `SuccessIsReal` | All faults but a cancelled job: no reset finds the device without an image, nothing is confirmed before it connected, success means a whole image: the job's own, unless as many blocks came twice as it has. |
| `ota_live` | `JobInProgressEnds` | Three downloads and a patch with flash errors and cancelled jobs: an update in progress ends, but for one that found the list full of earlier streams, as the third without a restart does. |
| `ota_next_job` | `QueuedJobStarts` (violated) | A job announced between the report of success and the restart is lost. |
| `sub_routes` | `NoDuplicates`, `RoutesAsPromised` | With the firmware's topics, each of one callback, the array implements the routing table of its header, with more routes than places. |
| `boot` | `BootTypeOK`, `StrandedOnlyWhenExhausted`, `OnboardedIsUsable`, `EventuallyUp` | A device that thinks it is onboarded holds what the broker admits; a powered device comes up for good, unless a disturbed onboarding has used up its entry or a broken session made the agent leave its loop. |
| `mqtt_agent` | `TypeOK`, `StructuresAccounted`, `WaitingHasReason`, `DeadContextsBounded`, `BufferIsOwn`, `SuccessIsOwn`, `CallReturns` | No structure is lost or shared, no caller is forgotten, late completions never pile up; documents and reports reach their own job, and calls return unless the agent left its loop, as long as AWS IoT ends no job by itself. |

### Bounds, and why they are enough

* *Renewal*: one to three jobs, of which two are renewals: the second meets what the
  first left behind (freed pointers, late answers, old subscriptions, the pair in
  RAM), the third is a job of another kind. One key pair per renewal (`MaxKeys`).
  A request carries everything of its history that an answer shows, so a third
  renewal adds no new kind of left-over. In `cr_crash` there is one renewal, because `MaxInvocations`
  is 2 (why not two is said below), a foreign job, and a third whose document lacks its fields
  (`Incomplete`); the theorems have any number of renewals. Elsewhere `MaxInvocations` is 1. Queue and list have their real sizes,
  5 and 4; the fullest queue reached holds three events. `taken` and `abandoned` need no
  bound: the list bounds the one, the calls of two renewals the other.
* *OTA*: two blocks (the first and the last, with a request in between). In `ota_faults`
  two duplicates, as many as the image has blocks, which is what it takes to pass the
  image of one job off as another's, and `MaxBlocks` 4, which the duplicates reach:
  the assertion on the size is then met too. Elsewhere `MaxBlocks` 5 and one duplicate.
  Three jobs so that a
  download follows a failed one in the same session. With notify-next the list of four
  takes the topics of one stream and one of the next; `ota_live` has three
  downloads, so that the third finds no place, and a patch after them.
  `MaxCounter` 9 is the value below zero; it is far enough from zero not to be
  counted down within the blocks the bounds allow.
* *Subscriptions*: the five routes of the firmware for four places, one callback for each topic.
* *Boot*: one retry and two failures of the station, so that the retries can be used up
  before or after the first connection; one other fault, at any step; four keys besides
  the flashed one, and
  were they too few for a fresh one to be found `EventuallyUp` would fail; one job, which meets
  missing queues at every boot. The same properties held with two faults and five keys.
* *Commands*: a pool of two and a queue of three (ten and 25 in the code), so that the
  pool runs dry; each task gives up one call, which leaves one dead context, and one
  more would add a second of the same kind; a renewal, an update and a refused job, so
  that each agent meets the job id of the other; one job ends by itself. The same
  properties held with a pool of four, with three calls given up, and with four jobs.

Deadlock is checked in `sub_routes` only: elsewhere the jobs are finitely many, and
when they are done the tasks wait for events, as they should.

### Fairness

`FairSpec` asks for weak fairness of the cloud, the agent, the boot and the task: the
FreeRTOS scheduler gives every ready task of equal priority its turn, the AWS
services answer in the end, and a device that is reset boots. No fault is ever
forced, and no action is strongly fair: none depends on a condition that comes and
goes. Liveness of jobs is checked only without loss, since the code has no timeout or
retry of its own.

`BootSpec` is weakly fair to the MQTT agent task, the cloud, the driver with the event
task, `app_main` and each agent task, for the same reasons. Here faults are allowed:
they are finitely many, and `EventuallyUp` says what follows once they are over. `Spec` of
`JobDispatch` is fair to the agent task and to a task that was notified, and to nothing
else: `CallReturns` needs no help from the cloud or the other task.

## What the checks show about the code

What holds is in the table above. What does not:

1. **Fall back, then revocation** (`cr_fallback`). `ReconnectWithNewCertificate`
   returns true after reconnecting with the stored pair; the renewal agent is then
   told to revoke that very certificate.
2. **Deaf after renewal** (`cr_deaf`). The reconnection is a clean session, nothing
   subscribes to `notify-next` again.
3. **Lost next job** (`ota_next_job`). The job announced while the device waits to
   restart is lost; nothing asks for pending jobs after a boot.

Also seen while bounding the runs, nearly all without a statement of the repository to hold
them against:

* The header of the subscription manager promises that a publish reaches every registered
  callback (`mqtt_subscription_manager.h`, 15-19 and 52-57), and so does `RoutingTable`.
  `SubscriptionManager_HandleIncomingPublishes` leaves its loop after the first: with two tasks
  on one topic TLC finds `RoutesAsPromised` violated. The firmware registers one callback for each
  topic; that is the instance of `sub_routes` and the hypothesis of `ImplementsTable`.
* `NotLockedOut` holds under loss and network errors, not under a reset between
  the revocation and the second NVS write (the new pair is only in RAM, the stored
  certificate is revoked), whether it comes from outside or from an assertion (`crash`,
  `giveup`, `mqtterr`), nor with `MaxInvocations = 2` over two renewals, when a
  repeated revocation spares the earlier certificate, nor with a fall back. Hence the
  constants of `cr_lossy`; `RestartableBetweenJobs` states what is left with resets.
* `RestartableBetweenJobs` looks away once a job has timed out, because the code locks the
  device out there: a reset between the revocation and the second NVS write leaves
  a pair that does not connect, and after five minutes (`certificate_renewal_request.py:42`)
  no job in progress shows it. Without a timeout the property also
  fails when a status report is lost (the job in which the pair is exchanged is then
  not in progress), after a refused revocation that was done in part, after a handshake
  that failed with a valid pair, when a Lambda runs twice and the second run is
  rejected (the job fails while the first run's answer is worked on), and, over two
  renewals, when a Lambda runs twice. `cr_crash` has none of these.
* Over two renewals, `BufferMatchesEvent`, `PointersValid`, `SuccessIsReal` and
  `RevokesFromNewSession` survive losses and resets, but not a job that times out nor a second
  invocation of a Lambda: an answer to the first renewal then reaches the second. After a
  failing handshake `SuccessIsReal` and `RevokesFromNewSession` are violated too. `cr_crash`, whose
  Lambdas run twice and whose job times out, has one renewal.
* An unsubscription that gives up costs the device places in its list for good, and usually a
  reset: its late notification makes the subscription that follows fail its assertion. Until
  the reset, answers may find no callback, and `AnswersRouted` does not say which.
* A device that is reset by an incomplete document does not come back to it: the job stays
  queued, is not announced again, and holds back every later one.
* `NoEventDropped` of the OTA agent needs jobs that are not cancelled. When they are, the
  next document comes while the agent still opens the job before; with four jobs and two
  blocks that come twice, six events can wait, one more than the queue takes.
* The assertion on the size of a download is strict: a file of exactly
  `CONFIG_MAX_FILE_SIZE` resets the device at its last block.
* Blocks are counted, not numbered. With as many duplicates as an image has blocks, the
  blocks of an earlier update, whose stream is still subscribed, can pass for the
  image of a later job (`SuccessIsReal` says so).
* The hook switches the table entry off before the certificate is active. A device that
  is reset, or misses the answer, after that is refused at every further attempt
  (`Spent` in `EventuallyUp`) until an operator switches the entry on again. Two requests
  validated before either update both succeed: the entry bounds the activations by
  those under way, not by one.
* The Wi-Fi retries are counted over the life of the device. Once used up, a lost link
  is regained only by a reset. `EventuallyUp` is about the tasks: that a device which is
  up keeps its session is not claimed.
* `BufferIsOwn`, `SuccessIsOwn` and `CallReturns` depend on AWS IoT ending no job by itself
  (`cancels = 0`): after a timeout or a cancellation the next job is announced while the
  agents still work on the one before, its document overwrites the buffer, reports go to
  its id, and the reconnection of a renewal can take the acknowledgement that the OTA
  agent waits for without limit.
* After a network error nobody returns to the command loop: every waiting caller waits
  for ever (`agent = "left"` in `CallReturns`).
* A lost block, answer or request stalls its job until AWS IoT times it out.
* The subscription list has four places for the renewal's five topics. When a job
  times out while its revocation is unanswered and the next renewal starts, the
  refusal of its CSR finds no callback. `AnswersRouted` says that this is the only
  such case, until the streams of failed downloads or filters left behind take
  places in the same list.
* The third download without a restart finds the list full (two streams and notify-next
  take it), so that its blocks find no callback and its job stays in progress (`Unrouted` in
  `JobInProgressEnds`).

## What is proved

All for every value of the constants that satisfies the modules' assumptions:
`ConstantsAssumption` (bounds are naturals, sets are of the stated kinds) and
`PointersAssumption` (`None` and `Freed` differ from each other and from every value pointed
to), and in the same way `WifiAssumption`, `OnboardingAssumption`, `BootAssumption`,
`MqttAgentAssumption` (there are finitely many tasks) and `JobDispatchAssumption`.

* **`TypeInvariant`** (`CertRenewalProofs`): `Spec => []TypeInv`, under every set of faults.
  `TypeOK` is not inductive: reading `dataBuffer.kind` needs a buffer that
  was filled, and storing the credentials needs a pair in RAM. `TypeInv` adds that
  the task is off exactly while the device boots, its queue then being empty; that a
  device that is up has loaded a pair; and that the event which parses the buffer is
  queued only after something was put there. One lemma per action, with lemmas for
  the queue (`EnqueueLemma`, `TailLemma`, `SendLemma`), the job update and the reset.
* **`SubscriptionsRouted`** (`CertRoutesProofs`): with a list of at least four places,
  `Spec => []AnswersRouted`, under every set of faults. Needs `TypeInv` and `RouteInv`: while
  nothing was given up and no stream took a place, the
  topics of a CSR are subscribed only while `topic_filters` names them (so every
  unsubscription removes them), an accepted topic is in the list when its
  rejected one is, and the topics of a revocation are in it together; and a command left
  behind or a notification that nobody waits for shows that something was given up. The count
  of places is `ThreeLemma`. TLC checked `RouteInv` on the instance of `cr_faults` first.
* **`NeverLockedOut`** (`CertRotation`): whoever rotates as specified never has the
  pair in use revoked.
* **`RenewalInvariant`** (`CertRotationProofs`): none of the properties below is inductive:
  that the buffer still holds the answer of an event depends on no other answer being on
  its way, and that on no other request. A renewal is a chain of messages, events and
  calls, each caused by the one before. `ChainInv` says that the chain is at one place
  at a time (`OnePlace`), once (`OneThere`), for the one job that is announced and has not
  ended (`OneJob`), and what is issued, stored, active and pointed to at each place, before
  the new session (`OldSession`), in it (`NewSession`), or after a reset that left a request
  or an answer on its way (`Stale`). A completion that comes late could take any topic away
  and end any call: `Calm` says that before the new session there is none, and `Quiet` that
  without `giveup` a command is left behind only in an agent that has left its loop. The
  invariant holds in a `TimelyEnvironment`: every other fault, but no job times out, no
  handshake with an accepted pair fails and a
  Lambda runs once per request. These are not for the prover's sake: TLC finds
  counterexamples when any of the three is dropped (above). From it:
  * **`RenewalBufferMatchesEvent`**, **`RenewalSuccessIsReal`**, **`RenewalPointersValid`**,
    **`RenewalRevokesFromNewSession`**, resets and calls given up included;
  * **`RenewalNoEventDropped`**, for every queue of at least four places (the code has
    five): `Room` bounds the length of the queue by the place of the chain, since besides its one
    link only `Ready` and `WaitSignedCertificate` can wait;
  * **`LossyNotLockedOut`** and the refinement **`LossyRotatesSafely`**, in a
    `LossyEnvironment`, in which moreover nothing resets the device (`NoReset`: no `crash`,
    `mqtterr` or `giveup`, no incomplete document): a reset
    between the revocation and the second write to NVS does lock the device out. The refinement
    maps every step to a step of `CertRotation` or a stutter, so `NeverLockedOut` is about
    the code;
  * **`ReportedRestartable`**: with resets and job timeouts, `RestartableBetweenJobs`, in a
    `ReportingEnvironment` (`crash`, `neterr`, `mqtterr`, `stream` and `jobtimeout`; no loss, no
    refused revocation, one invocation). `StoredInv` adds that the job in
    progress is the current one, that there is one as soon as the chain is past its
    acceptance, and that the stored pair is good until the new session asks. What is proved is
    that this holds, or a job has timed out, the case that the property excepts.
* **`OtaInvariant`** (`OtaAgentProofs`), under every set of faults, for any images and sizes:
  `Owner` (who has the one buffer), `Written` (the open handle is that of the other partition,
  and what is there came from streams), `Pointers`, and `Rollback`, which says that the device
  is in one of three states: running the confirmed image, waiting to restart into a new one
  that is whole, or trying that one with the confirmed one to go back to. `AlwaysBootable`
  alone is not inductive: that the partition being written is not the one to go back to
  takes all three. From it **`OtaAlwaysBootable`**, **`OtaConfirmedConnects`**,
  **`OtaBufferHasOneOwner`**, **`OtaSuccessIsWhole`** (the part of `SuccessIsReal` that needs
  no hypothesis), and **`OtaTypeCorrect`** when the first image is below
  `CONFIG_MAX_FILE_SIZE` (`Blocks < MaxBlocks`), as every later one must be.
* **`OtaNoEventDropped`, `OtaSuccessIsReal`** (`OtaAgentProofs`), for any jobs, images and
  files, when no job is cancelled (`"cancel" \notin Faults`) and the queue has five places as
  `MAX_MESSAGES` says, or more. With a cancelled job the queue can fill (above). Both rest on one
  invariant, **`OtaRoom`**, whose idea is that everything a download handles beyond its own
  blocks, one at a time, is a block that came twice. `RoomInv` has two parts:
  * `Serial`: jobs are announced, handled and reported one at a time (`Announced`,
    `Handled`), and nothing of a stream is on its way before it is subscribed (`Streams`);
  * `Sound`, as long as blocks have not come twice more often than the counter of blocks has
    values (`duplicates <= MaxCounter`; beyond that it can wrap to zero a second time and
    finish the download twice). While the data buffer can be given back, `Orderly` says
    that the blocks on their way, in the buffer and being asked for are at most the duplicates
    and the one block that is due (`Loads`), what the counter holds on each side of its wrap
    (`Counters`), at which point of its download the job is (`Phase`), which events wait
    in front of which (`Order`) and how many (`Tally`), and that the blocks of other streams,
    on their way, in the buffer or in the partition, are at most the duplicates (`Foreign`).
    Once a garbled block keeps the buffer no block follows, and `Spent` lets the events only
    become fewer. `Earned` is what the agent is about to report.

  From `Tally` and `Spent` four events are the most that wait. From `Foreign` a partition that
  holds the image of another job holds at least as many duplicates as it has blocks, which is
  what `SuccessIsReal` allows; past `MaxCounter` duplicates it holds anyway, `MaxCounter` being
  more than `Blocks`. `OtaNoEventDropped` takes `MaxDuplicates <= MaxCounter` as its third
  hypothesis: in the code, fewer than 2^32 blocks that come twice. TLC checked `RoomInv` first,
  with all faults but `cancel`, on three jobs of two blocks, and on two of one block with a
  counter that wraps at 2 and more duplicates than that.
* **`ListInvariant`, `RegisteredOnce`, `ImplementsTable`**
  (`SubscriptionManagerProofs`): for every size of the array and every set of routes,
  no route is in it twice and, if no topic has two callbacks (`OneCallbackPerTopic`, without
  which there is a counterexample, above), it implements `RoutingTable`, whose publish
  reaches every route of its topic: each call maps to the same call on the table, with the
  same result (`call` keeps the last one, so that a lost publish is no other call's step). The
  invariant is
  `TypeOK /\ NoDuplicates`; without `NoDuplicates` the number of elements in use would
  not be the number of routes, which is what "full" means in the two specifications
  (`CountLemma`, by a bijection).

* **`AccountsForStructures`, `NoCallerForgotten`, `DeadContextsAreBounded`**
  (`MqttAgentProofs`): for pools and queues of any size, any number of calls given up and
  any jobs. None of the three properties is inductive by itself: a completion gives back
  a structure only if it is one that was out, and that a caller is not forgotten depends
  on how many commands of its task are out. `AgentInv` adds the shape of the commands
  and `Account`: the completions that will still notify a task, and the notification that
  is pending, are at most one for the call it is in and one for each call it gave up
  (`Cardinality(Mine(t)) + One(t \in notified) <= timeouts[t] + One(Waiting(t))`), and the
  command whose context lives is one at most. A step of the agent moves a completion
  to the notification, a time-out moves the call to `timeouts`. One lemma per action.
* **`DispatchTypeCorrect`, `BufferHoldsOwnDocument`, `SuccessReachesItsJob`**
  (`MqttAgentProofs`): for any jobs of both kinds in any order. That the two agents do not
  disturb each other through `jobBuffers[0]` and `globalJobId` is a fact about all places at
  which work on a job can be: a queued event, a call an agent is at, a queued or
  unacknowledged command, a request to the cloud. While AWS IoT ends no job by itself
  (`cancels = 0`, as in the properties), `WorkInv` says that it is at one of them at most
  (`OnePlace`), that a job is announced only when there is none (`Serial`), that the work
  at a place is for the job in `globalJobId`, a document for the one in the buffer (`Attributed`), and that a success on its way has been
  earned (`Earned`). `Begun` says that no agent works before its first document.
* **`NeverStrandedEarly`** (`BootProofs`): for any number of retries and failures. `WifiInv`
  adds, for each state of the driver, which events can wait to be handled: a
  disconnection is always the last, so a station that is down and has none left was
  given up by the handler.
* **`OnboardedDeviceIsUsable`, `TypeCorrect`** (`BootProofs`): for any keys,
  faults and jobs. `DeviceInv` adds what `StoreNewCredentials` has written by each point
  (`Stored`: it is the pair that the second session is then established with, and the
  flag goes off only behind it, the broker having admitted the thing's name) and that a key whose CSR is under way has no certificate
  yet (`Fresh`), without which a late CSR could take an active certificate back.

Only model-checked: the liveness properties (`JobInProgressEnds`, `EventuallyUp`,
`CallReturns`), which are beyond the prover. `cr_faults` checks `NoEventDropped`, and `cr_crash`
`RestartableBetweenJobs` and `RevokesFromNewSession`, under faults that the theorems exclude:
jobs that time out, a refused handshake, Lambdas that run twice. `PointersValid` is checked in
`cr_lossy` and proved with every reset on top of it.

## Not modelled, and why

* *Key-value store*: a write is one atomic step; NVS errors are not modelled.
* *Network transport, TLS, MQTT, JSON, CBOR, mbedTLS*: libraries or thin adapters,
  present by their outcome (connects or not, delivered or not, decodes or not). The command
  loop of coreMQTT-Agent is a library too; `MqttAgent` models what the code relies on.
* *Patching* (`ApplyPatch`, `janpatch.h`): unreachable with the partition table.
* *Application task, image Lambda, Terraform resources, Docker and workflow files*:
  no state that the properties depend on.
* *`CONNECTION_TEST` code*: not built.
* *Memory*: allocation never fails, stacks do not overflow.

## Plan

1. `CertRenewal`, `CertRotation`, with type correctness and routing proved. *Done.*
2. `OtaAgent`, with safety and liveness. *Done.*
3. `SubscriptionManager`, `RoutingTable`, with refinement proved. *Done.*
4. `MqttAgent`, `JobDispatch`: commands, contexts, notifications and time-outs, the pool and
   the queue; both agents over one of them. Accounting proved. *Done.*
5. `Wifi`, `Onboarding`, `Boot`: from power-on to both agents listening. Safety proved.
   *Done.*
6. `DeltaPatch`: the file callbacks of a patch, if the partition table gets one.
7. Theorems: the invariants of `OtaAgent`, the refinement of `CertRotation` and the safety of
   a renewal, the two agents over one MQTT agent. *Done.*
8. Theorems on the queue of `OtaAgent` and on `SuccessIsReal`, from an account of the blocks
   that came twice. *Done.*
9. Theorems left: `NoEventDropped` of `OtaAgent` for a queue long enough when jobs are cancelled,
   whose length depends on the number of jobs that overlap.
