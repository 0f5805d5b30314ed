-------------------------------- MODULE Boot --------------------------------
(***************************************************************************)
(* The boot sequence: app_main starts the MQTT agent task, which brings up *)
(* Wi-Fi, onboards the device if need be and connects (Onboarding), then   *)
(* subscribes to the job topic and notifies app_main, which starts the two *)
(* agents; each of them creates the queue that its jobs are sent to.       *)
(***************************************************************************)
EXTENDS Onboarding

CONSTANT MaxJobs  \* bound on the jobs announced

ASSUME BootAssumption == MaxJobs \in Nat

Agents == {"ota", "renewal"}

VARIABLES
  mainTask,  \* app_main: "waiting" in prvWaitForSync, "notified", "done"
  queues,    \* the agents whose event queue exists
  announced  \* jobs announced so far

bootVars == <<onboardingVars, mainTask, queues, announced>>

BootInit ==
  /\ OnboardingInit
  /\ mainTask = "waiting" /\ queues = {} /\ announced = 0

\* A restart takes the tasks and their queues with it.
Follow ==
  /\ IF pc' = "wifi"
     THEN mainTask' = "waiting" /\ queues' = {}
     ELSE UNCHANGED <<mainTask, queues>>
  /\ UNCHANGED announced

SubscribeToNextJobTopic ==
  /\ pc = "jobs" /\ session = "up"
  /\ pc' = "await_jobs"
  /\ UNCHANGED <<wifiVars, nvs, memory, session, cloud, faults, mainTask, queues, announced>>

\* WaitForPacketAck spends its second whatever arrives, then prvCheckFirmware
\* confirms the image (OtaAgent) and prvNotifyMainTask wakes app_main.
prvNotifyMainTask ==
  /\ pc = "await_jobs" /\ session = "up"
  /\ pc' = "loop"
  /\ mainTask' = "notified"
  /\ UNCHANGED <<wifiVars, nvs, memory, session, cloud, faults, queues, announced>>

\* An error ends MQTTAgent_CommandLoop and prvMQTTAgentProcessing with it: what
\* RestoreMQTTConnection brings back, no one serves.  It asserts that the broker
\* takes the CONNECT.
LeaveCommandLoop ==
  /\ pc = "loop" /\ session = "broken"
  /\ \/ /\ pc' = "left"
        /\ session' = IF CanConnect THEN "up" ELSE "none"
        /\ CanConnect \/ (wifiEvents = <<>> /\ station # "associating")
        /\ NoFault /\ UNCHANGED <<wifiVars, nvs, memory, mainTask, queues>>
     \/ /\ CanConnect /\ Fault /\ Restart
        /\ mainTask' = "waiting" /\ queues' = {}
  /\ UNCHANGED <<cloud, announced>>

\* app_main creates both agent tasks and ends.
app_main ==
  /\ mainTask = "notified"
  /\ mainTask' = "done"
  /\ UNCHANGED <<onboardingVars, queues, announced>>

\* The first thing each agent task does.
InitEvent_FreeRTOS(agent) ==
  /\ mainTask = "done" /\ agent \notin queues
  /\ queues' = queues \cup {agent}
  /\ UNCHANGED <<onboardingVars, mainTask, announced>>

\* A job can be announced as soon as the topic is subscribed, and its document
\* is sent to a queue that may not exist: SendEvent_FreeRTOS then asserts.
NotifyNext(agent) ==
  /\ pc \in {"await_jobs", "loop"} /\ session = "up" /\ announced < MaxJobs
  /\ announced' = announced + 1
  /\ \/ agent \in queues /\ UNCHANGED <<onboardingVars, mainTask, queues>>
     \/ /\ agent \notin queues /\ Restart
        /\ mainTask' = "waiting" /\ queues' = {}
        /\ UNCHANGED <<cloud, faults>>

AgentStep ==
  (DeviceStep /\ Follow) \/ SubscribeToNextJobTopic \/ prvNotifyMainTask \/ LeaveCommandLoop
EnvironmentStep == (CloudStep \/ WifiStep) /\ Follow

BootNext ==
  \/ AgentStep \/ EnvironmentStep
  \/ app_main
  \/ \E agent \in Agents : InitEvent_FreeRTOS(agent) \/ NotifyNext(agent)
  \/ (FaultStep /\ Follow)

\* Every task of equal priority gets its time slices, the driver and the cloud
\* answer; nothing that goes wrong has to.
BootFairness ==
  /\ WF_bootVars(AgentStep) /\ WF_bootVars(CloudStep /\ Follow) /\ WF_bootVars(WifiStep /\ Follow)
  /\ WF_bootVars(app_main)
  /\ \A agent \in Agents : WF_bootVars(InitEvent_FreeRTOS(agent))

BootSpec == BootInit /\ [][BootNext]_bootVars /\ BootFairness

----------------------------------------------------------------------------
\* Every variable has its type.
BootTypeOK ==
  /\ WifiTypeOK /\ OnboardingTypeOK
  /\ faults \in 0 .. MaxFaults
  /\ mainTask \in {"waiting", "notified", "done"}
  /\ queues \subseteq Agents
  /\ announced \in 0 .. MaxJobs

Up == pc = "loop" /\ session = "up" /\ queues = Agents

\* The device still has to onboard and the table says that it has: every
\* attempt is rejected and every rejection restarts the device.
Spent == nvs.onboarding /\ ~OnBoarding

\* A device that is powered on ends up in the command loop, connected and with
\* both agents listening, unless something goes wrong.  Two things may then keep
\* it from there for ever: an onboarding that was disturbed after the hook had
\* switched it off, and a session that broke under the command loop, which the
\* agent leaves and never enters again.
EventuallyUp ==
  \/ <>[]Up
  \/ <>[](Spent /\ faults + drops > 0)
  \/ <>[](pc = "left" /\ faults + drops > 0)
=============================================================================
