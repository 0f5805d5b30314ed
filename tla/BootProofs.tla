----------------------------- MODULE BootProofs -----------------------------
(***************************************************************************)
(* For any number of retries, keys, faults and jobs: a station that is     *)
(* down for good has used up its retries and has told so, and a device     *)
(* that its flash calls onboarded has credentials there that connect.      *)
(***************************************************************************)
EXTENDS Boot, SequenceTheorems, TLAPS

\* What the event task can find, by the state of the driver: no event is older
\* than the connection it ended.
WifiInv ==
  /\ WifiTypeOK
  /\ startWifi = "called" => station = "off"
  /\ station \in {"off", "associating"} => wifiEvents = <<>>
  /\ station = "connected" => wifiEvents \in {<<>>, <<"GOT_IP">>}
  /\ station = "down" => wifiEvents \in {<<>>, <<"DISCONNECTED">>, <<"GOT_IP", "DISCONNECTED">>}
  /\ StrandedOnlyWhenExhausted

\* A key whose CSR is under way has no certificate yet; one that the hook has
\* seen has one.
Fresh ==
  /\ \A m \in net : m.type = "csr" => m.key \in Keys /\ issued[m.key] = "none"
  /\ \A k \in validated \cup allowed : issued[k] # "none"

\* The names of a device that onboards: the MAC until it is registered.
Names == {"mac", "esp32-mac"}

BeforeTheFlag == {"claim_connect", "subscribe", "csr", "await_csr", "register", "await_register",
                  "store_certificate", "store_key", "store_name", "disconnect", "new_connect",
                  "unsubscribe", "disable"}

\* What StoreNewCredentials has written by each point, and that the connection
\* with it comes before the flag.
Stored ==
  /\ pc \in BeforeTheFlag => nvs.onboarding /\ AWSConnectSettings.thingName \in Names
  /\ pc \in {"store_key", "store_name", "disconnect"} =>
       nvs.certificate = AWSConnectSettings.newCertificate
  /\ pc \in {"store_name", "disconnect"} => nvs.privateKey = AWSConnectSettings.newPrivateKey
  /\ pc \in {"disconnect", "new_connect"} => nvs.thingName = AWSConnectSettings.thingName
  /\ pc = "new_connect" => /\ nvs.certificate = AWSConnectSettings.certificate
                           /\ nvs.privateKey = AWSConnectSettings.privateKey
  /\ pc \in {"unsubscribe", "disable"} => Registered

\* The inductive invariant of the device and the cloud.
DeviceInv ==
  /\ OnboardingTypeOK
  /\ Fresh /\ Stored /\ OnboardedIsUsable

-----------------------------------------------------------------------------
\* Wi-Fi.

\* Plain sets of values.
USE DEF Certificates, Names

\* What a step of the system is for the station.
LEMMA WifiSteps ==
  BootNext => \/ UNCHANGED wifiVars \/ WifiReset \/ WifiProgress \/ prvStartWifiRefused \/ Drop
<1>1. DeviceStep => UNCHANGED wifiVars \/ WifiReset
  BY DEF DeviceStep, mqttAgentTask, EstablishMQTTSession, SubscribeOnBoardingTopic,
     CreateCertificateFromCSR, RegisterThingAWS, ProcessLoopWithTimeout,
     prvIncomingProvisioningPublishCallback, StoreNewCredentials, SwitchToNewCertificate,
     UnSubscribeOnBoardingTopic, DisableOnBoarding, AssertionFails, Restart
<1>2. CloudStep => UNCHANGED wifiVars
  BY DEF CloudStep, CreateCertificate, validate_mac_address, update_onboarding_status, Provision,
     Unheard
<1>3. FaultStep => UNCHANGED wifiVars \/ WifiReset \/ prvStartWifiRefused \/ Drop
  BY DEF FaultStep, Crash, Lose, LinkBreaks, Restart
<1>4. SubscribeToNextJobTopic \/ prvNotifyMainTask \/ app_main => UNCHANGED wifiVars
  BY DEF SubscribeToNextJobTopic, prvNotifyMainTask, app_main, onboardingVars
<1>5. \A agent : InitEvent_FreeRTOS(agent) \/ NotifyNext(agent) => UNCHANGED wifiVars \/ WifiReset
  BY DEF InitEvent_FreeRTOS, NotifyNext, onboardingVars, Restart
<1>6. LeaveCommandLoop => UNCHANGED wifiVars \/ WifiReset
  BY DEF LeaveCommandLoop, Restart
<1> QED
  BY <1>1, <1>2, <1>3, <1>4, <1>5, <1>6 DEF BootNext, AgentStep, EnvironmentStep, WifiStep

\* The contents that wifiEvents can have.
LEMMA Queues ==
  /\ <<"GOT_IP">> # <<>> /\ <<"DISCONNECTED">> # <<>> /\ <<"GOT_IP", "DISCONNECTED">> # <<>>
  /\ <<"GOT_IP">> # <<"DISCONNECTED">>
  /\ <<"GOT_IP">> # <<"GOT_IP", "DISCONNECTED">>
  /\ <<"DISCONNECTED">> # <<"GOT_IP", "DISCONNECTED">>
  /\ Append(<<>>, "DISCONNECTED") = <<"DISCONNECTED">>
  /\ Append(<<"GOT_IP">>, "DISCONNECTED") = <<"GOT_IP", "DISCONNECTED">>
  /\ Tail(<<"GOT_IP">>) = <<>> /\ Tail(<<"DISCONNECTED">>) = <<>>
  /\ Tail(<<"GOT_IP", "DISCONNECTED">>) = <<"DISCONNECTED">>
PROOF
<1>1. \A x, y \in Seq({"GOT_IP", "DISCONNECTED"}) : x = y => Len(x) = Len(y)
  OBVIOUS
<1>2. <<"GOT_IP">>[1] = "GOT_IP" /\ <<"DISCONNECTED">>[1] = "DISCONNECTED"
  OBVIOUS
<1>3. Len(<<"GOT_IP">>) = 1 /\ Len(<<"DISCONNECTED">>) = 1 /\ Len(<<"GOT_IP", "DISCONNECTED">>) = 2
  OBVIOUS
<1>4. /\ <<"GOT_IP">> # <<>> /\ <<"DISCONNECTED">> # <<>> /\ <<"GOT_IP", "DISCONNECTED">> # <<>>
      /\ <<"GOT_IP">> # <<"GOT_IP", "DISCONNECTED">>
      /\ <<"DISCONNECTED">> # <<"GOT_IP", "DISCONNECTED">>
  BY <1>3
<1>5. <<"GOT_IP">> # <<"DISCONNECTED">>
  BY <1>2
<1>6. Append(<<>>, "DISCONNECTED") = <<"DISCONNECTED">>
  OBVIOUS
<1>7. Append(<<"GOT_IP">>, "DISCONNECTED") = <<"GOT_IP", "DISCONNECTED">>
  <2> DEFINE q == Append(<<"GOT_IP">>, "DISCONNECTED")
             w == <<"GOT_IP", "DISCONNECTED">>
  <2>1. q \in Seq({"GOT_IP", "DISCONNECTED"}) /\ w \in Seq({"GOT_IP", "DISCONNECTED"}) /\ Len(q) = 2 /\ Len(w) = 2
    <3>1. <<"GOT_IP">> \in Seq({"GOT_IP", "DISCONNECTED"}) /\ Len(<<"GOT_IP">>) = 1
      OBVIOUS
    <3>2. q \in Seq({"GOT_IP", "DISCONNECTED"}) /\ Len(q) = 2
      BY <3>1
    <3>3. w \in Seq({"GOT_IP", "DISCONNECTED"}) /\ Len(w) = 2
      OBVIOUS
    <3> QED
      BY <3>2, <3>3
  <2>2. q[1] = "GOT_IP" /\ q[2] = "DISCONNECTED" /\ w[1] = "GOT_IP" /\ w[2] = "DISCONNECTED"
    OBVIOUS
  <2> HIDE DEF q, w
  <2>3. \A i \in 1 .. Len(q) : q[i] = w[i]
    BY <2>1, <2>2
  <2>4. q = w
    BY <2>1, <2>3, SeqEqual
  <2> QED
    BY <2>4 DEF q, w
<1>8. Tail(<<"GOT_IP">>) = <<>> /\ Tail(<<"DISCONNECTED">>) = <<>>
  OBVIOUS
<1>9. Tail(<<"GOT_IP", "DISCONNECTED">>) = <<"DISCONNECTED">>
  OBVIOUS
<1> QED
  BY <1>4, <1>5, <1>6, <1>7, <1>8, <1>9

LEMMA WifiStepInv ==
  ASSUME WifiInv, [BootNext]_bootVars PROVE WifiInv'
<1> USE WifiAssumption DEF WifiInv, WifiTypeOK, StrandedOnlyWhenExhausted
<1>1. CASE UNCHANGED wifiVars
  BY <1>1 DEF wifiVars
<1>2. CASE WifiReset
  BY <1>2 DEF WifiReset
<1>3. CASE prvStartWifi
  BY <1>3 DEF prvStartWifi
<1>4. CASE prvStartWifiReturns
  BY <1>4 DEF prvStartWifiReturns
<1>5. CASE Associate
  <2>1. wifiEvents = <<>> /\ wifiEvents' = <<"GOT_IP">>
    BY <1>5 DEF Associate
  <2> QED
    BY <1>5, <2>1 DEF Associate
<1>6. CASE wifi_event_handler
  <2>1. CASE wifiEvents = <<"GOT_IP">>
    <3>1. Head(wifiEvents) = "GOT_IP" /\ Tail(wifiEvents) = <<>> /\ station = "connected"
      BY <2>1, Queues
    <3>2. /\ wifiEvents' = <<>> /\ wifiEventGroup' = wifiEventGroup \cup {"CONNECTED"}
          /\ UNCHANGED <<station, retry_number, startWifi, drops>>
      BY <1>6, <3>1 DEF wifi_event_handler
    <3> QED
      BY <3>1, <3>2
  <2>2. CASE wifiEvents = <<"DISCONNECTED">>
    <3>1. Head(wifiEvents) = "DISCONNECTED" /\ Tail(wifiEvents) = <<>> /\ station = "down"
      BY <2>2, Queues
    <3>2. /\ wifiEvents' = <<>> /\ UNCHANGED <<startWifi, drops>>
          /\ \/ /\ retry_number < MaximumRetry /\ retry_number' = retry_number + 1
                /\ station' = "associating" /\ UNCHANGED wifiEventGroup
             \/ /\ retry_number >= MaximumRetry /\ wifiEventGroup' = wifiEventGroup \cup {"FAIL"}
                /\ UNCHANGED <<station, retry_number>>
      BY <1>6, <3>1 DEF wifi_event_handler
    <3>3. startWifi # "called"
      BY <3>1
    <3>4. CASE retry_number < MaximumRetry
      <4>1. retry_number' \in 0 .. MaximumRetry /\ station' = "associating"
        BY <3>2, <3>4
      <4>2. wifiEvents' = <<>> /\ UNCHANGED <<wifiEventGroup, startWifi, drops>>
        BY <3>2, <3>4
      <4>3. WifiTypeOK'
        BY <4>1, <4>2
      <4> QED
        BY <3>3, <4>1, <4>2, <4>3
    <3>5. CASE retry_number >= MaximumRetry
      <4>1. retry_number' = MaximumRetry /\ "FAIL" \in wifiEventGroup' /\ station' = "down"
        BY <3>1, <3>2, <3>5
      <4>2. wifiEvents' = <<>> /\ UNCHANGED <<retry_number, startWifi, drops>>
        BY <3>2, <3>5
      <4>3. /\ wifiEventGroup' = wifiEventGroup \cup {"FAIL"}
            /\ wifiEventGroup \subseteq {"CONNECTED", "FAIL"}
        BY <3>2, <3>5
      <4>4. WifiTypeOK'
        BY <4>1, <4>2, <4>3
      <4> QED
        BY <3>3, <4>1, <4>2, <4>4
    <3> QED
      BY <3>4, <3>5
  <2>3. CASE wifiEvents = <<"GOT_IP", "DISCONNECTED">>
    <3>1. /\ Head(wifiEvents) = "GOT_IP" /\ Tail(wifiEvents) = <<"DISCONNECTED">>
          /\ station = "down"
      BY <2>3, Queues
    <3>2. /\ wifiEvents' = <<"DISCONNECTED">>
          /\ wifiEventGroup' = wifiEventGroup \cup {"CONNECTED"}
          /\ UNCHANGED <<station, retry_number, startWifi, drops>>
      BY <1>6, <3>1 DEF wifi_event_handler
    <3> QED
      BY <3>1, <3>2, Queues
  <2> QED
    BY <1>6, <2>1, <2>2, <2>3 DEF wifi_event_handler
<1>7. CASE prvStartWifiRefused
  BY <1>7 DEF prvStartWifiRefused
<1>8. CASE Drop
  <2>1. wifiEvents' \in {<<"DISCONNECTED">>, <<"GOT_IP", "DISCONNECTED">>}
    <3>1. wifiEvents = <<>> \/ wifiEvents = <<"GOT_IP">>
      BY <1>8 DEF Drop
    <3> QED
      BY <1>8, <3>1, Queues DEF Drop
  <2> QED
    BY <1>8, <2>1, Queues DEF Drop
<1>9. CASE UNCHANGED bootVars
  BY <1>1, <1>9 DEF bootVars, onboardingVars
<1> QED
  BY <1>1, <1>2, <1>3, <1>4, <1>5, <1>6, <1>7, <1>8, <1>9, WifiSteps DEF WifiProgress

LEMMA WifiInvariant ==
  BootSpec => []WifiInv
<1>1. BootInit => WifiInv
  BY WifiAssumption DEF BootInit, OnboardingInit, WifiInit, WifiInv, WifiTypeOK,
     StrandedOnlyWhenExhausted
<1>2. WifiInv /\ [BootNext]_bootVars => WifiInv'
  BY WifiStepInv
<1> QED
  BY <1>1, <1>2, PTL DEF BootSpec

\* A station that is down with no disconnection to handle has used up its
\* retries and set the bit that ends prvStartWifi's wait (setup_hw/main.c).
THEOREM NeverStrandedEarly ==
  BootSpec => []StrandedOnlyWhenExhausted
<1>1. WifiInv => StrandedOnlyWhenExhausted
  BY DEF WifiInv
<1> QED
  BY <1>1, WifiInvariant, PTL

-----------------------------------------------------------------------------
\* The steps of the device.

\* A restart forgets what is in RAM.
LEMMA RestartInv ==
  ASSUME DeviceInv, Restart, net' \subseteq net, faults' \in Nat,
         UNCHANGED <<issued, OnBoarding, validated, allowed>>
  PROVE  DeviceInv'
<1> USE DEF DeviceInv, Restart
<1>1. OnboardingTypeOK'
  BY OnboardingAssumption DEF OnboardingTypeOK, NoSettings, OptionalKey, Pcs
<1>2. Fresh'
  BY DEF Fresh
<1>3. Stored'
  BY DEF Stored, BeforeTheFlag
<1>4. OnboardedIsUsable'
  BY DEF OnboardedIsUsable, Registered
<1> QED
  BY <1>1, <1>2, <1>3, <1>4

\* A step that sends nothing and has nothing to do with the cloud.
LEMMA SameCloud ==
  ASSUME DeviceInv, UNCHANGED cloud PROVE Fresh'
BY DEF cloud, DeviceInv, Fresh

LEMMA ConnectInv ==
  ASSUME DeviceInv, mqttAgentTask \/ EstablishMQTTSession PROVE DeviceInv'
<1>1. CASE mqttAgentTask
  <2>1. OnboardingTypeOK'
    BY <1>1 DEF mqttAgentTask, cloud, DeviceInv, OnboardingTypeOK, NoSettings, OptionalKey, Pcs,
       ConnectPcs
  <2>2. Stored' /\ OnboardedIsUsable'
    BY <1>1 DEF mqttAgentTask, cloud, DeviceInv, OnboardingTypeOK, NoSettings, Stored,
       BeforeTheFlag, OnboardedIsUsable, Registered
  <2> QED
    BY <1>1, <2>1, <2>2, SameCloud DEF mqttAgentTask, DeviceInv
<1>2. CASE EstablishMQTTSession
  <2>1. UNCHANGED <<cloud, faults>>
    BY <1>2 DEF EstablishMQTTSession
  <2>2. CASE Restart
    BY <2>1, <2>2, RestartInv DEF cloud, DeviceInv, OnboardingTypeOK
  <2>3. CASE ~Restart
    <3>1. /\ pc \in ConnectPcs /\ CanConnect /\ session' = "up"
          /\ Admitted(AWSConnectSettings.certificate, AWSConnectSettings.thingName)
          /\ pc' = CASE pc = "claim_connect" -> "subscribe"
                     [] pc = "new_connect" -> "unsubscribe"
                     [] pc = "aws_connect" -> "jobs"
          /\ UNCHANGED <<nvs, memory>>
      BY <1>2, <2>3 DEF EstablishMQTTSession
    <3>2. OnboardingTypeOK'
      BY <2>1, <3>1 DEF cloud, memory, DeviceInv, OnboardingTypeOK, Pcs, ConnectPcs, OnlinePcs
    <3>3. OnboardedIsUsable'
      BY <2>1, <3>1 DEF cloud, DeviceInv, OnboardedIsUsable, Registered
    <3>4. Stored'
      <4>1. CASE pc = "new_connect"
        <5>1. Registered /\ pc' = "unsubscribe"
          <6>1. AWSConnectSettings.certificate = nvs.certificate /\ nvs.certificate # Claim
            BY <4>1, OnboardingAssumption DEF DeviceInv, Stored, OnboardingTypeOK
          <6>2. /\ Usable(AWSConnectSettings.certificate, AWSConnectSettings.privateKey)
                /\ Admitted(AWSConnectSettings.certificate, AWSConnectSettings.thingName)
            BY <3>1 DEF CanConnect
          <6>3. /\ AWSConnectSettings.privateKey = nvs.privateKey
                /\ AWSConnectSettings.thingName = nvs.thingName
            BY <4>1 DEF DeviceInv, Stored
          <6> QED
            BY <3>1, <4>1, <6>1, <6>2, <6>3 DEF Usable, Admitted, Registered
        <5>2. nvs.onboarding /\ AWSConnectSettings.thingName \in Names
          BY <4>1 DEF DeviceInv, Stored, BeforeTheFlag
        <5> QED
          BY <2>1, <3>1, <5>1, <5>2 DEF cloud, memory, Stored, Registered
      <4>2. CASE pc = "claim_connect"
        <5>1. pc' = "subscribe" /\ nvs.onboarding /\ AWSConnectSettings.thingName \in Names
          BY <3>1, <4>2 DEF DeviceInv, Stored, BeforeTheFlag
        <5> QED
          BY <3>1, <5>1 DEF memory, Stored
      <4>3. CASE pc = "aws_connect"
        <5>1. pc' = "jobs"
          BY <3>1, <4>3
        <5> QED
          BY <5>1 DEF Stored, BeforeTheFlag
      <4> QED
        BY <3>1, <4>1, <4>2, <4>3 DEF ConnectPcs
    <3> QED
      BY <2>1, <3>2, <3>3, <3>4, SameCloud DEF DeviceInv
  <2> QED
    BY <2>2, <2>3
<1> QED
  BY <1>1, <1>2

LEMMA AskInv ==
  ASSUME DeviceInv,
         \/ SubscribeOnBoardingTopic \/ CreateCertificateFromCSR \/ RegisterThingAWS
         \/ ProcessLoopWithTimeout \/ prvIncomingProvisioningPublishCallback
  PROVE  DeviceInv'
<1>1. CASE SubscribeOnBoardingTopic
  <2>1. OnboardingTypeOK' /\ Stored' /\ OnboardedIsUsable'
    BY <1>1 DEF SubscribeOnBoardingTopic, cloud, memory, DeviceInv, OnboardingTypeOK, Stored,
       BeforeTheFlag, OnboardedIsUsable, Registered, Pcs, OnlinePcs
  <2> QED
    BY <1>1, <2>1, SameCloud DEF SubscribeOnBoardingTopic, DeviceInv
<1>2. CASE CreateCertificateFromCSR
  <2>1. PICK k \in Keys :
          /\ ~InUse(k)
          /\ AWSConnectSettings' = [AWSConnectSettings EXCEPT !.newPrivateKey = k]
          /\ net' = net \cup {[type |-> "csr", key |-> k]}
          /\ issued' = [issued EXCEPT ![k] = "none"]
    BY <1>2 DEF CreateCertificateFromCSR
  <2>2. /\ pc = "csr" /\ pc' = "await_csr"
        /\ UNCHANGED <<nvs, certificateOwnershipToken, session, OnBoarding, validated, allowed,
                       faults>>
    BY <1>2 DEF CreateCertificateFromCSR
  <2>3. /\ k # nvs.certificate /\ k \notin validated /\ k \notin allowed
        /\ \A m \in net : m.key # k
    BY <2>1 DEF InUse
  <2>4. OnboardingTypeOK'
    BY <2>1, <2>2 DEF DeviceInv, OnboardingTypeOK, Requests, OptionalKey, Pcs, AwaitPcs
  <2>5. /\ issued'[k] = "none" /\ \A j \in Certificates : j # k => issued'[j] = issued[j]
        /\ \A m \in net' : m \in net \/ (m.type = "csr" /\ m.key = k)
    BY <2>1 DEF DeviceInv, OnboardingTypeOK
  <2>6. Fresh'
    BY <2>2, <2>3, <2>5 DEF DeviceInv, OnboardingTypeOK, Fresh
  <2>7. AWSConnectSettings'.thingName = AWSConnectSettings.thingName
    BY <2>1 DEF DeviceInv, OnboardingTypeOK
  <2>8. Stored'
    BY <2>2, <2>7 DEF DeviceInv, Stored, BeforeTheFlag
  <2>9. OnboardedIsUsable'
    BY <2>2, <2>3, <2>5 DEF DeviceInv, OnboardingTypeOK, OnboardedIsUsable, Registered
  <2> QED
    BY <2>4, <2>6, <2>8, <2>9 DEF DeviceInv
<1>3. CASE RegisterThingAWS
  <2>1. /\ pc = "register" /\ pc' = "await_register"
        /\ net' = net \cup {[type |-> "register", key |-> certificateOwnershipToken]}
        /\ UNCHANGED <<nvs, memory, session, issued, OnBoarding, validated, allowed, faults>>
    BY <1>3 DEF RegisterThingAWS
  <2>2. OnboardingTypeOK'
    BY <2>1 DEF DeviceInv, OnboardingTypeOK, memory, Requests, OptionalKey, Pcs, AwaitPcs
  <2>3. Fresh'
    BY <2>1 DEF DeviceInv, Fresh
  <2>4. Stored' /\ OnboardedIsUsable'
    BY <2>1 DEF DeviceInv, memory, Stored, BeforeTheFlag, OnboardedIsUsable, Registered
  <2> QED
    BY <2>2, <2>3, <2>4 DEF DeviceInv
<1>4. CASE ProcessLoopWithTimeout
  <2>1. /\ pc \in AwaitPcs /\ pc' \in {"register", "store_certificate"}
        /\ UNCHANGED <<nvs, memory, session, cloud>>
        /\ faults' \in Nat
    BY <1>4 DEF ProcessLoopWithTimeout, Fault, NoFault, DeviceInv, OnboardingTypeOK
  <2>2. OnboardingTypeOK'
    BY <2>1 DEF DeviceInv, OnboardingTypeOK, memory, cloud, Pcs, OnlinePcs, StorePcs
  <2>3. Stored' /\ OnboardedIsUsable'
    BY <2>1 DEF DeviceInv, memory, cloud, Stored, BeforeTheFlag, OnboardedIsUsable, Registered, AwaitPcs
  <2> QED
    BY <2>1, <2>2, <2>3, SameCloud DEF DeviceInv
<1>5. CASE prvIncomingProvisioningPublishCallback
  <2>1. PICK m \in net :
          /\ net' = net \ {m}
          /\ \/ /\ m.type = "csr_accepted"
                /\ certificateOwnershipToken' = m.key
                /\ AWSConnectSettings' = [AWSConnectSettings EXCEPT !.newCertificate = m.key]
                /\ UNCHANGED <<nvs, pc, session>>
             \/ /\ m.type = "register_accepted"
                /\ AWSConnectSettings' = [AWSConnectSettings EXCEPT !.thingName = "esp32-mac"]
                /\ UNCHANGED <<nvs, certificateOwnershipToken, pc, session>>
             \/ Restart
    BY <1>5 DEF prvIncomingProvisioningPublishCallback
  <2>2. pc \in {"csr"} \cup AwaitPcs /\ UNCHANGED <<issued, OnBoarding, validated, allowed, faults>>
    BY <1>5 DEF prvIncomingProvisioningPublishCallback
  <2>3. CASE Restart
    BY <2>1, <2>2, <2>3, RestartInv DEF DeviceInv, OnboardingTypeOK
  <2>4. CASE ~Restart
    <3>1. m.key \in OptionalKey
      BY DEF DeviceInv, OnboardingTypeOK, Requests, Answers, OptionalKey
    <3>2. /\ AWSConnectSettings' \in
              [certificate : Certificates \cup {Claim, None},
               privateKey : Certificates \cup {Claim, None},
               thingName : {"test", "mac", "esp32-mac", None},
               newCertificate : OptionalKey, newPrivateKey : OptionalKey]
          /\ AWSConnectSettings.thingName \in Names => AWSConnectSettings'.thingName \in Names
          /\ certificateOwnershipToken' \in OptionalKey
      BY <2>1, <2>4, <3>1 DEF DeviceInv, OnboardingTypeOK
    <3>3. OnboardingTypeOK'
      BY <2>1, <2>2, <2>4, <3>2 DEF DeviceInv, OnboardingTypeOK, OptionalKey
    <3>4. Stored' /\ OnboardedIsUsable' /\ Fresh'
      BY <2>1, <2>2, <2>4, <3>2 DEF DeviceInv, Stored, BeforeTheFlag, AwaitPcs, OnboardedIsUsable, Registered, Fresh
    <3> QED
      BY <3>3, <3>4 DEF DeviceInv
  <2> QED
    BY <2>3, <2>4
<1> QED
  BY <1>1, <1>2, <1>3, <1>4, <1>5

LEMMA StoreInv ==
  ASSUME DeviceInv,
         \/ StoreNewCredentials \/ SwitchToNewCertificate \/ UnSubscribeOnBoardingTopic
         \/ DisableOnBoarding \/ AssertionFails
  PROVE  DeviceInv'
<1>1. CASE StoreNewCredentials
  <2>1. UNCHANGED <<cloud, faults>>
    BY <1>1 DEF StoreNewCredentials
  <2>2. CASE Restart
    BY <2>1, <2>2, RestartInv DEF cloud, DeviceInv, OnboardingTypeOK
  <2>3. CASE ~Restart
    <3>1. UNCHANGED <<memory, session>>
      BY <1>1, <2>3 DEF StoreNewCredentials
    <3>2. CASE /\ pc = "store_certificate" /\ pc' = "store_key"
               /\ AWSConnectSettings.newCertificate # None
               /\ nvs' = [nvs EXCEPT !.certificate = AWSConnectSettings.newCertificate]
      <4>1. OnboardingTypeOK' /\ Stored' /\ OnboardedIsUsable'
        BY <2>1, <3>1, <3>2 DEF memory, cloud, DeviceInv, OnboardingTypeOK, OptionalKey, Pcs,
           StorePcs, Stored, BeforeTheFlag, OnboardedIsUsable, Registered
      <4> QED
        BY <2>1, <4>1, SameCloud DEF DeviceInv
    <3>3. CASE /\ pc = "store_key" /\ pc' = "store_name"
               /\ nvs' = [nvs EXCEPT !.privateKey = AWSConnectSettings.newPrivateKey]
      <4>1. OnboardingTypeOK' /\ Stored' /\ OnboardedIsUsable'
        BY <2>1, <3>1, <3>3 DEF memory, cloud, DeviceInv, OnboardingTypeOK, OptionalKey, Pcs,
           StorePcs, Stored, BeforeTheFlag, OnboardedIsUsable, Registered
      <4> QED
        BY <2>1, <4>1, SameCloud DEF DeviceInv
    <3>4. CASE /\ pc = "store_name" /\ pc' = "disconnect"
               /\ nvs' = [nvs EXCEPT !.thingName = AWSConnectSettings.thingName]
      <4>1. AWSConnectSettings.thingName \in Names /\ nvs.onboarding
        BY <3>4 DEF DeviceInv, Stored, BeforeTheFlag
      <4>2. OnboardingTypeOK' /\ Stored' /\ OnboardedIsUsable'
        BY <2>1, <3>1, <3>4, <4>1 DEF memory, cloud, DeviceInv, OnboardingTypeOK, Pcs,
           OnlinePcs, Stored, BeforeTheFlag, OnboardedIsUsable, Registered
      <4> QED
        BY <2>1, <4>2, SameCloud DEF DeviceInv
    <3> QED
      BY <1>1, <2>3, <3>2, <3>3, <3>4 DEF StoreNewCredentials
  <2> QED
    BY <2>2, <2>3
<1>2. CASE SwitchToNewCertificate
  <2>1. /\ AWSConnectSettings'.certificate = AWSConnectSettings.newCertificate
        /\ AWSConnectSettings'.privateKey = AWSConnectSettings.newPrivateKey
        /\ AWSConnectSettings'.thingName = AWSConnectSettings.thingName
    BY <1>2 DEF SwitchToNewCertificate, DeviceInv, OnboardingTypeOK
  <2>2. OnboardingTypeOK'
    BY <1>2 DEF SwitchToNewCertificate, cloud, DeviceInv, OnboardingTypeOK, OptionalKey, Pcs,
       ConnectPcs
  <2>3. Stored' /\ OnboardedIsUsable'
    BY <1>2, <2>1 DEF SwitchToNewCertificate, cloud, DeviceInv, Stored, BeforeTheFlag,
       OnboardedIsUsable, Registered
  <2> QED
    BY <1>2, <2>2, <2>3, SameCloud DEF SwitchToNewCertificate, DeviceInv
<1>3. CASE UnSubscribeOnBoardingTopic
  <2>1. OnboardingTypeOK' /\ Stored' /\ OnboardedIsUsable'
    BY <1>3 DEF UnSubscribeOnBoardingTopic, memory, cloud, DeviceInv, OnboardingTypeOK, Stored,
       BeforeTheFlag, Registered, OnboardedIsUsable, Pcs
  <2> QED
    BY <1>3, <2>1, SameCloud DEF UnSubscribeOnBoardingTopic, DeviceInv
<1>4. CASE DisableOnBoarding
  <2>1. Registered /\ pc' = "jobs"
    BY <1>4 DEF DisableOnBoarding, DeviceInv, Stored
  <2>2. /\ nvs' = [nvs EXCEPT !.onboarding = FALSE]
        /\ UNCHANGED <<memory, session, cloud, faults>>
    BY <1>4 DEF DisableOnBoarding
  <2>3. OnboardingTypeOK'
    BY <2>1, <2>2 DEF memory, cloud, DeviceInv, OnboardingTypeOK, Pcs, OnlinePcs
  <2>4. OnboardedIsUsable'
    BY <2>1, <2>2 DEF cloud, DeviceInv, OnboardingTypeOK, Registered, OnboardedIsUsable
  <2>5. Stored'
    BY <2>1 DEF Stored, BeforeTheFlag
  <2> QED
    BY <2>2, <2>3, <2>4, <2>5, SameCloud DEF DeviceInv
<1>5. CASE AssertionFails
  BY <1>5, RestartInv DEF AssertionFails, cloud, DeviceInv, OnboardingTypeOK
<1> QED
  BY <1>1, <1>2, <1>3, <1>4, <1>5

LEMMA DeviceStepInv ==
  ASSUME DeviceInv, DeviceStep PROVE DeviceInv'
BY ConnectInv, AskInv, StoreInv DEF DeviceStep

-----------------------------------------------------------------------------
\* The steps of the cloud, and what goes wrong.

\* No step of the cloud takes an active certificate back.
LEMMA SameDevice ==
  ASSUME DeviceInv, UNCHANGED <<nvs, memory, pc>>,
         \A k \in Certificates : issued[k] = "active" => issued'[k] = "active"
  PROVE  Stored' /\ OnboardedIsUsable'
<1>1. Registered => Registered'
  BY DEF Registered, DeviceInv, OnboardingTypeOK
<1>2. Stored'
  BY <1>1 DEF memory, DeviceInv, Stored
<1>3. OnboardedIsUsable'
  BY <1>1 DEF DeviceInv, OnboardedIsUsable
<1> QED
  BY <1>2, <1>3

LEMMA CloudStepInv ==
  ASSUME DeviceInv, CloudStep PROVE DeviceInv'
<1> USE DEF Fault, NoFault
<1>1. CASE CreateCertificate
  <2>1. PICK m \in net :
          /\ m.type = "csr"
          /\ \/ /\ issued' = [issued EXCEPT ![m.key] = "pending"]
                /\ net' = (net \ {m}) \cup {[type |-> "csr_accepted", key |-> m.key]}
             \/ /\ net' = (net \ {m}) \cup {[type |-> "csr_rejected", key |-> m.key]}
                /\ UNCHANGED issued
    BY <1>1 DEF CreateCertificate
  <2>2. /\ UNCHANGED <<nvs, memory, pc, session, OnBoarding, validated, allowed>>
        /\ faults' \in Nat
    BY <1>1 DEF CreateCertificate, DeviceInv, OnboardingTypeOK
  <2>3. m.key \in Keys /\ issued[m.key] = "none"
    BY <2>1 DEF DeviceInv, Fresh
  <2>4. OnboardingTypeOK'
    BY <2>1, <2>2, <2>3 DEF DeviceInv, OnboardingTypeOK, memory, Answers
  <2>5. \A k \in Certificates : k # m.key => issued'[k] = issued[k]
    BY <2>1, <2>3 DEF DeviceInv, OnboardingTypeOK
  <2>6. \A n \in net : n.type = "csr" /\ n.key = m.key => n = m
    BY <2>1 DEF DeviceInv, OnboardingTypeOK, Requests, Answers
  <2>7. Fresh'
    <3>1. \A n \in net' : n.type = "csr" => n \in net /\ n.key # m.key
      BY <2>1, <2>6
    <3>2. \A k \in validated \cup allowed : k # m.key /\ k \in Keys
      BY <2>3 DEF DeviceInv, Fresh, OnboardingTypeOK
    <3> QED
      BY <2>2, <2>5, <3>1, <3>2 DEF DeviceInv, Fresh
  <2>9. Stored' /\ OnboardedIsUsable'
    BY <2>2, <2>3, <2>5, SameDevice
  <2> QED
    BY <2>4, <2>7, <2>9 DEF DeviceInv
<1>2. CASE validate_mac_address
  <2>1. PICK m \in net :
          \/ /\ m.key \in Keys /\ issued[m.key] = "pending" /\ OnBoarding
             /\ validated' = validated \cup {m.key}
             /\ net' = net \ {m}
          \/ /\ net' = (net \ {m}) \cup {[type |-> "register_rejected", key |-> m.key]}
             /\ UNCHANGED validated
    BY <1>2 DEF validate_mac_address
  <2>2. UNCHANGED <<nvs, memory, pc, session, issued, OnBoarding, allowed, faults>>
    BY <1>2 DEF validate_mac_address
  <2>3. m.key \in Keys \cup {None}
    BY DEF DeviceInv, OnboardingTypeOK, Requests, Answers
  <2>4. OnboardingTypeOK'
    BY <2>1, <2>2, <2>3 DEF DeviceInv, OnboardingTypeOK, memory, Answers
  <2>5. Fresh'
    BY <2>1, <2>2 DEF DeviceInv, Fresh
  <2> QED
    BY <2>2, <2>4, <2>5, SameDevice DEF DeviceInv
<1>3. CASE update_onboarding_status
  <2>1. PICK k \in validated :
          /\ validated' = validated \ {k}
          /\ \/ OnBoarding' = FALSE /\ allowed' = allowed \cup {k} /\ UNCHANGED net
             \/ /\ net' = net \cup {[type |-> "register_rejected", key |-> k]}
                /\ OnBoarding' = FALSE \/ UNCHANGED OnBoarding
                /\ UNCHANGED allowed
    BY <1>3 DEF update_onboarding_status
  <2>2. UNCHANGED <<nvs, memory, pc, session, issued>> /\ faults' \in Nat
    BY <1>3 DEF update_onboarding_status, DeviceInv, OnboardingTypeOK
  <2>3. k \in Keys /\ OnBoarding' \in BOOLEAN
    BY <2>1 DEF DeviceInv, OnboardingTypeOK
  <2>4. allowed' \subseteq Keys /\ validated' \subseteq Keys /\ net' \subseteq Requests \cup Answers
    BY <2>1, <2>3 DEF DeviceInv, OnboardingTypeOK, Answers
  <2>5. OnboardingTypeOK'
    BY <2>2, <2>3, <2>4 DEF DeviceInv, OnboardingTypeOK, memory
  <2>6. Fresh'
    BY <2>1, <2>2 DEF DeviceInv, Fresh
  <2> QED
    BY <2>2, <2>5, <2>6, SameDevice DEF DeviceInv
<1>4. CASE Provision
  <2>1. PICK k \in allowed :
          /\ allowed' = allowed \ {k}
          /\ \/ /\ issued' = [issued EXCEPT ![k] = "active"]
                /\ net' = net \cup {[type |-> "register_accepted", key |-> k]}
             \/ /\ net' = net \cup {[type |-> "register_rejected", key |-> k]}
                /\ UNCHANGED issued
    BY <1>4 DEF Provision
  <2>2. UNCHANGED <<nvs, memory, pc, session, OnBoarding, validated>> /\ faults' \in Nat
    BY <1>4 DEF Provision, DeviceInv, OnboardingTypeOK
  <2>3. k \in Keys /\ issued[k] # "none"
    BY DEF DeviceInv, OnboardingTypeOK, Fresh
  <2>4. \A j \in Certificates : issued'[j] \in {issued[j], "active"} /\ (j # k => issued'[j] = issued[j])
    BY <2>1, <2>3 DEF DeviceInv, OnboardingTypeOK
  <2>5. OnboardingTypeOK'
    BY <2>1, <2>2, <2>3 DEF DeviceInv, OnboardingTypeOK, memory, Answers
  <2>6. Fresh'
    <3>1. \A m \in net' : m.type = "csr" => m \in net
      BY <2>1
    <3>2. \A j \in validated' \cup allowed' : j \in validated \cup allowed /\ j \in Keys
      BY <2>1, <2>2 DEF DeviceInv, OnboardingTypeOK
    <3> QED
      BY <2>3, <2>4, <3>1, <3>2 DEF DeviceInv, Fresh
  <2> QED
    BY <2>2, <2>4, <2>5, <2>6, SameDevice DEF DeviceInv
<1>5. CASE Unheard
  <2>1. /\ net' \subseteq net
        /\ UNCHANGED <<nvs, memory, pc, session, issued, OnBoarding, validated, allowed, faults>>
    BY <1>5 DEF Unheard
  <2>2. OnboardingTypeOK' /\ Fresh'
    BY <2>1 DEF DeviceInv, OnboardingTypeOK, memory, Fresh
  <2> QED
    BY <2>1, <2>2, SameDevice DEF DeviceInv
<1> QED
  BY <1>1, <1>2, <1>3, <1>4, <1>5 DEF CloudStep

\* A step of which the device's memory and the cloud see at most a message
\* lost or a session broken.
LEMMA QuietInv ==
  ASSUME DeviceInv, UNCHANGED <<nvs, memory, pc, issued, OnBoarding, validated, allowed>>,
         net' \subseteq net, session' \in {"none", "up", "broken"}, faults' \in Nat
  PROVE  DeviceInv'
<1>1. OnboardingTypeOK' /\ Fresh'
  BY DEF DeviceInv, OnboardingTypeOK, memory, Fresh
<1> QED
  BY <1>1, SameDevice DEF DeviceInv

LEMMA FaultStepInv ==
  ASSUME DeviceInv, FaultStep PROVE DeviceInv'
<1> USE DEF Fault, NoFault, cloud, DeviceInv, OnboardingTypeOK
<1>1. CASE Crash
  BY <1>1, RestartInv DEF Crash
<1>2. CASE Lose
  BY <1>2, QuietInv DEF Lose
<1>3. CASE LinkBreaks
  BY <1>3, QuietInv DEF LinkBreaks
<1>4. CASE prvStartWifiRefused /\ UNCHANGED <<nvs, memory, pc, session, cloud, faults>>
  BY <1>4, QuietInv
<1> QED
  BY <1>1, <1>2, <1>3, <1>4 DEF FaultStep

-----------------------------------------------------------------------------
\* The boot sequence.

LEMMA StepInv ==
  ASSUME DeviceInv, [BootNext]_bootVars PROVE DeviceInv'
<1>1. ASSUME UNCHANGED <<nvs, memory, pc, session, cloud, faults>> PROVE DeviceInv'
  BY <1>1, QuietInv DEF cloud, DeviceInv, OnboardingTypeOK
<1>2. CASE DeviceStep \/ CloudStep \/ FaultStep
  BY <1>2, DeviceStepInv, CloudStepInv, FaultStepInv
<1>3. CASE WifiStep
  BY <1>1, <1>3 DEF WifiStep
<1>4. CASE SubscribeToNextJobTopic \/ prvNotifyMainTask
  <2>1. /\ pc' \in {"await_jobs", "loop"}
        /\ UNCHANGED <<nvs, memory, session, cloud, faults>>
    BY <1>4 DEF SubscribeToNextJobTopic, prvNotifyMainTask
  <2>2. OnboardingTypeOK' /\ Stored' /\ OnboardedIsUsable'
    BY <2>1 DEF memory, cloud, DeviceInv, OnboardingTypeOK, Stored, BeforeTheFlag,
       OnboardedIsUsable, Registered, Pcs, OnlinePcs
  <2> QED
    BY <2>1, <2>2, SameCloud DEF DeviceInv
<1>5. CASE app_main
  BY <1>1, <1>5 DEF app_main, onboardingVars
<1>6. ASSUME NEW agent \in Agents, InitEvent_FreeRTOS(agent) \/ NotifyNext(agent)
      PROVE  DeviceInv'
  <2>1. CASE UNCHANGED onboardingVars
    BY <1>1, <2>1 DEF onboardingVars
  <2>2. CASE Restart /\ UNCHANGED <<cloud, faults>>
    BY <2>2, RestartInv DEF cloud, DeviceInv, OnboardingTypeOK
  <2> QED
    BY <1>6, <2>1, <2>2 DEF InitEvent_FreeRTOS, NotifyNext
<1>7. CASE LeaveCommandLoop
  <2>1. CASE Restart
    <3>1. faults \in Nat /\ faults' \in Nat /\ UNCHANGED cloud
      BY <1>7 DEF LeaveCommandLoop, Fault, NoFault, DeviceInv, OnboardingTypeOK
    <3> QED
      BY <2>1, <3>1, RestartInv DEF cloud
  <2>2. CASE ~Restart
    <3>1. /\ pc' = "left" /\ session' \in {"up", "none"}
          /\ UNCHANGED <<nvs, memory, cloud, faults>>
      BY <1>7, <2>2 DEF LeaveCommandLoop, NoFault
    <3>2. OnboardingTypeOK' /\ Stored' /\ OnboardedIsUsable'
      BY <3>1 DEF memory, cloud, DeviceInv, OnboardingTypeOK, Stored, BeforeTheFlag,
         OnboardedIsUsable, Registered, Pcs
    <3> QED
      BY <3>1, <3>2, SameCloud DEF DeviceInv
  <2> QED
    BY <2>1, <2>2
<1>8. CASE UNCHANGED bootVars
  BY <1>1, <1>8 DEF bootVars, onboardingVars
<1> QED
  BY <1>2, <1>3, <1>4, <1>5, <1>6, <1>7, <1>8 DEF BootNext, AgentStep, EnvironmentStep

LEMMA DeviceInvariant ==
  BootSpec => []DeviceInv
<1>1. BootInit => DeviceInv
  <2> SUFFICES ASSUME BootInit PROVE DeviceInv
    OBVIOUS
  <2>1. PICK registered \in BOOLEAN :
          /\ nvs = [certificate |-> Flashed, privateKey |-> Flashed, thingName |-> "test",
                    onboarding |-> ~registered]
          /\ issued = [c \in Certificates |-> IF c = Flashed /\ registered THEN "active" ELSE "none"]
    BY DEF BootInit, OnboardingInit
  <2>2. /\ AWSConnectSettings = NoSettings /\ certificateOwnershipToken = None
        /\ pc = "wifi" /\ session = "none"
        /\ net = {} /\ OnBoarding = TRUE /\ validated = {} /\ allowed = {} /\ faults = 0
    BY DEF BootInit, OnboardingInit
  <2>3. OnboardingTypeOK
    <3>1. /\ nvs \in [certificate : Certificates, privateKey : Certificates \cup {None},
                       thingName : {"test", "mac", "esp32-mac"}, onboarding : BOOLEAN]
      BY <2>1
    <3>2. issued \in [Certificates -> {"none", "pending", "active"}]
      BY <2>1
    <3> QED
      BY <2>2, <3>1, <3>2 DEF OnboardingTypeOK, NoSettings, OptionalKey, Pcs
  <2>4. Fresh /\ Stored
    BY <2>2 DEF Fresh, Stored, BeforeTheFlag
  <2>5. OnboardedIsUsable
    BY <2>1 DEF OnboardedIsUsable, Registered, ThingOf
  <2> QED
    BY <2>3, <2>4, <2>5 DEF DeviceInv
<1>2. DeviceInv /\ [BootNext]_bootVars => DeviceInv'
  BY StepInv
<1> QED
  BY <1>1, <1>2, PTL DEF BootSpec

\* What the flag in flash promises of the credentials in flash, after any
\* crash, lost or stale answer of StoreNewCredentials and what leads to it.
THEOREM OnboardedDeviceIsUsable ==
  BootSpec => []OnboardedIsUsable
<1>1. DeviceInv => OnboardedIsUsable
  BY DEF DeviceInv
<1> QED
  BY <1>1, DeviceInvariant, PTL

-----------------------------------------------------------------------------
\* Types.

Counted ==
  /\ faults \in 0 .. MaxFaults
  /\ mainTask \in {"waiting", "notified", "done"}
  /\ queues \subseteq Agents
  /\ announced \in 0 .. MaxJobs

LEMMA CountedStep ==
  ASSUME Counted, [BootNext]_bootVars PROVE Counted'
<1> USE BootAssumption, OnboardingAssumption DEF Counted, Agents
<1>1. ASSUME Follow, UNCHANGED faults \/ Fault PROVE Counted'
  <2>1. faults' \in 0 .. MaxFaults
    BY <1>1 DEF Fault
  <2>2. mainTask' \in {"waiting", "notified", "done"} /\ queues' \subseteq Agents /\ UNCHANGED announced
    BY <1>1 DEF Follow
  <2> QED
    BY <2>1, <2>2
<1>2. DeviceStep => UNCHANGED faults \/ Fault
  BY DEF DeviceStep, mqttAgentTask, EstablishMQTTSession, SubscribeOnBoardingTopic,
     CreateCertificateFromCSR, RegisterThingAWS, ProcessLoopWithTimeout, NoFault,
     prvIncomingProvisioningPublishCallback, StoreNewCredentials, SwitchToNewCertificate,
     UnSubscribeOnBoardingTopic, DisableOnBoarding, AssertionFails
<1>3. CloudStep \/ WifiStep \/ FaultStep => UNCHANGED faults \/ Fault
  BY DEF CloudStep, WifiStep, FaultStep, CreateCertificate, validate_mac_address,
     update_onboarding_status, Provision, Unheard, Crash, Lose, LinkBreaks, NoFault
<1>4. CASE (DeviceStep \/ CloudStep \/ WifiStep \/ FaultStep) /\ Follow
  BY <1>1, <1>2, <1>3, <1>4
<1>5. CASE SubscribeToNextJobTopic \/ prvNotifyMainTask \/ app_main
  BY <1>5 DEF SubscribeToNextJobTopic, prvNotifyMainTask, app_main, onboardingVars
<1>6. ASSUME NEW agent \in Agents, InitEvent_FreeRTOS(agent) \/ NotifyNext(agent) PROVE Counted'
  <2>1. CASE InitEvent_FreeRTOS(agent)
    BY <1>6, <2>1 DEF InitEvent_FreeRTOS, onboardingVars
  <2>2. CASE NotifyNext(agent)
    <3>1. announced' \in 0 .. MaxJobs
      BY <2>2 DEF NotifyNext
    <3>2. /\ mainTask' \in {"waiting", "notified", "done"} /\ queues' \subseteq Agents
          /\ UNCHANGED faults
      BY <2>2 DEF NotifyNext, onboardingVars
    <3> QED
      BY <3>1, <3>2
  <2> QED
    BY <1>6, <2>1, <2>2
<1>7. CASE LeaveCommandLoop
  <2>1. faults' \in 0 .. MaxFaults
    BY <1>7 DEF LeaveCommandLoop, Fault, NoFault
  <2>2. /\ mainTask' \in {"waiting", "notified", "done"} /\ queues' \subseteq Agents
        /\ UNCHANGED announced
    BY <1>7 DEF LeaveCommandLoop
  <2> QED
    BY <2>1, <2>2
<1>8. CASE UNCHANGED bootVars
  BY <1>8 DEF bootVars, onboardingVars
<1> QED
  BY <1>4, <1>5, <1>6, <1>7, <1>8 DEF BootNext, AgentStep, EnvironmentStep

\* The device, the cloud and the driver stay within their states.
THEOREM TypeCorrect ==
  BootSpec => []BootTypeOK
<1>1. BootInit => Counted
  BY BootAssumption, OnboardingAssumption DEF BootInit, OnboardingInit, Counted
<1>2. Counted /\ [BootNext]_bootVars => Counted'
  BY CountedStep
<1>3. Counted /\ WifiInv /\ DeviceInv => BootTypeOK
  BY DEF Counted, WifiInv, DeviceInv, BootTypeOK
<1> QED
  BY <1>1, <1>2, <1>3, WifiInvariant, DeviceInvariant, PTL DEF BootSpec

=============================================================================
