----------------------------- MODULE Onboarding -----------------------------
(***************************************************************************)
(* The first part of the MQTT agent task, from power-on to a session with  *)
(* the device's own credentials: mqttAgentTask, StartOnboarding and what   *)
(* they call, the NVS entries they read and write, and on the other side   *)
(* fleet provisioning with its validation Lambda and the table of devices  *)
(* that may still register.  A certificate is named by the key whose CSR   *)
(* it was issued for, and so is its ownership token.                       *)
(***************************************************************************)
EXTENDS Wifi, FiniteSets

CONSTANTS
  Keys,       \* the keys GenerateCSR can make
  Claim,      \* the claim certificate and its key
  Flashed,    \* the certificate and the key of its own that a device is flashed with
  None,       \* NULL
  MaxFaults   \* bound on crashes, losses, late answers, refusals, broken links

Certificates == Keys \cup {Flashed}

ASSUME OnboardingAssumption ==
  MaxFaults \in Nat /\ Flashed \notin Keys /\ {Claim, None} \cap Certificates = {} /\ Claim # None

VARIABLES
  nvs,                        \* the AWS namespace in flash
  AWSConnectSettings,         \* the credentials in RAM
  certificateOwnershipToken,
  pc,                         \* where mqttAgentTask is
  session,                    \* the MQTT session: "none", "up", "broken"
  net,                        \* fleet provisioning messages under way
  issued,                     \* per certificate: "none", "pending", "active"
  OnBoarding,                 \* the device's flag in the DynamoDB table
  validated,                  \* hook calls between get_item and update_item
  allowed,                    \* hook calls that have answered allowProvisioning
  faults

memory == <<AWSConnectSettings, certificateOwnershipToken>>
cloud == <<net, issued, OnBoarding, validated, allowed>>
onboardingVars == <<wifiVars, nvs, memory, pc, session, cloud, faults>>

ConnectPcs == {"claim_connect", "new_connect", "aws_connect"}
OnlinePcs == {"subscribe", "csr", "register", "disconnect", "unsubscribe", "jobs", "await_jobs"}
AwaitPcs == {"await_csr", "await_register"}
StorePcs == {"store_certificate", "store_key", "store_name"}
Pcs == {"wifi", "disable", "loop", "left"} \cup ConnectPcs \cup OnlinePcs \cup AwaitPcs \cup StorePcs

Requests == [type : {"csr", "register"}, key : Keys \cup {None}]
Answers == [type : {"csr_accepted", "csr_rejected", "register_accepted", "register_rejected"},
            key : Keys \cup {None}]

NoSettings == [certificate |-> None, privateKey |-> None, thingName |-> None,
               newCertificate |-> None, newPrivateKey |-> None]

\* The key is live somewhere: in flash, in RAM, in a message or in the cloud.
InUse(k) ==
  \/ k \in {nvs.certificate, nvs.privateKey, certificateOwnershipToken}
  \/ k \in {AWSConnectSettings.newCertificate, AWSConnectSettings.newPrivateKey}
  \/ k \in {m.key : m \in net} \cup validated \cup allowed
  \/ issued[k] = "active"

\* What the broker accepts in a TLS handshake.
Usable(certificate, privateKey) ==
  /\ certificate = privateKey
  /\ certificate = Claim \/ (certificate \in Certificates /\ issued[certificate] = "active")

\* The thing that a certificate is attached to: the template names it esp32-
\* and the MAC, the operator who flashes a pair attaches it to the flashed name.
ThingOf(certificate) == IF certificate = Flashed THEN "test" ELSE "esp32-mac"

\* The policies: the claim certificate connects as any client, one of the
\* device's own as the thing it is attached to.
Admitted(certificate, clientId) == certificate = Claim \/ clientId = ThingOf(certificate)

\* Nothing of what the device asked for is still to be answered.
Quiet == net = {} /\ validated = {} /\ allowed = {}

Fault == faults < MaxFaults /\ faults' = faults + 1
NoFault == UNCHANGED faults

\* nvs.csv: a thing name, the claim pair, a pair and the flag are flashed.  A
\* device flashed as onboarded (OnBoarding 0, as committed) has been given a
\* pair that is registered; one that is to onboard is flashed with OnBoarding 1.
OnboardingInit ==
  /\ WifiInit
  /\ \E registered \in BOOLEAN :
       /\ nvs = [certificate |-> Flashed, privateKey |-> Flashed, thingName |-> "test",
                 onboarding |-> ~registered]
       /\ issued = [c \in Certificates |-> IF c = Flashed /\ registered THEN "active" ELSE "none"]
  /\ AWSConnectSettings = NoSettings /\ certificateOwnershipToken = None
  /\ pc = "wifi" /\ session = "none"
  /\ net = {}
  /\ OnBoarding = TRUE /\ validated = {} /\ allowed = {}
  /\ faults = 0

\* A failed assertion, exit(1) or a crash: flash and cloud survive.
Restart ==
  /\ WifiReset
  /\ AWSConnectSettings' = NoSettings /\ certificateOwnershipToken' = None
  /\ pc' = "wifi" /\ session' = "none"
  /\ UNCHANGED nvs

----------------------------------------------------------------------------
\* The device.

\* initHardware ignores what prvStartWifi returns; the flag chooses the pair.
mqttAgentTask ==
  /\ pc = "wifi" /\ startWifi \in {"true", "false"}
  /\ \/ /\ nvs.onboarding
        /\ AWSConnectSettings' = [NoSettings EXCEPT !.certificate = Claim, !.privateKey = Claim,
                                                    !.thingName = "mac"]
        /\ pc' = "claim_connect"
     \/ /\ ~nvs.onboarding
        /\ AWSConnectSettings' = [NoSettings EXCEPT !.certificate = nvs.certificate,
                                                    !.privateKey = nvs.privateKey,
                                                    !.thingName = nvs.thingName]
        /\ pc' = "aws_connect"
  /\ UNCHANGED <<wifiVars, nvs, certificateOwnershipToken, session, cloud, faults>>

CanConnect == Online /\ Usable(AWSConnectSettings.certificate, AWSConnectSettings.privateKey)

\* Mutant: what the handshake says is not looked at.
EstablishMQTTSessionBlindly ==
  /\ pc \in ConnectPcs /\ Online
  /\ session' = "up"
  /\ pc' = CASE pc = "claim_connect" -> "subscribe"
             [] pc = "new_connect" -> "unsubscribe"
             [] pc = "aws_connect" -> "jobs"
  /\ UNCHANGED <<wifiVars, nvs, memory, cloud, faults>>

\* CONNECTION_RETRY_MAX_ATTEMPTS attempts take hours: they are used up only
\* when nothing is left that could still make one of them succeed.  A CONNECT
\* that the policy refuses is not tried again and fails the assertion.
EstablishMQTTSession ==
  /\ pc \in ConnectPcs
  /\ \/ /\ CanConnect /\ Admitted(AWSConnectSettings.certificate, AWSConnectSettings.thingName)
        /\ session' = "up"
        /\ pc' = CASE pc = "claim_connect" -> "subscribe"
                   [] pc = "new_connect" -> "unsubscribe"
                   [] pc = "aws_connect" -> "jobs"
        /\ UNCHANGED <<wifiVars, nvs, memory>>
     \/ /\ CanConnect /\ ~Admitted(AWSConnectSettings.certificate, AWSConnectSettings.thingName)
        /\ Restart
     \/ /\ ~CanConnect /\ Quiet /\ wifiEvents = <<>> /\ station # "associating"
        /\ Restart
  /\ UNCHANGED <<cloud, faults>>

SubscribeOnBoardingTopic ==
  /\ pc = "subscribe" /\ session = "up"
  /\ pc' = "csr"
  /\ UNCHANGED <<wifiVars, nvs, memory, session, cloud, faults>>

\* GenerateCSR makes a fresh key, which stays in RAM.
CreateCertificateFromCSR ==
  /\ pc = "csr" /\ session = "up"
  /\ \E k \in Keys :
       /\ ~InUse(k)
       /\ AWSConnectSettings' = [AWSConnectSettings EXCEPT !.newPrivateKey = k]
       /\ net' = net \cup {[type |-> "csr", key |-> k]}
       /\ issued' = [issued EXCEPT ![k] = "none"]
  /\ pc' = "await_csr"
  /\ UNCHANGED <<wifiVars, nvs, certificateOwnershipToken, session, OnBoarding, validated,
                 allowed, faults>>

\* The token may be NULL: nobody looks whether the first answer came.
RegisterThingAWS ==
  /\ pc = "register" /\ session = "up"
  /\ net' = net \cup {[type |-> "register", key |-> certificateOwnershipToken]}
  /\ pc' = "await_register"
  /\ UNCHANGED <<wifiVars, nvs, memory, session, issued, OnBoarding, validated, allowed, faults>>

\* A fixed time is spent in MQTT_ProcessLoop and its result is ignored.  An
\* answer later than that is a fault; a broken session ends the wait at once.
ProcessLoopWithTimeout ==
  /\ pc \in AwaitPcs
  /\ \/ (Quiet \/ session = "broken") /\ NoFault
     \/ ~Quiet /\ session = "up" /\ Fault
  /\ pc' = IF pc = "await_csr" THEN "register" ELSE "store_certificate"
  /\ UNCHANGED <<wifiVars, nvs, memory, session, cloud>>

\* An answer is heard while MQTT_ProcessLoop runs; none is matched with the
\* request it answers, and a rejection fails an assertion.
prvIncomingProvisioningPublishCallback ==
  /\ session = "up" /\ pc \in {"csr"} \cup AwaitPcs
  /\ \E m \in net :
       /\ net' = net \ {m}
       /\ \/ /\ m.type = "csr_accepted"
             /\ certificateOwnershipToken' = m.key
             /\ AWSConnectSettings' = [AWSConnectSettings EXCEPT !.newCertificate = m.key]
             /\ UNCHANGED <<wifiVars, nvs, pc, session>>
          \/ /\ m.type = "register_accepted"
             /\ AWSConnectSettings' = [AWSConnectSettings EXCEPT !.thingName = "esp32-mac"]
             /\ UNCHANGED <<wifiVars, nvs, certificateOwnershipToken, pc, session>>
          \/ m.type \in {"csr_rejected", "register_rejected"} /\ Restart
  /\ UNCHANGED <<issued, OnBoarding, validated, allowed, faults>>

\* LoadValueToNVS commits each of the three values by itself.  A certificate
\* that never came is NULL and nvs_set_str does not survive it.
StoreNewCredentials ==
  /\ \/ /\ pc = "store_certificate" /\ AWSConnectSettings.newCertificate # None
        /\ nvs' = [nvs EXCEPT !.certificate = AWSConnectSettings.newCertificate]
        /\ pc' = "store_key"
        /\ UNCHANGED <<wifiVars, memory, session>>
     \/ /\ pc = "store_certificate" /\ AWSConnectSettings.newCertificate = None
        /\ Restart
     \/ /\ pc = "store_key"
        /\ nvs' = [nvs EXCEPT !.privateKey = AWSConnectSettings.newPrivateKey]
        /\ pc' = "store_name"
        /\ UNCHANGED <<wifiVars, memory, session>>
     \/ /\ pc = "store_name"
        /\ nvs' = [nvs EXCEPT !.thingName = AWSConnectSettings.thingName]
        /\ pc' = "disconnect"
        /\ UNCHANGED <<wifiVars, memory, session>>
  /\ UNCHANGED <<cloud, faults>>

\* HandleMQTTDisconnect and UpdateAWSSettings: the new pair becomes the pair.
SwitchToNewCertificate ==
  /\ pc = "disconnect" /\ session = "up"
  /\ session' = "none"
  /\ AWSConnectSettings' =
       [AWSConnectSettings EXCEPT !.certificate = AWSConnectSettings.newCertificate,
                                  !.privateKey = AWSConnectSettings.newPrivateKey,
                                  !.newCertificate = None, !.newPrivateKey = None]
  /\ pc' = "new_connect"
  /\ UNCHANGED <<wifiVars, nvs, certificateOwnershipToken, cloud, faults>>

UnSubscribeOnBoardingTopic ==
  /\ pc = "unsubscribe" /\ session = "up"
  /\ pc' = "disable"
  /\ UNCHANGED <<wifiVars, nvs, memory, session, cloud, faults>>

DisableOnBoarding ==
  /\ pc = "disable"
  /\ nvs' = [nvs EXCEPT !.onboarding = FALSE]
  /\ pc' = "jobs"
  /\ UNCHANGED <<wifiVars, memory, session, cloud, faults>>

\* An operation on a broken session fails and so does the assertion after it.
AssertionFails ==
  /\ session = "broken" /\ pc \in OnlinePcs
  /\ Restart
  /\ UNCHANGED <<cloud, faults>>

----------------------------------------------------------------------------
\* Fleet provisioning and its hook, which takes the parameters of a request.

\* CreateCertificateFromCsr.
CreateCertificate ==
  /\ \E m \in net :
       /\ m.type = "csr"
       /\ \/ /\ issued' = [issued EXCEPT ![m.key] = "pending"]
             /\ net' = (net \ {m}) \cup {[type |-> "csr_accepted", key |-> m.key]}
             /\ NoFault
          \/ /\ net' = (net \ {m}) \cup {[type |-> "csr_rejected", key |-> m.key]}
             /\ Fault /\ UNCHANGED issued
  /\ UNCHANGED <<wifiVars, nvs, memory, pc, session, OnBoarding, validated, allowed>>

\* RegisterThing and the first half of the hook: an unknown or used token, or
\* a device whose flag is off, is rejected.
validate_mac_address ==
  /\ \E m \in net :
       /\ m.type = "register"
       /\ \/ /\ m.key \in Keys /\ issued[m.key] = "pending" /\ OnBoarding
             /\ validated' = validated \cup {m.key}
             /\ net' = net \ {m}
          \/ /\ ~(m.key \in Keys /\ issued[m.key] = "pending" /\ OnBoarding)
             /\ net' = (net \ {m}) \cup {[type |-> "register_rejected", key |-> m.key]}
             /\ UNCHANGED validated
  /\ UNCHANGED <<wifiVars, nvs, memory, pc, session, issued, OnBoarding, allowed, faults>>

\* The second half: the flag goes off, before the registration it allows.  An
\* exception may come before the write or after it.
update_onboarding_status ==
  /\ \E k \in validated :
       /\ validated' = validated \ {k}
       /\ \/ /\ OnBoarding' = FALSE
             /\ allowed' = allowed \cup {k}
             /\ NoFault /\ UNCHANGED net
          \/ /\ OnBoarding' = FALSE \/ UNCHANGED OnBoarding
             /\ net' = net \cup {[type |-> "register_rejected", key |-> k]}
             /\ Fault /\ UNCHANGED allowed
  /\ UNCHANGED <<wifiVars, nvs, memory, pc, session, issued>>

\* The template activates the certificate, or fails after the hook.
Provision ==
  /\ \E k \in allowed :
       /\ allowed' = allowed \ {k}
       /\ \/ /\ issued' = [issued EXCEPT ![k] = "active"]
             /\ net' = net \cup {[type |-> "register_accepted", key |-> k]}
             /\ NoFault
          \/ /\ net' = net \cup {[type |-> "register_rejected", key |-> k]}
             /\ Fault /\ UNCHANGED issued
  /\ UNCHANGED <<wifiVars, nvs, memory, pc, session, OnBoarding, validated>>

\* QoS 0 and clean sessions: without a subscription an answer goes nowhere.
Unheard ==
  /\ session # "up" \/ pc \notin {"csr", "register"} \cup AwaitPcs
  /\ \E m \in net \cap Answers : net' = net \ {m}
  /\ UNCHANGED <<wifiVars, nvs, memory, pc, session, issued, OnBoarding, validated, allowed, faults>>

----------------------------------------------------------------------------
\* What goes wrong.  A link that is lost takes the session with it.

Crash ==
  /\ Fault /\ Restart
  /\ UNCHANGED cloud

Lose ==
  /\ \E m \in net : net' = net \ {m}
  /\ Fault
  /\ UNCHANGED <<wifiVars, nvs, memory, pc, session, issued, OnBoarding, validated, allowed>>

LinkBreaks ==
  /\ \/ Drop /\ NoFault
     \/ session = "up" /\ Fault /\ UNCHANGED wifiVars
  /\ session' = IF session = "up" THEN "broken" ELSE session
  /\ UNCHANGED <<nvs, memory, pc, cloud>>

----------------------------------------------------------------------------
DeviceStep ==
  \/ mqttAgentTask \/ EstablishMQTTSession \/ SubscribeOnBoardingTopic
  \/ CreateCertificateFromCSR \/ RegisterThingAWS \/ ProcessLoopWithTimeout
  \/ prvIncomingProvisioningPublishCallback \/ StoreNewCredentials
  \/ SwitchToNewCertificate \/ UnSubscribeOnBoardingTopic \/ DisableOnBoarding
  \/ AssertionFails

CloudStep ==
  CreateCertificate \/ validate_mac_address \/ update_onboarding_status \/ Provision \/ Unheard

WifiStep == WifiProgress /\ UNCHANGED <<nvs, memory, pc, session, cloud, faults>>

FaultStep ==
  \/ Crash \/ Lose \/ LinkBreaks
  \/ (prvStartWifiRefused /\ UNCHANGED <<nvs, memory, pc, session, cloud, faults>>)

OnboardingNext == DeviceStep \/ CloudStep \/ WifiStep \/ FaultStep

OnboardingSpec == OnboardingInit /\ [][OnboardingNext]_onboardingVars

----------------------------------------------------------------------------
OptionalKey == Keys \cup {None}

OnboardingTypeOK ==
  /\ nvs \in [certificate : Certificates, privateKey : Certificates \cup {None},
              thingName : {"test", "mac", "esp32-mac"}, onboarding : BOOLEAN]
  /\ AWSConnectSettings \in
       [certificate : Certificates \cup {Claim, None}, privateKey : Certificates \cup {Claim, None},
        thingName : {"test", "mac", "esp32-mac", None},
        newCertificate : OptionalKey, newPrivateKey : OptionalKey]
  /\ certificateOwnershipToken \in OptionalKey
  /\ pc \in Pcs /\ session \in {"none", "up", "broken"}
  /\ net \subseteq Requests \cup Answers
  /\ issued \in [Certificates -> {"none", "pending", "active"}]
  /\ OnBoarding \in BOOLEAN
  /\ validated \subseteq Keys /\ allowed \subseteq Keys
  /\ faults \in Nat

\* The credentials in flash are those of a registered device: certificate and
\* key belong together, the certificate is active, and the name is that of the
\* thing it is attached to, the only one that the broker lets it connect as.
Registered ==
  /\ nvs.certificate = nvs.privateKey /\ issued[nvs.certificate] = "active"
  /\ nvs.thingName = ThingOf(nvs.certificate)

\* Once the flag in flash says that the device is onboarded, what is in flash
\* connects.  No crash between the three writes, lost answer (after which the
\* name is still the MAC) or stale answer breaks it.
OnboardedIsUsable == ~nvs.onboarding => Registered
=============================================================================
