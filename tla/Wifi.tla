-------------------------------- MODULE Wifi --------------------------------
(***************************************************************************)
(* Bringing up the Wi-Fi station (setup_hw/main.c): prvStartWifi, which    *)
(* runs in the MQTT agent task and waits for one of two event bits, and    *)
(* wifi_event_handler, which runs in the event loop task.  The driver that *)
(* associates, gets an address and loses the link is external.             *)
(***************************************************************************)
EXTENDS Naturals, Sequences

CONSTANTS
  MaximumRetry,  \* ESP_MAXIMUM_RETRY
  MaxDrops       \* bound on the failures of the access point and the driver

ASSUME WifiAssumption == MaximumRetry \in Nat /\ MaxDrops \in Nat

VARIABLES
  station,         \* the driver: "off", "associating", "connected", "down"
  wifiEvents,      \* events the driver posted and the event task has not handled
  retry_number,
  wifiEventGroup,  \* the bits set: "CONNECTED", "FAIL"
  startWifi,       \* prvStartWifi: "called", "waiting", or what it returned
  drops            \* failures so far

wifiVars == <<station, wifiEvents, retry_number, wifiEventGroup, startWifi, drops>>

\* The device has an address on its network.
Online == station = "connected"

WifiInit ==
  /\ station = "off" /\ wifiEvents = <<>>
  /\ retry_number = 0 /\ wifiEventGroup = {}
  /\ startWifi = "called"
  /\ drops = 0

\* A restart of the device: everything above is volatile.
WifiReset ==
  /\ station' = "off" /\ wifiEvents' = <<>>
  /\ retry_number' = 0 /\ wifiEventGroup' = {}
  /\ startWifi' = "called"
  /\ UNCHANGED drops

\* Mutant: the task waits for an attempt that nobody started.
prvStartWifiWithoutConnect ==
  /\ startWifi = "called"
  /\ wifiEventGroup' = {}
  /\ startWifi' = "waiting"
  /\ UNCHANGED <<station, wifiEvents, retry_number, drops>>

\* The event bits are cleared, a first attempt is started and the task waits.
prvStartWifi ==
  /\ startWifi = "called"
  /\ wifiEventGroup' = {}
  /\ station' = "associating"
  /\ startWifi' = "waiting"
  /\ UNCHANGED <<wifiEvents, retry_number, drops>>

\* No SSID in NVS, or a configuration the driver refuses: false, unheeded by
\* initHardware, and no attempt is ever started.
prvStartWifiRefused ==
  /\ startWifi = "called" /\ drops < MaxDrops
  /\ startWifi' = "false"
  /\ drops' = drops + 1
  /\ UNCHANGED <<station, wifiEvents, retry_number, wifiEventGroup>>

\* xEventGroupWaitBits returns with any bit and leaves them set.
prvStartWifiReturns ==
  /\ startWifi = "waiting" /\ wifiEventGroup # {}
  /\ startWifi' = IF "CONNECTED" \in wifiEventGroup THEN "true" ELSE "false"
  /\ UNCHANGED <<station, wifiEvents, retry_number, wifiEventGroup, drops>>

\* The driver: an attempt succeeds, an attempt fails or the link is lost.
Associate ==
  /\ station = "associating"
  /\ station' = "connected"
  /\ wifiEvents' = Append(wifiEvents, "GOT_IP")
  /\ UNCHANGED <<retry_number, wifiEventGroup, startWifi, drops>>

Drop ==
  /\ station \in {"associating", "connected"} /\ drops < MaxDrops
  /\ station' = "down"
  /\ wifiEvents' = Append(wifiEvents, "DISCONNECTED")
  /\ drops' = drops + 1
  /\ UNCHANGED <<retry_number, wifiEventGroup, startWifi>>

\* Mutant: a retry is counted and not made.
wifi_event_handler_counts ==
  /\ wifiEvents # <<>>
  /\ wifiEvents' = Tail(wifiEvents)
  /\ IF Head(wifiEvents) = "GOT_IP"
     THEN wifiEventGroup' = wifiEventGroup \cup {"CONNECTED"} /\ UNCHANGED retry_number
     ELSE IF retry_number < MaximumRetry
     THEN retry_number' = retry_number + 1 /\ UNCHANGED wifiEventGroup
     ELSE wifiEventGroup' = wifiEventGroup \cup {"FAIL"} /\ UNCHANGED retry_number
  /\ UNCHANGED <<station, startWifi, drops>>

\* Mutant: every failure is retried, the limit is not looked at.
wifi_event_handler_unlimited ==
  /\ wifiEvents # <<>>
  /\ wifiEvents' = Tail(wifiEvents)
  /\ IF Head(wifiEvents) = "GOT_IP"
     THEN wifiEventGroup' = wifiEventGroup \cup {"CONNECTED"} /\ UNCHANGED <<station, retry_number>>
     ELSE station' = "associating" /\ retry_number' = retry_number + 1 /\ UNCHANGED wifiEventGroup
  /\ UNCHANGED <<startWifi, drops>>

\* The retries are counted over the whole life of the device, not since the
\* last connection; when they are used up nobody calls esp_wifi_connect again.
wifi_event_handler ==
  /\ wifiEvents # <<>>
  /\ wifiEvents' = Tail(wifiEvents)
  /\ \/ /\ Head(wifiEvents) = "GOT_IP"
        /\ wifiEventGroup' = wifiEventGroup \cup {"CONNECTED"}
        /\ UNCHANGED <<station, retry_number>>
     \/ /\ Head(wifiEvents) = "DISCONNECTED" /\ retry_number < MaximumRetry
        /\ station' = "associating"
        /\ retry_number' = retry_number + 1
        /\ UNCHANGED wifiEventGroup
     \/ /\ Head(wifiEvents) = "DISCONNECTED" /\ retry_number >= MaximumRetry
        /\ wifiEventGroup' = wifiEventGroup \cup {"FAIL"}
        /\ UNCHANGED <<station, retry_number>>
  /\ UNCHANGED <<startWifi, drops>>

\* What goes on by itself, and what may go wrong.
WifiProgress == prvStartWifi \/ prvStartWifiReturns \/ Associate \/ wifi_event_handler
WifiNext == WifiProgress \/ prvStartWifiRefused \/ Drop

WifiSpec == WifiInit /\ [][WifiNext]_wifiVars

WifiTypeOK ==
  /\ station \in {"off", "associating", "connected", "down"}
  /\ wifiEvents \in Seq({"GOT_IP", "DISCONNECTED"})
  /\ retry_number \in 0 .. MaximumRetry
  /\ wifiEventGroup \subseteq {"CONNECTED", "FAIL"}
  /\ startWifi \in {"called", "waiting", "true", "false"}
  /\ drops \in 0 .. MaxDrops

\* A station that is down while no disconnection waits to be handled has used
\* up its retries and has told so: whoever asks is never left waiting for bits
\* that nobody will set.
StrandedOnlyWhenExhausted ==
  /\ station = "down" /\ wifiEvents = <<>>
       => retry_number = MaximumRetry /\ "FAIL" \in wifiEventGroup
  /\ station = "connected" /\ wifiEvents = <<>> => "CONNECTED" \in wifiEventGroup
=============================================================================
