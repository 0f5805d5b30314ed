----------------------- MODULE MCSubscriptionManager -----------------------
(* The routes of the firmware, an instance of SubscriptionManager for TLC.  *)
EXTENDS SubscriptionManager

Route(topic, callback) == [topic |-> topic, callback |-> callback]

\* The firmware's topics, more than there are places, each of one callback:
\* the job queue's, the renewal's and those of an OTA stream.
FirmwareRoutes ==
  {Route("notify-next", "job")} \cup
  {Route(topic, "renewal") : topic \in {"csr accepted", "csr rejected"}} \cup
  {Route(topic, "ota") : topic \in {"stream data", "stream rejected"}}
=============================================================================
