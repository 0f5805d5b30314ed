--------------------------- MODULE CertRotation ----------------------------
(***************************************************************************)
(* What the renewal of a device certificate promises: the pair in use is   *)
(* always live, the stored pair is a live fallback until the pair in use   *)
(* is the only live one, and only then is it replaced, in two writes.      *)
(***************************************************************************)
EXTENDS TLAPS

CONSTANTS
  Certs,
  First,  \* the certificate the device starts with
  Torn    \* half of one pair and half of another, no certificate

VARIABLES live, inUse, stored

vars == <<live, inUse, stored>>

Init == live = {First} /\ inUse = First /\ stored = First

\* A new certificate is signed.
Issue ==
  /\ \E c \in Certs \ live : live' = live \cup {c}
  /\ UNCHANGED <<inUse, stored>>

\* The device reconnects with a live certificate, a live one still stored.
Adopt ==
  /\ stored \in live
  /\ inUse' \in live
  /\ UNCHANGED <<live, stored>>

\* Certificates are revoked, never the one in use.
Retire ==
  /\ \E revoked \in SUBSET (live \ {inUse}) : live' = live \ revoked
  /\ UNCHANGED <<inUse, stored>>

\* The stored pair, dead by now, is overwritten: first one half, then the other.
BeginStore ==
  /\ stored \notin live
  /\ stored' = Torn
  /\ UNCHANGED <<live, inUse>>

EndStore ==
  /\ stored = Torn
  /\ stored' = inUse
  /\ UNCHANGED <<live, inUse>>

Next == Issue \/ Adopt \/ Retire \/ BeginStore \/ EndStore

Spec == Init /\ [][Next]_vars

\* The pair in use is never revoked.
InUseLive == inUse \in live

\* What the rotation is for: whoever rotates this way is never locked out.
THEOREM NeverLockedOut == Spec => []InUseLive
<1>1. Init => InUseLive
  BY DEF Init, InUseLive
<1>2. InUseLive /\ [Next]_vars => InUseLive'
  BY DEF InUseLive, Next, Issue, Adopt, Retire, BeginStore, EndStore, vars
<1> QED BY <1>1, <1>2, PTL DEF Spec
=============================================================================
