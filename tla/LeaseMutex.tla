----------------------------- MODULE LeaseMutex -----------------------------
(***************************************************************************)
(* What the production lease promises its users, with no clock, network or *)
(* storage in sight: the lease has at most one holder, a worker mutates    *)
(* the store only while it is the holder, and the lease never changes      *)
(* hands under a mutation in progress.                                     *)
(***************************************************************************)
CONSTANTS Worker, Nobody

VARIABLES
  holder,    \* the worker that holds the lease, or Nobody
  mutating   \* the workers with a mutation in progress

Init == holder = Nobody /\ mutating = {}

\* Acquisition, release and takeover.
ChangeHands ==
  /\ mutating = {}
  /\ holder' \in Worker \cup {Nobody}
  /\ UNCHANGED mutating

Begin(w) ==
  /\ holder = w /\ mutating = {}
  /\ mutating' = {w}
  /\ UNCHANGED holder

End(w) ==
  /\ mutating = {w}
  /\ mutating' = {}
  /\ UNCHANGED holder

Next == ChangeHands \/ \E w \in Worker : Begin(w) \/ End(w)

Spec == Init /\ [][Next]_<<holder, mutating>>
=============================================================================
