----------------------------- MODULE Repository -----------------------------
(***************************************************************************)
(* What a publication promises to APT clients and to the next lifecycle    *)
(* run, with no phase, crash, retry or lost response in sight.  Clients    *)
(* see one publication, the controller trusts one publication, and the     *)
(* first is the second or an attempt to follow it.  A publication becomes  *)
(* visible, and then committed, as a whole; an object disappears only when *)
(* neither needs it.                                                       *)
(***************************************************************************)
CONSTANTS Pub, None, Key

VARIABLES
  manifest,   \* what each built publication is made of
  visible,    \* the publication clients see
  committed,  \* the publication the controller trusts
  pool        \* the stored immutable objects

Live(p) == IF p = None THEN {} ELSE {k \in Key : manifest[p].live[k] # None}

Stored(p) == \A k \in Live(p) : pool[k] = manifest[p].live[k]

Needed == Live(visible) \cup Live(committed)

Init ==
  /\ visible = None /\ committed = None
  /\ pool = [k \in Key |-> None]

\* A publication is built once.
Build(p) ==
  /\ ~manifest[p].built
  /\ \A q \in Pub \ {p} : manifest'[q] = manifest[q]
  /\ UNCHANGED <<visible, committed, pool>>

\* An object is stored, or one that nobody needs is deleted.
Store(k) ==
  /\ \/ pool[k] = None
     \/ k \notin Needed
  /\ \A j \in Key \ {k} : pool'[j] = pool[j]
  /\ UNCHANGED <<manifest, visible, committed>>

\* A successor of the committed publication, or the committed one again: an
\* unfinished successor can be withdrawn.
Expose(p) ==
  /\ manifest[p].built /\ Stored(p)
  /\ p = committed \/ manifest[p].prev = committed
  /\ visible' = p
  /\ UNCHANGED <<manifest, committed, pool>>

Commit ==
  /\ visible # None /\ manifest[visible].prev = committed
  /\ committed' = visible
  /\ UNCHANGED <<manifest, visible, pool>>

Next == \/ \E p \in Pub : Build(p) \/ Expose(p)
        \/ \E k \in Key : Store(k)
        \/ Commit

Spec == Init /\ [][Next]_<<manifest, visible, committed, pool>>
=============================================================================
