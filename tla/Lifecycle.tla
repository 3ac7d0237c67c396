----------------------------- MODULE Lifecycle -----------------------------
(***************************************************************************)
(* The unattended lifecycle of the repository: the decision of             *)
(* dkc/lifecycle.py, the assembly of a candidate publication with the      *)
(* retention of dkc/retention.py (build-signed-repository.py), the whole-  *)
(* storage accounting (dkc/storage_budget.py) and, as one step, what       *)
(* storage-publish.py makes of a candidate.  Publication shows that this   *)
(* step happens as a whole or not at all, up to objects that an            *)
(* interrupted one leaves behind or does not yet delete.                   *)
(*                                                                         *)
(* Runs of the workflow do not overlap, but the failed jobs of an older    *)
(* run can be re-run between two runs: they publish the candidate that run *)
(* has signed.                                                             *)
(***************************************************************************)
EXTENDS Integers, FiniteSets, FiniteSetsExt

CONSTANTS
  Source,         \* Debian source versions, by dkc/debver.py's order
  ReleaseOf,      \* [Source -> Nat]: upstream_release, the patch release
  SeriesOf,       \* [Source -> Nat]: series, X.Y
  Revision,       \* DKC revisions
  Variant,        \* descriptor hashes of a source, and build policies of a revision
  Limit,          \* byte limits the configuration may choose, Unlimited perhaps
  Unlimited,      \* the retention mode "series"
  MaxSeries,      \* how many series are kept (3 in dkc/retention.py)
  Size,           \* [Source -> Nat]: the bytes of one build
  Other,          \* bytes outside the kernel pool
  Reserve,        \* publication_reserve_bytes
  Quiet,          \* the inputs come to rest at some time
  None,           \* no publication, no candidate
  MaxGen,         \* bound: generations until which anything happens by itself
  MaxRest         \* bound: further generations, in which it must come to rest

ASSUME ConstantsAssumption ==
  /\ Source \subseteq Nat /\ Revision \subseteq Nat
  /\ Limit \subseteq Nat \cup {Unlimited} /\ Unlimited \notin Nat
  /\ ReleaseOf \in [Source -> Nat] /\ SeriesOf \in [Source -> Nat]
  /\ \A s, t \in Source : s <= t => ReleaseOf[s] <= ReleaseOf[t] /\ SeriesOf[s] <= SeriesOf[t]
  /\ \A s, t \in Source : ReleaseOf[s] = ReleaseOf[t] => SeriesOf[s] = SeriesOf[t]
  /\ MaxSeries \in Nat \ {0} /\ Size \in [Source -> Nat]
  /\ Other \in Nat /\ Reserve \in Nat /\ MaxGen \in Nat /\ MaxRest \in Nat
  /\ Quiet \in BOOLEAN

VARIABLES
  input,   \* the newest authenticated source and the configuration
  state,   \* the authoritative state: what its manifest says
  fresh,   \* its Valid-Until is beyond the maintenance horizon
  pool,    \* the builds whose objects are stored
  run,     \* the run in progress: its decision, then its signed candidate
  shelf,   \* the signed candidate of an earlier run that failed
  calm     \* inputs no longer change, and nothing fails by itself any more

vars == <<input, state, fresh, pool, run, shelf, calm>>

\* The packages of one source version and revision; they share their immutable keys.
Build == Source \X Revision

Input == [source   : Source,
          hash     : Variant,       \* source_dsc_sha256
          revision : Revision,
          policy   : Variant,       \* build_policy_sha256 and lto_mode
          limit    : Limit]

State == [gen      : Nat,
          source   : Source,
          hash     : Variant,
          revision : Revision,
          policy   : Variant,
          limit    : Limit,
          live     : SUBSET Build,  \* the kernel packages among live_objects
          tombs    : SUBSET Build]  \* and in gc_queue

\* A decision carries the inputs it was made from and the state it was made on,
\* with what it measured in the storage.
Decision == [kind : {"build", "maintenance"}, input : Input,
             prev : State \cup {None}, stored : SUBSET Build]

\* A candidate is bound to its predecessor's generation and identity.
Candidate == [prev : State \cup {None}, next : State]

ASSUME NoneAssumption == None \notin Decision /\ None \notin Candidate

Bytes(b) == MapThenSumSet(LAMBDA x : Size[x[1]], b)

LiveOf(m) == IF m = None THEN {} ELSE m.live

TombsOf(m) == IF m = None THEN {} ELSE m.tombs

StorageSize == Bytes(pool) + Other

\* Only now do inputs change, metadata age and runs fail by themselves.
Restless == ~calm /\ (state # None => state.gen < MaxGen)

Within(bytes, limit) == limit # Unlimited => bytes <= limit

-----------------------------------------------------------------------------
TypeOK ==
  /\ input \in Input
  /\ state \in State \cup {None}
  /\ fresh \in BOOLEAN
  /\ pool \subseteq Build
  /\ run \in Decision \cup Candidate \cup {None}
  /\ shelf \subseteq Candidate
  /\ calm \in BOOLEAN

Init ==
  /\ input \in Input
  /\ state = None
  /\ fresh = FALSE
  /\ pool = {}
  /\ run = None
  /\ shelf = {}
  /\ calm = FALSE

-----------------------------------------------------------------------------
(* dkc/lifecycle.py, decide.                                               *)

SameSource == input.source = state.source /\ input.hash = state.hash

\* The source or the revision went back, or content changed under the same version.
Blocked ==
  state # None /\
    \/ input.source < state.source
    \/ input.source = state.source /\ input.hash # state.hash
    \/ SameSource /\ input.revision < state.revision
    \/ SameSource /\ input.revision = state.revision /\ input.policy # state.policy

\* Slip: any other source is built.
BuildDueOther ==
  state # None =>
    \/ input.source # state.source
    \/ SameSource /\ input.revision > state.revision

\* The first publication, a newer source, a higher revision.
BuildDue ==
  state # None =>
    \/ input.source > state.source
    \/ SameSource /\ input.revision > state.revision

\* Another retention policy, too much stored, or metadata about to expire.
MaintenanceDue ==
  /\ ~Blocked /\ ~BuildDue
  /\ \/ input.limit # state.limit
     \/ ~Within(StorageSize, input.limit)
     \/ ~fresh

\* no_op and blocked end the run.
Decide ==
  /\ run = None /\ (BuildDue \/ MaintenanceDue)
  /\ state # None => state.gen < MaxGen + MaxRest
  /\ run' = [kind |-> IF BuildDue THEN "build" ELSE "maintenance",
             input |-> input, prev |-> state, stored |-> pool]
  /\ UNCHANGED <<input, state, fresh, pool, shelf, calm>>

-----------------------------------------------------------------------------
(* dkc/retention.py, select_retained_objects.                              *)

Series(b) == {SeriesOf[x[1]] : x \in b}

\* Slip: the series are sorted the other way round.
SelectedOldest(b) ==
  {x \in b : Cardinality({s \in Series(b) : s < SeriesOf[x[1]]}) < MaxSeries}

\* The newest series.
Selected(b) ==
  {x \in b : Cardinality({s \in Series(b) : s > SeriesOf[x[1]]}) < MaxSeries}

\* Slip: only the newest release of all is protected.
ProtectedNewest(b) == {x \in b : \A y \in b : ReleaseOf[y[1]] <= ReleaseOf[x[1]]}

\* The newest patch release of each series.
Protected(b) ==
  {x \in b : \A y \in b : SeriesOf[y[1]] = SeriesOf[x[1]] => ReleaseOf[y[1]] <= ReleaseOf[x[1]]}

\* What the loop keeps when it has removed the unprotected releases before r.
Since(b, r) == Protected(b) \cup {x \in b : ReleaseOf[x[1]] >= r}

\* It removes the oldest releases until the rest fits: the result, or nothing
\* when even the protected releases do not fit and it raises.
Retained(b, limit, fixed) ==
  LET sel  == Selected(b)
      cuts == {r \in {0} \cup {ReleaseOf[s] + 1 : s \in Source} :
                 Within(fixed + Bytes(Since(sel, r)), limit)}
  IN  {Since(sel, r) : r \in {r \in cuts : \A q \in cuts : r <= q}}

-----------------------------------------------------------------------------
(* build-signed-repository.py, assemble and sign.                          *)

\* existing_non_pool_bytes, with the reserve: everything stored that is not live,
\* and nothing when there is no predecessor.
FixedBytes(d) ==
  Reserve + IF d.prev = None THEN 0 ELSE Bytes(d.stored) + Other - Bytes(LiveOf(d.prev))

\* Slip: maintenance copies the limit from the previous manifest.
NextInputForgetful(d) ==
  IF d.kind = "build" THEN d.input
  ELSE [f \in DOMAIN d.input |-> d.prev[f]]

\* What the new manifest says of the sources: those of the decision, or, in
\* maintenance, those of the previous manifest.  The limit is the decision's.
NextInput(d) ==
  IF d.kind = "build" THEN d.input
  ELSE [f \in DOMAIN d.input |-> IF f = "limit" THEN d.input.limit ELSE d.prev[f]]

\* Slip: the generation of the bootstrap is that of its predecessor.
GenerationOrNull(d) == IF d.prev = None THEN d.prev ELSE d.prev.gen + 1

Generation(d) == IF d.prev = None THEN 0 ELSE d.prev.gen + 1

Candidates(d) ==
  LET built == IF d.kind = "build" THEN {<<d.input.source, d.input.revision>>} ELSE {}
      n     == NextInput(d)
  IN  {[prev |-> d.prev,
        next |-> [gen |-> Generation(d),
                  source |-> n.source, hash |-> n.hash, revision |-> n.revision,
                  policy |-> n.policy, limit |-> n.limit,
                  live |-> kept,
                  tombs |-> TombsOf(d.prev) \cup (LiveOf(d.prev) \ kept)]] :
         kept \in {k \in Retained(LiveOf(d.prev) \cup built, d.input.limit, FixedBytes(d)) :
                    k \cap TombsOf(d.prev) = {}}}

\* The live pool is exported, the candidate assembled and signed; or one of these fails.
Assemble ==
  /\ run \in Decision
  /\ IF LiveOf(run.prev) \subseteq pool /\ Candidates(run) # {}
     THEN run' \in Candidates(run)
     ELSE run' = None
  /\ UNCHANGED <<input, state, fresh, pool, shelf, calm>>

-----------------------------------------------------------------------------
(* storage-publish.py.                                                     *)

\* A candidate is published by its own run, or by its failed jobs between two runs.
Offered == IF run = None THEN shelf ELSE {run} \cap Candidate

\* Slip: any signed candidate may be published.
FollowsAny(c) == c \in Candidate

\* verify_current_generation.
Follows(c) == state = c.prev \/ state = c.next

\* project_storage, and what the pool is after the writes and the deletions.
After(c) == (pool \cup c.next.live) \ c.next.tombs

Acceptable(c) == Follows(c) /\ Within(Bytes(After(c)) + Other, c.next.limit)

\* A candidate that was published long after it was signed may be stale at once.
Publish(c) ==
  /\ c \in Offered /\ Acceptable(c)
  /\ state' = c.next /\ pool' = After(c) /\ fresh' \in {TRUE, ~Restless}
  /\ run' = None /\ shelf' = shelf \ {c}
  /\ UNCHANGED <<input, calm>>

\* Refused before anything is written.
Refused(c) ==
  /\ c \in Offered /\ ~Acceptable(c)
  /\ run' = None /\ shelf' = shelf \ {c}
  /\ UNCHANGED <<input, state, fresh, pool, calm>>

\* Interrupted before the commit, or after it before all deletions.  The failed
\* jobs of the latest such run may be re-run (a bound: of that one only).
Interrupted(c) ==
  /\ Restless
  /\ c \in Offered /\ Acceptable(c)
  /\ \/ /\ \E written \in SUBSET c.next.live : pool' = pool \cup written
        /\ UNCHANGED <<state, fresh>>
     \/ /\ \E deleted \in SUBSET c.next.tombs : pool' = (pool \cup c.next.live) \ deleted
        /\ state' = c.next /\ fresh' \in BOOLEAN
  /\ run' = None /\ shelf' = {c}
  /\ UNCHANGED <<input, calm>>

-----------------------------------------------------------------------------
(* The world.  Only Decide looks at it, so it changes between runs.        *)

\* Debian's archive, the mirror and the configuration change in any way.
Change ==
  /\ Restless /\ run = None
  /\ \E i \in Input \ {input} : input' = i
  /\ UNCHANGED <<state, fresh, pool, run, shelf, calm>>

Age ==
  /\ Restless /\ run = None /\ fresh
  /\ fresh' = FALSE
  /\ UNCHANGED <<input, state, pool, run, shelf, calm>>

Calm ==
  /\ ~calm /\ Quiet
  /\ calm' = TRUE
  /\ UNCHANGED <<input, state, fresh, pool, run, shelf>>

Next ==
  \/ Decide \/ Assemble
  \/ \E c \in Offered : Publish(c) \/ Refused(c) \/ Interrupted(c)
  \/ Change \/ Age \/ Calm

Spec == Init /\ [][Next]_vars

\* The schedule starts runs, a run goes on to its end, and at last the inputs
\* stand still.  Nobody re-runs failed jobs.
Fairness ==
  /\ WF_vars(Decide)
  /\ WF_vars(Assemble)
  /\ WF_vars(run # None /\ \E c \in Offered : Publish(c) \/ Refused(c))
  /\ WF_vars(Calm)

FairSpec == Spec /\ Fairness

-----------------------------------------------------------------------------
(* Properties.                                                             *)

\* What the state calls published can be installed: retention never drops it and
\* no candidate of another run replaces it by something else (no_op relies on it).
PublishedIsLive ==
  state # None => <<state.source, state.revision>> \in state.live /\ state.live \subseteq pool

\* Clients never go back: a publication has a newer source, or the same source
\* and hash and no lower revision, whichever candidate is published when.
NeverBackward ==
  [][state # None /\ state' # state =>
       \/ state'.source > state.source
       \/ /\ state'.source = state.source /\ state'.hash = state.hash
          /\ state'.revision >= state.revision]_vars

\* Over all generations retention keeps exactly the newest series ever published,
\* and of each of them the newest patch release (docs/RETENTION.md).
NewestKept ==
  state # None =>
    LET ever == state.live \cup state.tombs
    IN  /\ Series(state.live) = Series(Selected(ever))
        /\ Protected(Selected(ever)) \subseteq state.live

\* The check for a tombstoned object that would become live again never fires: no
\* decision asks for a build that was retired.
NoDeadBuild ==
  run \in Decision /\ run.kind = "build" =>
    <<run.input.source, run.input.revision>> \notin LiveOf(run.prev) \cup TombsOf(run.prev)

Settled == run = None /\ ~BuildDue /\ ~MaintenanceDue

\* Even the protected releases must fit, with what is stored besides the live pool.
Wanted == LiveOf(state) \cup IF BuildDue THEN {<<input.source, input.revision>>} ELSE {}

Essential == Bytes(Protected(Selected(Wanted)))

RoomAsMeasured ==
  Within(StorageSize - Bytes(LiveOf(state)) + Reserve + Essential, input.limit)

Room == Within(Other + Reserve + Essential, input.limit)

\* Once the inputs stand still, the lifecycle comes to rest: it does not publish
\* maintenance over and over, nor decide on something it cannot publish, as long
\* as there is room for the protected releases and whatever else is stored.
Settles == <>[]RoomAsMeasured => []<>Settled

\* The same when only the protected releases need room (docs/RETENTION.md: "If
\* those protected releases cannot fit, assembly fails").
SettlesIfProtectedFit == <>[]Room => []<>Settled
=============================================================================
