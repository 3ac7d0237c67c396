---------------------------- MODULE Publication ----------------------------
(***************************************************************************)
(* The publication of a signed repository: storage-publish.py,             *)
(* plan_repository, the 12-phase PublicationExecutor and the deletion of   *)
(* tombstoned objects (dkc/gc.py), on S3ObjectStore; and, as far as it     *)
(* decides what a publication contains, build-signed-repository.py.        *)
(*                                                                         *)
(* Every mutation follows a checkpoint of the production lease, and at     *)
(* most one job is between a checkpoint and the end of its mutation        *)
(* (Lease, ExclusiveMutation), so the job that holds the lease is one      *)
(* variable.  A job may end anywhere: an exception, a killed runner, a     *)
(* refused write.  The next one may publish the same signed repository     *)
(* again or another one.  A write that timed out may land under the lease  *)
(* of a later job; one of a mutable key only when LateMutable: a new       *)
(* runner, and as a rule a new build, lie between the two jobs.            *)
(*                                                                         *)
(* A publication is a signed repository, so its name stands for every byte *)
(* and ETag of its mutable objects.                                        *)
(***************************************************************************)
EXTENDS Naturals, FiniteSets

CONSTANTS
  Pub,                \* signed repositories
  None,               \* no publication, no object
  Key,                \* immutable keys under pool/ and by-hash/
  Retried,            \* signed repositories that are published again until that succeeds
  LateMutable,        \* a mutable key may be written late under a later lease
  Reproducible,       \* a rebuild of a key yields the bytes of the first build
  MaxLate             \* bound: writes that are late at the same time

ASSUME ConstantsAssumption ==
  /\ None \notin Pub
  /\ "manifest" \notin Key
  /\ Retried \subseteq Pub
  /\ LateMutable \in BOOLEAN
  /\ Reproducible \in BOOLEAN
  /\ MaxLate \in Nat

VARIABLES
  manifest,   \* the publication manifest of each signed repository
  slot,       \* the mutable objects: the publication each of them belongs to
  record,     \* the signed records below state/transactions/ and state/publications/
  pool,       \* the immutable objects: which build's bytes each key holds
  late,       \* writes whose sender gave up and that may still land
  job,        \* the job that holds the lease
  calm        \* no job fails by itself any more

vars == <<manifest, slot, record, pool, late, job, calm>>

\* Indexes, Release and public keys; InRelease; root conveniences; state/current.asc.
Slot == {"release", "inrelease", "conveniences", "state"}

Record == Pub \X {"transaction", "manifest"}

Bytes == Pub \cup {None}

\* live and queue: the bytes of each live key, and of each tombstoned one.
Manifest == [built : BOOLEAN,
             gen   : Nat,
             prev  : Pub \cup {None},
             live  : [Key -> Bytes],
             queue : [Key -> Bytes]]

Unbuilt == [built |-> FALSE, gen |-> 0, prev |-> None,
            live |-> [k \in Key |-> None], queue |-> [k \in Key |-> None]]

Job == [pc   : {"idle", "verify", "plan", "transaction", "immutable", "release", "inrelease",
                "check", "conveniences", "state", "final", "gc"},
        pub  : Pub \cup {None},
        pre  : [Slot -> Pub \cup {None}],   \* mutable_preconditions
        todo : SUBSET (Key \cup {"manifest"}),  \* immutable objects still to create
        gc   : SUBSET Key]                  \* planned deletions still to do

NoJob == [pc |-> "idle", pub |-> None, pre |-> [s \in Slot |-> None], todo |-> {}, gc |-> {}]

\* A write in flight: to a mutable key, with its precondition; the creation of an
\* immutable object or of a record; a deletion.
Write == [to : Slot, expect : Pub \cup {None}, new : Pub]
           \cup [create : Key, bytes : Pub]
           \cup [sign : Record]
           \cup [delete : Key]

Live(p) == IF p = None THEN {} ELSE {k \in Key : manifest[p].live[k] # None}

Tombstones(p) == IF p = None THEN {} ELSE {k \in Key : manifest[p].queue[k] # None}

Stored(p) == \A k \in Live(p) : pool[k] = manifest[p].live[k]

-----------------------------------------------------------------------------
TypeOK ==
  /\ manifest \in [Pub -> Manifest]
  /\ slot \in [Slot -> Pub \cup {None}]
  /\ record \subseteq Record
  /\ pool \in [Key -> Bytes]
  /\ late \subseteq Write
  /\ job \in Job
  /\ calm \in BOOLEAN

Init ==
  /\ manifest = [p \in Pub |-> Unbuilt]
  /\ slot = [s \in Slot |-> None]
  /\ record = {}
  /\ pool = [k \in Key |-> None]
  /\ late = {}
  /\ job = NoJob
  /\ calm = FALSE

-----------------------------------------------------------------------------
(* Assembly and signing.                                                   *)

\* The bytes a build may produce for a key.
BuiltBytes(p, k) ==
  LET earlier == {manifest[q].live[k] : q \in Pub} \ {None}
  IN  IF Reproducible /\ earlier # {} THEN earlier ELSE {p} \cup earlier

\* Slip: the queue of the previous publication is not carried over.
RetiredNow(m, live) ==
  [k \in Key |-> IF m # None /\ live[k] = None THEN manifest[m].live[k] ELSE None]

\* Slip: the bootstrap generation is null, as its previous_generation is.
GenerationOrNull(m) == IF m = None THEN None ELSE manifest[m].gen + 1

Generation(m) == IF m = None THEN 0 ELSE manifest[m].gen + 1

\* Slip: the tombstones are forgotten.
NewKeysUnqueued(m) == Key \ Live(m)

\* What a build may add: a tombstoned key never becomes live again.
NewKeys(m) == Key \ (Live(m) \cup Tombstones(m))

\* What retention retires becomes a permanent tombstone.
Retired(m, live) ==
  [k \in Key |-> IF m = None THEN None
                 ELSE IF manifest[m].queue[k] # None THEN manifest[m].queue[k]
                 ELSE IF live[k] = None THEN manifest[m].live[k]
                 ELSE None]

\* A lifecycle run reads the state, exports the live pool of its publication,
\* retains a part of it, adds a new build or nothing, and signs the result.
Build(p) ==
  LET m == slot["state"]
  IN  /\ ~manifest[p].built
      /\ m # None => <<m, "manifest">> \in record /\ Stored(m)
      /\ \E retained \in SUBSET Live(m), fresh \in SUBSET NewKeys(m) :
           /\ retained \cup fresh # {}
           /\ \E bytes \in [fresh -> Pub] :
                /\ \A k \in fresh : bytes[k] \in BuiltBytes(p, k)
                /\ LET live == [k \in Key |-> IF k \in fresh THEN bytes[k]
                                              ELSE IF k \in retained THEN manifest[m].live[k]
                                              ELSE None]
                   IN  manifest' = [manifest EXCEPT ![p] =
                         [built |-> TRUE,
                          gen   |-> Generation(m),
                          prev  |-> m,
                          live  |-> live,
                          queue |-> Retired(m, live)]]
      /\ UNCHANGED <<slot, record, pool, late, job, calm>>

-----------------------------------------------------------------------------
(* A job: acquire the lease, check, plan.                                  *)

\* It ends with an exception, or is killed.
Stops == job' = NoJob

\* LeaseManager.acquire succeeds.
Start(p) ==
  /\ job.pc = "idle" /\ manifest[p].built
  /\ LateMutable \/ \A r \in late : "to" \notin DOMAIN r
  /\ job' = [NoJob EXCEPT !.pc = "verify", !.pub = p]
  /\ UNCHANGED <<manifest, slot, record, pool, late, calm>>

\* Slip: nothing is compared.
FollowsAnything(p) == manifest[p].built

\* verify_current_generation: bootstrap, a repeated publication, or a successor.
Follows(p) ==
  LET current == slot["state"]
  IN  \/ current = p
      \/ manifest[p].prev = current /\ manifest[p].gen = Generation(current)

VerifyGeneration ==
  /\ job.pc = "verify"
  /\ IF Follows(job.pub) THEN job' = [job EXCEPT !.pc = "plan"] ELSE Stops
  /\ UNCHANGED <<manifest, slot, record, pool, late, calm>>

\* plan_gc: the tombstones whose objects are still there.
Targets(p) == {k \in Tombstones(p) \ Live(p) : pool[k] # None}

\* plan_repository captures the ETag of every mutable key; plan_gc reads every
\* target, and refuses one whose bytes are not the tombstone's.  A size limit or
\* a deletion cap may stop the job here as well (Fail).
Plan ==
  /\ job.pc = "plan"
  /\ IF \A k \in Targets(job.pub) : pool[k] = manifest[job.pub].queue[k]
     THEN job' = [job EXCEPT !.pc = "transaction", !.pre = slot, !.gc = Targets(job.pub),
                             !.todo = Live(job.pub) \cup {"manifest"}]
     ELSE Stops
  /\ UNCHANGED <<manifest, slot, record, pool, late, calm>>

-----------------------------------------------------------------------------
(* The phases of PublicationExecutor.execute.  A mutation and the          *)
(* checkpoints around it are one step.                                     *)

\* Phase 5.  Transaction and publication identifiers are bound to the content,
\* so these records never collide.
CreateTransaction ==
  /\ job.pc = "transaction"
  /\ record' = record \cup {<<job.pub, "transaction">>}
  /\ job' = [job EXCEPT !.pc = "immutable"]
  /\ UNCHANGED <<manifest, slot, pool, late, calm>>

\* Slip: phase 6 stops at the first object.
CreatedAll(i) == [job EXCEPT !.todo = {}, !.pc = "release"]

\* One object of phase 6 is stored; after the last one, phase 7 begins.
Created(i) ==
  [job EXCEPT !.todo = @ \ {i}, !.pc = IF job.todo = {i} THEN "release" ELSE "immutable"]

\* Slip: an existing object is never reused.
Absent(k) == pool[k] = None

\* create_immutable reuses an object with the exact bytes and refuses any other.
Creatable(k) == pool[k] \in {None, manifest[job.pub].live[k]}

\* Phase 6, in an order that no property depends on.
CreateImmutable(i) ==
  /\ job.pc = "immutable" /\ i \in job.todo
  /\ IF i = "manifest"
     THEN /\ record' = record \cup {<<job.pub, "manifest">>}
          /\ job' = Created(i)
          /\ UNCHANGED pool
     ELSE /\ IF Creatable(i)
             THEN /\ pool' = [pool EXCEPT ![i] = manifest[job.pub].live[i]]
                  /\ job' = Created(i)
             ELSE Stops /\ UNCHANGED pool
          /\ UNCHANGED record
  /\ UNCHANGED <<manifest, slot, late, calm>>

\* Slip: the state is written before the conveniences.
StateFirst == [release |-> "inrelease", inrelease |-> "check", check |-> "state",
               state |-> "conveniences", conveniences |-> "final"]

\* The order of the phases 7 to 12.
After == [release |-> "inrelease", inrelease |-> "check", check |-> "conveniences",
          conveniences |-> "state", state |-> "final"]

\* The conditional write of a mutable key goes through.
Matches(s) == slot[s] = job.pre[s]

\* Phases 7, 8, 10 and 11: _put_mutable skips a key that holds the desired
\* object, and otherwise writes it if the key is as it was planned.
PutMutable(s) ==
  /\ job.pc = s
  /\ IF slot[s] = job.pub \/ Matches(s)
     THEN /\ slot' = [slot EXCEPT ![s] = job.pub]
          /\ job' = [job EXCEPT !.pc = After[s]]
     ELSE Stops /\ UNCHANGED slot
  /\ UNCHANGED <<manifest, record, pool, late, calm>>

\* Phase 9.
VerifyObjects ==
  /\ job.pc = "check"
  /\ IF /\ {<<job.pub, "transaction">>, <<job.pub, "manifest">>} \subseteq record
        /\ Stored(job.pub)
        /\ slot["release"] = job.pub /\ slot["inrelease"] = job.pub
     THEN job' = [job EXCEPT !.pc = After["check"]]
     ELSE Stops
  /\ UNCHANGED <<manifest, slot, record, pool, late, calm>>

\* Phase 12.
VerifyView ==
  /\ job.pc = "final"
  /\ IF \A s \in Slot : slot[s] = job.pub THEN job' = [job EXCEPT !.pc = "gc"] ELSE Stops
  /\ UNCHANGED <<manifest, slot, record, pool, late, calm>>

\* execute_gc, one target: the state must be this publication's, and an object
\* that is still there must be the planned one.
Collect(k) ==
  /\ job.pc = "gc" /\ k \in job.gc
  /\ IF slot["state"] = job.pub /\ pool[k] \in {None, manifest[job.pub].queue[k]}
     THEN /\ pool' = [pool EXCEPT ![k] = None]
          /\ job' = [job EXCEPT !.gc = @ \ {k}]
     ELSE Stops /\ UNCHANGED pool
  /\ UNCHANGED <<manifest, slot, record, late, calm>>

\* The lease is released.
Finish ==
  /\ job.pc = "gc" /\ job.gc = {}
  /\ Stops
  /\ UNCHANGED <<manifest, slot, record, pool, late, calm>>

-----------------------------------------------------------------------------
(* Failures.                                                               *)

\* Anywhere: an exception of any step, a cancelled or killed runner.
Fail ==
  /\ ~calm /\ job.pc # "idle"
  /\ Stops
  /\ UNCHANGED <<manifest, slot, record, pool, late, calm>>

\* The write of the current step is ambiguous, the read that should reconcile it
\* fails or shows nothing yet, and the job ends.
Sent ==
  CASE job.pc \in Slot /\ slot[job.pc] # job.pub ->
         {[to |-> job.pc, expect |-> job.pre[job.pc], new |-> job.pub]}
    [] job.pc = "transaction" -> {[sign |-> <<job.pub, "transaction">>]}
    [] job.pc = "immutable" ->
         {[create |-> k, bytes |-> manifest[job.pub].live[k]] : k \in job.todo \cap Key}
           \cup {[sign |-> <<job.pub, i>>] : i \in job.todo \ Key}
    [] job.pc = "gc" /\ slot["state"] = job.pub ->
         {[delete |-> k] : k \in {k \in job.gc : pool[k] = manifest[job.pub].queue[k]}}
    [] OTHER -> {}

TimeOut ==
  /\ ~calm /\ Cardinality(late) < MaxLate
  /\ \E r \in Sent : late' = late \cup {r}
  /\ Stops
  /\ UNCHANGED <<manifest, slot, record, pool, calm>>

\* The store processes a late write: its precondition decides.
Land(r) ==
  /\ r \in late
  /\ late' = late \ {r}
  /\ slot' = IF "to" \in DOMAIN r /\ slot[r.to] = r.expect
             THEN [slot EXCEPT ![r.to] = r.new] ELSE slot
  /\ pool' = IF "create" \in DOMAIN r /\ pool[r.create] = None
             THEN [pool EXCEPT ![r.create] = r.bytes]
             ELSE IF "delete" \in DOMAIN r THEN [pool EXCEPT ![r.delete] = None]
             ELSE pool
  /\ record' = IF "sign" \in DOMAIN r THEN record \cup {r.sign} ELSE record
  /\ UNCHANGED <<manifest, job, calm>>

\* It never reached the store.
Vanish(r) ==
  /\ r \in late
  /\ late' = late \ {r}
  /\ UNCHANGED <<manifest, slot, record, pool, job, calm>>

\* From some moment on nothing fails by itself; what is promised about the
\* publications in Retried needs that.
Calm ==
  /\ ~calm /\ Retried # {}
  /\ calm' = TRUE
  /\ UNCHANGED <<manifest, slot, record, pool, late, job>>

-----------------------------------------------------------------------------
Progress ==
  \/ VerifyGeneration
  \/ Plan
  \/ CreateTransaction
  \/ \E i \in Key \cup {"manifest"} : CreateImmutable(i)
  \/ \E s \in Slot : PutMutable(s)
  \/ VerifyObjects
  \/ VerifyView
  \/ \E k \in Key : Collect(k)
  \/ Finish

Next ==
  \/ \E p \in Pub : Build(p) \/ Start(p)
  \/ Progress
  \/ Fail \/ TimeOut
  \/ \E r \in late : Land(r) \/ Vanish(r)
  \/ Calm

Spec == Init /\ [][Next]_vars

\* A job runs on, a publication in Retried is tried again and again (its failed
\* jobs are re-run), a late write lands or is lost, and failures cease.
Fairness ==
  /\ WF_vars(Progress)
  /\ \A p \in Retried : SF_vars(Start(p))
  /\ WF_vars(\E r \in late : Land(r) \/ Vanish(r))
  /\ WF_vars(Calm)

FairSpec == Spec /\ Fairness

-----------------------------------------------------------------------------
(* Properties.                                                             *)

\* Clients never see a publication one of whose objects is missing or has other
\* bytes, whatever crashes, repeats, lands late or is deleted (phases 6 to 8 of
\* the executor, execute_gc).
ClientComplete == Stored(slot["inrelease"])

\* The manifest the controller trusts exists and so does everything it calls
\* live: the next lifecycle run can always export it and build on it.
StateComplete ==
  slot["state"] # None =>
    <<slot["state"], "manifest">> \in record /\ Stored(slot["state"])

\* The state is never ahead of the clients: they see the committed publication
\* or an attempt to follow it (docs/PUBLISHING.md: once the state CAS succeeds,
\* all client metadata and conveniences are already present).
StateNeverAhead ==
  slot["state"] # None =>
    \A s \in Slot : \/ slot[s] = slot["state"]
                    \/ slot[s] # None /\ manifest[slot[s]].prev = slot["state"]

\* The state moves only from a publication to one built on it, and only when the
\* whole client view belongs to the new one (_put_mutable of the state key,
\* verify_current_generation).
CommitFollows ==
  [][LET p == slot'["state"]
     IN  p # slot["state"] =>
           manifest[p].prev = slot["state"] /\ \A s \in Slot : slot'[s] = p]_vars

\* Only what the committed publication tombstoned is ever deleted, and never
\* something clients or the controller need (plan_gc, execute_gc).
DeletesTombstonesOnly ==
  [][\A k \in Key :
       pool[k] # None /\ pool'[k] # pool[k] =>
         /\ pool'[k] = None
         /\ k \in Tombstones(slot["state"])
         /\ k \notin Live(slot["inrelease"])]_vars

\* What an earlier publication retired never becomes live again on the chain of
\* committed publications, so a deletion that lands late deletes nothing live.
TombstonesArePermanent ==
  \A p \in Pub : manifest[p].built =>
    /\ Live(p) \cap Tombstones(p) = {}
    /\ manifest[p].prev # None => Tombstones(manifest[p].prev) \subseteq Tombstones(p)

\* A publication built on the state and tried again until it succeeds is
\* eventually committed, or another one is, however many interrupted attempts of
\* whatever publications came before (docs/PUBLISHING.md: a later run can safely
\* converge; repeating the exact plan is idempotent).
Converges ==
  \A p \in Retried :
    manifest[p].built /\ manifest[p].prev = slot["state"] /\ slot["state"] # p
      ~> slot["state"] # manifest[p].prev

Abstract == INSTANCE Repository WITH visible   <- slot["inrelease"],
                                     committed <- slot["state"]

ImplementsRepository == Abstract!Spec
=============================================================================
