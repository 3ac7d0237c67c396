------------------------------- MODULE Lease -------------------------------
(***************************************************************************)
(* The production lease of dkc/lease.py: one object of the store,          *)
(* state/locks/production.json, that LeaseManager reads and conditionally  *)
(* replaces, and the programs that use it: storage-publish.py (publication *)
(* and garbage collection) and site-publish.py (the documentation site).   *)
(*                                                                         *)
(* A worker is one process of one attempt of one workflow run.  Its owner  *)
(* record carries a fresh nonce, so workers and owners are the same thing. *)
(* Every LeaseManager method reads the clock and the object in one step    *)
(* each and writes in a later one, so workers interleave between a read    *)
(* and the conditional write that depends on it.  A write may be refused   *)
(* (HTTP 412), rejected, applied with its response lost, or time out and   *)
(* land at any later moment; S3ObjectStore.put reconciles the ambiguous    *)
(* cases with one read.  A worker may die at any point.                    *)
(*                                                                         *)
(* An ETag is modelled by the bytes it stands for.  This is the weakest    *)
(* choice: two equal records have equal ETags, so every conditional write  *)
(* that a store with unique ETags accepts is accepted here too.            *)
(***************************************************************************)
EXTENDS Integers, FiniteSets

CONSTANTS
  Worker,         \* processes that use the lease
  Nobody,         \* the owner of a lease that is absent or free
  Run,            \* workflow runs
  RunOf,          \* [Worker -> Run]: owner.workflow_run_id
  AttemptOf,      \* [Worker -> Nat]: owner.run_attempt
  WaitOf,         \* [Worker -> Nat]: how long acquire_lease waits (0: it does not)
  TTL,            \* ttl_seconds
  Grace,          \* takeover_grace_seconds
  Window,         \* batch_timeout_seconds + safety_seconds
  MaxSkew,        \* how far a runner's clock may be ahead of real time
  MaxOp,          \* longest time from a renewal's clock read to the end of its mutation
  StepsBounded,   \* MaxOp is respected
  ProofSound,     \* GitHub reports an attempt completed only after its processes ended
  MaxCheckpoints, \* bound: checkpoints of one worker
  MaxLate,        \* bound: writes that are late at the same time
  MaxAttempt,     \* bound: attempts of one run
  MaxTime         \* bound: the real-time clock

ASSUME ConstantsAssumption ==
  /\ Nobody \notin Worker
  /\ RunOf \in [Worker -> Run]
  /\ AttemptOf \in [Worker -> Nat \ {0}]
  /\ WaitOf \in [Worker -> Nat]
  /\ TTL \in Nat \ {0} /\ Grace \in Nat /\ Window \in Nat
  /\ MaxSkew \in Nat /\ MaxOp \in Nat
  /\ StepsBounded \in BOOLEAN /\ ProofSound \in BOOLEAN
  /\ {MaxCheckpoints, MaxLate, MaxAttempt, MaxTime} \subseteq Nat

VARIABLES
  now,      \* real time
  skew,     \* what each worker's clock shows beyond real time
  run,      \* GitHub's record of each run: its latest attempt, and whether it is in progress
  lease,    \* the object at LEASE_KEY
  late,     \* conditional writes nobody waits for any more and that may still land
  proc      \* the process of each worker: its program counter and local variables

vars == <<now, skew, run, lease, late, proc>>

-----------------------------------------------------------------------------
(* The lease object. "at" is expires_utc of a held record and              *)
(* released_utc of a free one.                                             *)

Absent     == [status |-> "absent", owner |-> Nobody, at |-> 0]
Free(t)    == [status |-> "free",   owner |-> Nobody, at |-> t]
Held(w, t) == [status |-> "held",   owner |-> w,      at |-> t]

LeaseObject == [status : {"absent", "free", "held"},
                owner  : Worker \cup {Nobody},
                at     : Nat]

\* A conditional write: the revision it expects and the record it writes.
Write == [from : Worker \cup {Nobody}, expect : LeaseObject, new : LeaseObject]

NoWrite == [from |-> Nobody, expect |-> Absent, new |-> Absent]

-----------------------------------------------------------------------------
(* A process: where it is (pc), the LeaseManager method it executes or     *)
(* executed last (op), the clock value that method read (clk), when it     *)
(* entered acquire_lease (since), its conditional write (req), the record  *)
(* of its LeaseHandle, and how many checkpoints it may still take (left,   *)
(* a bound).  What a process no longer needs is forgotten.                 *)

Process == [pc     : {"idle", "get", "prove", "wait", "put", "recon", "hold", "mutate", "ended"},
            op     : {"acquire", "assert", "renew", "release"},
            clk    : Nat,
            since  : Nat,
            req    : Write,
            handle : LeaseObject,
            left   : Nat]

Idle == [pc |-> "idle", op |-> "acquire", clk |-> 0, since |-> 0,
         req |-> NoWrite, handle |-> Absent, left |-> MaxCheckpoints]

Ended == [Idle EXCEPT !.pc = "ended", !.left = 0]

Clock(w) == now + skew[w]

\* The process enters a LeaseManager method, whose first statement reads the clock.
Called(w, method) ==
  [proc[w] EXCEPT !.pc = "get", !.op = method, !.clk = Clock(w), !.req = NoWrite]

\* The method raises.  An acquire leaves the caller without a lease, a failed
\* release ends the job, and any other failure takes the exception path of
\* main(), which tries to release the last handle it has.
Raised(w) ==
  IF proc[w].op \in {"acquire", "release"} THEN Ended ELSE Called(w, "release")

Holding(w, record, next) ==
  [proc[w] EXCEPT !.pc = next, !.handle = record, !.req = NoWrite, !.since = 0,
                  !.clk = IF next = "mutate" THEN @ ELSE 0]

\* The method's conditional write succeeded.  A renewal ends a checkpoint: the
\* one before a mutation, or the one after it.
Returned(w) ==
  CASE proc[w].op = "acquire" -> {Holding(w, proc[w].req.new, "hold")}
    [] proc[w].op = "renew"   -> {Holding(w, proc[w].req.new, n) : n \in {"mutate", "hold"}}
    [] OTHER                  -> {Ended}

\* Slip: the lifetime is subtracted.
RenewedBackwards(w) == Held(w, proc[w].clk - TTL)

\* The record an acquire or a renew writes: _held_record.
Renewed(w) == Held(w, proc[w].clk + TTL)

Sending(w, expect, new, next) ==
  [proc[w] EXCEPT !.pc = next, !.req = [from |-> w, expect |-> expect, new |-> new]]

\* A mutation of the store is in progress, or is about to be, on the strength
\* of the renewal that read the clock at proc[w].clk.
Fencing(w) ==
  \/ proc[w].pc = "mutate"
  \/ proc[w].op = "renew" /\ proc[w].pc \in {"get", "put", "recon"}

-----------------------------------------------------------------------------
TypeOK ==
  /\ now \in Nat
  /\ skew \in [Worker -> 0..MaxSkew]
  /\ run \in [Run -> [attempt : Nat, live : BOOLEAN]]
  /\ lease \in LeaseObject
  /\ late \subseteq Write
  /\ proc \in [Worker -> Process]

Init ==
  /\ now = 0
  /\ skew \in [Worker -> 0..MaxSkew]
  /\ run = [r \in Run |-> [attempt |-> 1, live |-> TRUE]]
  /\ lease = Absent
  /\ late = {}
  /\ proc = [w \in Worker |-> Idle]

\* The process of w moves on; nothing else changes, or only the lease does.
Becomes(w, p) == proc' = [proc EXCEPT ![w] = p]

Local == UNCHANGED <<now, skew, run, lease, late>>

-----------------------------------------------------------------------------
(* One job of a workflow: start, hold the lease, mutate, end.              *)

StartJob(w) ==
  /\ proc[w].pc = "idle"
  /\ run[RunOf[w]] = [attempt |-> AttemptOf[w], live |-> TRUE]
  /\ Becomes(w, [Called(w, "acquire") EXCEPT !.since = IF WaitOf[w] > 0 THEN now ELSE 0])
  /\ Local

\* checkpoint() of both programs: assert_batch_window, then renew.
Checkpoint(w) ==
  /\ proc[w].pc = "hold" /\ proc[w].left > 0
  /\ Becomes(w, [proc[w] EXCEPT !.pc = "get", !.op = "assert", !.left = @ - 1])
  /\ Local

\* The work is finished, or a planning step failed: both release the lease.
Finish(w) ==
  /\ proc[w].pc = "hold"
  /\ Becomes(w, Called(w, "release"))
  /\ Local

\* The object mutation that follows a checkpoint returns, or raises.
Mutated(w) ==
  /\ proc[w].pc = "mutate"
  /\ Becomes(w, Holding(w, proc[w].handle, "hold"))
  /\ Local

MutationFails(w) ==
  /\ proc[w].pc = "mutate"
  /\ Becomes(w, Called(w, "release"))
  /\ Local

\* The process is killed, while it waits for no write or for one that may
\* still land.
Die(w) ==
  /\ proc[w].pc \notin {"idle", "ended"}
  /\ Becomes(w, Ended)
  /\ \/ UNCHANGED late
     \/ /\ proc[w].pc = "put" /\ Cardinality(late) < MaxLate
        /\ late' = late \cup {proc[w].req}
  /\ UNCHANGED <<now, skew, run, lease>>

-----------------------------------------------------------------------------
(* The GET of each method.                                                 *)

\* The read fails after its bounded retries.
GetFails(w) ==
  /\ proc[w].pc = "get"
  /\ Becomes(w, Raised(w))
  /\ Local

\* LeaseManager.acquire, up to the write or the request for terminal proof.
\* The second disjunct finds the caller's own unexpired record.
GetForAcquire(w) ==
  /\ proc[w].pc = "get" /\ proc[w].op = "acquire"
  /\ Becomes(w,
       IF lease.owner = w
       THEN IF proc[w].clk >= lease.at THEN Ended ELSE Holding(w, lease, "hold")
       ELSE Sending(w, lease, Renewed(w), IF lease.status = "held" THEN "prove" ELSE "put"))
  /\ Local

\* LeaseManager.assert_batch_window; renew follows at once.
GetForAssert(w) ==
  /\ proc[w].pc = "get" /\ proc[w].op = "assert"
  /\ Becomes(w, IF lease = proc[w].handle /\ lease.at - Clock(w) > Window
                THEN Called(w, "renew")
                ELSE Raised(w))
  /\ Local

\* LeaseManager.renew up to its write.
GetForRenew(w) ==
  /\ proc[w].pc = "get" /\ proc[w].op = "renew"
  /\ Becomes(w, IF lease = proc[w].handle /\ proc[w].clk < lease.at
                THEN Sending(w, proc[w].handle, Renewed(w), "put")
                ELSE Raised(w))
  /\ Local

\* LeaseManager.release up to its write.  It does not look at the expiry.
GetForRelease(w) ==
  /\ proc[w].pc = "get" /\ proc[w].op = "release"
  /\ Becomes(w, IF lease = proc[w].handle
                THEN Sending(w, proc[w].handle, Free(proc[w].clk), "put")
                ELSE Raised(w))
  /\ Local

-----------------------------------------------------------------------------
(* Terminal proof and takeover.                                            *)

\* workflow_attempt_terminal: GitHub's record of a run names its latest attempt.
Terminal(w) == run[RunOf[w]] = [attempt |-> AttemptOf[w], live |-> FALSE]

\* Slips: a takeover without the grace, without the expiry, without the proof.
TakeoverAtExpiry(w) ==
  /\ proc[w].pc = "prove"
  /\ Terminal(proc[w].req.expect.owner)
  /\ proc[w].clk >= proc[w].req.expect.at
  /\ Becomes(w, [proc[w] EXCEPT !.pc = "put"])
  /\ Local

TakeoverOnProofAlone(w) ==
  /\ proc[w].pc = "prove"
  /\ Terminal(proc[w].req.expect.owner)
  /\ Becomes(w, [proc[w] EXCEPT !.pc = "put"])
  /\ Local

\* LeaseRecord.stale_takeover_allowed, for the record the acquire observed.
Takeover(w) ==
  /\ proc[w].pc = "prove"
  /\ Terminal(proc[w].req.expect.owner)
  /\ proc[w].clk - proc[w].req.expect.at >= Grace
  /\ Becomes(w, [proc[w] EXCEPT !.pc = "put"])
  /\ Local

\* Slip: the wait has no deadline.
BusyForever(w) ==
  /\ proc[w].pc = "prove"
  /\ Becomes(w, [proc[w] EXCEPT !.pc = "wait", !.clk = 0, !.req = NoWrite])
  /\ Local

\* LeaseBusy: GitHub did not answer or proved nothing, or the lease is not stale
\* enough.  acquire_lease sleeps and tries again while its wait lasts.
Busy(w) ==
  /\ proc[w].pc = "prove"
  /\ Becomes(w, IF now >= proc[w].since + WaitOf[w]
                THEN Ended
                ELSE [proc[w] EXCEPT !.pc = "wait", !.clk = 0, !.req = NoWrite])
  /\ Local

\* Slip: the clock is read once, before the polling loop.
PollWithOldClock(w) ==
  /\ proc[w].pc = "wait"
  /\ Becomes(w, [Called(w, "acquire") EXCEPT !.clk = proc[w].since])
  /\ Local

Poll(w) ==
  /\ proc[w].pc = "wait"
  /\ Becomes(w, Called(w, "acquire"))
  /\ Local

-----------------------------------------------------------------------------
(* The conditional PUT, and its reconciliation in S3ObjectStore.put.       *)

\* Slip: the write carries no precondition.
WinsAlways(w) == proc[w].pc = "put"

Wins(w) == proc[w].pc = "put" /\ lease = proc[w].req.expect

PutAccepted(w) ==
  /\ Wins(w)
  /\ lease' = proc[w].req.new
  /\ \E p \in Returned(w) : Becomes(w, p)
  /\ UNCHANGED <<now, skew, run, late>>

\* HTTP 412, which is never reconciled, or another definite rejection.
PutRefused(w) ==
  /\ proc[w].pc = "put"
  /\ Becomes(w, Raised(w))
  /\ Local

\* The store applied the write, but its response is lost or unusable.
PutResponseLost(w) ==
  /\ Wins(w)
  /\ lease' = proc[w].req.new
  /\ Becomes(w, [proc[w] EXCEPT !.pc = "recon"])
  /\ UNCHANGED <<now, skew, run, late>>

\* Transport failure or a 5xx status, and the store did not apply the write yet.
PutTimesOut(w) ==
  /\ proc[w].pc = "put"
  /\ Becomes(w, [proc[w] EXCEPT !.pc = "recon"])
  /\ Cardinality(late) < MaxLate
  /\ late' = late \cup {proc[w].req}
  /\ UNCHANGED <<now, skew, run, lease>>

\* Slip: the reconciliation looks at the status of the record only.
ReconcileByStatus(w) ==
  /\ proc[w].pc = "recon"
  /\ \/ lease.status = proc[w].req.new.status /\ \E p \in Returned(w) : Becomes(w, p)
     \/ Becomes(w, Raised(w))
  /\ Local

\* The authoritative read after an ambiguous write accepts the exact intended
\* bytes and nothing else; it may fail itself.
Reconcile(w) ==
  /\ proc[w].pc = "recon"
  /\ \/ lease = proc[w].req.new /\ \E p \in Returned(w) : Becomes(w, p)
     \/ Becomes(w, Raised(w))
  /\ Local

\* The store processes a write whose client gave up: its precondition decides.
Land(r) ==
  /\ r \in late
  /\ late' = late \ {r}
  /\ lease' = IF lease = r.expect THEN r.new ELSE lease
  /\ UNCHANGED <<now, skew, run, proc>>

-----------------------------------------------------------------------------
(* Time, and GitHub's view of the runs.                                    *)

Tick ==
  /\ now < MaxTime
  /\ StepsBounded => \A w \in Worker : Fencing(w) => Clock(w) < proc[w].clk + MaxOp
  /\ now' = now + 1
  /\ UNCHANGED <<skew, run, lease, late, proc>>

Complete(r) ==
  /\ run[r].live
  /\ ProofSound => \A w \in Worker :
        RunOf[w] = r /\ AttemptOf[w] = run[r].attempt => proc[w].pc \in {"idle", "ended"}
  /\ run' = [run EXCEPT ![r].live = FALSE]
  /\ UNCHANGED <<now, skew, lease, late, proc>>

\* A full or a failed-jobs-only re-run.
Rerun(r) ==
  /\ ~run[r].live /\ run[r].attempt < MaxAttempt
  /\ run' = [run EXCEPT ![r] = [attempt |-> run[r].attempt + 1, live |-> TRUE]]
  /\ UNCHANGED <<now, skew, lease, late, proc>>

-----------------------------------------------------------------------------
Get(w) == \/ GetFails(w)
          \/ GetForAcquire(w)
          \/ GetForAssert(w)
          \/ GetForRenew(w)
          \/ GetForRelease(w)

Put(w) == \/ PutAccepted(w)
          \/ PutRefused(w)
          \/ PutResponseLost(w)
          \/ PutTimesOut(w)

\* What the process itself does once it runs: everything but dying.
Progress(w) == \/ Checkpoint(w) \/ Finish(w)
               \/ Mutated(w) \/ MutationFails(w)
               \/ Get(w)
               \/ Takeover(w) \/ Busy(w) \/ Poll(w)
               \/ Put(w) \/ Reconcile(w)

Next == \/ \E w \in Worker : StartJob(w) \/ Progress(w) \/ Die(w)
        \/ \E r \in late : Land(r)
        \/ \E r \in Run : Complete(r) \/ Rerun(r)
        \/ Tick

Spec == Init /\ [][Next]_vars

\* The runner keeps executing a job it started, GitHub eventually records the
\* end of an attempt, time passes, and an acquirer that asks for the proof again
\* and again is not refused forever once the proof exists.
Fairness == /\ \A w \in Worker : WF_vars(Progress(w)) /\ SF_vars(Takeover(w))
            /\ \A r \in Run : WF_vars(Complete(r))
            /\ WF_vars(Tick)

FairSpec == Spec /\ Fairness

-----------------------------------------------------------------------------
(* Properties.                                                             *)

\* What the fence rests on: either GitHub's terminal proof is sound, or the time
\* between a renewal and the end of the mutation it covers fits into the
\* lease's lifetime and grace whatever the two runners' clocks show.
Fenced == ProofSound \/ (StepsBounded /\ MaxOp + MaxSkew < TTL + Grace)

\* While a worker mutates the store between two checkpoints, the lease object is
\* exactly the record of its handle: no takeover, late write or release of
\* another worker replaced it (dkc/lease.py, checkpoint() of both publishers).
MutatorOwnsLease ==
  \A w \in Worker : proc[w].pc = "mutate" => lease = proc[w].handle /\ lease.owner = w

\* A site publication and a repository publication never interleave: two
\* workers are never both between a checkpoint and the end of its mutation.
MutationExclusive ==
  \A v, w \in Worker : proc[v].pc = "mutate" /\ proc[w].pc = "mutate" => v = w

\* A held lease passes to another worker only when the holder's process is over
\* and the record is past its expiry and grace on the new holder's clock; it is
\* freed only by its holder (acquire and release of LeaseManager).
EvictionIsStale ==
  [][\A w \in Worker :
        lease.owner = w /\ lease'.owner # w =>
          \/ lease'.owner = Nobody /\ (proc[w].op = "release" \/ proc[w].pc = "ended")
          \/ /\ lease'.owner # Nobody
             /\ proc[w].pc = "ended"
             /\ lease.at + Grace <= now + skew[lease'.owner]]_vars

\* Whatever GitHub claims and however long a step takes, a worker starts a
\* mutation only in a moment it owns the lease: one that lost the lease during a
\* mutation never gets past its next checkpoint.
MutationStartsOwned ==
  [][\A w \in Worker :
        proc[w].pc # "mutate" /\ proc'[w].pc = "mutate" => lease' = proc'[w].handle /\ lease'.owner = w]_vars

\* Waiting for the lease is bounded: whoever asks for it gets it or gives up
\* when its wait is over (acquire_lease of dkc/site_publication.py).  The clock
\* of the model stops at MaxTime, so only waits that end before it count.
AcquireTerminates ==
  \A w \in Worker :
    proc[w].op = "acquire" /\ proc[w].pc # "idle" /\ proc[w].since + WaitOf[w] <= MaxTime
      ~> proc[w].pc \in {"hold", "ended"}

\* A lease whose holder died, or could not release it, does not stay blocked: a
\* worker that waits for it long enough takes it over, or something else changes
\* it or ends the wait (docs/PUBLISHING.md: the lease is left for safe takeover
\* after expiry, grace and proof that the recorded attempt is terminal).
OrphanRecovered ==
  \A o \in Worker, w \in {w \in Worker : WaitOf[w] > 0}, t \in 0..(MaxTime - Grace) :
    lease = Held(o, t) /\ proc[o].pc = "ended" /\ proc[w].pc = "wait"
      ~> lease # Held(o, t) \/ proc[w].pc = "ended"

\* Under Fenced the protocol implements the abstract lease.
Mutex == INSTANCE LeaseMutex
           WITH holder   <- lease.owner,
                mutating <- {w \in Worker : proc[w].pc = "mutate"}

ImplementsMutex == Mutex!Spec
=============================================================================
