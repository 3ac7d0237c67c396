----------------------------- MODULE LeaseProofs -----------------------------
(***************************************************************************)
(* Proofs about Lease, for every set of workers and every value of the     *)
(* time constants: the types, that a mutating worker owns the lease, and   *)
(* that the protocol implements LeaseMutex.                                *)
(*                                                                         *)
(* MutatorOwnsLease is not inductive.  It depends on what every conditional *)
(* write in flight expects and writes (GoodWrite), on what the process that *)
(* issued it remembers (WorkerInv), and on why a write that expects another *)
(* worker's record was issued at all (Evidence).                            *)
(***************************************************************************)
EXTENDS Lease, TLAPS

-----------------------------------------------------------------------------
(* The inductive invariant.                                                *)

\* Only a held record has an owner.
WellFormed(x) == x.status = "held" <=> x.owner # Nobody

\* Worker o can never again be between a checkpoint and its mutation: its
\* attempt is over and so is its process.
Over(o) ==
  /\ proc[o].pc \in {"idle", "ended"}
  /\ run[RunOf[o]].attempt > AttemptOf[o] \/ Terminal(o)

\* Why v may replace the held record x of another worker.
Evidence(v, x) ==
  /\ Clock(v) >= x.at + Grace
  /\ ProofSound => Over(x.owner)

\* A conditional write in flight: what it writes is its sender's, and a record
\* it replaces is its sender's too, or evidently stale.
GoodWrite(r) ==
  /\ r.from \in Worker
  /\ WellFormed(r.expect) /\ WellFormed(r.new)
  /\ r.new.status = "held" => r.new.owner = r.from /\ r.new.at <= Clock(r.from) + TTL
  /\ r.expect.status = "held" =>
       IF r.expect.owner = r.from
       THEN r.new.status = "held" => r.expect.at <= r.new.at
       ELSE Evidence(r.from, r.expect)

InRenewal(p) == p.op = "renew" /\ p.pc \in {"get", "put", "recon", "mutate"}

Owning(p) ==
  \/ p.pc \in {"hold", "mutate"}
  \/ p.op # "acquire" /\ p.pc \in {"get", "put", "recon"}

\* What the process p of worker w knows when the object is x and the writes in L
\* are late.
WorkerInv(w, p, x, L) ==
  /\ p.clk <= Clock(w)
  /\ Owning(p) => /\ p.handle.status = "held" /\ p.handle.owner = w
                  /\ p.handle.at <= Clock(w) + TTL
  /\ InRenewal(p) => p.handle.at <= p.clk + TTL
  /\ p.pc \in {"idle", "wait", "prove"} => p.op = "acquire"
  /\ p.pc = "hold" => p.op \in {"acquire", "renew"}
  /\ p.pc = "prove" => p.req.expect.status = "held"
  /\ p.pc \in {"prove", "put", "recon"} =>
       /\ p.op # "assert" /\ p.req.from = w
       /\ WellFormed(p.req.expect)
       /\ p.op = "acquire" => p.req.expect.owner # w
       /\ p.op # "acquire" => p.req.expect = p.handle /\ p.pc # "prove"
       /\ p.op \in {"acquire", "renew"} => p.req.new = Held(w, p.clk + TTL)
       /\ p.op = "release" => p.req.new = Free(p.clk)
  /\ p.pc \in {"put", "recon"} => GoodWrite(p.req)
  /\ p.pc = "mutate" => /\ p.op = "renew"
                        /\ p.handle = Held(w, p.clk + TTL)
                        /\ x = p.handle
  /\ StepsBounded /\ InRenewal(p) => Clock(w) <= p.clk + MaxOp
  /\ ProofSound /\ Terminal(w) => p.pc \in {"idle", "ended"}
  /\ \A r \in L :
       r.from = w => IF r.new.status = "held"
                     THEN InRenewal(p) => r.new.at <= p.clk + TTL
                     ELSE p.op = "release" \/ p.pc = "ended"

IInv ==
  /\ TypeOK
  /\ WellFormed(lease)
  /\ \A w \in Worker : lease.owner = w => lease.at <= Clock(w) + TTL
  /\ \A w \in Worker : WorkerInv(w, proc[w], lease, late)
  /\ \A r \in late : GoodWrite(r)

-----------------------------------------------------------------------------
(* Types.                                                                  *)

LEMMA ObjectTypes ==
  /\ Absent \in LeaseObject
  /\ \A t \in Nat : Free(t) \in LeaseObject
  /\ \A w \in Worker, t \in Nat : Held(w, t) \in LeaseObject
  /\ NoWrite \in Write
BY DEF Absent, Free, Held, NoWrite, LeaseObject, Write

LEMMA ProcessTypes ==
  ASSUME TypeOK, NEW w \in Worker
  PROVE  /\ Idle \in Process /\ Ended \in Process
         /\ Clock(w) \in Nat
         /\ \A m \in {"acquire", "assert", "renew", "release"} : Called(w, m) \in Process
         /\ Raised(w) \in Process
         /\ \A r \in LeaseObject, n \in {"hold", "mutate"} : Holding(w, r, n) \in Process
         /\ \A p \in Returned(w) : p \in Process
         /\ Renewed(w) \in LeaseObject
         /\ \A e, n \in LeaseObject, s \in {"prove", "put"} : Sending(w, e, n, s) \in Process
<1> USE ConstantsAssumption
<1>1. Clock(w) \in Nat
  BY DEF Clock, TypeOK
<1>2. Idle \in Process /\ Ended \in Process
  BY ObjectTypes DEF Idle, Ended, Process
<1>3. ASSUME NEW m \in {"acquire", "assert", "renew", "release"}
      PROVE  Called(w, m) \in Process
  BY <1>1, ObjectTypes DEF Called, Process, TypeOK
<1>4. Raised(w) \in Process
  BY <1>2, <1>3 DEF Raised
<1>5. ASSUME NEW r \in LeaseObject, NEW n \in {"hold", "mutate"}
      PROVE  Holding(w, r, n) \in Process
  BY ObjectTypes DEF Holding, Process, TypeOK
<1>6. \A p \in Returned(w) : p \in Process
  <2>1. proc[w].req.new \in LeaseObject
    BY DEF TypeOK, Process, Write
  <2>2. QED
    BY <1>2, <1>5, <2>1 DEF Returned
<1>7. Renewed(w) \in LeaseObject
  <2>1. proc[w].clk + TTL \in Nat
    BY DEF TypeOK, Process
  <2>2. QED
    BY <2>1, ObjectTypes DEF Renewed
<1>8. ASSUME NEW e \in LeaseObject, NEW n \in LeaseObject, NEW s \in {"prove", "put"}
      PROVE  Sending(w, e, n, s) \in Process
  BY DEF Sending, Process, Write, TypeOK
<1>9. QED
  BY <1>1, <1>2, <1>3, <1>4, <1>5, <1>6, <1>7, <1>8

-----------------------------------------------------------------------------
(* What no step undoes.                                                    *)

LEMMA OverStable ==
  ASSUME TypeOK, NEW w \in Worker, NEW p, Becomes(w, p), run' = run,
         ~Over(w) \/ p.pc \in {"idle", "ended"},
         NEW o \in Worker, Over(o)
  PROVE  Over(o)'
BY DEF Over, Terminal, Becomes, TypeOK

LEMMA WriteStable ==
  ASSUME TypeOK, NEW r \in Write, GoodWrite(r),
         now' \in Nat, now' >= now, skew' = skew,
         \A o \in Worker : Over(o) => Over(o)'
  PROVE  GoodWrite(r)'
<1> USE ConstantsAssumption
<1>1. Clock(r.from) \in Nat /\ Clock(r.from)' \in Nat /\ Clock(r.from)' >= Clock(r.from)
  BY DEF GoodWrite, Clock, TypeOK
<1>2. r.new.at \in Nat /\ r.expect.at \in Nat
  BY DEF Write, LeaseObject
<1>3. r.expect.status = "held" => r.expect.owner \in Worker
  BY DEF GoodWrite, WellFormed, Write, LeaseObject
<1>4. QED
  BY <1>1, <1>2, <1>3 DEF GoodWrite, Evidence, WellFormed

\* A step of one worker keeps the invariant if it keeps that worker's part and
\* leaves the object alone under the mutations of the others.
LEMMA WorkerStep ==
  ASSUME IInv,
         NEW w \in Worker, NEW p \in Process,
         NEW x \in LeaseObject, NEW L \in SUBSET Write,
         Becomes(w, p), lease' = x, late' = L, UNCHANGED <<now, skew, run>>,
         ~Over(w) \/ p.pc \in {"idle", "ended"},
         WellFormed(x),
         \A v \in Worker : x.owner = v => x.at <= Clock(v) + TTL,
         \A r \in L : GoodWrite(r) /\ (r \in late \/ r.from = w),
         WorkerInv(w, p, x, L),
         \A v \in Worker \ {w} : proc[v].pc = "mutate" => x = lease
  PROVE  IInv'
<1> USE ConstantsAssumption DEF IInv
<1>1. TypeOK'
  BY DEF TypeOK, Becomes
<1>2. \A o \in Worker : Over(o) => Over(o)'
  BY OverStable
<1>3. \A v \in Worker : Clock(v)' = Clock(v) /\ (Terminal(v)' <=> Terminal(v))
  BY DEF Clock, Terminal
<1>4. \A r \in late' : GoodWrite(r)'
  <2>1. now' \in Nat /\ now' >= now
    BY DEF TypeOK
  <2>2. QED
    BY <1>2, <2>1, WriteStable
<1>5. ASSUME NEW v \in Worker
      PROVE  WorkerInv(v, proc[v], lease, late)'
  <2>1. CASE v = w
    <3>1. proc'[w] = p
      BY DEF Becomes, TypeOK
    <3>2. p.pc \in {"put", "recon"} => GoodWrite(p.req)'
      <4>1. p.req \in Write
        BY DEF Process
      <4>2. now' \in Nat /\ now' >= now
        BY DEF TypeOK
      <4>3. QED
        BY <1>2, <4>1, <4>2, WriteStable DEF WorkerInv
    <3>3. QED
      BY <1>3, <2>1, <3>1, <3>2 DEF WorkerInv, WellFormed
  <2>2. CASE v # w
    <3>1. proc'[v] = proc[v]
      BY <2>2 DEF Becomes, TypeOK
    <3>2. PICK q \in Process : q = proc[v]
      BY DEF TypeOK
    <3>3. q.pc \in {"put", "recon"} => GoodWrite(q.req)'
      <4>1. q.req \in Write
        BY DEF Process
      <4>2. now' \in Nat /\ now' >= now
        BY DEF TypeOK
      <4>3. QED
        BY <1>2, <3>2, <4>1, <4>2, WriteStable DEF WorkerInv
    <3>4. \A r \in late' : r.from = v => r \in late
      BY <2>2
    <3>5. q.pc = "mutate" => lease' = lease
      BY <2>2, <3>2
    <3>6. proc'[v] = q
      BY <3>1, <3>2
    <3>7. WorkerInv(v, q, lease, late)
      BY <3>2
    <3>8. QED
      BY <1>3, <3>3, <3>4, <3>5, <3>6, <3>7 DEF WorkerInv, WellFormed
  <2>3. QED
    BY <2>1, <2>2
<1>6. WellFormed(lease)'
  BY DEF WellFormed
<1>7. \A v \in Worker : lease'.owner = v => lease'.at <= Clock(v)' + TTL
  BY <1>3
<1>8. QED
  BY <1>1, <1>4, <1>5, <1>6, <1>7

-----------------------------------------------------------------------------
(* The processes that the steps of a worker lead to.                       *)

LEMMA CalledInv ==
  ASSUME IInv, NEW w \in Worker, NEW m \in {"acquire", "renew", "release"}, NEW x,
         m # "acquire" => Owning(proc[w]),
         m # "release" => proc[w].op # "release",
         proc[w].pc # "ended",
         ~(ProofSound /\ Terminal(w))
  PROVE  WorkerInv(w, Called(w, m), x, late)
<1> USE ConstantsAssumption DEF IInv
<1>1. Clock(w) \in Nat
  BY ProcessTypes
<1>2. proc[w] \in Process /\ WorkerInv(w, proc[w], lease, late)
  BY DEF TypeOK
<1>3. /\ Called(w, m).pc = "get" /\ Called(w, m).op = m /\ Called(w, m).clk = Clock(w)
      /\ Called(w, m).handle = proc[w].handle
  BY <1>2 DEF Called, Process
<1>4. \A r \in late : r.from = w =>
        IF r.new.status = "held" THEN r.new.at <= Clock(w) + TTL ELSE m = "release"
  BY <1>2 DEF GoodWrite, WorkerInv
<1>5. m # "acquire" => /\ proc[w].handle.status = "held" /\ proc[w].handle.owner = w
                       /\ proc[w].handle.at <= Clock(w) + TTL
  BY <1>2 DEF WorkerInv
<1>6. QED
  BY <1>1, <1>3, <1>4, <1>5 DEF WorkerInv, Owning, InRenewal

LEMMA EndedInv ==
  ASSUME IInv, NEW w \in Worker, NEW x, NEW L
  PROVE  WorkerInv(w, Ended, x, L)
<1>1. Clock(w) \in Nat
  BY ProcessTypes DEF IInv
<1>2. Ended.pc = "ended" /\ Ended.op = "acquire" /\ Ended.clk = 0
  BY DEF Ended, Idle
<1>3. QED
  BY <1>1, <1>2 DEF WorkerInv, Owning, InRenewal

LEMMA RaisedInv ==
  ASSUME IInv, NEW w \in Worker, NEW x, proc[w].pc \in {"get", "put", "recon"}
  PROVE  WorkerInv(w, Raised(w), x, late)
<1>1. CASE proc[w].op \in {"acquire", "release"}
  BY <1>1, EndedInv DEF Raised
<1>2. CASE proc[w].op \notin {"acquire", "release"}
  <2>1. WorkerInv(w, proc[w], lease, late)
    BY DEF IInv
  <2>2. Owning(proc[w]) /\ ~(ProofSound /\ Terminal(w))
    BY <1>2, <2>1 DEF Owning, WorkerInv
  <2>3. QED
    BY <1>2, <2>2, CalledInv DEF Raised
<1>3. QED
  BY <1>1, <1>2

\* A worker that waits for a write, or for what follows it, is alive.
LEMMA BusyWorker ==
  ASSUME IInv, NEW w \in Worker, proc[w].pc \notin {"idle", "ended"}
  PROVE  ~Over(w) /\ ~(ProofSound /\ Terminal(w))
BY DEF IInv, Over, WorkerInv

\* The successful end of a write, when the object holds what it wrote.
LEMMA ReturnedInv ==
  ASSUME IInv, NEW w \in Worker, proc[w].pc \in {"put", "recon"},
         NEW p \in Returned(w)
  PROVE  WorkerInv(w, p, proc[w].req.new, late)
<1> USE ConstantsAssumption DEF IInv
<1> DEFINE q == proc[w]
<1>1. q \in Process /\ WorkerInv(w, q, lease, late) /\ Clock(w) \in Nat
  BY ProcessTypes DEF TypeOK
<1>2. CASE q.op = "release"
  BY <1>2, EndedInv DEF Returned
<1>3. CASE q.op \in {"acquire", "renew"}
  <2>1. q.req.new = Held(w, q.clk + TTL)
    BY <1>1, <1>3 DEF WorkerInv
  <2>2. PICK n \in {"hold", "mutate"} :
           p = Holding(w, q.req.new, n) /\ (n = "mutate" => q.op = "renew")
    BY <1>3 DEF Returned
  <2>3. /\ p.pc = n /\ p.op = q.op /\ p.handle = q.req.new
        /\ p.clk = IF n = "mutate" THEN q.clk ELSE 0
    BY <1>1, <2>2 DEF Holding, Process
  <2>4. /\ q.req.new.status = "held" /\ q.req.new.owner = w
        /\ q.req.new.at = q.clk + TTL /\ q.clk <= Clock(w) /\ q.clk \in Nat
    BY <1>1, <2>1 DEF Held, WorkerInv, Process
  <2>5. ~(ProofSound /\ Terminal(w))
    BY BusyWorker
  <2>6. \A r \in late : r.from = w =>
          r.new.status = "held" /\ (n = "mutate" => r.new.at <= q.clk + TTL)
    BY <1>1, <1>3, <2>2 DEF WorkerInv, InRenewal
  <2>7. StepsBounded /\ n = "mutate" => Clock(w) <= q.clk + MaxOp
    BY <1>1, <2>2 DEF WorkerInv, InRenewal
  <2>8. QED
    BY <1>1, <1>3, <2>1, <2>2, <2>3, <2>4, <2>5, <2>6, <2>7 DEF WorkerInv, Owning, InRenewal
<1>4. QED
  BY <1>1, <1>2, <1>3 DEF WorkerInv, Process

-----------------------------------------------------------------------------
(* The steps.                                                              *)

\* Under Fenced, nobody has evidence against a worker that mutates the store:
\* its process is not over, and its lease is too young on every clock.
LEMMA NoEvidence ==
  ASSUME IInv, Fenced, NEW w \in Worker, proc[w].pc = "mutate", NEW v \in Worker
  PROVE  lease.owner = w /\ ~Evidence(v, lease)
<1> USE ConstantsAssumption DEF IInv
<1>1. proc[w] \in Process /\ WorkerInv(w, proc[w], lease, late)
  BY DEF TypeOK
<1>2. lease.owner = w /\ lease.at = proc[w].clk + TTL
  BY <1>1 DEF WorkerInv, Held
<1>3. CASE ProofSound
  BY <1>2, <1>3, BusyWorker DEF Evidence
<1>4. CASE StepsBounded /\ MaxOp + MaxSkew < TTL + Grace
  <2>1. now + skew[w] <= proc[w].clk + MaxOp
    BY <1>1, <1>4 DEF WorkerInv, InRenewal, Clock
  <2>2. /\ now \in Nat /\ proc[w].clk \in Nat
        /\ skew[w] \in 0..MaxSkew /\ skew[v] \in 0..MaxSkew
    BY <1>1 DEF TypeOK, Process
  <2>3. now + skew[v] < lease.at + Grace
    BY <1>2, <1>4, <2>1, <2>2
  <2>4. QED
    BY <1>2, <2>2, <2>3 DEF Evidence, Clock
<1>5. QED
  BY <1>3, <1>4 DEF Fenced

LEMMA LocalStep ==
  ASSUME IInv, NEW w \in Worker, NEW p \in Process, Becomes(w, p), Local,
         ~Over(w) \/ p.pc \in {"idle", "ended"},
         WorkerInv(w, p, lease, late)
  PROVE  IInv'
<1>1. lease \in LeaseObject /\ late \in SUBSET Write
  BY DEF IInv, TypeOK
<1>2. /\ WellFormed(lease)
      /\ \A v \in Worker : lease.owner = v => lease.at <= Clock(v) + TTL
      /\ \A r \in late : GoodWrite(r)
  BY DEF IInv
<1>3. lease' = lease /\ late' = late /\ UNCHANGED <<now, skew, run>>
  BY DEF Local
<1>4. QED
  BY <1>1, <1>2, <1>3, WorkerStep

LEMMA GetStep ==
  ASSUME IInv, NEW w \in Worker, Get(w)
  PROVE  IInv'
<1> USE ConstantsAssumption DEF IInv
<1> DEFINE q == proc[w]
<1>1. q \in Process /\ WorkerInv(w, q, lease, late) /\ Clock(w) \in Nat /\ q.pc = "get"
  BY ProcessTypes DEF TypeOK, Get, GetFails, GetForAcquire, GetForAssert, GetForRenew, GetForRelease
<1>2. ~Over(w) /\ ~(ProofSound /\ Terminal(w))
  BY <1>1, BusyWorker
<1>3. Raised(w) \in Process /\ WorkerInv(w, Raised(w), lease, late)
  BY <1>1, RaisedInv, ProcessTypes
<1>4. lease \in LeaseObject /\ WellFormed(lease)
  BY DEF TypeOK
<1>5. CASE GetFails(w)
  BY <1>2, <1>3, <1>5, LocalStep DEF GetFails
<1>6. CASE GetForAcquire(w)
  <2>1. CASE lease.owner = w /\ q.clk >= lease.at
    BY <1>2, <1>6, <2>1, EndedInv, ProcessTypes, LocalStep DEF GetForAcquire
  <2>2. CASE lease.owner = w /\ ~(q.clk >= lease.at)
    <3> DEFINE p == Holding(w, lease, "hold")
    <3>1. p \in Process
      BY <1>4, ProcessTypes
    <3>2. p.pc = "hold" /\ p.op = "acquire" /\ p.clk = 0 /\ p.handle = lease
      BY <1>1, <1>6 DEF Holding, GetForAcquire, Process
    <3>3. lease.status = "held" /\ lease.at <= Clock(w) + TTL
      BY <1>4, <2>2 DEF WellFormed
    <3>4. \A r \in late : r.from = w => r.new.status = "held"
      BY <1>1, <1>6 DEF WorkerInv, GetForAcquire
    <3>5. WorkerInv(w, p, lease, late)
      BY <1>1, <1>2, <2>2, <3>2, <3>3, <3>4 DEF WorkerInv, Owning, InRenewal
    <3>6. Becomes(w, p) /\ Local
      BY <1>6, <2>2 DEF GetForAcquire
    <3>7. QED
      BY <1>2, <3>1, <3>5, <3>6, LocalStep
  <2>3. CASE lease.owner # w
    <3> DEFINE n == IF lease.status = "held" THEN "prove" ELSE "put"
               p == Sending(w, lease, Renewed(w), n)
    <3>1. p \in Process
      BY <1>4, ProcessTypes
    <3>2. /\ p.pc = n /\ p.op = "acquire" /\ p.clk = q.clk
          /\ p.req = [from |-> w, expect |-> lease, new |-> Held(w, q.clk + TTL)]
      BY <1>1, <1>6 DEF Sending, GetForAcquire, Process, Renewed
    <3>3. \A r \in late : r.from = w => r.new.status = "held"
      BY <1>1, <1>6 DEF WorkerInv, GetForAcquire
    <3>4. q.clk <= Clock(w) /\ q.clk \in Nat
      BY <1>1 DEF WorkerInv, Process
    <3>5. n = "put" => GoodWrite(p.req)
      BY <1>1, <1>4, <3>2, <3>4 DEF GoodWrite, WellFormed, Held
    <3>6. WorkerInv(w, p, lease, late)
      BY <1>1, <1>2, <1>4, <2>3, <3>2, <3>3, <3>4, <3>5 DEF WorkerInv, Owning, InRenewal
    <3>7. Becomes(w, p) /\ Local
      BY <1>6, <2>3 DEF GetForAcquire
    <3>8. QED
      BY <1>2, <3>1, <3>6, <3>7, LocalStep
  <2>4. QED
    BY <2>1, <2>2, <2>3
<1>7. CASE GetForAssert(w)
  <2>1. CASE lease = q.handle /\ lease.at - Clock(w) > Window
    <3>1. q.op = "assert" /\ Owning(q)
      BY <1>1, <1>7 DEF Owning, GetForAssert
    <3>2. WorkerInv(w, Called(w, "renew"), lease, late)
      BY <1>1, <1>2, <3>1, CalledInv
    <3>3. QED
      BY <1>2, <1>7, <2>1, <3>2, ProcessTypes, LocalStep DEF GetForAssert
  <2>2. CASE ~(lease = q.handle /\ lease.at - Clock(w) > Window)
    BY <1>2, <1>3, <1>7, <2>2, LocalStep DEF GetForAssert
  <2>3. QED
    BY <2>1, <2>2
<1>8. CASE GetForRenew(w)
  <2>1. CASE lease = q.handle /\ q.clk < lease.at
    <3> DEFINE p == Sending(w, q.handle, Renewed(w), "put")
    <3>1. p \in Process
      BY <1>1, ProcessTypes DEF Process
    <3>2. /\ p.pc = "put" /\ p.op = "renew" /\ p.clk = q.clk /\ p.handle = q.handle
          /\ p.req = [from |-> w, expect |-> q.handle, new |-> Held(w, q.clk + TTL)]
      BY <1>1, <1>8 DEF Sending, GetForRenew, Process, Renewed
    <3>3. q.op = "renew" /\ Owning(q) /\ InRenewal(q)
      BY <1>1, <1>8 DEF GetForRenew, Owning, InRenewal
    <3>4. /\ q.clk <= Clock(w) /\ q.clk \in Nat /\ q.handle.at <= q.clk + TTL
          /\ q.handle.status = "held" /\ q.handle.owner = w
      BY <1>1, <3>3 DEF WorkerInv, Process
    <3>5. GoodWrite(p.req)
      BY <1>1, <3>2, <3>4 DEF GoodWrite, WellFormed, Held
    <3>6. WorkerInv(w, p, lease, late)
      BY <1>1, <1>2, <3>2, <3>3, <3>4, <3>5 DEF WorkerInv, Owning, InRenewal, WellFormed
    <3>7. Becomes(w, p) /\ Local
      BY <1>8, <2>1 DEF GetForRenew
    <3>8. QED
      BY <1>2, <3>1, <3>6, <3>7, LocalStep
  <2>2. CASE ~(lease = q.handle /\ q.clk < lease.at)
    BY <1>2, <1>3, <1>8, <2>2, LocalStep DEF GetForRenew
  <2>3. QED
    BY <2>1, <2>2
<1>9. CASE GetForRelease(w)
  <2>1. CASE lease = q.handle
    <3> DEFINE p == Sending(w, q.handle, Free(q.clk), "put")
    <3>1. p \in Process
      BY <1>1, ProcessTypes, ObjectTypes DEF Process
    <3>2. /\ p.pc = "put" /\ p.op = "release" /\ p.clk = q.clk /\ p.handle = q.handle
          /\ p.req = [from |-> w, expect |-> q.handle, new |-> Free(q.clk)]
      BY <1>1, <1>9 DEF Sending, GetForRelease, Process
    <3>3. q.op = "release" /\ Owning(q)
      BY <1>1, <1>9 DEF GetForRelease, Owning
    <3>4. /\ q.clk <= Clock(w) /\ q.handle.at <= Clock(w) + TTL
          /\ q.handle.status = "held" /\ q.handle.owner = w
      BY <1>1, <3>3 DEF WorkerInv
    <3>5. GoodWrite(p.req)
      BY <3>2, <3>4 DEF GoodWrite, WellFormed, Free
    <3>6. WorkerInv(w, p, lease, late)
      BY <1>1, <1>2, <3>2, <3>3, <3>4, <3>5 DEF WorkerInv, Owning, InRenewal, WellFormed
    <3>7. Becomes(w, p) /\ Local
      BY <1>9, <2>1 DEF GetForRelease
    <3>8. QED
      BY <1>2, <3>1, <3>6, <3>7, LocalStep
  <2>2. CASE lease # q.handle
    BY <1>2, <1>3, <1>9, <2>2, LocalStep DEF GetForRelease
  <2>3. QED
    BY <2>1, <2>2
<1>10. QED
  BY <1>5, <1>6, <1>7, <1>8, <1>9 DEF Get

\* The lifetime of a job, apart from its requests to the store.
LEMMA JobStep ==
  ASSUME IInv, NEW w \in Worker,
         \/ StartJob(w) \/ Checkpoint(w) \/ Finish(w) \/ Mutated(w) \/ MutationFails(w)
         \/ Takeover(w) \/ Busy(w) \/ Poll(w) \/ PutRefused(w)
  PROVE  IInv'
<1> USE ConstantsAssumption DEF IInv
<1> DEFINE q == proc[w]
<1>1. q \in Process /\ WorkerInv(w, q, lease, late) /\ Clock(w) \in Nat
  BY ProcessTypes DEF TypeOK
<1>2. q.pc \notin {"idle", "ended"} => ~Over(w) /\ ~(ProofSound /\ Terminal(w))
  BY BusyWorker
<1>3. CASE StartJob(w)
  <2> DEFINE n == IF WaitOf[w] > 0 THEN now ELSE 0
             p == [Called(w, "acquire") EXCEPT !.since = n]
  <2>1. q.pc = "idle" /\ q.op = "acquire"
    BY <1>1, <1>3 DEF StartJob, WorkerInv
  <2>2. ~Over(w) /\ ~Terminal(w)
    BY <1>3 DEF StartJob, Over, Terminal
  <2>3. Called(w, "acquire") \in Process /\ WorkerInv(w, Called(w, "acquire"), lease, late)
    BY <2>1, <2>2, CalledInv, ProcessTypes
  <2>4. Called(w, "acquire").pc = "get" /\ Called(w, "acquire").op = "acquire"
    BY <1>1 DEF Called, Process
  <2>5. p \in Process
    BY <2>3 DEF Process, TypeOK
  <2>6. /\ p.pc = Called(w, "acquire").pc /\ p.op = Called(w, "acquire").op
        /\ p.clk = Called(w, "acquire").clk /\ p.handle = Called(w, "acquire").handle
    BY <2>3 DEF Process
  <2>7. WorkerInv(w, p, lease, late)
    BY <2>3, <2>4, <2>6 DEF WorkerInv, Owning, InRenewal
  <2>8. Becomes(w, p) /\ Local
    BY <1>3 DEF StartJob
  <2>9. QED
    BY <2>2, <2>5, <2>7, <2>8, LocalStep
<1>4. CASE Checkpoint(w)
  <2> DEFINE p == [q EXCEPT !.pc = "get", !.op = "assert", !.left = @ - 1]
  <2>1. q.pc = "hold" /\ q.op \in {"acquire", "renew"} /\ q.left > 0
    BY <1>1, <1>4 DEF Checkpoint, WorkerInv
  <2>2. /\ p \in Process /\ p.pc = "get" /\ p.op = "assert"
        /\ p.clk = q.clk /\ p.handle = q.handle
    <3>1. q.left - 1 \in Nat
      BY <1>1, <2>1 DEF Process
    <3>2. QED
      BY <1>1, <3>1 DEF Process
  <2>3. WorkerInv(w, p, lease, late)
    BY <1>1, <1>2, <2>1, <2>2 DEF WorkerInv, Owning, InRenewal
  <2>4. QED
    BY <1>2, <1>4, <2>1, <2>2, <2>3, LocalStep DEF Checkpoint
<1>5. CASE Finish(w) \/ MutationFails(w)
  <2>1. q.pc \in {"hold", "mutate"} /\ q.op # "release"
    BY <1>1, <1>5 DEF Finish, MutationFails, WorkerInv
  <2>2. Called(w, "release") \in Process /\ WorkerInv(w, Called(w, "release"), lease, late)
    BY <1>2, <2>1, CalledInv, ProcessTypes DEF Owning
  <2>3. QED
    BY <1>2, <1>5, <2>1, <2>2, LocalStep DEF Finish, MutationFails
<1>6. CASE Mutated(w)
  <2> DEFINE p == Holding(w, q.handle, "hold")
  <2>1. q.pc = "mutate" /\ q.op = "renew" /\ q.handle \in LeaseObject
    BY <1>1, <1>6 DEF Mutated, WorkerInv, Process
  <2>2. p \in Process /\ p.pc = "hold" /\ p.op = "renew" /\ p.clk = 0 /\ p.handle = q.handle
    <3>1. p \in Process
      BY <2>1, ProcessTypes
    <3>2. QED
      BY <1>1, <2>1, <3>1 DEF Holding, Process
  <2>3. WorkerInv(w, p, lease, late)
    BY <1>1, <1>2, <2>1, <2>2 DEF WorkerInv, Owning, InRenewal
  <2>4. QED
    BY <1>2, <1>6, <2>1, <2>2, <2>3, LocalStep DEF Mutated
<1>7. CASE Takeover(w)
  <2> DEFINE p == [q EXCEPT !.pc = "put"]
             x == q.req.expect
  <2>1. /\ q.pc = "prove" /\ q.op = "acquire" /\ q.req.from = w
        /\ x.status = "held" /\ x.owner # w /\ WellFormed(x)
        /\ q.req.new = Held(w, q.clk + TTL) /\ q.clk <= Clock(w)
    BY <1>1, <1>7 DEF Takeover, WorkerInv
  <2>2. /\ p \in Process /\ p.pc = "put" /\ p.op = "acquire"
        /\ p.clk = q.clk /\ p.req = q.req
    BY <1>1, <2>1 DEF Process
  <2>3. x.owner \in Worker /\ x.at \in Nat /\ q.clk \in Nat
    BY <1>1, <2>1 DEF WellFormed, Process, Write, LeaseObject
  <2>4. ProofSound => Over(x.owner)
    <3>1. WorkerInv(x.owner, proc[x.owner], lease, late)
      BY <2>3
    <3>2. QED
      BY <1>7, <3>1 DEF Takeover, Over, WorkerInv
  <2>5. Clock(w) >= x.at + Grace
    BY <1>1, <1>7, <2>1, <2>3 DEF Takeover
  <2>6. GoodWrite(p.req)
    BY <1>1, <2>1, <2>2, <2>3, <2>4, <2>5 DEF GoodWrite, Evidence, WellFormed, Held
  <2>7. WorkerInv(w, p, lease, late)
    BY <1>1, <1>2, <2>1, <2>2, <2>6 DEF WorkerInv, Owning, InRenewal
  <2>8. QED
    BY <1>2, <1>7, <2>1, <2>2, <2>7, LocalStep DEF Takeover
<1>8. CASE Busy(w)
  <2> DEFINE p == [q EXCEPT !.pc = "wait", !.clk = 0, !.req = NoWrite]
  <2>1. q.pc = "prove" /\ q.op = "acquire"
    BY <1>1, <1>8 DEF Busy, WorkerInv
  <2>2. p \in Process /\ p.pc = "wait" /\ p.op = "acquire" /\ p.clk = 0
    BY <1>1, <2>1, ObjectTypes DEF Process
  <2>3. WorkerInv(w, p, lease, late)
    BY <1>1, <1>2, <2>1, <2>2 DEF WorkerInv, Owning, InRenewal
  <2>4. CASE now >= q.since + WaitOf[w]
    BY <1>2, <1>8, <2>1, <2>4, EndedInv, ProcessTypes, LocalStep DEF Busy
  <2>5. CASE ~(now >= q.since + WaitOf[w])
    BY <1>2, <1>8, <2>1, <2>2, <2>3, <2>5, LocalStep DEF Busy
  <2>6. QED
    BY <2>4, <2>5
<1>9. CASE Poll(w)
  <2>1. q.pc = "wait" /\ q.op = "acquire"
    BY <1>1, <1>9 DEF Poll, WorkerInv
  <2>2. Called(w, "acquire") \in Process /\ WorkerInv(w, Called(w, "acquire"), lease, late)
    BY <1>2, <2>1, CalledInv, ProcessTypes
  <2>3. QED
    BY <1>2, <1>9, <2>1, <2>2, LocalStep DEF Poll
<1>10. CASE PutRefused(w)
  <2>1. Raised(w) \in Process /\ WorkerInv(w, Raised(w), lease, late)
    BY <1>10, RaisedInv, ProcessTypes DEF PutRefused
  <2>2. QED
    BY <1>2, <1>10, <2>1, LocalStep DEF PutRefused
<1>11. QED
  BY <1>3, <1>4, <1>5, <1>6, <1>7, <1>8, <1>9, <1>10

\* A write that the store accepts while its sender waits for it displaces no
\* mutating worker.
LEMMA WriteDisplacesNobody ==
  ASSUME IInv, Fenced, NEW w \in Worker, Wins(w), NEW v \in Worker, proc[v].pc = "mutate"
  PROVE  FALSE
<1> DEFINE q == proc[w]
<1>1. /\ q \in Process /\ WorkerInv(w, q, lease, late) /\ q.pc = "put"
      /\ lease = q.req.expect /\ WellFormed(lease)
  BY DEF IInv, TypeOK, Wins
<1>2. lease.owner = v /\ ~Evidence(w, lease) /\ v # w
  BY <1>1, NoEvidence
<1>3. lease.owner # w /\ lease.status = "held"
  BY <1>1, <1>2, ConstantsAssumption DEF WellFormed
<1>4. q.req.from = w /\ GoodWrite(q.req)
  BY <1>1 DEF WorkerInv
<1>5. QED
  BY <1>1, <1>2, <1>3, <1>4 DEF GoodWrite

\* A late write displaces a mutating worker's record only by the same record.
LEMMA LandingDisplacesNobody ==
  ASSUME IInv, Fenced, NEW r \in late, lease = r.expect,
         NEW v \in Worker, proc[v].pc = "mutate"
  PROVE  r.new = lease
<1> USE ConstantsAssumption
<1>1. /\ proc[v] \in Process /\ WorkerInv(v, proc[v], lease, late)
      /\ GoodWrite(r) /\ r \in Write
  BY DEF IInv, TypeOK
<1>2. lease.owner = v /\ ~Evidence(r.from, lease)
  BY <1>1, NoEvidence DEF GoodWrite
<1>3. /\ lease = Held(v, proc[v].clk + TTL) /\ proc[v].op = "renew" /\ InRenewal(proc[v])
      /\ proc[v].clk \in Nat
  BY <1>1 DEF WorkerInv, InRenewal, Process
<1>4. lease.status = "held" /\ lease.at = proc[v].clk + TTL
  BY <1>3 DEF Held
<1>5. r.from = v
  BY <1>1, <1>2, <1>4 DEF GoodWrite
<1>6. r.new.status = "held" /\ r.new.at <= proc[v].clk + TTL
  BY <1>1, <1>3, <1>5 DEF WorkerInv
<1>7. r.new.owner = v /\ lease.at <= r.new.at
  BY <1>1, <1>2, <1>4, <1>5, <1>6 DEF GoodWrite
<1>8. r.new \in LeaseObject
  BY <1>1 DEF Write
<1>9. r.new.at = proc[v].clk + TTL
  BY <1>3, <1>4, <1>6, <1>7, <1>8 DEF LeaseObject
<1>10. QED
  BY <1>3, <1>6, <1>7, <1>8, <1>9 DEF LeaseObject, Held

\* The conditional write and its reconciliation.
LEMMA PutStep ==
  ASSUME IInv, Fenced, NEW w \in Worker,
         PutAccepted(w) \/ PutResponseLost(w) \/ PutTimesOut(w) \/ Reconcile(w)
  PROVE  IInv'
<1> USE ConstantsAssumption DEF IInv
<1> DEFINE q == proc[w]
           recon == [q EXCEPT !.pc = "recon"]
<1>1. /\ q \in Process /\ WorkerInv(w, q, lease, late) /\ Clock(w) \in Nat
      /\ q.pc \in {"put", "recon"}
  BY ProcessTypes DEF TypeOK, PutAccepted, PutResponseLost, PutTimesOut, Reconcile, Wins
<1>2. ~Over(w) /\ ~(ProofSound /\ Terminal(w))
  BY <1>1, BusyWorker
<1>3. q.req \in Write /\ GoodWrite(q.req) /\ q.req.from = w
  BY <1>1 DEF WorkerInv, Process
<1>4. /\ q.req.new \in LeaseObject /\ WellFormed(q.req.new)
      /\ \A v \in Worker : q.req.new.owner = v => q.req.new.at <= Clock(v) + TTL
  BY <1>3 DEF GoodWrite, WellFormed, Write
<1>5. /\ recon \in Process /\ recon.pc = "recon" /\ recon.op = q.op
      /\ recon.clk = q.clk /\ recon.handle = q.handle /\ recon.req = q.req
  BY <1>1 DEF Process
<1>6. late \in SUBSET Write /\ lease \in LeaseObject /\ WellFormed(lease)
  BY DEF TypeOK
<1>7. CASE PutAccepted(w)
  <2>1. PICK p \in Returned(w) : Becomes(w, p)
    BY <1>7 DEF PutAccepted
  <2>2. p \in Process /\ WorkerInv(w, p, q.req.new, late)
    BY <1>1, <2>1, ReturnedInv, ProcessTypes
  <2>3. \A v \in Worker : proc[v].pc # "mutate"
    BY <1>7, WriteDisplacesNobody DEF PutAccepted
  <2>4. lease' = q.req.new /\ late' = late /\ UNCHANGED <<now, skew, run>>
    BY <1>7 DEF PutAccepted
  <2>5. QED
    BY <1>2, <1>4, <1>6, <2>1, <2>2, <2>3, <2>4, WorkerStep
<1>8. CASE PutResponseLost(w)
  <2>1. WorkerInv(w, recon, q.req.new, late)
    BY <1>1, <1>5, <1>8 DEF WorkerInv, Owning, InRenewal, PutResponseLost, Wins
  <2>2. \A v \in Worker : proc[v].pc # "mutate"
    BY <1>8, WriteDisplacesNobody DEF PutResponseLost
  <2>3. Becomes(w, recon) /\ lease' = q.req.new /\ late' = late /\ UNCHANGED <<now, skew, run>>
    BY <1>8 DEF PutResponseLost
  <2>4. QED
    BY <1>2, <1>4, <1>5, <1>6, <2>1, <2>2, <2>3, WorkerStep
<1>9. CASE PutTimesOut(w)
  <2> DEFINE L == late \cup {q.req}
  <2>1. q.pc = "put"
    BY <1>9 DEF PutTimesOut
  <2>2. \/ q.req.new.status = "held" /\ (q.op = "renew" => q.req.new.at <= q.clk + TTL)
        \/ q.req.new.status # "held" /\ q.op = "release"
    <3>1. q.op \in {"acquire", "renew"} => q.req.new = Held(w, q.clk + TTL)
      BY <1>1 DEF WorkerInv
    <3>2. q.op = "release" => q.req.new = Free(q.clk)
      BY <1>1 DEF WorkerInv
    <3>3. q.op \in {"acquire", "renew", "release"} /\ q.clk \in Nat
      BY <1>1 DEF WorkerInv, Process
    <3>4. QED
      BY <3>1, <3>2, <3>3 DEF Held, Free
  <2>3. \A r \in L : r.from = w => IF r.new.status = "held"
                                   THEN InRenewal(recon) => r.new.at <= recon.clk + TTL
                                   ELSE recon.op = "release" \/ recon.pc = "ended"
    BY <1>1, <1>5, <2>1, <2>2 DEF WorkerInv, InRenewal
  <2>4. WorkerInv(w, recon, lease, L)
    BY <1>1, <1>5, <2>1, <2>3 DEF WorkerInv, Owning, InRenewal
  <2>5. L \in SUBSET Write /\ \A r \in L : GoodWrite(r) /\ (r \in late \/ r.from = w)
    BY <1>3, <1>6
  <2>6. Becomes(w, recon) /\ lease' = lease /\ late' = L /\ UNCHANGED <<now, skew, run>>
    BY <1>9 DEF PutTimesOut
  <2>7. QED
    BY <1>2, <1>5, <1>6, <2>4, <2>5, <2>6, WorkerStep
<1>10. CASE Reconcile(w)
  <2>1. CASE Becomes(w, Raised(w))
    BY <1>1, <1>2, <1>10, <2>1, RaisedInv, ProcessTypes, LocalStep DEF Reconcile
  <2>2. CASE lease = q.req.new /\ \E p \in Returned(w) : Becomes(w, p)
    <3>1. PICK p \in Returned(w) : Becomes(w, p)
      BY <2>2
    <3>2. p \in Process /\ WorkerInv(w, p, lease, late)
      BY <1>1, <2>2, <3>1, ReturnedInv, ProcessTypes
    <3>3. QED
      BY <1>2, <1>10, <3>1, <3>2, LocalStep DEF Reconcile
  <2>3. QED
    BY <1>10, <2>1, <2>2 DEF Reconcile
<1>11. QED
  BY <1>7, <1>8, <1>9, <1>10

LEMMA DieStep ==
  ASSUME IInv, NEW w \in Worker, Die(w)
  PROVE  IInv'
<1> USE DEF IInv
<1>1. lease \in LeaseObject /\ late' \in SUBSET Write /\ Ended \in Process
  <2>1. proc[w].req \in Write
    BY DEF TypeOK, Process
  <2>2. QED
    BY <2>1, ProcessTypes DEF Die, TypeOK
<1>2. \A r \in late' : GoodWrite(r) /\ (r \in late \/ r.from = w)
  <2>1. WorkerInv(w, proc[w], lease, late)
    OBVIOUS
  <2>2. QED
    BY <2>1 DEF Die, WorkerInv
<1>3. PICK L \in SUBSET Write : L = late'
  BY <1>1
<1>4. WorkerInv(w, Ended, lease, L)
  BY EndedInv
<1>5. Ended.pc = "ended"
  BY DEF Ended, Idle
<1>6. Becomes(w, Ended) /\ lease' = lease /\ late' = L /\ UNCHANGED <<now, skew, run>>
  BY <1>3 DEF Die
<1>7. QED
  BY <1>1, <1>2, <1>3, <1>4, <1>5, <1>6, WorkerStep

\* A step of the store, the clock or GitHub changes no process.
LEMMA EnvironmentStep ==
  ASSUME IInv, TypeOK', UNCHANGED <<proc, skew>>, now' >= now,
         late' \subseteq late, WellFormed(lease)',
         \A v \in Worker : lease'.owner = v => lease'.at <= Clock(v)' + TTL,
         \A v \in Worker : proc[v].pc = "mutate" => lease' = lease,
         \A o \in Worker : Over(o) => Over(o)',
         \A v \in Worker : StepsBounded /\ InRenewal(proc[v]) => Clock(v)' <= proc[v].clk + MaxOp,
         \A v \in Worker : ProofSound /\ Terminal(v)' => proc[v].pc \in {"idle", "ended"}
  PROVE  IInv'
<1> USE ConstantsAssumption
<1>1. now' \in Nat /\ \A v \in Worker : Clock(v) \in Nat /\ Clock(v)' \in Nat /\ Clock(v)' >= Clock(v)
  BY DEF IInv, TypeOK, Clock
<1>2. ASSUME NEW r \in Write, GoodWrite(r)
      PROVE  GoodWrite(r)'
  BY <1>1, <1>2, WriteStable DEF IInv
<1>3. ASSUME NEW v \in Worker
      PROVE  WorkerInv(v, proc[v], lease, late)'
  <2>1. PICK q \in Process : q = proc[v]
    BY DEF IInv, TypeOK
  <2>2. WorkerInv(v, q, lease, late) /\ proc'[v] = q
    BY <2>1 DEF IInv
  <2>3. q.pc \in {"put", "recon"} => GoodWrite(q.req)'
    BY <1>2, <2>2 DEF WorkerInv, Process
  <2>4. /\ q.clk \in Nat
        /\ q.handle.at \in Nat
    BY DEF Process, LeaseObject
  <2>5. \A r \in late' : r \in late
    OBVIOUS
  <2>6. /\ q.pc = "mutate" => lease' = lease
        /\ StepsBounded /\ InRenewal(q) => Clock(v)' <= q.clk + MaxOp
        /\ ProofSound /\ Terminal(v)' => q.pc \in {"idle", "ended"}
    BY <2>1
  <2>7. QED
    BY <1>1, <2>2, <2>3, <2>4, <2>5, <2>6 DEF WorkerInv, WellFormed
<1>4. \A r \in late' : GoodWrite(r)'
  BY <1>2 DEF IInv, TypeOK
<1>5. QED
  BY <1>3, <1>4 DEF IInv

LEMMA LandStep ==
  ASSUME IInv, Fenced, NEW r \in late, Land(r)
  PROVE  IInv'
<1> USE ConstantsAssumption
<1>1. r \in Write /\ GoodWrite(r) /\ TypeOK /\ WellFormed(lease)
  BY DEF IInv, TypeOK
<1>2. /\ UNCHANGED <<now, skew, run, proc>> /\ late' \subseteq late
      /\ lease' = IF lease = r.expect THEN r.new ELSE lease
  BY DEF Land
<1>3. TypeOK'
  BY <1>1, <1>2 DEF TypeOK, Write
<1>4. WellFormed(lease)'
  BY <1>1, <1>2 DEF WellFormed, GoodWrite
<1>5. \A v \in Worker : Clock(v)' = Clock(v) /\ (Terminal(v)' <=> Terminal(v))
  BY <1>2 DEF Clock, Terminal
<1>6. \A v \in Worker : lease'.owner = v => lease'.at <= Clock(v)' + TTL
  BY <1>1, <1>2, <1>5 DEF IInv, GoodWrite, WellFormed
<1>7. \A v \in Worker : proc[v].pc = "mutate" => lease' = lease
  BY <1>2, LandingDisplacesNobody
<1>8. \A o \in Worker : Over(o) => Over(o)'
  BY <1>2 DEF Over, Terminal
<1>9. now' >= now /\ UNCHANGED <<proc, skew>>
  BY <1>1, <1>2 DEF TypeOK
<1>10. \A v \in Worker : WorkerInv(v, proc[v], lease, late)
  BY DEF IInv
<1>11. \A v \in Worker : StepsBounded /\ InRenewal(proc[v]) => Clock(v)' <= proc[v].clk + MaxOp
  BY <1>5, <1>10 DEF WorkerInv
<1>12. \A v \in Worker : ProofSound /\ Terminal(v)' => proc[v].pc \in {"idle", "ended"}
  BY <1>5, <1>10 DEF WorkerInv
<1>13. QED
  BY <1>2, <1>3, <1>4, <1>6, <1>7, <1>8, <1>9, <1>11, <1>12, EnvironmentStep

LEMMA TickStep ==
  ASSUME IInv, Tick
  PROVE  IInv'
<1> USE ConstantsAssumption
<1>1. TypeOK /\ now' = now + 1 /\ UNCHANGED <<skew, run, lease, late, proc>>
  BY DEF IInv, Tick
<1>2. TypeOK'
  BY <1>1 DEF TypeOK
<1>3. \A v \in Worker : /\ Clock(v) \in Nat /\ Clock(v)' = Clock(v) + 1
                        /\ (Terminal(v)' <=> Terminal(v))
  <2>1. \A v \in Worker : Terminal(v)' <=> Terminal(v)
    BY <1>1 DEF Terminal
  <2>2. now \in Nat /\ \A v \in Worker : skew[v] \in Nat
    BY <1>1 DEF TypeOK
  <2>3. \A v \in Worker : Clock(v) \in Nat /\ Clock(v)' = Clock(v) + 1
    BY <1>1, <2>2 DEF Clock
  <2>4. QED
    BY <2>1, <2>3
<1>4. WellFormed(lease)' /\ late' \subseteq late /\ now' >= now
  BY <1>1 DEF IInv, WellFormed, TypeOK
<1>5. \A v \in Worker : lease'.owner = v => lease'.at <= Clock(v)' + TTL
  <2>1. lease.at \in Nat
    BY <1>1 DEF TypeOK, LeaseObject
  <2>2. QED
    BY <1>1, <1>3, <2>1 DEF IInv
<1>6. \A o \in Worker : Over(o) => Over(o)'
  BY <1>1 DEF Over, Terminal
<1>7. ASSUME NEW v \in Worker, StepsBounded, InRenewal(proc[v])
      PROVE  Clock(v)' <= proc[v].clk + MaxOp
  <2>1. Fencing(v)
    BY <1>7 DEF Fencing, InRenewal
  <2>2. proc[v].clk \in Nat
    BY <1>1 DEF TypeOK, Process
  <2>3. QED
    BY <1>3, <1>7, <2>1, <2>2 DEF Tick
<1>8. \A v \in Worker : ProofSound /\ Terminal(v)' => proc[v].pc \in {"idle", "ended"}
  BY <1>3 DEF IInv, WorkerInv
<1>9. QED
  BY <1>1, <1>2, <1>4, <1>5, <1>6, <1>7, <1>8, EnvironmentStep

LEMMA RunTypes ==
  ASSUME TypeOK, NEW r \in Run, Complete(r) \/ Rerun(r)
  PROVE  TypeOK'
<1>1. run \in [Run -> [attempt : Nat, live : BOOLEAN]] /\ run[r].attempt \in Nat
  BY DEF TypeOK
<1>2. CASE Complete(r)
  <2>1. [run[r] EXCEPT !.live = FALSE] \in [attempt : Nat, live : BOOLEAN]
    BY <1>1
  <2>2. QED
    BY <1>1, <1>2, <2>1 DEF Complete, TypeOK
<1>3. CASE Rerun(r)
  <2>1. [attempt |-> run[r].attempt + 1, live |-> TRUE] \in [attempt : Nat, live : BOOLEAN]
    BY <1>1
  <2>2. QED
    BY <1>1, <1>3, <2>1 DEF Rerun, TypeOK
<1>4. QED
  BY <1>2, <1>3

LEMMA RunStep ==
  ASSUME IInv, NEW r \in Run, Complete(r) \/ Rerun(r)
  PROVE  IInv'
<1> USE ConstantsAssumption
<1>1. TypeOK /\ UNCHANGED <<now, skew, lease, late, proc>>
  BY DEF IInv, Complete, Rerun
<1>2. run[r].attempt \in Nat /\ TypeOK'
  BY <1>1, RunTypes DEF TypeOK
<1>4. ASSUME NEW o \in Worker
      PROVE  /\ run'[RunOf[o]].attempt \in Nat
             /\ \/ run'[RunOf[o]] = run[RunOf[o]]
                \/ RunOf[o] = r
  BY <1>1, <1>2 DEF TypeOK, Complete, Rerun
<1>5. \A o \in Worker : Over(o) => Over(o)'
  <2>1. SUFFICES ASSUME NEW o \in Worker, Over(o)
                 PROVE  Over(o)'
    OBVIOUS
  <2>2. proc'[o].pc \in {"idle", "ended"} /\ AttemptOf[o] \in Nat
    BY <1>1, <2>1 DEF Over
  <2>3. CASE Complete(r)
    <3>1. run[r].live /\ run' = [run EXCEPT ![r].live = FALSE]
      BY <2>3 DEF Complete
    <3>2. \A s \in Run : run'[s].attempt = run[s].attempt /\ (s # r => run'[s] = run[s])
      BY <1>1, <3>1 DEF TypeOK
    <3>3. RunOf[o] = r => ~Terminal(o)
      BY <3>1 DEF Terminal
    <3>4. QED
      BY <2>1, <2>2, <3>2, <3>3 DEF Over, Terminal
  <2>4. CASE Rerun(r)
    <3>1. run' = [run EXCEPT ![r] = [attempt |-> run[r].attempt + 1, live |-> TRUE]]
      BY <2>4 DEF Rerun
    <3>2. RunOf[o] = r => run'[r].attempt = run[r].attempt + 1
      BY <1>1, <3>1 DEF TypeOK
    <3>3. RunOf[o] # r => run'[RunOf[o]] = run[RunOf[o]]
      BY <1>1, <3>1 DEF TypeOK
    <3>4. RunOf[o] = r => run[r].attempt >= AttemptOf[o]
      BY <1>2, <2>1, <2>2 DEF Over, Terminal
    <3>5. CASE RunOf[o] = r
      BY <1>2, <2>2, <3>2, <3>4, <3>5 DEF Over
    <3>6. CASE RunOf[o] # r
      BY <2>1, <2>2, <3>3, <3>6 DEF Over, Terminal
    <3>7. QED
      BY <3>5, <3>6
  <2>5. QED
    BY <2>3, <2>4
<1>6. ASSUME NEW v \in Worker, ProofSound, Terminal(v)'
      PROVE  proc[v].pc \in {"idle", "ended"}
  <2>1. run'[RunOf[v]] = [attempt |-> AttemptOf[v], live |-> FALSE]
    BY <1>1, <1>6 DEF Terminal
  <2>2. CASE run'[RunOf[v]] = run[RunOf[v]]
    <3>1. Terminal(v)
      BY <2>1, <2>2 DEF Terminal
    <3>2. QED
      BY <1>6, <3>1 DEF IInv, WorkerInv
  <2>3. CASE RunOf[v] = r /\ Complete(r)
    BY <1>1, <1>6, <2>1, <2>3 DEF Complete, TypeOK
  <2>4. CASE RunOf[v] = r /\ Rerun(r)
    BY <1>1, <2>1, <2>4 DEF Rerun, TypeOK
  <2>5. QED
    BY <1>4, <2>2, <2>3, <2>4
<1>7. \A v \in Worker : Clock(v)' = Clock(v)
  BY <1>1 DEF Clock
<1>8. WellFormed(lease)' /\ late' \subseteq late /\ now' >= now
  BY <1>1 DEF IInv, WellFormed, TypeOK
<1>9. \A v \in Worker : lease'.owner = v => lease'.at <= Clock(v)' + TTL
  BY <1>1, <1>7 DEF IInv
<1>10. \A v \in Worker : StepsBounded /\ InRenewal(proc[v]) => Clock(v)' <= proc[v].clk + MaxOp
  BY <1>7 DEF IInv, WorkerInv
<1>11. QED
  BY <1>1, <1>2, <1>5, <1>6, <1>8, <1>9, <1>10, EnvironmentStep

-----------------------------------------------------------------------------
(* The invariant.                                                          *)

LEMMA InitIInv == Init => IInv
<1> USE ConstantsAssumption
<1> SUFFICES ASSUME Init PROVE IInv
  OBVIOUS
<1>1. /\ Idle.pc = "idle" /\ Idle.op = "acquire" /\ Idle.clk = 0 /\ Idle \in Process
  BY ObjectTypes DEF Idle, Process
<1>2. TypeOK
  BY <1>1, ObjectTypes DEF Init, TypeOK
<1>3. \A w \in Worker : proc[w] = Idle /\ Clock(w) \in Nat
  BY DEF Init, Clock
<1>4. ASSUME NEW w \in Worker
      PROVE  WorkerInv(w, Idle, lease, late)
  <2>1. ~Terminal(w)
    BY DEF Init, Terminal
  <2>2. late = {} /\ Clock(w) \in Nat
    BY <1>3 DEF Init
  <2>3. QED
    BY <1>1, <2>1, <2>2 DEF WorkerInv, Owning, InRenewal
<1>5. WellFormed(lease) /\ lease.owner = Nobody /\ late = {}
  BY DEF Init, WellFormed, Absent
<1>6. QED
  BY <1>2, <1>3, <1>4, <1>5 DEF IInv

LEMMA IInvStep ==
  ASSUME IInv, Fenced, [Next]_vars
  PROVE  IInv'
<1>1. ASSUME NEW w \in Worker, StartJob(w) \/ Progress(w) \/ Die(w)
      PROVE  IInv'
  BY <1>1, JobStep, GetStep, PutStep, DieStep DEF Progress, Put
<1>2. ASSUME NEW r \in late, Land(r)
      PROVE  IInv'
  BY <1>2, LandStep
<1>3. ASSUME NEW r \in Run, Complete(r) \/ Rerun(r)
      PROVE  IInv'
  BY <1>3, RunStep
<1>4. CASE Tick
  BY <1>4, TickStep
<1>5. CASE UNCHANGED vars
  BY <1>5 DEF vars, IInv, TypeOK, WellFormed, Clock, WorkerInv, GoodWrite, Evidence, Over, Terminal
<1>6. QED
  BY <1>1, <1>2, <1>3, <1>4, <1>5 DEF Next

-----------------------------------------------------------------------------
(* The theorems.                                                           *)

\* Types need no assumption about the fence.
LEMMA TypeStep ==
  ASSUME TypeOK, [Next]_vars
  PROVE  TypeOK'
<1> USE ConstantsAssumption
<1>1. ASSUME NEW w \in Worker, NEW p \in Process, Becomes(w, p),
             lease' \in LeaseObject, late' \in SUBSET Write, UNCHANGED <<now, skew, run>>
      PROVE  TypeOK'
  BY <1>1 DEF TypeOK, Becomes
<1>2. ASSUME NEW w \in Worker, StartJob(w) \/ Progress(w) \/ Die(w)
      PROVE  TypeOK'
  <2> DEFINE q == proc[w]
  <2>1. /\ q \in Process /\ q.req \in Write /\ q.req.new \in LeaseObject
        /\ q.req.expect \in LeaseObject /\ q.handle \in LeaseObject /\ q.clk \in Nat
    BY DEF TypeOK, Process, Write
  <2>2. lease \in LeaseObject /\ late \in SUBSET Write
    BY DEF TypeOK
  <2>3. PICK p : Becomes(w, p) /\ p \in Process
    <3>1. CASE StartJob(w)
      <4>1. Called(w, "acquire") \in Process
        BY ProcessTypes
      <4>2. [Called(w, "acquire") EXCEPT !.since = IF WaitOf[w] > 0 THEN now ELSE 0] \in Process
        BY <4>1 DEF Process, TypeOK
      <4>3. QED
        BY <3>1, <4>2 DEF StartJob
    <3>2. CASE Checkpoint(w)
      <4>1. q.left - 1 \in Nat
        BY <2>1, <3>2 DEF Checkpoint, Process
      <4>2. [q EXCEPT !.pc = "get", !.op = "assert", !.left = @ - 1] \in Process
        BY <2>1, <4>1 DEF Process
      <4>3. QED
        BY <3>2, <4>2 DEF Checkpoint
    <3>3. CASE Finish(w) \/ MutationFails(w) \/ Poll(w)
      BY <3>3, ProcessTypes DEF Finish, MutationFails, Poll
    <3>4. CASE Mutated(w)
      BY <2>1, <3>4, ProcessTypes DEF Mutated
    <3>5. CASE GetFails(w) \/ PutRefused(w)
      BY <3>5, ProcessTypes DEF GetFails, PutRefused
    <3>6. CASE GetForAcquire(w)
      BY <2>2, <3>6, ProcessTypes DEF GetForAcquire
    <3>7. CASE GetForAssert(w)
      BY <3>7, ProcessTypes DEF GetForAssert
    <3>8. CASE GetForRenew(w)
      BY <2>1, <3>8, ProcessTypes DEF GetForRenew
    <3>9. CASE GetForRelease(w)
      BY <2>1, <3>9, ProcessTypes, ObjectTypes DEF GetForRelease
    <3>10. CASE Takeover(w)
      BY <2>1, <3>10 DEF Takeover, Process
    <3>11. CASE Busy(w)
      <4>1. [q EXCEPT !.pc = "wait", !.clk = 0, !.req = NoWrite] \in Process
        BY <2>1, ObjectTypes DEF Process
      <4>2. QED
        BY <3>11, <4>1, ProcessTypes DEF Busy
    <3>12. CASE PutAccepted(w) \/ Reconcile(w)
      <4>1. Raised(w) \in Process /\ \A p \in Returned(w) : p \in Process
        BY ProcessTypes
      <4>2. Becomes(w, Raised(w)) \/ \E p \in Returned(w) : Becomes(w, p)
        BY <3>12 DEF PutAccepted, Reconcile
      <4>3. QED
        BY <4>1, <4>2
    <3>13. CASE PutResponseLost(w) \/ PutTimesOut(w)
      BY <2>1, <3>13 DEF PutResponseLost, PutTimesOut, Process
    <3>14. CASE Die(w)
      BY <3>14, ProcessTypes DEF Die
    <3>15. QED
      BY <1>2, <3>1, <3>2, <3>3, <3>4, <3>5, <3>6, <3>7, <3>8, <3>9, <3>10, <3>11,
         <3>12, <3>13, <3>14 DEF Progress, Get, Put
  <2>4. /\ UNCHANGED <<now, skew, run>>
        /\ lease' \in {lease, q.req.new} /\ late' \in {late, late \cup {q.req}}
    <3>1. CASE PutAccepted(w) \/ PutResponseLost(w)
      BY <3>1 DEF PutAccepted, PutResponseLost
    <3>2. CASE PutTimesOut(w) \/ Die(w)
      BY <3>2 DEF PutTimesOut, Die
    <3>3. CASE \/ StartJob(w) \/ Checkpoint(w) \/ Finish(w) \/ Mutated(w) \/ MutationFails(w)
               \/ Get(w) \/ Takeover(w) \/ Busy(w) \/ Poll(w) \/ PutRefused(w) \/ Reconcile(w)
      <4>1. Local
        BY <3>3 DEF StartJob, Checkpoint, Finish, Mutated, MutationFails, Get, GetFails,
             GetForAcquire, GetForAssert, GetForRenew, GetForRelease, Takeover, Busy, Poll,
             PutRefused, Reconcile
      <4>2. QED
        BY <4>1 DEF Local
    <3>4. QED
      BY <1>2, <3>1, <3>2, <3>3 DEF Progress, Put
  <2>5. lease' \in LeaseObject /\ late' \in SUBSET Write
    BY <2>1, <2>2, <2>4
  <2>6. QED
    BY <1>1, <2>3, <2>4, <2>5
<1>3. ASSUME NEW r \in late, Land(r)
      PROVE  TypeOK'
  BY <1>3 DEF TypeOK, Land, Write
<1>4. ASSUME NEW r \in Run, Complete(r) \/ Rerun(r)
      PROVE  TypeOK'
  BY <1>4, RunTypes
<1>5. CASE Tick
  BY <1>5 DEF TypeOK, Tick
<1>6. CASE UNCHANGED vars
  BY <1>6 DEF TypeOK, vars
<1>7. QED
  BY <1>2, <1>3, <1>4, <1>5, <1>6 DEF Next

\* Every variable of the lease protocol keeps its type.
THEOREM TypeCorrect == Spec => []TypeOK
<1>1. Init => TypeOK
  BY InitIInv DEF IInv
<1>2. TypeOK /\ [Next]_vars => TypeOK'
  BY TypeStep
<1>3. QED
  BY <1>1, <1>2, PTL DEF Spec

\* The inductive invariant, under the assumption the fence rests on.
THEOREM Invariant == ASSUME Fenced PROVE Spec => []IInv
<1>1. Init => IInv
  BY InitIInv
<1>2. IInv /\ [Next]_vars => IInv'
  BY IInvStep
<1>3. QED
  BY <1>1, <1>2, PTL DEF Spec

LEMMA MutatorOwns == ASSUME IInv PROVE MutatorOwnsLease
<1>1. SUFFICES ASSUME NEW w \in Worker, proc[w].pc = "mutate"
               PROVE  lease = proc[w].handle /\ lease.owner = w
  BY DEF MutatorOwnsLease
<1>2. WorkerInv(w, proc[w], lease, late)
  BY DEF IInv
<1>3. QED
  BY <1>1, <1>2 DEF WorkerInv, Owning

\* Between a checkpoint and the end of the mutation it covers, the lease object
\* is the record of the mutating worker's handle.
THEOREM OwnedMutation == ASSUME Fenced PROVE Spec => []MutatorOwnsLease
<1>1. IInv => MutatorOwnsLease
  BY MutatorOwns
<1>2. QED
  BY <1>1, Invariant, PTL

\* A site and a repository publication never mutate the store at the same time.
THEOREM ExclusiveMutation == ASSUME Fenced PROVE Spec => []MutationExclusive
<1>1. IInv => MutationExclusive
  BY MutatorOwns DEF MutatorOwnsLease, MutationExclusive
<1>2. QED
  BY <1>1, Invariant, PTL

-----------------------------------------------------------------------------
(* Refinement of LeaseMutex.                                               *)

Mutating == {w \in Worker : proc[w].pc = "mutate"}

LEMMA MutexStep ==
  ASSUME IInv, IInv', Fenced, [Next]_vars
  PROVE  [Mutex!Next]_<<lease.owner, Mutating>>
<1> USE ConstantsAssumption
<1>1. \A v \in Worker : proc[v] \in Process /\ WorkerInv(v, proc[v], lease, late)
  BY DEF IInv, TypeOK
<1>2. Mutating = {} \/ \E v \in Worker : Mutating = {v} /\ lease.owner = v
  BY MutatorOwns DEF MutatorOwnsLease, Mutating
<1>3. Mutating' = {} \/ \E v \in Worker : Mutating' = {v} /\ lease'.owner = v
  <2>1. MutatorOwnsLease'
    BY MutatorOwns, PTL
  <2>2. QED
    BY <2>1 DEF MutatorOwnsLease, Mutating
<1>4. ASSUME NEW w \in Worker, NEW p, Becomes(w, p), p.pc # "mutate", lease' = lease
      PROVE  [Mutex!Next]_<<lease.owner, Mutating>>
  <2>1. proc' = [proc EXCEPT ![w] = p] /\ proc \in [Worker -> Process]
    BY <1>4 DEF Becomes, IInv, TypeOK
  <2>2. Mutating' = Mutating \ {w}
    BY <1>4, <2>1 DEF Mutating
  <2>3. CASE proc[w].pc = "mutate"
    BY <1>2, <1>4, <2>2, <2>3 DEF Mutex!Next, Mutex!End, Mutating
  <2>4. CASE proc[w].pc # "mutate"
    BY <1>4, <2>2, <2>4 DEF Mutating
  <2>5. QED
    BY <2>3, <2>4
\* Finishing a write or its reconciliation starts a mutation after a renewal only.
<1>5. ASSUME NEW w \in Worker, proc[w].pc \in {"put", "recon"}, NEW p \in Returned(w),
             Becomes(w, p), lease' = proc[w].req.new,
             lease = lease' \/ Wins(w)
      PROVE  [Mutex!Next]_<<lease.owner, Mutating>>
  <2>1. proc' = [proc EXCEPT ![w] = p] /\ proc \in [Worker -> Process] /\ w \notin Mutating
    BY <1>5 DEF Becomes, IInv, TypeOK, Mutating
  <2>2. CASE p.pc # "mutate"
    <3>1. Mutating' = Mutating
      BY <2>1, <2>2 DEF Mutating
    <3>2. lease'.owner \in Worker \cup {Nobody}
      BY DEF IInv, TypeOK, LeaseObject
    <3>3. lease = lease' \/ Mutating = {}
      BY <1>5, WriteDisplacesNobody DEF Mutating
    <3>4. QED
      BY <3>1, <3>2, <3>3 DEF Mutex!Next, Mutex!ChangeHands, Mutating
  <2>3. CASE p.pc = "mutate"
    <3>1. Mutating' = Mutating \cup {w}
      BY <2>1, <2>3 DEF Mutating
    <3>2. Mutating = {} /\ Mutating' = {w} /\ lease'.owner = w
      BY <1>3, <2>1, <3>1
    <3>3. proc[w].op = "renew"
      <4>1. proc[w].op \in {"acquire", "renew"}
        BY <1>5, <2>3 DEF Returned, Ended, Idle
      <4>2. proc[w].op = "acquire" => p = Holding(w, proc[w].req.new, "hold")
        BY <1>5 DEF Returned
      <4>3. Holding(w, proc[w].req.new, "hold").pc = "hold"
        BY <1>1 DEF Holding, Process
      <4>4. QED
        BY <2>3, <4>1, <4>2, <4>3
    <3>4. lease.owner = w
      <4>1. CASE lease = lease'
        BY <3>2, <4>1
      <4>2. CASE lease # lease'
        <5>1. Wins(w) /\ lease = proc[w].req.expect
          BY <1>5, <4>2 DEF Wins
        <5>2. Owning(proc[w])
          BY <1>5, <3>3 DEF Owning
        <5>3. QED
          BY <1>1, <1>5, <3>3, <5>1, <5>2 DEF WorkerInv
      <4>3. QED
        BY <4>1, <4>2
    <3>5. QED
      BY <3>2, <3>4 DEF Mutex!Next, Mutex!Begin, Mutating
  <2>4. QED
    BY <2>2, <2>3
<1>6. ASSUME NEW w \in Worker, StartJob(w) \/ Progress(w) \/ Die(w)
      PROVE  [Mutex!Next]_<<lease.owner, Mutating>>
  <2> DEFINE q == proc[w]
  <2>1. /\ \A m \in {"acquire", "assert", "renew", "release"} : Called(w, m).pc = "get"
        /\ Raised(w).pc \in {"get", "ended"} /\ Ended.pc = "ended"
        /\ \A x \in LeaseObject : Holding(w, x, "hold").pc = "hold"
        /\ \A x, n \in LeaseObject, s \in {"put", "prove"} : Sending(w, x, n, s).pc = s
    BY <1>1 DEF Called, Raised, Ended, Idle, Holding, Sending, Process
  <2>2. lease \in LeaseObject /\ q.handle \in LeaseObject /\ Renewed(w) \in LeaseObject
    BY <1>1, ProcessTypes DEF IInv, TypeOK, Process
  <2>3. CASE StartJob(w) \/ Checkpoint(w)
    <3>1. Becomes(w, [Called(w, "acquire") EXCEPT !.since = IF WaitOf[w] > 0 THEN now ELSE 0])
            \/ Becomes(w, [q EXCEPT !.pc = "get", !.op = "assert", !.left = @ - 1])
      BY <2>3 DEF StartJob, Checkpoint
    <3>2. [q EXCEPT !.pc = "get", !.op = "assert", !.left = @ - 1].pc = "get"
      BY <1>1 DEF Process
    <3>3. Called(w, "acquire") \in Process
      BY ProcessTypes DEF IInv
    <3>4. [Called(w, "acquire") EXCEPT !.since = IF WaitOf[w] > 0 THEN now ELSE 0].pc = "get"
      BY <2>1, <3>3 DEF Process
    <3>5. lease' = lease
      BY <2>3 DEF StartJob, Checkpoint, Local
    <3>6. QED
      BY <1>4, <3>1, <3>2, <3>4, <3>5
  <2>4. CASE Finish(w) \/ MutationFails(w) \/ Poll(w) \/ GetFails(w) \/ PutRefused(w) \/ Mutated(w)
    <3>1. /\ lease' = lease
          /\ \/ \E m \in {"acquire", "assert", "renew", "release"} : Becomes(w, Called(w, m))
             \/ Becomes(w, Raised(w))
             \/ Becomes(w, Holding(w, q.handle, "hold"))
      BY <2>4 DEF Finish, MutationFails, Poll, GetFails, PutRefused, Mutated, Local
    <3>2. QED
      BY <1>4, <2>1, <2>2, <3>1
  <2>5. CASE GetForAcquire(w)
    <3>1. /\ lease' = lease
          /\ \/ Becomes(w, Ended)
             \/ Becomes(w, Holding(w, lease, "hold"))
             \/ \E s \in {"put", "prove"} : Becomes(w, Sending(w, lease, Renewed(w), s))
      BY <2>5 DEF GetForAcquire, Local
    <3>2. QED
      BY <1>4, <2>1, <2>2, <3>1
  <2>6. CASE GetForAssert(w) \/ GetForRenew(w) \/ GetForRelease(w)
    <3>1. Free(q.clk) \in LeaseObject
      BY <1>1, ObjectTypes DEF Process
    <3>2. /\ lease' = lease
          /\ \/ Becomes(w, Called(w, "renew"))
             \/ Becomes(w, Raised(w))
             \/ Becomes(w, Sending(w, q.handle, Renewed(w), "put"))
             \/ Becomes(w, Sending(w, q.handle, Free(q.clk), "put"))
      BY <2>6 DEF GetForAssert, GetForRenew, GetForRelease, Local
    <3>3. QED
      BY <1>4, <2>1, <2>2, <3>1, <3>2
  <2>7. CASE Takeover(w) \/ Busy(w) \/ PutTimesOut(w) \/ Die(w)
    <3>1. /\ [q EXCEPT !.pc = "put"].pc = "put"
          /\ [q EXCEPT !.pc = "wait", !.clk = 0, !.req = NoWrite].pc = "wait"
          /\ [q EXCEPT !.pc = "recon"].pc = "recon"
      BY <1>1 DEF Process
    <3>2. /\ lease' = lease
          /\ \/ Becomes(w, [q EXCEPT !.pc = "put"])
             \/ Becomes(w, [q EXCEPT !.pc = "wait", !.clk = 0, !.req = NoWrite])
             \/ Becomes(w, [q EXCEPT !.pc = "recon"])
             \/ Becomes(w, Ended)
      BY <2>7 DEF Takeover, Busy, PutTimesOut, Die, Local
    <3>3. QED
      BY <1>4, <2>1, <3>1, <3>2
  <2>8. CASE PutAccepted(w)
    <3>1. PICK p \in Returned(w) : Becomes(w, p)
      BY <2>8 DEF PutAccepted
    <3>2. Wins(w) /\ lease' = q.req.new
      BY <2>8 DEF PutAccepted
    <3>3. QED
      BY <1>5, <3>1, <3>2 DEF Wins
  <2>9. CASE Reconcile(w)
    <3>1. CASE Becomes(w, Raised(w))
      BY <1>4, <2>1, <2>9, <3>1 DEF Reconcile, Local
    <3>2. CASE lease = q.req.new /\ \E p \in Returned(w) : Becomes(w, p)
      BY <1>5, <2>9, <3>2 DEF Reconcile, Local
    <3>3. QED
      BY <2>9, <3>1, <3>2 DEF Reconcile
  <2>10. CASE PutResponseLost(w)
    <3>1. Mutating = {}
      BY <2>10, WriteDisplacesNobody DEF PutResponseLost, Mutating
    <3>2. [q EXCEPT !.pc = "recon"].pc = "recon"
      BY <1>1 DEF Process
    <3>3. proc' = [proc EXCEPT ![w] = [q EXCEPT !.pc = "recon"]] /\ proc \in [Worker -> Process]
      BY <2>10 DEF PutResponseLost, Becomes, IInv, TypeOK
    <3>4. Mutating' = {}
      BY <3>1, <3>2, <3>3 DEF Mutating
    <3>5. lease'.owner \in Worker \cup {Nobody}
      BY DEF IInv, TypeOK, LeaseObject
    <3>6. QED
      BY <3>1, <3>4, <3>5 DEF Mutex!Next, Mutex!ChangeHands, Mutating
  <2>11. QED
    BY <1>6, <2>3, <2>4, <2>5, <2>6, <2>7, <2>8, <2>9, <2>10 DEF Progress, Get, Put
<1>7. ASSUME NEW r \in late, Land(r)
      PROVE  [Mutex!Next]_<<lease.owner, Mutating>>
  <2>1. Mutating' = Mutating
    BY <1>7 DEF Land, Mutating
  <2>2. Mutating = {} \/ lease' = lease
    BY <1>7, LandingDisplacesNobody DEF Land, Mutating
  <2>3. lease'.owner \in Worker \cup {Nobody}
    BY DEF IInv, TypeOK, LeaseObject
  <2>4. QED
    BY <2>1, <2>2, <2>3 DEF Mutex!Next, Mutex!ChangeHands, Mutating
<1>8. CASE UNCHANGED <<lease, proc>>
  BY <1>8 DEF Mutating
<1>9. QED
  BY <1>6, <1>7, <1>8 DEF Next, Complete, Rerun, Tick, vars

\* The lease protocol implements the abstract lease: no clock, lost response,
\* late write, crash or takeover shows through it.
THEOREM Refinement == ASSUME Fenced PROVE Spec => ImplementsMutex
<1>1. Init => Mutex!Init
  BY DEF Init, Mutex!Init, Absent, Idle
<1>2. IInv /\ IInv' /\ [Next]_vars =>
        [Mutex!Next]_<<lease.owner, {w \in Worker : proc[w].pc = "mutate"}>>
  BY MutexStep DEF Mutating
<1>3. QED
  BY <1>1, <1>2, Invariant, PTL DEF Spec, ImplementsMutex, Mutex!Spec

-----------------------------------------------------------------------------
(* How the lease changes hands, and how a mutation starts.                 *)

\* A renewal in flight renews the worker's own lease.
Renewing(w, p) ==
  /\ p.pc = "prove" => p.op = "acquire"
  /\ p.pc \in {"put", "recon"} /\ p.op = "renew" => p.req.new.owner = w

\* Where a step of a worker may lead.
LEMMA WorkerMoves ==
  ASSUME TypeOK, NEW w \in Worker, Renewing(w, proc[w]), StartJob(w) \/ Progress(w) \/ Die(w)
  PROVE  \E p \in Process :
           /\ Becomes(w, p) /\ p.pc # "idle" /\ Renewing(w, p)
           /\ p.pc = "mutate" => p.handle = lease' /\ p.handle.owner = w
<1> DEFINE q == proc[w]
           Good(p) == /\ p \in Process /\ p.pc # "idle" /\ Renewing(w, p)
                      /\ p.pc = "mutate" => p.handle = lease' /\ p.handle.owner = w
<1>1. q \in Process
  BY DEF TypeOK
<1>2. Good(Ended)
  BY ProcessTypes DEF Ended, Idle, Renewing
<1>3. \A m \in {"acquire", "assert", "renew", "release"} : Good(Called(w, m))
  <2>1. ASSUME NEW m \in {"acquire", "assert", "renew", "release"}
        PROVE  Good(Called(w, m))
    <3>1. Called(w, m) \in Process
      BY ProcessTypes
    <3>2. Called(w, m).pc = "get"
      BY <1>1 DEF Called, Process
    <3>3. QED
      BY <3>1, <3>2 DEF Renewing
  <2>2. QED
    BY <2>1
<1>4. Good(Raised(w))
  BY <1>2, <1>3 DEF Raised
<1>5. \A r \in LeaseObject : Good(Holding(w, r, "hold"))
  <2>1. ASSUME NEW r \in LeaseObject
        PROVE  Good(Holding(w, r, "hold"))
    <3>1. Holding(w, r, "hold") \in Process
      BY ProcessTypes
    <3>2. Holding(w, r, "hold").pc = "hold"
      BY <1>1 DEF Holding, Process
    <3>3. QED
      BY <3>1, <3>2 DEF Renewing
  <2>2. QED
    BY <2>1
<1>6. /\ q.req \in Write /\ q.req.new \in LeaseObject /\ q.req.expect \in LeaseObject
      /\ q.handle \in LeaseObject /\ q.clk \in Nat /\ lease \in LeaseObject
  BY <1>1 DEF TypeOK, Process, Write
<1>7. ASSUME PutAccepted(w) \/ Reconcile(w), lease' = q.req.new, NEW p \in Returned(w)
      PROVE  Good(p)
  <2>1. q.pc \in {"put", "recon"}
    BY <1>7 DEF PutAccepted, Reconcile, Wins
  <2>2. CASE q.op \notin {"acquire", "renew"}
    BY <1>2, <1>7, <2>2 DEF Returned
  <2>3. CASE p = Holding(w, q.req.new, "hold")
    BY <1>5, <1>6, <2>3
  <2>4. CASE q.op = "renew" /\ p = Holding(w, q.req.new, "mutate")
    <3>1. p \in Process
      BY <1>6, <2>4, ProcessTypes
    <3>2. p.pc = "mutate" /\ p.handle = q.req.new
      BY <1>1, <2>4 DEF Holding, Process
    <3>3. q.req.new.owner = w
      BY <2>1, <2>4 DEF Renewing
    <3>4. QED
      BY <1>7, <3>1, <3>2, <3>3 DEF Renewing
  <2>5. QED
    BY <1>7, <2>2, <2>3, <2>4 DEF Returned
<1>8. ASSUME NEW e \in LeaseObject, NEW s \in {"prove", "put"}, s = "prove" => q.op = "acquire"
      PROVE  Good(Sending(w, e, Renewed(w), s))
  <2>1. Sending(w, e, Renewed(w), s) \in Process
    BY ProcessTypes
  <2>2. /\ Sending(w, e, Renewed(w), s).pc = s
        /\ Sending(w, e, Renewed(w), s).op = q.op
        /\ Sending(w, e, Renewed(w), s).req.new = Renewed(w)
    BY <1>1 DEF Sending, Process
  <2>3. Renewed(w).owner = w
    BY DEF Renewed, Held
  <2>4. QED
    BY <1>8, <2>1, <2>2, <2>3 DEF Renewing
<1>9. \E p : Becomes(w, p) /\ Good(p)
  <2>1. CASE StartJob(w)
    <3> DEFINE p == [Called(w, "acquire") EXCEPT !.since = IF WaitOf[w] > 0 THEN now ELSE 0]
    <3>1. Called(w, "acquire") \in Process /\ now \in Nat
      BY ProcessTypes DEF TypeOK
    <3>2. Called(w, "acquire").pc = "get"
      BY <1>1 DEF Called, Process
    <3>3. p \in Process /\ p.pc = "get"
      BY <3>1, <3>2 DEF Process
    <3>4. Good(p)
      BY <3>3 DEF Renewing
    <3>5. QED
      BY <2>1, <3>4 DEF StartJob
  <2>2. CASE Checkpoint(w)
    <3> DEFINE p == [q EXCEPT !.pc = "get", !.op = "assert", !.left = @ - 1]
    <3>1. q.left - 1 \in Nat
      BY <1>1, <2>2 DEF Checkpoint, Process
    <3>2. p \in Process /\ p.pc = "get"
      BY <1>1, <3>1 DEF Process
    <3>3. Good(p)
      BY <3>2 DEF Renewing
    <3>4. QED
      BY <2>2, <3>3 DEF Checkpoint
  <2>3. CASE Finish(w) \/ MutationFails(w) \/ Poll(w)
    BY <1>3, <2>3 DEF Finish, MutationFails, Poll
  <2>4. CASE Mutated(w)
    BY <1>5, <1>6, <2>4 DEF Mutated
  <2>5. CASE GetFails(w) \/ PutRefused(w)
    BY <1>4, <2>5 DEF GetFails, PutRefused
  <2>6. CASE GetForAcquire(w)
    BY <1>2, <1>5, <1>6, <1>8, <2>6 DEF GetForAcquire
  <2>7. CASE GetForAssert(w)
    BY <1>3, <1>4, <2>7 DEF GetForAssert
  <2>8. CASE GetForRenew(w)
    BY <1>4, <1>6, <1>8, <2>8 DEF GetForRenew
  <2>9. CASE GetForRelease(w)
    <3>1. CASE Becomes(w, Sending(w, q.handle, Free(q.clk), "put"))
      <4> DEFINE p == Sending(w, q.handle, Free(q.clk), "put")
      <4>1. p \in Process
        BY <1>6, ProcessTypes, ObjectTypes
      <4>2. p.pc = "put" /\ p.op = "release"
        BY <1>1, <2>9 DEF Sending, Process, GetForRelease
      <4>3. QED
        BY <3>1, <4>1, <4>2 DEF Renewing
    <3>2. QED
      BY <1>4, <2>9, <3>1 DEF GetForRelease
  <2>10. CASE Takeover(w)
    <3> DEFINE p == [q EXCEPT !.pc = "put"]
    <3>1. p \in Process /\ p.pc = "put" /\ p.op = "acquire"
      BY <1>1, <2>10 DEF Process, Renewing, Takeover
    <3>2. Good(p)
      BY <3>1 DEF Renewing
    <3>3. QED
      BY <2>10, <3>2 DEF Takeover
  <2>11. CASE Busy(w)
    <3> DEFINE p == [q EXCEPT !.pc = "wait", !.clk = 0, !.req = NoWrite]
    <3>1. p \in Process /\ p.pc = "wait"
      BY <1>1, ObjectTypes DEF Process
    <3>2. Good(p)
      BY <3>1 DEF Renewing
    <3>3. QED
      BY <1>2, <2>11, <3>2 DEF Busy
  <2>12. CASE PutAccepted(w)
    BY <1>7, <2>12 DEF PutAccepted
  <2>13. CASE Reconcile(w)
    <3>1. CASE Becomes(w, Raised(w))
      BY <1>4, <3>1
    <3>2. CASE lease = q.req.new /\ \E p \in Returned(w) : Becomes(w, p)
      <4>1. lease' = q.req.new
        BY <2>13, <3>2 DEF Reconcile, Local
      <4>2. QED
        BY <1>7, <2>13, <3>2, <4>1
    <3>3. QED
      BY <2>13, <3>1, <3>2 DEF Reconcile
  <2>14. CASE PutResponseLost(w) \/ PutTimesOut(w)
    <3> DEFINE p == [q EXCEPT !.pc = "recon"]
    <3>1. q.pc = "put" /\ Becomes(w, p)
      BY <2>14 DEF PutResponseLost, PutTimesOut, Wins
    <3>2. p \in Process /\ p.pc = "recon" /\ p.op = q.op /\ p.req = q.req
      BY <1>1 DEF Process
    <3>3. Good(p)
      BY <3>1, <3>2 DEF Renewing
    <3>4. QED
      BY <3>1, <3>3
  <2>15. CASE Die(w)
    BY <1>2, <2>15 DEF Die
  <2>16. QED
    BY <2>1, <2>2, <2>3, <2>4, <2>5, <2>6, <2>7, <2>8, <2>9, <2>10, <2>11, <2>12, <2>13,
       <2>14, <2>15 DEF Progress, Get, Put
<1>10. QED
  BY <1>9

LEMMA MovesStep ==
  ASSUME TypeOK, \A w \in Worker : Renewing(w, proc[w]), [Next]_vars, NEW w \in Worker
  PROVE  \/ proc'[w] = proc[w]
         \/ /\ proc'[w].pc # "idle" /\ Renewing(w, proc'[w])
            /\ proc'[w].pc = "mutate" => proc'[w].handle = lease' /\ proc'[w].handle.owner = w
<1>1. ASSUME NEW v \in Worker, StartJob(v) \/ Progress(v) \/ Die(v)
      PROVE  \/ proc'[w] = proc[w]
             \/ /\ proc'[w].pc # "idle" /\ Renewing(w, proc'[w])
                /\ proc'[w].pc = "mutate" => proc'[w].handle = lease' /\ proc'[w].handle.owner = w
  <2>1. PICK p \in Process :
               /\ Becomes(v, p) /\ p.pc # "idle" /\ Renewing(v, p)
               /\ p.pc = "mutate" => p.handle = lease' /\ p.handle.owner = v
    BY <1>1, WorkerMoves
  <2>2. proc'[w] = IF w = v THEN p ELSE proc[w]
    BY <2>1 DEF Becomes, TypeOK
  <2>3. QED
    BY <2>1, <2>2
<1>2. CASE UNCHANGED proc
  BY <1>2
<1>3. QED
  BY <1>1, <1>2 DEF Next, Land, Complete, Rerun, Tick, vars

\* A worker starts a mutation only in a moment it owns the lease, whatever GitHub
\* claims and however long steps take (the renewal of every checkpoint).
THEOREM MutationsStartOwned == Spec => MutationStartsOwned
<1> DEFINE Inv == TypeOK /\ \A w \in Worker : Renewing(w, proc[w])
<1>1. Init => Inv
  <2>1. ASSUME Init
        PROVE  \A w \in Worker : Renewing(w, proc[w])
    BY <2>1 DEF Init, Idle, Renewing
  <2>2. QED
    BY <2>1, InitIInv DEF IInv
<1>2. Inv /\ [Next]_vars => Inv'
  <2>1. ASSUME Inv, [Next]_vars, NEW w \in Worker
        PROVE  Renewing(w, proc'[w])
    BY <2>1, MovesStep
  <2>2. QED
    BY <2>1, TypeStep DEF Renewing
<1>3. ASSUME Inv, [Next]_vars, NEW w \in Worker, proc[w].pc # "mutate", proc'[w].pc = "mutate"
      PROVE  lease' = proc'[w].handle /\ lease'.owner = w
  BY <1>3, MovesStep
<1>4. Inv /\ [Next]_vars =>
        [\A w \in Worker :
           proc[w].pc # "mutate" /\ proc'[w].pc = "mutate" =>
             lease' = proc'[w].handle /\ lease'.owner = w]_vars
  BY <1>3
<1> HIDE DEF Inv
<1>5. QED
  BY <1>1, <1>2, <1>4, PTL DEF Spec, MutationStartsOwned

\* A worker that never started owns nothing and sent nothing.
Unstarted ==
  \A w \in Worker : proc[w].pc = "idle" =>
    lease.owner # w /\ \A r \in late : r.from # w

\* The lease changes by a conditional write, on time or late.
LEMMA LeaseMoves ==
  ASSUME [Next]_vars
  PROVE  /\ \/ lease' = lease
            \/ \E w \in Worker : Wins(w) /\ lease' = proc[w].req.new
            \/ \E r \in late : lease = r.expect /\ lease' = r.new
         /\ \A r \in late' : r \in late \/ \E w \in Worker : proc[w].pc = "put" /\ r = proc[w].req
<1>1. ASSUME NEW w \in Worker, StartJob(w) \/ Progress(w) \/ Die(w)
      PROVE  /\ lease' = lease \/ (Wins(w) /\ lease' = proc[w].req.new)
             /\ late' = late \/ (proc[w].pc = "put" /\ late' = late \cup {proc[w].req})
  <2>1. CASE PutAccepted(w) \/ PutResponseLost(w)
    BY <2>1 DEF PutAccepted, PutResponseLost
  <2>2. CASE PutTimesOut(w) \/ Die(w)
    BY <2>2 DEF PutTimesOut, Die
  <2>3. CASE \/ StartJob(w) \/ Checkpoint(w) \/ Finish(w) \/ Mutated(w) \/ MutationFails(w)
             \/ Get(w) \/ Takeover(w) \/ Busy(w) \/ Poll(w) \/ PutRefused(w) \/ Reconcile(w)
    <3>1. Local
      BY <2>3 DEF StartJob, Checkpoint, Finish, Mutated, MutationFails, Get, GetFails,
           GetForAcquire, GetForAssert, GetForRenew, GetForRelease, Takeover, Busy, Poll,
           PutRefused, Reconcile
    <3>2. QED
      BY <3>1 DEF Local
  <2>4. QED
    BY <1>1, <2>1, <2>2, <2>3 DEF Progress, Put
<1>2. ASSUME NEW r \in late, Land(r)
      PROVE  /\ lease' = lease \/ (lease = r.expect /\ lease' = r.new)
             /\ late' \subseteq late
  BY <1>2 DEF Land
<1>3. CASE UNCHANGED <<lease, late>>
  BY <1>3
<1>4. QED
  BY <1>1, <1>2, <1>3 DEF Next, Complete, Rerun, Tick, vars

\* What wins or lands was sent by a worker, and writes that worker's name or none.
LEMMA Senders ==
  ASSUME IInv, [Next]_vars
  PROVE  /\ lease' = lease \/ \E r \in Write :
              /\ r \in late \/ \E w \in Worker : proc[w].pc = "put" /\ r = proc[w].req
              /\ GoodWrite(r) /\ lease = r.expect /\ lease' = r.new
              /\ r.new.owner \in {r.from, Nobody}
              /\ r.new.owner = Nobody /\ lease.owner = r.from =>
                   proc[r.from].op = "release" \/ proc[r.from].pc = "ended"
         /\ \A w \in Worker : proc[w].pc = "put" => proc[w].req.from = w
<1>1. \A w \in Worker : proc[w] \in Process /\ WorkerInv(w, proc[w], lease, late)
  BY DEF IInv, TypeOK
<1>2. \A w \in Worker : proc[w].pc = "put" =>
        /\ proc[w].req.from = w /\ GoodWrite(proc[w].req) /\ proc[w].req \in Write
        /\ proc[w].op = "release" \/ proc[w].req.new.owner = w
  <2>1. ASSUME NEW w \in Worker, proc[w].pc = "put"
        PROVE  proc[w].op = "release" \/ proc[w].req.new.owner = w
    <3>1. proc[w].op \in {"acquire", "renew", "release"}
      BY <1>1, <2>1 DEF WorkerInv, Process
    <3>2. proc[w].op # "release" => proc[w].req.new = Held(w, proc[w].clk + TTL)
      BY <1>1, <2>1, <3>1 DEF WorkerInv
    <3>3. QED
      BY <3>2 DEF Held
  <2>2. QED
    BY <1>1, <2>1 DEF WorkerInv, Process
<1>3. ASSUME NEW r \in Write, GoodWrite(r)
      PROVE  r.new.owner \in {r.from, Nobody} /\ (r.new.owner = Nobody => r.new.status # "held")
  BY <1>3, ConstantsAssumption DEF GoodWrite, WellFormed
<1>4. CASE \E w \in Worker : Wins(w) /\ lease' = proc[w].req.new
  <2>1. PICK w \in Worker : Wins(w) /\ lease' = proc[w].req.new
    BY <1>4
  <2>2. proc[w].pc = "put" /\ lease = proc[w].req.expect
    BY <2>1 DEF Wins
  <2>3. QED
    BY <1>2, <1>3, <2>1, <2>2, ConstantsAssumption
<1>5. CASE \E r \in late : lease = r.expect /\ lease' = r.new
  <2>1. PICK r \in late : lease = r.expect /\ lease' = r.new
    BY <1>5
  <2>2. r \in Write /\ GoodWrite(r) /\ r.from \in Worker
    BY DEF IInv, TypeOK, GoodWrite
  <2>3. r.new.status # "held" => proc[r.from].op = "release" \/ proc[r.from].pc = "ended"
    BY <1>1, <2>2 DEF WorkerInv
  <2>4. QED
    BY <1>2, <1>3, <2>1, <2>2, <2>3
<1>6. QED
  BY <1>2, <1>4, <1>5, LeaseMoves

\* If GitHub's terminal proof is sound, a held lease passes to another worker
\* only after its holder's process has ended and its grace is over, and is freed
\* only by its holder (LeaseManager.acquire and release, late writes included).
THEOREM EvictionsAreStale ==
  ASSUME ProofSound
  PROVE  Spec => EvictionIsStale
<1> DEFINE Inv == IInv /\ Unstarted
<1>1. Fenced
  BY DEF Fenced
<1>2. Init => Inv
  <2>1. ASSUME Init
        PROVE  Unstarted
    BY <2>1, ConstantsAssumption DEF Init, Unstarted, Absent
  <2>2. QED
    BY <2>1, InitIInv
<1>3. ASSUME Inv, [Next]_vars
      PROVE  Inv'
  <2>1. IInv'
    BY <1>1, <1>3, IInvStep
  <2>2. \A w \in Worker : Renewing(w, proc[w])
    <3>1. ASSUME NEW w \in Worker
          PROVE  Renewing(w, proc[w])
      <4>1. WorkerInv(w, proc[w], lease, late)
        BY <1>3 DEF IInv
      <4>2. QED
        BY <4>1 DEF WorkerInv, Renewing, Held
    <3>2. QED
      BY <3>1
  <2>3. ASSUME NEW w \in Worker, proc'[w].pc = "idle"
        PROVE  lease'.owner # w /\ \A r \in late' : r.from # w
    <3>1. proc[w].pc = "idle"
      BY <1>3, <2>2, <2>3, MovesStep DEF IInv
    <3>2. lease.owner # w /\ \A r \in late : r.from # w
      BY <1>3, <3>1 DEF Unstarted
    <3>3. \A v \in Worker : proc[v].pc = "put" => proc[v].req.from = v /\ v # w
      BY <1>3, <3>1, Senders
    <3>4. \A r \in late' : r.from # w
      BY <1>3, <3>2, <3>3, LeaseMoves
    <3>5. lease'.owner # w
      BY <1>3, <3>2, <3>3, Senders, ConstantsAssumption
    <3>6. QED
      BY <3>4, <3>5
  <2>4. QED
    BY <2>1, <2>3 DEF Unstarted
<1>4. ASSUME Inv, [Next]_vars, NEW w \in Worker, lease.owner = w, lease'.owner # w
      PROVE  \/ lease'.owner = Nobody /\ (proc[w].op = "release" \/ proc[w].pc = "ended")
             \/ /\ lease'.owner # Nobody
                /\ proc[w].pc = "ended"
                /\ lease.at + Grace <= now + skew[lease'.owner]
  <2>1. PICK r \in Write :
               /\ GoodWrite(r) /\ lease = r.expect /\ lease' = r.new
               /\ r.new.owner \in {r.from, Nobody}
               /\ r.new.owner = Nobody /\ lease.owner = r.from =>
                    proc[r.from].op = "release" \/ proc[r.from].pc = "ended"
    BY <1>4, Senders
  <2>2. lease.status = "held"
    BY <1>4, ConstantsAssumption DEF IInv, WellFormed
  <2>3. CASE lease.owner = r.from
    BY <1>4, <2>1, <2>3
  <2>4. CASE lease.owner # r.from
    <3>1. Evidence(r.from, lease)
      BY <2>1, <2>2, <2>4 DEF GoodWrite
    <3>2. proc[w].pc = "ended"
      BY <1>4, <3>1 DEF Evidence, Over, Unstarted
    <3>3. lease.at + Grace <= now + skew[r.from]
      <4>1. r.from \in Worker /\ lease.at \in Nat /\ now \in Nat /\ skew[r.from] \in Nat
        BY <1>4, <2>1, ConstantsAssumption DEF GoodWrite, IInv, TypeOK, LeaseObject
      <4>2. QED
        BY <3>1, <4>1, ConstantsAssumption DEF Evidence, Clock
    <3>4. QED
      BY <1>4, <2>1, <3>2, <3>3
  <2>5. QED
    BY <2>3, <2>4
<1>5. Inv /\ [Next]_vars =>
        [\A w \in Worker :
           lease.owner = w /\ lease'.owner # w =>
             \/ lease'.owner = Nobody /\ (proc[w].op = "release" \/ proc[w].pc = "ended")
             \/ /\ lease'.owner # Nobody
                /\ proc[w].pc = "ended"
                /\ lease.at + Grace <= now + skew[lease'.owner]]_vars
  BY <1>4
<1>6. Inv /\ [Next]_vars => Inv'
  BY <1>3
<1> HIDE DEF Inv
<1>7. QED
  BY <1>2, <1>5, <1>6, PTL DEF Spec, EvictionIsStale
=============================================================================
