------------------------- MODULE PublicationProofs -------------------------
(***************************************************************************)
(* Proofs about Publication, for every set of publications and keys, any   *)
(* number of late writes and any failures, when no mutable key is written  *)
(* late under a later lease: what clients and controller see is complete,  *)
(* the commit follows its predecessor, only tombstones are deleted, and    *)
(* the protocol implements Repository.                                     *)
(*                                                                         *)
(* None of this is inductive.  It depends on what the job has placed when  *)
(* it comes to a phase (Ready), and on what each write in flight can still *)
(* do (LateInv): a mutable key is written as the job would have written    *)
(* it, and a deletion hits a tombstone of the state, which no publication  *)
(* that follows the state can have live.                                   *)
(***************************************************************************)
EXTENDS Publication, TLAPS

-----------------------------------------------------------------------------
(* The inductive invariant.  Its parts speak of slots sl, a pool po and    *)
(* records re, before or after a step; every step but Build leaves the     *)
(* manifests alone.                                                        *)

Holds(p, po) == \A k \in Live(p) : po[k] = manifest[p].live[k]

\* p is the state, or was built on it.
Bound(p, sl) ==
  p \in Pub /\ manifest[p].built /\ (sl["state"] = p \/ manifest[p].prev = sl["state"])

\* Which mutable objects are p's when the job for p is at pc.
Placed(pc, p, sl) ==
  /\ pc \in {"inrelease", "check", "conveniences", "state", "final", "gc"} => sl["release"] = p
  /\ pc \in {"check", "conveniences", "state", "final", "gc"} => sl["inrelease"] = p
  /\ pc \in {"state", "final", "gc"} => sl["conveniences"] = p
  /\ pc \in {"final", "gc"} => sl["state"] = p

Writing == {"release", "inrelease", "check", "conveniences", "state", "final", "gc"}

\* What holds when the job for p is at pc.
Ready(pc, p, sl, po, re) ==
  /\ Bound(p, sl)
  /\ pc \in Writing => Holds(p, po) /\ <<p, "transaction">> \in re /\ <<p, "manifest">> \in re
  /\ Placed(pc, p, sl)

Chain ==
  \A p \in Pub : manifest[p].built =>
    /\ Live(p) \cap Tombstones(p) = {}
    /\ manifest[p].prev # None =>
         /\ manifest[manifest[p].prev].built
         /\ Tombstones(manifest[p].prev) \subseteq Tombstones(p)

View(sl, po, re) ==
  /\ \A s \in Slot : sl[s] # None => manifest[sl[s]].built
  /\ Holds(sl["inrelease"], po)
  /\ sl["state"] # None =>
       /\ <<sl["state"], "manifest">> \in re
       /\ Holds(sl["state"], po)
       /\ \A s \in Slot : \/ sl[s] = sl["state"]
                          \/ sl[s] # None /\ manifest[sl[s]].prev = sl["state"]

JobInv(j, sl, po, re) ==
  /\ j.pc # "idle" => j.pub \in Pub /\ manifest[j.pub].built
  /\ j.pc \notin {"idle", "verify"} => Ready(j.pc, j.pub, sl, po, re)
  /\ j.pc # "idle" => j.gc \subseteq Tombstones(j.pub)
  /\ j.pc = "transaction" => j.todo = Live(j.pub) \cup {"manifest"}
  /\ j.pc = "immutable" =>
       /\ j.todo \subseteq Live(j.pub) \cup {"manifest"}
       /\ <<j.pub, "transaction">> \in re
       /\ "manifest" \notin j.todo => <<j.pub, "manifest">> \in re
       /\ \A k \in Live(j.pub) \ j.todo : po[k] = manifest[j.pub].live[k]

IsMutable(r) == "to" \in DOMAIN r

IsDelete(r) == "delete" \in DOMAIN r

LateInv(j, L, sl, po, re) ==
  /\ \A r \in L : IsMutable(r) => j.pc = "idle" /\ Ready(r.to, r.new, sl, po, re)
  /\ \A q, r \in L : IsMutable(q) /\ IsMutable(r) => q = r
  /\ \A r \in L : IsDelete(r) => r.delete \in Tombstones(sl["state"])

IInv ==
  /\ TypeOK /\ Chain
  /\ View(slot, pool, record)
  /\ JobInv(job, slot, pool, record)
  /\ LateInv(job, late, slot, pool, record)

-----------------------------------------------------------------------------
(* Types.                                                                  *)

\* What kind a write is shows in its fields.
LEMMA WriteKinds ==
  ASSUME NEW r \in Write
  PROVE  /\ IsMutable(r) => r.to \in Slot /\ r.new \in Pub
         /\ "create" \in DOMAIN r => r.create \in Key /\ r.bytes \in Pub
         /\ "sign" \in DOMAIN r => r.sign \in Record
         /\ IsDelete(r) => r.delete \in Key
         /\ IsMutable(r) => "create" \notin DOMAIN r /\ ~IsDelete(r) /\ "sign" \notin DOMAIN r
         /\ IsDelete(r) => "create" \notin DOMAIN r /\ "sign" \notin DOMAIN r
BY DEF Write, IsMutable, IsDelete

\* Slot names are phases.
LEMMA NoJobType == NoJob \in Job
BY DEF NoJob, Job

\* A build makes a manifest of its own publication only.
LEMMA BuildType ==
  ASSUME TypeOK, NEW p \in Pub, Build(p)
  PROVE  manifest' \in [Pub -> Manifest]
<1> USE ConstantsAssumption
<1> DEFINE m == slot["state"]
<1>1. m \in Pub \cup {None}
  BY DEF TypeOK, Slot
<1>2. Generation(m) \in Nat
  BY <1>1 DEF Generation, TypeOK, Manifest
<1>3. PICK retained \in SUBSET Live(m), fresh \in SUBSET NewKeys(m) :
        \E bytes \in [fresh -> Pub] :
          LET live == [k \in Key |-> IF k \in fresh THEN bytes[k]
                                     ELSE IF k \in retained THEN manifest[m].live[k]
                                     ELSE None]
          IN  manifest' = [manifest EXCEPT ![p] =
                [built |-> TRUE, gen |-> Generation(m), prev |-> m, live |-> live,
                 queue |-> Retired(m, live)]]
  BY DEF Build
<1>4. PICK bytes \in [fresh -> Pub] :
        LET live == [k \in Key |-> IF k \in fresh THEN bytes[k]
                                   ELSE IF k \in retained THEN manifest[m].live[k]
                                   ELSE None]
        IN  manifest' = [manifest EXCEPT ![p] =
              [built |-> TRUE, gen |-> Generation(m), prev |-> m, live |-> live,
               queue |-> Retired(m, live)]]
  BY <1>3
<1> DEFINE live == [k \in Key |-> IF k \in fresh THEN bytes[k]
                                  ELSE IF k \in retained THEN manifest[m].live[k]
                                  ELSE None]
<1>5. live \in [Key -> Bytes]
  <2>1. \A k \in retained : m \in Pub /\ k \in Key
    BY <1>1 DEF Live
  <2>2. \A k \in retained : manifest[m].live[k] \in Bytes
    BY <2>1 DEF TypeOK, Manifest
  <2>3. QED
    BY <2>2 DEF Bytes
<1>6. Retired(m, live) \in [Key -> Bytes]
  <2>1. CASE m = None
    BY <2>1 DEF Retired, Bytes
  <2>2. CASE m \in Pub
    <3>1. manifest[m].queue \in [Key -> Bytes] /\ manifest[m].live \in [Key -> Bytes]
      BY <2>2 DEF TypeOK, Manifest
    <3>2. QED
      BY <3>1 DEF Retired, Bytes
  <2>3. QED
    BY <1>1, <2>1, <2>2
<1>7. [built |-> TRUE, gen |-> Generation(m), prev |-> m, live |-> live,
       queue |-> Retired(m, live)] \in Manifest
  BY <1>1, <1>2, <1>5, <1>6 DEF Manifest
<1>8. QED
  BY <1>4, <1>7 DEF TypeOK

\* What a step sends late is a write.
LEMMA SentType ==
  ASSUME TypeOK, IInv, NEW r \in Sent
  PROVE  r \in Write
<1>1. job \in Job
  BY DEF TypeOK
<1>2. job.pc # "idle" => job.pub \in Pub
  BY DEF IInv, JobInv
<1>3. CASE job.pc \in Slot /\ slot[job.pc] # job.pub
  <2>1. job.pc # "idle"
    BY <1>3 DEF Slot
  <2>2. r = [to |-> job.pc, expect |-> job.pre[job.pc], new |-> job.pub]
    BY <1>3 DEF Sent, Slot
  <2>3. job.pre[job.pc] \in Pub \cup {None}
    BY <1>1, <1>3 DEF Job
  <2>4. QED
    BY <1>2, <1>3, <2>1, <2>2, <2>3 DEF Write
<1>4. CASE job.pc = "transaction"
  <2>1. r = [sign |-> <<job.pub, "transaction">>]
    BY <1>4 DEF Sent, Slot
  <2>2. QED
    BY <1>2, <1>4, <2>1 DEF Write, Record
<1>5. CASE job.pc = "immutable"
  <2>1. \/ \E k \in job.todo \cap Key : r = [create |-> k, bytes |-> manifest[job.pub].live[k]]
        \/ \E i \in job.todo \ Key : r = [sign |-> <<job.pub, i>>]
    BY <1>5 DEF Sent, Slot
  <2>2. CASE \E k \in job.todo \cap Key :
               r = [create |-> k, bytes |-> manifest[job.pub].live[k]]
    <3>1. PICK k \in job.todo \cap Key :
                 r = [create |-> k, bytes |-> manifest[job.pub].live[k]]
      BY <2>2
    <3>2. job.todo \subseteq Live(job.pub) \cup {"manifest"}
      BY <1>5 DEF IInv, JobInv
    <3>3. k \in Live(job.pub)
      BY <3>1, <3>2, ConstantsAssumption
    <3>4. manifest[job.pub].live[k] \in Pub
      BY <1>2, <1>5, <3>3, ConstantsAssumption DEF Live, TypeOK, Manifest, Bytes
    <3>5. QED
      BY <3>1, <3>4 DEF Write
  <2>3. CASE \E i \in job.todo \ Key : r = [sign |-> <<job.pub, i>>]
    <3>1. PICK i \in job.todo \ Key : r = [sign |-> <<job.pub, i>>]
      BY <2>3
    <3>2. i = "manifest"
      BY <1>1, <3>1 DEF Job
    <3>3. QED
      BY <1>2, <1>5, <3>1, <3>2 DEF Write, Record
  <2>4. QED
    BY <2>1, <2>2, <2>3
<1>6. CASE job.pc = "gc"
  <2>1. PICK k \in job.gc : r = [delete |-> k]
    BY <1>6 DEF Sent, Slot
  <2>2. QED
    BY <1>1, <2>1 DEF Write, Job
<1>7. QED
  BY <1>3, <1>4, <1>5, <1>6 DEF Sent

\* The types are kept by every step.
LEMMA TypeStep ==
  ASSUME IInv, [Next]_vars
  PROVE  TypeOK'
<1> USE ConstantsAssumption
<1>1. TypeOK /\ JobInv(job, slot, pool, record)
  BY DEF IInv
<1>2. job \in Job /\ (job.pc # "idle" => job.pub \in Pub)
  BY <1>1 DEF TypeOK, JobInv
<1>3. NoJob \in Job
  BY NoJobType
<1>4. ASSUME NEW p \in Pub, Build(p)
      PROVE  TypeOK'
  <2>1. manifest' \in [Pub -> Manifest]
    BY <1>1, <1>4, BuildType
  <2>2. UNCHANGED <<slot, record, pool, late, job, calm>>
    BY <1>4 DEF Build
  <2>3. QED
    BY <1>1, <2>1, <2>2 DEF TypeOK
<1>5. ASSUME NEW p \in Pub, Start(p)
      PROVE  TypeOK'
  <2>1. job' \in Job
    BY <1>3, <1>5 DEF Start, Job
  <2>2. QED
    BY <1>1, <1>5, <2>1 DEF Start, TypeOK
<1>6. CASE VerifyGeneration
  <2>1. job' \in Job
    BY <1>2, <1>3, <1>6 DEF VerifyGeneration, Stops, Job
  <2>2. QED
    BY <1>1, <1>6, <2>1 DEF VerifyGeneration, TypeOK
<1>7. CASE Plan
  <2> DEFINE targets == Targets(job.pub)
             todo    == Live(job.pub) \cup {"manifest"}
  <2>1. targets \in SUBSET Key /\ todo \in SUBSET (Key \cup {"manifest"})
    BY DEF Targets, Tombstones, Live
  <2>2. slot \in [Slot -> Pub \cup {None}]
    BY <1>1 DEF TypeOK
  <2>3. job' = NoJob \/ job' = [job EXCEPT !.pc = "transaction", !.pre = slot, !.gc = targets,
                                          !.todo = todo]
    BY <1>7 DEF Plan, Stops
  <2> HIDE DEF targets, todo
  <2>4. job' \in Job
    BY <1>2, <1>3, <2>1, <2>2, <2>3 DEF Job
  <2>5. QED
    BY <1>1, <1>7, <2>4 DEF Plan, TypeOK
<1>8. CASE CreateTransaction
  <2>1. job' \in Job
    BY <1>2, <1>8 DEF CreateTransaction, Job
  <2>2. record' \subseteq Record
    BY <1>1, <1>2, <1>8 DEF CreateTransaction, TypeOK, Record
  <2>3. QED
    BY <1>1, <1>8, <2>1, <2>2 DEF CreateTransaction, TypeOK
<1>9. ASSUME NEW i \in Key \cup {"manifest"}, CreateImmutable(i)
      PROVE  TypeOK'
  <2>1. job' \in Job
    <3>1. \/ job' = NoJob
          \/ \E n \in {"release", "immutable"} : job' = [job EXCEPT !.todo = @ \ {i}, !.pc = n]
      BY <1>9 DEF CreateImmutable, Created, Stops
    <3>2. ASSUME NEW n \in {"release", "immutable"}
          PROVE  [job EXCEPT !.todo = @ \ {i}, !.pc = n] \in Job
      <4> DEFINE rest == job.todo \ {i}
      <4>1. rest \in SUBSET (Key \cup {"manifest"})
        BY <1>2 DEF Job
      <4> HIDE DEF rest
      <4>2. [job EXCEPT !.todo = rest, !.pc = n] \in Job
        BY <1>2, <4>1 DEF Job
      <4>3. QED
        BY <4>2 DEF rest
    <3>3. QED
      BY <1>3, <3>1, <3>2
  <2>2. record' \subseteq Record
    BY <1>1, <1>2, <1>9 DEF CreateImmutable, TypeOK, Record
  <2>3. manifest[job.pub].live \in [Key -> Bytes]
    BY <1>1, <1>2, <1>9 DEF CreateImmutable, TypeOK, Manifest
  <2>4. pool' \in [Key -> Bytes]
    BY <1>1, <1>9, <2>3 DEF CreateImmutable, TypeOK
  <2>5. QED
    BY <1>1, <1>9, <2>1, <2>2, <2>4 DEF CreateImmutable, TypeOK
<1>10. ASSUME NEW s \in Slot, PutMutable(s)
       PROVE  TypeOK'
  <2>1. job' \in Job
    BY <1>2, <1>3, <1>10 DEF PutMutable, Stops, Job, After, Slot
  <2>2. job.pc # "idle"
    BY <1>10 DEF PutMutable, Slot
  <2>3. slot' \in [Slot -> Pub \cup {None}]
    BY <1>1, <1>2, <1>10, <2>2 DEF PutMutable, TypeOK
  <2>4. QED
    BY <1>1, <1>10, <2>1, <2>3 DEF PutMutable, TypeOK
<1>11. CASE VerifyObjects
  <2>1. job' \in Job
    BY <1>2, <1>3, <1>11 DEF VerifyObjects, Stops, Job, After
  <2>2. QED
    BY <1>1, <1>11, <2>1 DEF VerifyObjects, TypeOK
<1>12. CASE VerifyView
  <2>1. job' \in Job
    BY <1>2, <1>3, <1>12 DEF VerifyView, Stops, Job
  <2>2. QED
    BY <1>1, <1>12, <2>1 DEF VerifyView, TypeOK
<1>13. ASSUME NEW k \in Key, Collect(k)
       PROVE  TypeOK'
  <2>1. job' \in Job
    BY <1>2, <1>3, <1>13 DEF Collect, Stops, Job
  <2>2. pool' \in [Key -> Bytes]
    BY <1>1, <1>13 DEF Collect, TypeOK, Bytes
  <2>3. QED
    BY <1>1, <1>13, <2>1, <2>2 DEF Collect, TypeOK
<1>14. CASE Finish \/ Fail
  BY <1>1, <1>3, <1>14 DEF Finish, Fail, Stops, TypeOK
<1>15. CASE TimeOut
  BY <1>1, <1>3, <1>15, SentType DEF TimeOut, Stops, TypeOK
<1>16. ASSUME NEW r \in late, Land(r)
       PROVE  TypeOK'
  <2>1. r \in Write
    BY <1>1 DEF TypeOK
  <2>2. slot' \in [Slot -> Pub \cup {None}]
    BY <1>1, <1>16, <2>1, WriteKinds DEF Land, TypeOK, IsMutable
  <2>3. pool' \in [Key -> Bytes]
    BY <1>1, <1>16, <2>1, WriteKinds DEF Land, TypeOK, IsDelete, Bytes
  <2>4. record' \subseteq Record
    BY <1>1, <1>16, <2>1, WriteKinds DEF Land, TypeOK
  <2>5. QED
    BY <1>1, <1>16, <2>2, <2>3, <2>4 DEF Land, TypeOK
<1>17. ASSUME NEW r \in late, Vanish(r)
       PROVE  TypeOK'
  BY <1>1, <1>17 DEF Vanish, TypeOK
<1>18. CASE Calm
  BY <1>1, <1>18 DEF Calm, TypeOK
<1>19. CASE UNCHANGED vars
  BY <1>1, <1>19 DEF vars, TypeOK
<1>20. QED
  BY <1>4, <1>5, <1>6, <1>7, <1>8, <1>9, <1>10, <1>11, <1>12, <1>13, <1>14, <1>15, <1>16,
     <1>17, <1>18, <1>19 DEF Next, Progress

-----------------------------------------------------------------------------
(* What a change of the stored objects cannot harm.                        *)

\* A tombstone of the state is live nowhere: not for clients or the controller, nor in
\* a publication that is the state or follows it.
LEMMA Harmless ==
  ASSUME TypeOK, Chain, View(slot, pool, record), NEW k \in Tombstones(slot["state"])
  PROVE  /\ k \notin Live(slot["inrelease"]) /\ k \notin Live(slot["state"])
         /\ \A p : Bound(p, slot) => k \notin Live(p)
<1> USE ConstantsAssumption
<1> DEFINE m == slot["state"]
<1>1. m \in Pub /\ manifest[m].built
  <2>1. m # None
    BY DEF Tombstones
  <2>2. QED
    BY <2>1 DEF TypeOK, View, Slot
<1>2. k \notin Live(m)
  BY <1>1 DEF Chain
<1>3. ASSUME NEW p \in Pub, manifest[p].built, p = m \/ manifest[p].prev = m
      PROVE  k \notin Live(p)
  BY <1>1, <1>2, <1>3 DEF Chain
<1>4. slot["inrelease"] \in Pub /\ manifest[slot["inrelease"]].built
  BY <1>1 DEF View, TypeOK, Slot
<1>5. slot["inrelease"] = m \/ manifest[slot["inrelease"]].prev = m
  BY <1>1 DEF View, Slot
<1>6. QED
  BY <1>2, <1>3, <1>4, <1>5 DEF Bound

\* Objects are created, and tombstones of the state deleted.
PoolChange(po) ==
  \A k \in Key : po[k] = pool[k] \/ pool[k] = None \/ k \in Tombstones(slot["state"])

LEMMA HoldsKept ==
  ASSUME TypeOK, Chain, View(slot, pool, record), NEW po, PoolChange(po),
         NEW p \in Pub \cup {None},
         Bound(p, slot) \/ p \in {slot["inrelease"], slot["state"]},
         NEW k \in Live(p), pool[k] = manifest[p].live[k]
  PROVE  po[k] = manifest[p].live[k]
<1>1. k \in Key /\ manifest[p].live[k] # None
  BY DEF Live
<1>2. k \notin Tombstones(slot["state"])
  BY Harmless
<1>3. QED
  BY <1>1, <1>2 DEF PoolChange

LEMMA ReadyKept ==
  ASSUME TypeOK, Chain, View(slot, pool, record), NEW po, PoolChange(po),
         NEW re, record \subseteq re, NEW pc, NEW p, Ready(pc, p, slot, pool, record)
  PROVE  Ready(pc, p, slot, po, re)
<1>1. p \in Pub
  BY DEF Ready, Bound
<1>2. Holds(p, pool) => Holds(p, po)
  BY <1>1, HoldsKept DEF Holds, Ready
<1>3. QED
  BY <1>2 DEF Ready

LEMMA PoolKept ==
  ASSUME IInv, NEW po, PoolChange(po), NEW re, record \subseteq re
  PROVE  /\ View(slot, po, re)
         /\ JobInv(job, slot, po, re)
         /\ LateInv(job, late, slot, po, re)
<1>1. TypeOK /\ Chain /\ View(slot, pool, record)
  BY DEF IInv
<1>2. slot["inrelease"] \in Pub \cup {None} /\ slot["state"] \in Pub \cup {None}
  BY <1>1 DEF TypeOK, Slot
<1>3. View(slot, po, re)
  <2>1. Holds(slot["inrelease"], po)
    BY <1>1, <1>2, HoldsKept DEF View, Holds
  <2>2. slot["state"] # None => Holds(slot["state"], po)
    BY <1>1, <1>2, HoldsKept DEF View, Holds
  <2>3. QED
    BY <1>1, <2>1, <2>2 DEF View
<1>4. JobInv(job, slot, po, re)
  <2>1. JobInv(job, slot, pool, record)
    BY DEF IInv
  <2>2. job.pc \notin {"idle", "verify"} => Ready(job.pc, job.pub, slot, po, re)
    BY <1>1, <2>1, ReadyKept DEF JobInv
  <2>3. job.pc = "immutable" =>
          \A k \in Live(job.pub) \ job.todo : po[k] = manifest[job.pub].live[k]
    <3>1. job.pc = "immutable" => job.pub \in Pub /\ Bound(job.pub, slot)
      BY <2>1 DEF JobInv, Ready
    <3>2. QED
      BY <1>1, <2>1, <3>1, HoldsKept DEF JobInv
  <2>4. QED
    BY <2>1, <2>2, <2>3 DEF JobInv
<1>5. LateInv(job, late, slot, po, re)
  <2>1. LateInv(job, late, slot, pool, record)
    BY DEF IInv
  <2>2. \A r \in late : IsMutable(r) => Ready(r.to, r.new, slot, po, re)
    BY <1>1, <2>1, ReadyKept DEF LateInv
  <2>3. QED
    BY <2>1, <2>2 DEF LateInv
<1>6. QED
  BY <1>3, <1>4, <1>5

-----------------------------------------------------------------------------
(* What a write of a mutable key does.                                     *)

LEMMA SlotWritten ==
  ASSUME IInv, NEW s \in Slot, NEW p, Ready(s, p, slot, pool, record)
  PROVE  LET sl == [slot EXCEPT ![s] = p]
         IN  /\ View(sl, pool, record)
             /\ Ready(After[s], p, sl, pool, record)
             /\ Tombstones(slot["state"]) \subseteq Tombstones(sl["state"])
<1> USE ConstantsAssumption
<1> DEFINE sl == [slot EXCEPT ![s] = p]
<1>1. TypeOK /\ Chain /\ View(slot, pool, record)
  BY DEF IInv
<1>2. s \in {"release", "inrelease", "conveniences", "state"}
  BY DEF Slot
<1>3. /\ p \in Pub /\ manifest[p].built /\ p # None
      /\ slot["state"] = p \/ manifest[p].prev = slot["state"]
      /\ Holds(p, pool) /\ <<p, "transaction">> \in record /\ <<p, "manifest">> \in record
  BY <1>2 DEF Ready, Bound, Writing
<1>4. slot \in [Slot -> Pub \cup {None}]
  BY <1>1 DEF TypeOK
<1>5. \A t \in Slot : sl[t] = IF t = s THEN p ELSE slot[t]
  BY <1>4
<1>6. {"release", "inrelease", "conveniences", "state"} = Slot
  BY DEF Slot
<1>7. Placed(s, p, slot)
  BY DEF Ready
<1> HIDE DEF sl
<1>8. View(sl, pool, record)
  <2>1. \A t \in Slot : sl[t] # None => manifest[sl[t]].built
    BY <1>1, <1>3, <1>5 DEF View
  <2>2. Holds(sl["inrelease"], pool)
    BY <1>1, <1>3, <1>5, <1>6 DEF View
  <2>3. CASE s = "state"
    <3>1. \A t \in Slot : sl[t] = p
      BY <1>5, <1>6, <1>7, <2>3 DEF Placed
    <3>2. QED
      BY <1>3, <1>6, <2>1, <2>2, <3>1 DEF View
  <2>4. CASE s # "state"
    <3>1. sl["state"] = slot["state"]
      BY <1>5, <1>6, <2>4
    <3>2. \A t \in Slot : sl["state"] # None =>
            \/ sl[t] = sl["state"]
            \/ sl[t] # None /\ manifest[sl[t]].prev = sl["state"]
      <4>1. ASSUME NEW t \in Slot, t # s, slot["state"] # None
            PROVE  \/ slot[t] = slot["state"]
                   \/ slot[t] # None /\ manifest[slot[t]].prev = slot["state"]
        BY <1>1, <4>1 DEF View
      <4>2. sl[s] = p
        BY <1>5
      <4>3. QED
        BY <1>3, <1>5, <3>1, <4>1, <4>2
    <3>3. QED
      BY <1>1, <2>1, <2>2, <3>1, <3>2 DEF View
  <2>5. QED
    BY <2>3, <2>4
<1>9. Ready(After[s], p, sl, pool, record)
  <2>1. Bound(p, sl)
    BY <1>3, <1>5, <1>6 DEF Bound
  <2>2. Placed(After[s], p, sl)
    BY <1>2, <1>5, <1>6, <1>7 DEF Placed, After
  <2>3. QED
    BY <1>3, <2>1, <2>2 DEF Ready
<1>10. Tombstones(slot["state"]) \subseteq Tombstones(sl["state"])
  <2>1. CASE s # "state" \/ slot["state"] = p
    BY <1>5, <1>6, <2>1
  <2>2. CASE s = "state" /\ slot["state"] # p
    <3>1. sl["state"] = p /\ manifest[p].prev = slot["state"]
      BY <1>3, <1>5, <1>6, <2>2
    <3>2. CASE slot["state"] = None
      BY <3>2 DEF Tombstones
    <3>3. CASE slot["state"] # None
      BY <1>1, <1>3, <3>1, <3>3 DEF Chain
    <3>4. QED
      BY <3>2, <3>3
  <2>3. QED
    BY <2>1, <2>2
<1>11. QED
  BY <1>8, <1>9, <1>10 DEF sl

-----------------------------------------------------------------------------
(* The invariant is kept: frames, then one lemma per action.               *)

\* A step that builds nothing.
LEMMA Frame ==
  ASSUME IInv, [Next]_vars, manifest' = manifest,
         View(slot', pool', record'), JobInv(job', slot', pool', record'),
         LateInv(job', late', slot', pool', record')
  PROVE  IInv'
<1>1. TypeOK'
  BY TypeStep
<1>2. Chain'
  BY DEF IInv, Chain, Live, Tombstones
<1>3. View(slot, pool, record)'
  BY DEF View, Holds, Live
<1>4. JobInv(job, slot, pool, record)'
  BY DEF JobInv, Ready, Bound, Holds, Live, Tombstones
<1>5. LateInv(job, late, slot, pool, record)'
  BY DEF LateInv, Ready, Bound, Holds, Live, Tombstones
<1>6. QED
  BY <1>1, <1>2, <1>3, <1>4, <1>5 DEF IInv

LEMMA Idle ==
  ASSUME NEW sl, NEW po, NEW re
  PROVE  JobInv(NoJob, sl, po, re)
BY DEF JobInv, NoJob

\* While a job runs no mutable key is written late.
LEMMA NothingMutableLate ==
  ASSUME IInv, job.pc # "idle", NEW r \in late
  PROVE  ~IsMutable(r)
BY DEF IInv, LateInv

\* A step of a running job that writes no mutable key and sends nothing late.
LEMMA JobStep ==
  ASSUME IInv, [Next]_vars, job.pc # "idle", UNCHANGED <<manifest, slot, late>>,
         PoolChange(pool'), record \subseteq record', JobInv(job', slot, pool', record')
  PROVE  IInv'
<1>1. View(slot, pool', record') /\ LateInv(job, late, slot, pool', record')
  BY PoolKept
<1>2. LateInv(job', late, slot, pool', record')
  BY <1>1 DEF LateInv
<1>3. QED
  BY <1>1, <1>2, Frame

LEMMA Unchanged == PoolChange(pool)
BY DEF PoolChange

LEMMA BuildStep ==
  ASSUME IInv, NEW p \in Pub, Build(p)
  PROVE  IInv'
<1> USE ConstantsAssumption
<1> DEFINE m == slot["state"]
<1>1. TypeOK /\ Chain /\ View(slot, pool, record) /\ JobInv(job, slot, pool, record)
      /\ LateInv(job, late, slot, pool, record)
  BY DEF IInv
<1>2. TypeOK'
  BY <1>1, TypeStep DEF Next
<1>3. /\ ~manifest[p].built
      /\ UNCHANGED <<slot, record, pool, late, job, calm>>
  BY DEF Build
<1>4. PICK retained \in SUBSET Live(m), fresh \in SUBSET NewKeys(m) :
        \E bytes \in [fresh -> Pub] :
          LET live == [k \in Key |-> IF k \in fresh THEN bytes[k]
                                     ELSE IF k \in retained THEN manifest[m].live[k]
                                     ELSE None]
          IN  manifest' = [manifest EXCEPT ![p] =
                [built |-> TRUE, gen |-> Generation(m), prev |-> m, live |-> live,
                 queue |-> Retired(m, live)]]
  BY DEF Build
<1>5. PICK bytes \in [fresh -> Pub] :
        LET live == [k \in Key |-> IF k \in fresh THEN bytes[k]
                                   ELSE IF k \in retained THEN manifest[m].live[k]
                                   ELSE None]
        IN  manifest' = [manifest EXCEPT ![p] =
              [built |-> TRUE, gen |-> Generation(m), prev |-> m, live |-> live,
               queue |-> Retired(m, live)]]
  BY <1>4
<1> DEFINE live == [k \in Key |-> IF k \in fresh THEN bytes[k]
                                  ELSE IF k \in retained THEN manifest[m].live[k]
                                  ELSE None]
<1>6. /\ \A q \in Pub \ {p} : manifest'[q] = manifest[q]
      /\ manifest'[p].built /\ manifest'[p].prev = m
      /\ manifest'[p].live = live /\ manifest'[p].queue = Retired(m, live)
  BY <1>1, <1>5 DEF TypeOK
<1>7. m \in Pub \cup {None} /\ (m # None => m # p /\ manifest[m].built)
  BY <1>1, <1>3 DEF TypeOK, View, Slot
<1>8. Chain'
  <2>1. ASSUME NEW q \in Pub, q # p, manifest'[q].built
        PROVE  /\ Live(q)' \cap Tombstones(q)' = {}
               /\ manifest'[q].prev # None =>
                    /\ manifest'[manifest'[q].prev].built
                    /\ Tombstones(manifest[q].prev)' \subseteq Tombstones(q)'
    <3>1. manifest'[q] = manifest[q] /\ manifest[q].prev \in Pub \cup {None}
      BY <1>1, <1>6, <2>1 DEF TypeOK, Manifest
    <3>2. Live(q)' = Live(q) /\ Tombstones(q)' = Tombstones(q)
      BY <3>1 DEF Live, Tombstones
    <3>3. ASSUME manifest[q].prev # None
          PROVE  /\ manifest[manifest[q].prev].built
                 /\ Tombstones(manifest[q].prev) \subseteq Tombstones(q)
      BY <1>1, <2>1, <3>1, <3>3 DEF Chain
    <3>4. ASSUME manifest[q].prev # None
          PROVE  manifest'[manifest[q].prev] = manifest[manifest[q].prev]
      BY <1>3, <1>6, <3>1, <3>3, <3>4
    <3>5. manifest[q].prev # None =>
            Tombstones(manifest[q].prev)' = Tombstones(manifest[q].prev)
      BY <3>1, <3>4 DEF Tombstones
    <3>6. Live(q) \cap Tombstones(q) = {}
      BY <1>1, <2>1, <3>1 DEF Chain
    <3>7. QED
      BY <3>1, <3>2, <3>3, <3>4, <3>5, <3>6
  <2>2. ASSUME NEW k \in Key, live[k] # None
        PROVE  Retired(m, live)[k] = None
    <3>1. CASE k \in fresh
      BY <2>2, <3>1 DEF NewKeys, Tombstones, Retired
    <3>2. CASE k \notin fresh
      <4>1. k \in retained /\ m # None
        BY <2>2, <3>2 DEF Live
      <4>2. k \notin Tombstones(m)
        BY <1>1, <1>7, <4>1 DEF Chain
      <4>3. QED
        BY <2>2, <4>1, <4>2 DEF Tombstones, Retired
    <3>3. QED
      BY <3>1, <3>2
  <2>3. ASSUME NEW k \in Tombstones(m)
        PROVE  Retired(m, live)[k] # None
    BY DEF Tombstones, Retired
  <2> HIDE DEF live
  <2>4. Live(p)' \cap Tombstones(p)' = {}
    BY <1>6, <2>2 DEF Live, Tombstones
  <2>5. m # None => Tombstones(m)' = Tombstones(m) /\ manifest'[m].built
    <3>1. m # None => manifest'[m] = manifest[m] /\ m' = m
      BY <1>3, <1>6, <1>7
    <3>2. QED
      BY <1>7, <3>1 DEF Tombstones
  <2>6. m # None => Tombstones(m) \subseteq Tombstones(p)'
    BY <1>6, <2>3 DEF Tombstones
  <2>7. Tombstones(manifest[p].prev)' = Tombstones(m)'
    BY <1>3, <1>6 DEF Tombstones
  <2>8. QED
    BY <1>3, <1>6, <2>1, <2>4, <2>5, <2>6, <2>7 DEF Chain
<1>9. \A s \in Slot : slot[s] # None => slot[s] \in Pub \ {p}
  BY <1>1, <1>3 DEF View, TypeOK
<1>10. View(slot, pool, record)'
  <2>1. \A s \in Slot : slot[s] # None => manifest'[slot[s]] = manifest[slot[s]]
    BY <1>6, <1>9
  <2>2. QED
    BY <1>1, <1>3, <2>1 DEF View, Holds, Live, Slot
<1>11. ASSUME NEW q \in Pub, manifest[q].built
       PROVE  manifest'[q] = manifest[q]
  BY <1>3, <1>6, <1>11
<1>12. JobInv(job, slot, pool, record)'
  <2>1. job.pc # "idle" => manifest'[job.pub] = manifest[job.pub]
    BY <1>1, <1>11 DEF JobInv
  <2>2. QED
    BY <1>1, <1>3, <2>1 DEF JobInv, Ready, Bound, Holds, Live, Tombstones
<1>13. LateInv(job, late, slot, pool, record)'
  <2>1. \A r \in late : IsMutable(r) => manifest'[r.new] = manifest[r.new]
    BY <1>1, <1>11 DEF LateInv, Ready, Bound
  <2>2. Tombstones(m)' = Tombstones(m)
    BY <1>3, <1>7, <1>11 DEF Tombstones
  <2>3. QED
    BY <1>1, <1>3, <2>1, <2>2 DEF LateInv, Ready, Bound, Holds, Live
<1>14. QED
  BY <1>2, <1>8, <1>10, <1>12, <1>13 DEF IInv

\* A new job finds no mutable key written late.
LEMMA StartStep ==
  ASSUME IInv, ~LateMutable, NEW p \in Pub, Start(p)
  PROVE  IInv'
<1>1. [Next]_vars
  BY DEF Next
<1>2. TypeOK /\ View(slot, pool, record) /\ LateInv(job, late, slot, pool, record)
  BY DEF IInv
<1>3. /\ UNCHANGED <<manifest, slot, record, pool, late, calm>>
      /\ job' = [NoJob EXCEPT !.pc = "verify", !.pub = p]
      /\ manifest[p].built
      /\ \A r \in late : ~IsMutable(r)
  BY DEF Start, IsMutable
<1>4. job'.pc = "verify" /\ job'.pub = p /\ job'.gc = {}
  BY <1>3 DEF NoJob
<1>5. JobInv(job', slot, pool, record)
  BY <1>3, <1>4 DEF JobInv
<1>6. LateInv(job', late, slot, pool, record)
  BY <1>2, <1>3 DEF LateInv
<1>7. QED
  BY <1>1, <1>2, <1>3, <1>5, <1>6, Frame

\* A job that stops.
LEMMA StopStep ==
  ASSUME IInv, [Next]_vars, job.pc # "idle", Stops,
         UNCHANGED <<manifest, slot, pool, record, late>>
  PROVE  IInv'
<1>1. JobInv(job', slot, pool', record')
  BY Idle DEF Stops
<1>2. PoolChange(pool') /\ record \subseteq record'
  BY Unchanged DEF PoolChange
<1>3. QED
  BY <1>1, <1>2, JobStep

LEMMA VerifyGenerationStep ==
  ASSUME IInv, VerifyGeneration
  PROVE  IInv'
<1>1. [Next]_vars
  BY DEF Next, Progress
<1>2. job \in Job /\ JobInv(job, slot, pool, record) /\ job.pc = "verify"
  BY DEF IInv, TypeOK, VerifyGeneration
<1>3. UNCHANGED <<manifest, slot, record, pool, late>>
  BY DEF VerifyGeneration
<1>4. CASE Follows(job.pub)
  <2>1. /\ job'.pc = "plan" /\ job'.pub = job.pub /\ job'.gc = job.gc
    BY <1>2, <1>4 DEF VerifyGeneration, Job
  <2>2. Ready("plan", job.pub, slot, pool, record)
    BY <1>2, <1>4 DEF JobInv, Follows, Ready, Bound, Placed, Writing
  <2>3. JobInv(job', slot, pool, record)
    BY <1>2, <1>3, <2>1, <2>2 DEF JobInv
  <2>4. QED
    BY <1>1, <1>2, <1>3, <2>3, Unchanged, JobStep
<1>5. CASE ~Follows(job.pub)
  BY <1>1, <1>2, <1>3, <1>5, StopStep DEF VerifyGeneration
<1>6. QED
  BY <1>4, <1>5

LEMMA PlanStep ==
  ASSUME IInv, Plan
  PROVE  IInv'
<1>1. [Next]_vars
  BY DEF Next, Progress
<1>2. job \in Job /\ JobInv(job, slot, pool, record) /\ job.pc = "plan"
  BY DEF IInv, TypeOK, Plan
<1>3. UNCHANGED <<manifest, slot, record, pool, late>>
  BY DEF Plan
<1>4. CASE ~Stops
  <2>1. job' = [job EXCEPT !.pc = "transaction", !.pre = slot, !.gc = Targets(job.pub),
                           !.todo = Live(job.pub) \cup {"manifest"}]
    BY <1>4 DEF Plan
  <2>2. /\ job'.pc = "transaction" /\ job'.pub = job.pub /\ job'.gc = Targets(job.pub)
        /\ job'.todo = Live(job.pub) \cup {"manifest"}
    BY <1>2, <2>1 DEF Job
  <2>3. Ready("transaction", job.pub, slot, pool, record)
    BY <1>2 DEF JobInv, Ready, Placed, Writing
  <2>4. Targets(job.pub) \subseteq Tombstones(job.pub)
    BY DEF Targets
  <2>5. JobInv(job', slot, pool, record)
    BY <1>2, <2>2, <2>3, <2>4 DEF JobInv
  <2>6. QED
    BY <1>1, <1>2, <1>3, <2>5, Unchanged, JobStep
<1>5. CASE Stops
  BY <1>1, <1>2, <1>3, <1>5, StopStep
<1>6. QED
  BY <1>4, <1>5

LEMMA CreateTransactionStep ==
  ASSUME IInv, CreateTransaction
  PROVE  IInv'
<1>1. [Next]_vars
  BY DEF Next, Progress
<1>2. job \in Job /\ JobInv(job, slot, pool, record) /\ job.pc = "transaction"
  BY DEF IInv, TypeOK, CreateTransaction
<1>3. /\ UNCHANGED <<manifest, slot, pool, late>>
      /\ record' = record \cup {<<job.pub, "transaction">>}
  BY DEF CreateTransaction
<1>4. /\ job'.pc = "immutable" /\ job'.pub = job.pub /\ job'.gc = job.gc
      /\ job'.todo = Live(job.pub) \cup {"manifest"}
  BY <1>2 DEF CreateTransaction, JobInv, Job
<1>5. Ready("immutable", job.pub, slot, pool, record')
  BY <1>2 DEF JobInv, Ready, Placed, Writing
<1>6. JobInv(job', slot, pool, record')
  BY <1>2, <1>3, <1>4, <1>5 DEF JobInv
<1>7. QED
  BY <1>1, <1>2, <1>3, <1>6, Unchanged, JobStep

LEMMA CreateImmutableStep ==
  ASSUME IInv, NEW i \in Key \cup {"manifest"}, CreateImmutable(i)
  PROVE  IInv' /\ PoolChange(pool')
<1> USE ConstantsAssumption
<1> DEFINE p == job.pub
<1>1. [Next]_vars
  BY DEF Next, Progress
<1>2. /\ job \in Job /\ JobInv(job, slot, pool, record) /\ pool \in [Key -> Bytes]
      /\ job.pc = "immutable" /\ i \in job.todo
  BY DEF IInv, TypeOK, CreateImmutable
<1>3. UNCHANGED <<manifest, slot, late>> /\ record \subseteq record'
  BY DEF CreateImmutable
<1>4. CASE Stops /\ UNCHANGED pool
  <2>1. JobInv(job', slot, pool', record') /\ PoolChange(pool')
    BY <1>4, Idle DEF Stops, PoolChange
  <2>2. QED
    BY <1>1, <1>2, <1>3, <2>1, JobStep
<1>5. CASE ~(Stops /\ UNCHANGED pool)
  <2>1. /\ job' = Created(i)
        /\ i = "manifest" =>
             record' = record \cup {<<p, "manifest">>} /\ pool' = pool
        /\ i # "manifest" =>
             /\ pool[i] \in {None, manifest[p].live[i]}
             /\ pool' = [pool EXCEPT ![i] = manifest[p].live[i]]
             /\ record' = record
    BY <1>5 DEF CreateImmutable, Creatable
  <2>2. PoolChange(pool')
    <3>1. CASE i = "manifest"
      BY <2>1, <3>1 DEF PoolChange
    <3>2. CASE i # "manifest"
      BY <1>2, <2>1, <3>2 DEF PoolChange
    <3>3. QED
      BY <3>1, <3>2
  <2>3. /\ job'.pub = p /\ job'.gc = job.gc /\ job'.todo = job.todo \ {i}
        /\ job'.pc = IF job.todo = {i} THEN "release" ELSE "immutable"
    BY <1>2, <2>1 DEF Created, Job
  <2>4. JobInv(job, slot, pool', record')
    BY <1>3, <2>2, PoolKept
  <2>5. \A k \in Live(p) \ (job.todo \ {i}) : pool'[k] = manifest[p].live[k]
    <3>1. \A k \in Live(p) \ job.todo : pool'[k] = manifest[p].live[k]
      BY <1>2, <2>4 DEF JobInv
    <3>2. i \in Live(p) => pool'[i] = manifest[p].live[i]
      BY <1>2, <2>1 DEF Live
    <3>3. QED
      BY <3>1, <3>2
  <2>6. /\ <<p, "transaction">> \in record'
        /\ "manifest" \notin job.todo \ {i} => <<p, "manifest">> \in record'
    BY <1>2, <1>3, <2>1, <2>4 DEF JobInv
  <2>7. Bound(p, slot) /\ p \in Pub /\ manifest[p].built /\ job.gc \subseteq Tombstones(p)
        /\ job.todo \subseteq Live(p) \cup {"manifest"}
    BY <1>2 DEF JobInv, Ready
  <2>8. JobInv(job', slot, pool', record')
    <3>1. CASE job.todo = {i}
      <4>1. Holds(p, pool')
        BY <2>5, <3>1 DEF Holds
      <4>2. Ready("release", p, slot, pool', record')
        BY <2>6, <2>7, <3>1, <4>1 DEF Ready, Placed
      <4>3. QED
        BY <2>3, <2>7, <3>1, <4>2 DEF JobInv
    <3>2. CASE job.todo # {i}
      <4>1. Ready("immutable", p, slot, pool', record')
        BY <2>7 DEF Ready, Placed, Writing
      <4>2. QED
        BY <2>3, <2>5, <2>6, <2>7, <3>2, <4>1 DEF JobInv
    <3>3. QED
      BY <3>1, <3>2
  <2>9. QED
    BY <1>1, <1>2, <1>3, <2>2, <2>8, JobStep
<1>6. QED
  BY <1>4, <1>5

\* A mutable key becomes p's, at p's turn.
Written ==
  /\ UNCHANGED <<manifest, pool, record>>
  /\ \E s \in Slot, p \in Pub :
       Ready(s, p, slot, pool, record) /\ slot' = [slot EXCEPT ![s] = p]

LEMMA PutMutableStep ==
  ASSUME IInv, NEW s \in Slot, PutMutable(s)
  PROVE  IInv' /\ (Written \/ UNCHANGED <<manifest, slot, pool>>)
<1> DEFINE p == job.pub
<1>1. [Next]_vars
  BY DEF Next, Progress
<1>2. /\ TypeOK /\ job \in Job /\ JobInv(job, slot, pool, record) /\ job.pc = s
      /\ LateInv(job, late, slot, pool, record)
      /\ s \in {"release", "inrelease", "conveniences", "state"}
  BY DEF IInv, TypeOK, PutMutable, Slot
<1>3. UNCHANGED <<manifest, record, pool, late>>
  BY DEF PutMutable
<1>4. CASE Stops /\ UNCHANGED slot
  BY <1>1, <1>2, <1>3, <1>4, StopStep
<1>5. CASE ~(Stops /\ UNCHANGED slot)
  <2>1. slot' = [slot EXCEPT ![s] = p] /\ job' = [job EXCEPT !.pc = After[s]]
    BY <1>5 DEF PutMutable
  <2>2. job'.pub = p /\ job'.gc = job.gc /\ job'.pc = After[s]
    BY <1>2, <2>1 DEF Job
  <2>3. p \in Pub /\ Ready(s, p, slot, pool, record) /\ job.gc \subseteq Tombstones(p)
    BY <1>2 DEF JobInv
  <2>4. /\ View(slot', pool, record) /\ Ready(After[s], p, slot', pool, record)
        /\ Tombstones(slot["state"]) \subseteq Tombstones(slot'["state"])
    BY <2>1, <2>3, SlotWritten
  <2>5. After[s] \in {"inrelease", "check", "state", "final"}
    BY <1>2 DEF After
  <2>6. JobInv(job', slot', pool, record)
    BY <1>2, <2>2, <2>3, <2>4, <2>5 DEF JobInv, Ready, Bound
  <2>7. LateInv(job', late, slot', pool, record)
    BY <1>2, <2>4, NothingMutableLate DEF LateInv
  <2>8. IInv'
    BY <1>1, <1>3, <2>4, <2>6, <2>7, Frame
  <2>9. QED
    BY <1>3, <2>1, <2>3, <2>8 DEF Written
<1>6. QED
  BY <1>4, <1>5

LEMMA VerifyStep ==
  ASSUME IInv, VerifyObjects \/ VerifyView
  PROVE  IInv'
<1>1. [Next]_vars
  BY DEF Next, Progress
<1>2. /\ job \in Job /\ JobInv(job, slot, pool, record)
      /\ job.pc \in {"check", "final"}
  BY DEF IInv, TypeOK, VerifyObjects, VerifyView
<1>3. UNCHANGED <<manifest, slot, record, pool, late>>
  BY DEF VerifyObjects, VerifyView
<1>4. CASE Stops
  BY <1>1, <1>2, <1>3, <1>4, StopStep
<1>5. CASE ~Stops
  <2>1. \/ job.pc = "check" /\ job' = [job EXCEPT !.pc = "conveniences"]
        \/ job.pc = "final" /\ job' = [job EXCEPT !.pc = "gc"]
    BY <1>5 DEF VerifyObjects, VerifyView, After
  <2>2. /\ job'.pub = job.pub /\ job'.gc = job.gc
        /\ \/ job.pc = "check" /\ job'.pc = "conveniences"
           \/ job.pc = "final" /\ job'.pc = "gc"
    BY <1>2, <2>1 DEF Job
  <2>3. Ready(job'.pc, job.pub, slot, pool, record)
    BY <1>2, <2>2 DEF JobInv, Ready, Placed, Writing
  <2>4. JobInv(job', slot, pool, record)
    BY <1>2, <2>2, <2>3 DEF JobInv
  <2>5. QED
    BY <1>1, <1>2, <1>3, <2>4, Unchanged, JobStep
<1>6. QED
  BY <1>4, <1>5

LEMMA CollectStep ==
  ASSUME IInv, NEW k \in Key, Collect(k)
  PROVE  /\ IInv'
         /\ \/ pool' = pool
            \/ k \in Tombstones(slot["state"]) /\ pool' = [pool EXCEPT ![k] = None]
<1>1. [Next]_vars
  BY DEF Next, Progress
<1>2. /\ job \in Job /\ JobInv(job, slot, pool, record) /\ job.pc = "gc" /\ k \in job.gc
      /\ pool \in [Key -> Bytes]
  BY DEF IInv, TypeOK, Collect
<1>3. UNCHANGED <<manifest, slot, record, late>>
  BY DEF Collect
<1>4. CASE Stops /\ UNCHANGED pool
  BY <1>1, <1>2, <1>3, <1>4, StopStep
<1>5. CASE ~(Stops /\ UNCHANGED pool)
  <2>1. /\ slot["state"] = job.pub /\ pool' = [pool EXCEPT ![k] = None]
        /\ job' = [job EXCEPT !.gc = @ \ {k}]
    BY <1>5 DEF Collect
  <2>2. k \in Tombstones(slot["state"])
    BY <1>2, <2>1 DEF JobInv
  <2>3. PoolChange(pool')
    BY <1>2, <2>1, <2>2 DEF PoolChange
  <2>4. JobInv(job, slot, pool', record')
    BY <1>3, <2>3, PoolKept
  <2>5. job'.pub = job.pub /\ job'.pc = "gc" /\ job'.gc = job.gc \ {k}
    BY <1>2, <2>1 DEF Job
  <2>6. JobInv(job', slot, pool', record')
    BY <1>2, <2>4, <2>5 DEF JobInv
  <2>7. QED
    BY <1>1, <1>2, <1>3, <2>1, <2>2, <2>3, <2>6, JobStep
<1>6. QED
  BY <1>4, <1>5

\* What a job may leave behind: a write it was ready for, a deletion of a tombstone.
LEMMA SentReady ==
  ASSUME IInv, NEW r \in Sent
  PROVE  /\ job.pc # "idle"
         /\ IsMutable(r) => Ready(r.to, r.new, slot, pool, record)
         /\ IsDelete(r) => r.delete \in Tombstones(slot["state"])
<1>1. job \in Job /\ JobInv(job, slot, pool, record)
  BY DEF IInv, TypeOK
<1>2. job.pc \in {"release", "inrelease", "conveniences", "state", "transaction", "immutable", "gc"}
  BY DEF Sent, Slot
<1>3. CASE job.pc \in Slot
  <2>1. r = [to |-> job.pc, expect |-> job.pre[job.pc], new |-> job.pub]
    BY <1>3 DEF Sent, Slot
  <2>2. Ready(job.pc, job.pub, slot, pool, record)
    BY <1>1, <1>2 DEF JobInv
  <2>3. ~IsDelete(r)
    BY <2>1 DEF IsDelete
  <2>4. QED
    BY <1>2, <2>1, <2>2, <2>3
<1>4. CASE job.pc \in {"transaction", "immutable"}
  <2>1. \/ \E i : r = [sign |-> i]
        \/ \E k, b : r = [create |-> k, bytes |-> b]
    BY <1>4 DEF Sent, Slot
  <2>2. ~IsMutable(r) /\ ~IsDelete(r)
    BY <2>1 DEF IsMutable, IsDelete
  <2>3. QED
    BY <1>2, <2>2
<1>5. CASE job.pc = "gc"
  <2>1. slot["state"] = job.pub /\ \E k \in job.gc : r = [delete |-> k]
    BY <1>5 DEF Sent, Slot
  <2>2. ~IsMutable(r) /\ r.delete \in job.gc
    BY <2>1 DEF IsMutable
  <2>3. QED
    BY <1>1, <1>2, <2>1, <2>2 DEF JobInv
<1>6. QED
  BY <1>2, <1>3, <1>4, <1>5 DEF Slot

LEMMA TimeOutStep ==
  ASSUME IInv, TimeOut
  PROVE  IInv'
<1>1. [Next]_vars
  BY DEF Next
<1>2. PICK r \in Sent : late' = late \cup {r}
  BY DEF TimeOut
<1>3. job' = NoJob /\ UNCHANGED <<manifest, slot, record, pool>>
  BY DEF TimeOut, Stops
<1>4. View(slot, pool, record) /\ LateInv(job, late, slot, pool, record)
  BY DEF IInv
<1>5. JobInv(job', slot, pool, record)
  BY <1>3, Idle
<1>6. LateInv(job', late', slot, pool, record)
  <2>1. \A q \in late : ~IsMutable(q)
    BY SentReady, NothingMutableLate
  <2>2. job'.pc = "idle"
    BY <1>3 DEF NoJob
  <2>3. QED
    BY <1>2, <1>4, <2>1, <2>2, SentReady DEF LateInv
<1>7. QED
  BY <1>1, <1>3, <1>4, <1>5, <1>6, Frame

\* Objects appear, or a tombstone of the state is deleted.
Stores ==
  /\ UNCHANGED <<manifest, slot>>
  /\ \/ pool' = pool
     \/ \E k \in Key :
          /\ \/ pool[k] = None
             \/ k \in Tombstones(slot["state"]) /\ pool'[k] = None
          /\ \A j \in Key \ {k} : pool'[j] = pool[j]

\* A write that lands late does what its job would have done.
LEMMA LandStep ==
  ASSUME IInv, NEW r \in late, Land(r)
  PROVE  IInv' /\ (Written \/ Stores)
<1>1. [Next]_vars
  BY DEF Next
<1>2. /\ TypeOK /\ r \in Write /\ View(slot, pool, record) /\ JobInv(job, slot, pool, record)
      /\ LateInv(job, late, slot, pool, record)
      /\ pool \in [Key -> Bytes] /\ slot \in [Slot -> Pub \cup {None}]
  BY DEF IInv, TypeOK
<1>3. late' = late \ {r} /\ UNCHANGED <<manifest, job>>
  BY DEF Land
<1>4. CASE IsMutable(r) /\ slot[r.to] = r.expect
  <2> DEFINE s == r.to
             p == r.new
  <2>1. pool' = pool /\ record' = record /\ slot' = [slot EXCEPT ![s] = p]
    BY <1>2, <1>4, WriteKinds DEF Land, IsMutable, IsDelete
  <2>2. s \in Slot /\ p \in Pub /\ job.pc = "idle" /\ Ready(s, p, slot, pool, record)
    BY <1>2, <1>4, WriteKinds DEF LateInv
  <2>3. /\ View(slot', pool, record)
        /\ Tombstones(slot["state"]) \subseteq Tombstones(slot'["state"])
    BY <2>1, <2>2, SlotWritten
  <2>4. JobInv(job', slot', pool, record)
    BY <1>3, <2>2, <1>2 DEF JobInv
  <2>5. LateInv(job', late', slot', pool, record)
    BY <1>2, <1>3, <1>4, <2>3 DEF LateInv
  <2>6. IInv'
    BY <1>1, <1>3, <2>1, <2>3, <2>4, <2>5, Frame
  <2>7. QED
    BY <1>3, <2>1, <2>2, <2>6 DEF Written
<1>5. CASE ~(IsMutable(r) /\ slot[r.to] = r.expect)
  <2>1. slot' = slot /\ record \subseteq record'
    BY <1>5 DEF Land, IsMutable
  <2>2. Stores
    <3>1. CASE "create" \in DOMAIN r
      <4>1. r.create \in Key
        BY <1>2, <3>1, WriteKinds
      <4>2. \/ pool' = pool
            \/ pool[r.create] = None /\ pool' = [pool EXCEPT ![r.create] = r.bytes]
        BY <1>2, <3>1, WriteKinds DEF Land, IsDelete
      <4>3. QED
        BY <1>2, <1>3, <2>1, <4>1, <4>2 DEF Stores
    <3>2. CASE IsDelete(r)
      <4>1. r.delete \in Key /\ r.delete \in Tombstones(slot["state"])
        BY <1>2, <3>2, WriteKinds DEF LateInv
      <4>2. pool' = [pool EXCEPT ![r.delete] = None]
        BY <1>2, <3>2, WriteKinds DEF Land, IsDelete
      <4>3. QED
        BY <1>2, <1>3, <2>1, <4>1, <4>2 DEF Stores
    <3>3. CASE "create" \notin DOMAIN r /\ ~IsDelete(r)
      BY <1>3, <2>1, <3>3 DEF Land, IsDelete, Stores
    <3>4. QED
      BY <3>1, <3>2, <3>3
  <2>3. PoolChange(pool')
    BY <2>2 DEF Stores, PoolChange
  <2>4. /\ View(slot, pool', record') /\ JobInv(job, slot, pool', record')
        /\ LateInv(job, late, slot, pool', record')
    BY <2>1, <2>3, PoolKept
  <2>5. LateInv(job, late', slot, pool', record')
    BY <1>3, <2>4 DEF LateInv
  <2>6. IInv'
    BY <1>1, <1>3, <2>1, <2>4, <2>5, Frame
  <2>7. QED
    BY <2>2, <2>6
<1>6. QED
  BY <1>4, <1>5

\* Steps that store nothing.
LEMMA OtherSteps ==
  ASSUME IInv, Finish \/ Fail \/ Calm \/ UNCHANGED vars \/ \E r \in late : Vanish(r)
  PROVE  IInv'
<1>1. [Next]_vars
  BY DEF Next, Progress
<1>2. CASE Finish \/ Fail
  BY <1>1, <1>2, StopStep DEF Finish, Fail
<1>3. CASE Calm \/ UNCHANGED vars \/ \E r \in late : Vanish(r)
  <2>1. UNCHANGED <<manifest, slot, pool, record, job>> /\ late' \subseteq late
    BY <1>3 DEF Calm, vars, Vanish
  <2>2. View(slot', pool', record') /\ JobInv(job', slot', pool', record')
    BY <2>1 DEF IInv
  <2>3. LateInv(job', late', slot', pool', record')
    BY <2>1 DEF IInv, LateInv
  <2>4. QED
    BY <1>1, <2>1, <2>2, <2>3, Frame
<1>4. QED
  BY <1>2, <1>3

LEMMA InitInv ==
  ASSUME Init
  PROVE  IInv
<1> USE ConstantsAssumption DEF Init
<1>1. TypeOK
  <2>1. Unbuilt \in Manifest
    BY DEF Unbuilt, Manifest, Bytes
  <2>2. QED
    BY <2>1, NoJobType DEF TypeOK, Bytes
<1>2. \A p \in Pub : ~manifest[p].built
  BY DEF Unbuilt
<1>3. slot["inrelease"] = None /\ slot["state"] = None
  BY DEF Slot
<1>4. View(slot, pool, record)
  BY <1>3 DEF View, Holds, Live
<1>5. JobInv(job, slot, pool, record)
  BY Idle
<1>6. LateInv(job, late, slot, pool, record)
  BY DEF LateInv
<1>7. QED
  BY <1>1, <1>2, <1>4, <1>5, <1>6 DEF IInv, Chain

\* What any step does to what clients and the controller see.
Effect == (\E p \in Pub : Build(p)) \/ Written \/ Stores

LEMMA Step ==
  ASSUME IInv, ~LateMutable, [Next]_vars
  PROVE  IInv' /\ Effect
<1>1. ASSUME NEW p \in Pub, Build(p)
      PROVE  IInv' /\ Effect
  BY <1>1, BuildStep DEF Effect
<1>2. ASSUME NEW p \in Pub, Start(p)
      PROVE  IInv' /\ Effect
  BY <1>2, StartStep DEF Effect, Stores, Start
<1>3. CASE VerifyGeneration
  BY <1>3, VerifyGenerationStep DEF Effect, Stores, VerifyGeneration
<1>4. CASE Plan
  BY <1>4, PlanStep DEF Effect, Stores, Plan
<1>5. CASE CreateTransaction
  BY <1>5, CreateTransactionStep DEF Effect, Stores, CreateTransaction
<1>6. ASSUME NEW i \in Key \cup {"manifest"}, CreateImmutable(i)
      PROVE  IInv' /\ Effect
  <2>1. Stores
    <3>1. pool \in [Key -> Bytes] /\ UNCHANGED <<manifest, slot>>
      BY <1>6 DEF IInv, TypeOK, CreateImmutable
    <3>2. \/ pool' = pool
          \/ /\ i \in Key /\ pool[i] \in {None, manifest[job.pub].live[i]}
             /\ pool' = [pool EXCEPT ![i] = manifest[job.pub].live[i]]
      BY <1>6 DEF CreateImmutable, Creatable
    <3>3. \/ pool' = pool
          \/ i \in Key /\ pool[i] = None /\ \A j \in Key \ {i} : pool'[j] = pool[j]
      BY <3>1, <3>2
    <3>4. QED
      BY <3>1, <3>3 DEF Stores
  <2>2. QED
    BY <1>6, <2>1, CreateImmutableStep DEF Effect
<1>7. ASSUME NEW s \in Slot, PutMutable(s)
      PROVE  IInv' /\ Effect
  BY <1>7, PutMutableStep DEF Effect, Stores
<1>8. CASE VerifyObjects \/ VerifyView
  BY <1>8, VerifyStep DEF Effect, Stores, VerifyObjects, VerifyView
<1>9. ASSUME NEW k \in Key, Collect(k)
      PROVE  IInv' /\ Effect
  <2>1. pool \in [Key -> Bytes] /\ UNCHANGED <<manifest, slot>>
    BY <1>9 DEF IInv, TypeOK, Collect
  <2>2. QED
    BY <1>9, <2>1, CollectStep DEF Effect, Stores
<1>10. CASE Finish \/ Fail \/ Calm \/ UNCHANGED vars \/ \E r \in late : Vanish(r)
  BY <1>10, OtherSteps DEF Effect, Stores, Finish, Fail, Calm, vars, Vanish
<1>11. CASE TimeOut
  BY <1>11, TimeOutStep DEF Effect, Stores, TimeOut
<1>12. ASSUME NEW r \in late, Land(r)
       PROVE  IInv' /\ Effect
  BY <1>12, LandStep DEF Effect
<1>13. QED
  BY <1>1, <1>2, <1>3, <1>4, <1>5, <1>6, <1>7, <1>8, <1>9, <1>10, <1>11, <1>12
  DEF Next, Progress

-----------------------------------------------------------------------------
(* The theorems.                                                           *)

\* The invariant holds throughout when no mutable key is written late.
THEOREM Invariant ==
  ASSUME ~LateMutable
  PROVE  Spec => []IInv
<1>1. Init => IInv
  BY InitInv
<1>2. IInv /\ [Next]_vars => IInv'
  BY Step
<1>3. QED
  BY <1>1, <1>2, PTL DEF Spec

\* The types hold throughout (every variable of the model).
THEOREM TypeCorrect ==
  ASSUME ~LateMutable
  PROVE  Spec => []TypeOK
<1>1. IInv => TypeOK
  BY DEF IInv
<1>2. QED
  BY <1>1, Invariant, PTL

\* Whatever jobs crash, repeat or leave in flight, what clients see is complete
\* (phases 6 to 8 of the executor, execute_gc).
THEOREM ClientsSeeCompleteRepositories ==
  ASSUME ~LateMutable
  PROVE  Spec => []ClientComplete
<1>1. IInv => ClientComplete
  BY DEF IInv, View, Holds, ClientComplete, Stored
<1>2. QED
  BY <1>1, Invariant, PTL

\* The publication the controller trusts can always be exported and built on.
THEOREM ControllerSeesCompleteState ==
  ASSUME ~LateMutable
  PROVE  Spec => []StateComplete
<1>1. IInv => StateComplete
  BY DEF IInv, View, Holds, StateComplete, Stored
<1>2. QED
  BY <1>1, Invariant, PTL

\* The state is never ahead of the clients (phase order, CAS of the state last).
THEOREM StateFollowsClients ==
  ASSUME ~LateMutable
  PROVE  Spec => []StateNeverAhead
<1>1. IInv => StateNeverAhead
  BY DEF IInv, View, StateNeverAhead
<1>2. QED
  BY <1>1, Invariant, PTL

\* What was retired stays retired on the chain of publications (the assembly
\* carries the queue on and refuses tombstoned keys).
THEOREM TombstonesStay ==
  ASSUME ~LateMutable
  PROVE  Spec => []TombstonesArePermanent
<1>1. IInv => TombstonesArePermanent
  BY DEF IInv, Chain, TombstonesArePermanent
<1>2. QED
  BY <1>1, Invariant, PTL

\* A commit follows its predecessor and comes after the whole client view
\* (_put_mutable of the state key, a state write that lands late included).
THEOREM CommitsFollow ==
  ASSUME ~LateMutable
  PROVE  Spec => CommitFollows
<1>1. ASSUME IInv, [Next]_vars, slot'["state"] # slot["state"]
      PROVE  /\ manifest[slot'["state"]].prev = slot["state"]
             /\ \A s \in Slot : slot'[s] = slot'["state"]
  <2>1. Written
    BY <1>1, Step DEF Effect, Stores, Build
  <2>2. PICK s \in Slot, p \in Pub :
               Ready(s, p, slot, pool, record) /\ slot' = [slot EXCEPT ![s] = p]
    BY <2>1 DEF Written
  <2>3. slot \in [Slot -> Pub \cup {None}] /\ "state" \in Slot
    BY <1>1 DEF IInv, TypeOK, Slot
  <2>4. s = "state" /\ slot'["state"] = p
    BY <1>1, <2>2, <2>3
  <2>5. manifest[p].prev = slot["state"]
    BY <1>1, <2>2, <2>4 DEF Ready, Bound
  <2>6. \A t \in Slot : slot'[t] = p
    BY <2>2, <2>3, <2>4 DEF Ready, Placed, Slot
  <2>7. QED
    BY <2>4, <2>5, <2>6
<1>2. IInv /\ [Next]_vars =>
        [LET p == slot'["state"]
         IN  p # slot["state"] =>
               manifest[p].prev = slot["state"] /\ \A s \in Slot : slot'[s] = p]_vars
  BY <1>1
<1>3. QED
  BY <1>2, Invariant, PTL DEF Spec, CommitFollows

\* Only tombstones of the state are deleted, and clients need none of them
\* (execute_gc, a deletion that lands late included).
THEOREM DeletesOnlyTombstones ==
  ASSUME ~LateMutable
  PROVE  Spec => DeletesTombstonesOnly
<1>1. ASSUME IInv, [Next]_vars, NEW k \in Key, pool[k] # None, pool'[k] # pool[k]
      PROVE  /\ pool'[k] = None
             /\ k \in Tombstones(slot["state"])
             /\ k \notin Live(slot["inrelease"])
  <2>1. Stores
    BY <1>1, Step DEF Effect, Written, Build
  <2>2. pool'[k] = None /\ k \in Tombstones(slot["state"])
    BY <1>1, <2>1 DEF Stores
  <2>3. QED
    BY <1>1, <2>2, Harmless DEF IInv
<1>2. IInv /\ [Next]_vars =>
        [\A k \in Key :
           pool[k] # None /\ pool'[k] # pool[k] =>
             /\ pool'[k] = None
             /\ k \in Tombstones(slot["state"])
             /\ k \notin Live(slot["inrelease"])]_vars
  BY <1>1
<1>3. QED
  BY <1>2, Invariant, PTL DEF Spec, DeletesTombstonesOnly

\* The protocol implements the repository it promises: clients move from one
\* complete publication to the next, and the commit follows.
THEOREM Implements ==
  ASSUME ~LateMutable
  PROVE  Spec => ImplementsRepository
<1>1. Init => Abstract!Init
  BY DEF Init, Abstract!Init, Slot
<1>2. ASSUME IInv, [Next]_vars
      PROVE  [Abstract!Next]_<<manifest, slot["inrelease"], slot["state"], pool>>
  <2>1. Effect /\ IInv
    BY <1>2, Step
  <2>2. /\ slot \in [Slot -> Pub \cup {None}] /\ "inrelease" \in Slot /\ "state" \in Slot
        /\ manifest \in [Pub -> Manifest]
    BY <2>1 DEF IInv, TypeOK, Slot
  <2>3. ASSUME NEW p \in Pub, Build(p)
        PROVE  Abstract!Next
    <3>1. \E m : manifest' = [manifest EXCEPT ![p] = m]
      BY <2>3 DEF Build
    <3>2. \A q \in Pub \ {p} : manifest'[q] = manifest[q]
      BY <2>2, <3>1
    <3>3. Abstract!Build(p)
      BY <2>3, <3>2 DEF Build, Abstract!Build
    <3>4. QED
      BY <3>3 DEF Abstract!Next
  <2>4. CASE Written
    <3>1. PICK s \in Slot, p \in Pub :
                 Ready(s, p, slot, pool, record) /\ slot' = [slot EXCEPT ![s] = p]
      BY <2>4 DEF Written
    <3>2. UNCHANGED <<manifest, pool>>
      BY <2>4 DEF Written
    <3>3. p # None /\ manifest[p].built /\ (slot["state"] = p \/ manifest[p].prev = slot["state"])
      BY <3>1, ConstantsAssumption DEF Ready, Bound
    <3>4. CASE s = "inrelease"
      <4>1. slot'["inrelease"] = p /\ slot'["state"] = slot["state"]
        BY <2>2, <3>1, <3>4
      <4>2. Abstract!Stored(p)
        BY <3>1, <3>4 DEF Ready, Writing, Holds, Live, Abstract!Stored, Abstract!Live
      <4>3. Abstract!Expose(p)
        BY <3>2, <3>3, <4>1, <4>2 DEF Abstract!Expose
      <4>4. QED
        BY <4>3 DEF Abstract!Next
    <3>5. CASE s = "state"
      <4>1. slot'["state"] = p /\ slot'["inrelease"] = slot["inrelease"]
        BY <2>2, <3>1, <3>5
      <4>2. slot["inrelease"] = p
        BY <3>1, <3>5 DEF Ready, Placed
      <4>3. CASE slot["state"] = p
        BY <3>2, <4>1, <4>3
      <4>4. CASE manifest[p].prev = slot["state"]
        <5>1. Abstract!Commit
          BY <3>2, <3>3, <4>1, <4>2, <4>4 DEF Abstract!Commit
        <5>2. QED
          BY <5>1 DEF Abstract!Next
      <4>5. QED
        BY <3>3, <4>3, <4>4
    <3>6. CASE s \notin {"inrelease", "state"}
      BY <2>2, <3>1, <3>2, <3>6
    <3>7. QED
      BY <3>4, <3>5, <3>6
  <2>5. CASE Stores
    <3>1. CASE pool' = pool
      BY <2>5, <3>1 DEF Stores
    <3>2. CASE pool' # pool
      <4>1. PICK k \in Key :
                   /\ pool[k] = None \/ k \in Tombstones(slot["state"])
                   /\ \A j \in Key \ {k} : pool'[j] = pool[j]
        BY <2>5, <3>2 DEF Stores
      <4>2. k \in Tombstones(slot["state"]) =>
              k \notin Live(slot["inrelease"]) /\ k \notin Live(slot["state"])
        BY <2>1, Harmless DEF IInv
      <4>3. pool[k] = None \/ k \notin Abstract!Needed
        BY <4>1, <4>2 DEF Live, Abstract!Needed, Abstract!Live
      <4>4. Abstract!Store(k)
        BY <2>5, <4>1, <4>3 DEF Stores, Abstract!Store
      <4>5. QED
        BY <4>4 DEF Abstract!Next
    <3>3. QED
      BY <3>1, <3>2
  <2>6. QED
    BY <2>1, <2>3, <2>4, <2>5 DEF Effect
<1>3. QED
  BY <1>1, <1>2, Invariant, PTL DEF Spec, ImplementsRepository, Abstract!Spec
=============================================================================
