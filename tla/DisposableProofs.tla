--------------------------- MODULE DisposableProofs ---------------------------
(***************************************************************************)
(* Theorems about Disposable, for any repository, any number of attempts   *)
(* and late requests and any page size: what a pass of the storage check   *)
(* proves about the store, what it leaves behind, and that the client      *)
(* keeps its promises under it.                                            *)
(***************************************************************************)
EXTENDS Disposable, ObjectStoreProofs

-----------------------------------------------------------------------------
(* The inductive invariant: that of the client, and four parts of its own. *)

Cleaning == {"clean", "delete", "final"}

ProgType ==
  /\ prog \in
       [pc : {"production", "start", "preflight", "create", "read", "list",
              "initial", "race", "winner", "clean", "delete", "final", "ended"},
        todo : SUBSET Prefix, failed : BOOLEAN, winner : Client,
        result : {"none", "PASS", "FAIL", "recovered"}]
  /\ journal \in BOOLEAN /\ calm \in BOOLEAN /\ made \in 0..MaxCalls

\* The program calls S3Client itself: its calls are never reconciled, and only the race has
\* two threads.
OwnCalls ==
  prog.pc # "production" =>
    /\ \A c \in Client : /\ call[c].pc # "reread"
                         /\ Busy(c) => call[c].o.raw /\ call[c].o.op # "create"
    /\ Busy(Two) => prog.pc = "race"
    /\ Busy(One) => prog.pc \notin {"start", "ended"}

\* What each stage works on.
Stages ==
  /\ prog.pc \in {"create", "read"} => prog.todo # {} /\ prog.todo \subseteq Item
  /\ prog.pc \in {"clean", "final"} => call[One].o = Raw(List(Prefix))
  /\ prog.pc = "race" =>
       \A c \in Client : call[c].o = Raw(Put(Cas, BodyOf[c], Initial))
  /\ prog.result # "none" \/ prog.failed => prog.pc \in Cleaning \cup {"ended"}
  /\ prog.pc = "ended" => prog.result # "none"

\* The program may still pass.
Trusted == prog.pc # "production" /\ prog.result = "none" /\ ~prog.failed

\* Then no request is left over, unless the call that lost it is about to be noticed.
Failure(c) == ~Busy(c) /\ call[c].out = "error"

NothingLeft ==
  Trusted =>
    /\ late = {} \/ \E c \in Client : Failure(c) /\ (prog.pc # "race" => c = One)
    /\ prog.pc \in {"start", "final"} => late = {}
    /\ prog.pc = "final" => \A k \in Prefix : seen[One][k] = {bucket[k]}

\* The race told the store apart.
RaceProved ==
  /\ prog.pc = "race" => \A c \in Client : call[c].out = "refused" => "match" \in honours
  /\ Trusted /\ prog.pc \in {"winner"} \cup Cleaning => "match" \in honours

Passed ==
  prog.result = "PASS" =>
    /\ prog.pc = "ended" /\ "match" \in honours /\ late = {}
    /\ \A k \in Prefix : bucket[k] = None

DisposableInv ==
  StoreInv /\ ProgType /\ OwnCalls /\ Stages /\ NothingLeft /\ RaceProved /\ Passed

-----------------------------------------------------------------------------
(* The calls of the program.                                               *)

LEMMA KeysTyped ==
  /\ One \in Client /\ Two \in Client /\ One # Two /\ \A c \in Client : c = One \/ c = Two
  /\ Prefix \subseteq Key /\ Item \subseteq Prefix /\ Cas \in Prefix /\ None \notin Body
  /\ Initial \in Body /\ \A c \in Client : BodyOf[c] \in Body
  /\ \A k \in Item : Content[k] \in Body
BY DisposableAssumption, StoreAssumption DEF Prefix

LEMMA MinIsIn ==
  ASSUME NEW S \in SUBSET Prefix, S # {}
  PROVE  Min(S) \in S
<1>1. S \subseteq Key /\ S \in SUBSET Nat /\ IsFiniteSet(S)
  BY KeysTyped, StoreAssumption, FS_Subset
<1>2. \E k \in S : \A j \in S : k <= j
  BY <1>1, FirstExists
<1>3. QED
  BY <1>2 DEF Min

LEMMA PutsAreOps ==
  ASSUME NEW k \in Key, NEW b \in Object, NEW e \in Object
  PROVE  /\ Raw(Put(k, b, e)) \in Op /\ Raw(Put(k, b, e)).op = "put"
         /\ Raw(Put(k, b, e)).raw = TRUE /\ Raw(Put(k, b, e)).expect = e
BY DEF Put, Raw, Op

LEMMA UploadsAreOps ==
  ASSUME NEW k \in Item
  PROVE  /\ Raw([Upload(k) EXCEPT !.op = "put"]) \in Op
         /\ Raw([Upload(k) EXCEPT !.op = "put"]).op = "put"
         /\ Raw([Upload(k) EXCEPT !.op = "put"]).raw = TRUE
<1>1. k \in Key /\ Content[k] \in Object /\ None \in Object
  BY KeysTyped DEF Object
<1>2. Put(k, Content[k], None) \in Op
  BY <1>1 DEF Put, Op
<1>3. QED
  BY <1>2 DEF Upload, Create, Raw, Op

LEMMA ReadsAreOps ==
  ASSUME NEW k \in Key
  PROVE  /\ Raw(Get(k)) \in Op /\ Raw(Get(k)).op = "get" /\ Raw(Get(k)).raw = TRUE
         /\ Raw(Delete(k)) \in Op /\ Raw(Delete(k)).op = "delete" /\ Raw(Delete(k)).raw = TRUE
<1>1. Put(k, None, None) \in Op
  BY DEF Put, Op, Object
<1>2. QED
  BY <1>1 DEF Get, Delete, Raw, Op

LEMMA ListingIsOp ==
  /\ Raw(List(Prefix)) \in Op /\ Raw(List(Prefix)).op = "list" /\ Raw(List(Prefix)).raw = TRUE
  /\ Raw(List(Prefix)).under = Prefix /\ Concerns(Raw(List(Prefix))) = Prefix
<1> DEFINE k == CHOOSE k \in Prefix : TRUE
<1>1. k \in Prefix
  BY KeysTyped
<1> HIDE DEF k
<1>2. Put(k, None, None) \in Op /\ Put(k, None, None).key = k
  BY <1>1, KeysTyped DEF Put, Op, Object
<1>3. List(Prefix) = [Put(k, None, None) EXCEPT !.op = "list", !.under = Prefix]
  BY DEF List, k
<1>4. List(Prefix) \in Op /\ List(Prefix).op = "list" /\ List(Prefix).under = Prefix /\ List(Prefix).key = k
  BY <1>2, <1>3, KeysTyped DEF Op
<1>5. /\ Raw(List(Prefix)) \in Op /\ Raw(List(Prefix)).op = "list" /\ Raw(List(Prefix)).raw = TRUE
      /\ Raw(List(Prefix)).under = Prefix /\ Raw(List(Prefix)).key = k
  BY <1>4 DEF Raw, Op
<1>6. QED
  BY <1>1, <1>5 DEF Concerns

-----------------------------------------------------------------------------
(* What the answer, or the loss of it, does to a call of the program.      *)

Direct(c) == call[c].pc = "send" /\ call[c].o.raw /\ call[c].o.op # "create"

LEMMA EndsDone ==
  ASSUME StoreInv, NEW c \in Client, NEW m \in CallSet,
         NEW out \in {"ok", "refused", "rejected", "error"}, End(c, m, out)
  PROVE  /\ call'[c].pc = "done" /\ call'[c].out = out
         /\ late = {} => late' = {}
<1>1. StoreTypeOK /\ EndWith(c, m, out, late) /\ late \in SUBSET Request
  BY DEF End, StoreTypeOK, StoreInv
<1>2. Ends(c, m, out, late)
  BY <1>1, EndFacts
<1>3. call'[c].pc = "done" /\ call'[c].out = out
  BY <1>2 DEF Ends, CallSet
<1>4. QED
  BY <1>1, <1>3 DEF EndWith

LEMMA DirectAnswered ==
  ASSUME StoreInv, NEW c \in Client, Answers(c), Direct(c)
  PROVE  /\ call'[c].pc \in {"send", "done"}
         /\ late = {} => late' = {}
         /\ call'[c].out = "refused" => ~Holds(call[c].o)
         /\ ReadOnly(call[c].o) => bucket' = bucket
<1> DEFINE m == call[c]
<1>1. /\ m.pc = "send" /\ m.o.op # "create" /\ m.out = "nothing" /\ m \in CallSet /\ m.o \in Op
      /\ bucket \in [Key -> Object]
  BY BusyFacts DEF Direct
<1>2. CASE WriteAnswered(c)
  <2>1. [m EXCEPT !.writes = @ + 1] \in CallSet
    BY <1>1 DEF CallSet
  <2>2. CASE Holds(m.o)
    <3>1. End(c, [m EXCEPT !.writes = @ + 1], "ok") /\ ~ReadOnly(m.o)
      BY <1>2, <2>2 DEF WriteAnswered
    <3>2. QED
      BY <2>1, <3>1, EndsDone
  <2>3. CASE ~Holds(m.o)
    <3>1. End(c, m, "refused") /\ ~ReadOnly(m.o)
      BY <1>1, <1>2, <2>3 DEF WriteAnswered
    <3>2. QED
      BY <1>1, <2>3, <3>1, EndsDone
  <2>4. QED
    BY <2>2, <2>3
<1>3. CASE GetAnswered(c)
  <2>1. End(c, [m EXCEPT !.value = bucket[m.o.key]], "ok") /\ bucket' = bucket
    BY <1>3 DEF GetAnswered
  <2>2. [m EXCEPT !.value = bucket[m.o.key]] \in CallSet
    BY <1>1 DEF CallSet, Op
  <2>3. QED
    BY <2>1, <2>2, EndsDone
<1>4. CASE PageAnswered(c)
  <2> DEFINE page == Page(m.o, Last(m.keys))
             all  == [m EXCEPT !.keys = @ \cup page, !.tries = 1]
  <2>1. page \subseteq Key /\ 1 \in 1..MaxAttempts
    BY <1>1, StoreAssumption DEF Page, Remaining, Op
  <2>2. all \in CallSet /\ all.pc = "send" /\ all.out = "nothing"
    BY <1>1, <2>1 DEF CallSet
  <2>3. /\ bucket' = bucket
        /\ (Update(c, all) /\ late' = late) \/ End(c, all, "ok")
    BY <1>4 DEF PageAnswered
  <2> HIDE DEF all
  <2>4. CASE Update(c, all) /\ late' = late
    <3>1. call'[c] = all
      BY <2>4, CallTypes DEF Update, StoreInv
    <3>2. QED
      BY <2>2, <2>3, <2>4, <3>1
  <2>5. CASE End(c, all, "ok")
    BY <2>2, <2>3, <2>5, EndsDone
  <2>6. QED
    BY <2>3, <2>4, <2>5
<1>5. CASE Reconcile(c)
  BY <1>1, <1>5 DEF Reconcile
<1>6. QED
  BY <1>2, <1>3, <1>4, <1>5 DEF Answers

LEMMA DirectFails ==
  ASSUME StoreInv, NEW c \in Client, Fails(c), Direct(c)
  PROVE  /\ call'[c].pc \in {"send", "done"}
         /\ late = {} => late' = {} \/ (/\ call'[c].pc = "done" /\ call'[c].out = "error"
                                        /\ ~ReadOnly(call[c].o))
         /\ call'[c].out # "refused"
         /\ bucket' = bucket
<1> DEFINE m == call[c]
<1>1. /\ m.pc = "send" /\ m.o.raw /\ m.out = "nothing" /\ m \in CallSet
      /\ StoreTypeOK /\ late \in SUBSET Request /\ (Repeats(m) <=> ReadOnly(m.o))
  BY BusyFacts DEF Direct, StoreInv, Repeats
<1>2. bucket' = bucket
  BY DEF Fails, Rejected, Lost
<1>3. ASSUME Again(c)
      PROVE  call'[c].pc = "send" /\ call'[c].out = "nothing"
  BY <1>1, <1>3, CallTypes DEF Again, Update, CallSet
<1>4. CASE Rejected(c)
  <2>1. (Again(c) /\ late' = late) \/ End(c, m, "rejected")
    BY <1>1, <1>4 DEF Rejected
  <2>2. CASE End(c, m, "rejected")
    BY <1>1, <1>2, <2>2, EndsDone
  <2>3. QED
    BY <1>2, <1>3, <2>1, <2>2
<1>5. CASE Lost(c)
  <2>1. CASE ReadOnly(m.o)
    <3>1. (Again(c) /\ late' = late) \/ EndWith(c, m, "error", late)
      BY <1>1, <1>5, <2>1 DEF Lost
    <3>2. CASE End(c, m, "error")
      BY <1>1, <1>2, <3>2, EndsDone
    <3>3. QED
      BY <1>2, <1>3, <3>1, <3>2 DEF End
  <2>2. CASE ~ReadOnly(m.o)
    <3> DEFINE sent == late \cup {RequestOf(c)}
    <3>1. EndWith(c, m, "error", sent)
      BY <1>1, <1>5, <2>2 DEF Lost, Repeats
    <3>2. RequestOf(c) \in Request
      BY <1>1, <2>2, RequestOfType
    <3>3. sent \in SUBSET Request
      BY <1>1, <3>2
    <3> HIDE DEF sent
    <3>4. Ends(c, m, "error", sent)
      BY <1>1, <3>1, <3>3, EndFacts
    <3>5. call'[c].pc = "done" /\ call'[c].out = "error"
      BY <1>1, <3>4 DEF Ends, CallSet
    <3>6. QED
      BY <1>2, <2>2, <3>5
  <2>3. QED
    BY <2>1, <2>2
<1>6. QED
  BY <1>4, <1>5 DEF Fails

-----------------------------------------------------------------------------
(* A step of the client or of the store, under whatever the program does.  *)

LEMMA ActsBusy ==
  ASSUME NEW c \in Client, Answers(c) \/ Fails(c)
  PROVE  Busy(c)
BY DEF Answers, Fails, WriteAnswered, GetAnswered, PageAnswered, Reconcile, Rejected, Lost, Busy

LEMMA RaceTellsApart ==
  ASSUME NEW c \in Client, ~Holds(Raw(Put(Cas, BodyOf[c], Initial)))
  PROVE  "match" \in honours
<1>1. Cas \in Key /\ BodyOf[c] \in Object /\ Initial \in Object /\ Initial # None
  BY KeysTyped DEF Object
<1>2. /\ Raw(Put(Cas, BodyOf[c], Initial)).op = "put"
      /\ Raw(Put(Cas, BodyOf[c], Initial)).expect = Initial
  BY <1>1, PutsAreOps
<1>3. QED
  BY <1>1, <1>2 DEF Holds

LEMMA ServeKeeps ==
  ASSUME DisposableInv, NEW c \in Client, Answers(c) \/ Fails(c), Observe,
         UNCHANGED <<progVars, calm, made>>
  PROVE  DisposableInv'
<1>1. /\ StoreInv /\ ProgType /\ OwnCalls /\ Stages /\ NothingLeft /\ RaceProved /\ Passed
      /\ prog' = prog /\ journal' = journal /\ calm' = calm /\ made' = made
  BY DEF DisposableInv, progVars
<1>2. StoreInv' /\ Frame(c) /\ Busy(c)
  BY <1>1, ClientKeeps, ActsBusy
<1>3. ProgType'
  BY <1>1 DEF ProgType
<1>4. CASE prog.pc = "production"
  BY <1>1, <1>2, <1>3, <1>4 DEF DisposableInv, OwnCalls, Stages, NothingLeft, RaceProved, Passed,
                                Trusted, Cleaning
<1>5. CASE prog.pc # "production"
  <2>1. Direct(c)
    <3>1. call[c].pc \in {"send", "reread", "done"}
      BY <1>1, CallTypes DEF StoreInv, CallSet
    <3>2. QED
      BY <1>1, <1>2, <1>5, <3>1 DEF OwnCalls, Direct, Busy
  <2>2. /\ call'[c].pc \in {"send", "done"}
        /\ late = {} => late' = {} \/ (/\ call'[c].pc = "done" /\ call'[c].out = "error"
                                       /\ ~ReadOnly(call[c].o))
        /\ call'[c].out = "refused" => ~Holds(call[c].o)
        /\ ReadOnly(call[c].o) => bucket' = bucket
    BY <1>1, <2>1, DirectAnswered, DirectFails
  <2>3. /\ call'[c].o = call[c].o /\ honours' = honours /\ bucket' \in [Key -> Object]
        /\ \A d \in Client \ {c} : call'[d] = call[d]
        /\ \A d \in Client : call'[d].o = call[d].o
    BY <1>2 DEF Frame
  <2>4. c # One => c = Two /\ prog.pc = "race"
    BY <1>1, <1>2, <1>5, KeysTyped DEF OwnCalls
  <2>5. prog.pc # "ended" /\ prog.pc # "start"
    BY <1>1, <1>2, <1>5, <2>4 DEF OwnCalls
  <2>6. OwnCalls'
    <3>1. \A d \in Client : /\ call'[d].pc # "reread"
                            /\ Busy(d)' => call'[d].o.raw /\ call'[d].o.op # "create"
      BY <1>1, <1>5, <2>1, <2>2, <2>3 DEF OwnCalls, Direct, Busy
    <3>2. Busy(Two)' => prog'.pc = "race"
      BY <1>1, <1>5, <2>3, <2>4, KeysTyped DEF OwnCalls, Busy
    <3>3. QED
      BY <1>1, <2>5, <3>1, <3>2 DEF OwnCalls
  <2>7. Stages'
    BY <1>1, <2>3, KeysTyped DEF Stages
  <2>8. NothingLeft'
    <3>1. SUFFICES ASSUME Trusted
                   PROVE  /\ late' = {} \/ \E d \in Client : Failure(d)' /\ (prog.pc # "race" => d = One)
                          /\ prog.pc = "final" =>
                               late' = {} /\ \A k \in Prefix : seen'[One][k] = {bucket'[k]}
      BY <1>1, <2>5 DEF NothingLeft, Trusted
    <3>2. CASE late = {}
      <4>1. late' = {} \/ Failure(c)'
        BY <2>2, <3>2 DEF Failure, Busy
      <4>2. late' = {} \/ \E d \in Client : Failure(d)' /\ (prog.pc # "race" => d = One)
        BY <2>4, <4>1
      <4>3. ASSUME prog.pc = "final"
            PROVE  late' = {} /\ \A k \in Prefix : seen'[One][k] = {bucket'[k]}
        <5>1. c = One /\ call[c].o = Raw(List(Prefix)) /\ \A k \in Prefix : seen[c][k] = {bucket[k]}
          BY <1>1, <2>4, <3>1, <4>3 DEF Stages, NothingLeft
        <5>2. ReadOnly(call[c].o) /\ Concerns(call[c].o) = Prefix
          BY <5>1, ListingIsOp DEF ReadOnly
        <5>3. bucket' = bucket /\ late' = {}
          BY <2>2, <3>2, <5>2
        <5>4. \A k \in Prefix : seen'[c][k] = seen[c][k] \cup {bucket'[k]}
          BY <1>1, <1>2, <2>3, <5>2, Watching
        <5>5. QED
          BY <5>1, <5>3, <5>4
      <4>4. QED
        BY <4>2, <4>3
    <3>3. CASE late # {}
      <4>1. PICK d \in Client : Failure(d) /\ (prog.pc # "race" => d = One)
        BY <1>1, <3>1, <3>3 DEF NothingLeft
      <4>2. d # c
        BY <1>2, <4>1 DEF Failure
      <4>3. Failure(d)'
        BY <2>3, <4>1, <4>2 DEF Failure, Busy
      <4>4. prog.pc # "final"
        BY <1>1, <3>1, <3>3 DEF NothingLeft
      <4>5. QED
        BY <4>1, <4>3, <4>4
    <3>4. QED
      BY <3>2, <3>3
  <2>9. RaceProved'
    <3>1. ASSUME prog.pc = "race", NEW d \in Client, call'[d].out = "refused"
          PROVE  "match" \in honours
      <4>1. CASE d = c
        BY <1>1, <2>2, <3>1, <4>1, RaceTellsApart DEF Stages
      <4>2. CASE d # c
        BY <1>1, <2>3, <3>1, <4>2 DEF RaceProved
      <4>3. QED
        BY <4>1, <4>2
    <3>2. QED
      BY <1>1, <2>3, <3>1 DEF RaceProved, Trusted
  <2>10. Passed'
    BY <1>1, <2>5 DEF Passed
  <2>11. QED
    BY <1>2, <1>3, <2>6, <2>7, <2>8, <2>9, <2>10 DEF DisposableInv
<1>6. QED
  BY <1>4, <1>5

LEMMA LandAnyKeeps ==
  ASSUME DisposableInv, NEW r \in late, Land(r), Observe, UNCHANGED <<progVars, calm, made>>
  PROVE  DisposableInv'
<1>1. /\ StoreInv /\ ProgType /\ OwnCalls /\ Stages /\ NothingLeft /\ RaceProved /\ Passed
      /\ prog' = prog /\ journal' = journal /\ calm' = calm /\ made' = made
  BY DEF DisposableInv, progVars
<1>2. /\ StoreInv' /\ late' = late \ {r} /\ honours' = honours
      /\ \A d \in Client : call'[d].o = call[d].o /\ call'[d].pc = call[d].pc
                           /\ call'[d].out = call[d].out
  BY <1>1, LandKeeps
<1>3. \A d \in Client : (Busy(d)' <=> Busy(d)) /\ (Failure(d)' <=> Failure(d))
  BY <1>2 DEF Busy, Failure
<1>4. ProgType' /\ OwnCalls' /\ Stages' /\ RaceProved'
  BY <1>1, <1>2, <1>3, KeysTyped DEF ProgType, OwnCalls, Stages, RaceProved, Trusted
<1>5. NothingLeft'
  <2>1. ASSUME Trusted
        PROVE  prog.pc \notin {"start", "final"} /\ \E d \in Client : Failure(d)' /\ (prog.pc # "race" => d = One)
    BY <1>1, <1>3, <2>1 DEF NothingLeft
  <2>2. QED
    BY <1>1, <2>1 DEF NothingLeft, Trusted
<1>6. Passed'
  BY <1>1 DEF Passed
<1>7. QED
  BY <1>2, <1>4, <1>5, <1>6 DEF DisposableInv

-----------------------------------------------------------------------------
(* A step of the program: it begins a call of the main thread, or it ends. *)

AllIdle == \A c \in Client : ~Busy(c)

\* What a stage needs when its call begins.
Prepared(o) ==
  /\ prog.pc \notin {"production", "start", "race", "ended"}
  /\ prog.pc \in {"create", "read"} => prog.todo # {} /\ prog.todo \subseteq Item
  /\ prog.pc \in {"clean", "final"} => o = Raw(List(Prefix))
  /\ prog.result # "PASS" /\ (prog.result # "none" \/ prog.failed => prog.pc \in Cleaning)
  /\ Trusted => late = {} /\ (prog.pc \in {"winner"} \cup Cleaning => "match" \in honours)

LEMMA CallKeeps ==
  ASSUME DisposableInv, prog.pc # "production", AllIdle, NEW o \in Op, o.raw, o.op # "create",
         Begin(One, o), ProgType', Prepared(o)'
  PROVE  DisposableInv'
<1>1. StoreInv /\ ProgType /\ OwnCalls /\ Stages /\ NothingLeft /\ RaceProved /\ Passed
  BY DEF DisposableInv
<1>2. /\ StoreInv' /\ call'[One] = New(o)
      /\ \A d \in Client \ {One} : call'[d] = call[d]
      /\ \A k \in Concerns(o) : seen'[One][k] = {bucket[k]}
      /\ bucket' = bucket /\ late' = late /\ honours' = honours
  BY <1>1, KeysTyped, BeginKeeps
<1>3. New(o).pc = "send" /\ New(o).o = o
  BY DEF New
<1>4. OwnCalls'
  BY <1>1, <1>2, <1>3, KeysTyped DEF OwnCalls, AllIdle, Busy, Prepared
<1>5. Stages'
  BY <1>2, <1>3 DEF Stages, Prepared
<1>6. NothingLeft'
  <2>1. ASSUME prog'.pc = "final"
        PROVE  \A k \in Prefix : seen'[One][k] = {bucket'[k]}
    BY <1>2, <2>1, ListingIsOp DEF Prepared
  <2>2. QED
    BY <1>2, <2>1 DEF NothingLeft, Prepared
<1>7. RaceProved' /\ Passed'
  BY DEF RaceProved, Passed, Prepared
<1>8. QED
  BY <1>2, <1>4, <1>5, <1>6, <1>7 DEF DisposableInv

\* A pass is only for a program that has seen all of it.
LEMMA ExitKeeps ==
  ASSUME DisposableInv, AllIdle, prog.pc # "production", NEW result \in {"PASS", "FAIL", "recovered"},
         Exits(result), UNCHANGED <<calm, made>>, journal' \in BOOLEAN,
         result = "PASS" => "match" \in honours /\ late = {} /\ \A k \in Prefix : bucket[k] = None
  PROVE  DisposableInv'
<1>1. StoreInv /\ ProgType /\ OwnCalls /\ UNCHANGED storeVars
  BY DEF DisposableInv, Exits
<1>2. /\ bucket' = bucket /\ call' = call /\ late' = late /\ honours' = honours
      /\ prog' = [prog EXCEPT !.pc = "ended", !.result = result]
  BY <1>1 DEF storeVars, Exits, Stop
<1>3. ProgType' /\ prog'.pc = "ended" /\ prog'.result = result
  BY <1>1, <1>2 DEF ProgType
<1>4. StoreInv'
  BY <1>1, StoreStutters
<1>5. OwnCalls'
  BY <1>1, <1>2, <1>3, KeysTyped DEF OwnCalls, AllIdle, Busy
<1>6. Stages' /\ NothingLeft' /\ RaceProved' /\ Passed'
  BY <1>2, <1>3 DEF Stages, NothingLeft, RaceProved, Passed, Trusted
<1>7. QED
  BY <1>3, <1>4, <1>5, <1>6 DEF DisposableInv

LEMMA ToType ==
  ASSUME ProgType, NEW pc \in {"preflight", "create", "read", "list", "initial", "race", "delete", "final"},
         NEW todo \in SUBSET Prefix, To(pc, todo), UNCHANGED <<calm, made>>, journal' \in BOOLEAN
  PROVE  /\ ProgType' /\ prog'.pc = pc /\ prog'.todo = todo
         /\ prog'.failed = prog.failed /\ prog'.result = prog.result
         /\ Trusted' <=> prog.result = "none" /\ ~prog.failed
BY DEF ProgType, To, Trusted

\* While the program may pass, an answer that is in order leaves no request behind.
LEMMA OkMeansClean ==
  ASSUME DisposableInv, Trusted, prog.pc # "race", call[One].out # "error"
  PROVE  late = {}
BY DEF DisposableInv, NothingLeft, Failure

LEMMA NextCallKeeps ==
  ASSUME DisposableInv, prog.pc \notin {"production", "race"}, AllIdle, prog.result # "PASS",
         NEW pc \in {"preflight", "create", "read", "list", "initial", "delete", "final"},
         NEW todo \in SUBSET Prefix, NEW o, Raw(o) \in Op, Raw(o).raw = TRUE, Raw(o).op # "create",
         Calling(pc, todo, o), UNCHANGED <<calm, made>>, journal' \in BOOLEAN, call[One].out # "error",
         pc \in {"create", "read"} => todo # {} /\ todo \subseteq Item,
         pc = "final" => o = List(Prefix),
         prog.result # "none" \/ prog.failed => pc \in Cleaning,
         pc \in Cleaning => prog.pc \in Cleaning
  PROVE  DisposableInv'
<1>1. StoreInv /\ ProgType /\ RaceProved
  BY DEF DisposableInv
<1>2. To(pc, todo) /\ Begin(One, Raw(o))
  BY DEF Calling
<1>3. /\ ProgType' /\ prog'.pc = pc /\ prog'.todo = todo /\ prog'.failed = prog.failed
      /\ prog'.result = prog.result
      /\ Trusted' <=> prog.result = "none" /\ ~prog.failed
  BY <1>1, <1>2, ToType
<1>4. late' = late /\ honours' = honours
  BY <1>2 DEF Begin
<1>5. Trusted' => Trusted
  BY <1>3 DEF Trusted
<1>6. Trusted' => late' = {}
  BY <1>4, <1>5, OkMeansClean
<1>7. Trusted' /\ pc \in {"winner"} \cup Cleaning => "match" \in honours'
  BY <1>1, <1>4, <1>5 DEF RaceProved, Cleaning
<1>8. Prepared(Raw(o))'
  BY <1>3, <1>6, <1>7 DEF Prepared, Cleaning
<1>9. QED
  BY <1>1, <1>2, <1>3, <1>8, CallKeeps

LEMMA CleanupKeeps ==
  ASSUME DisposableInv, AllIdle, prog.pc \notin {"production"}, prog.result # "PASS",
         NEW failed \in BOOLEAN, Cleanup(failed), UNCHANGED <<calm, made>>, journal' \in BOOLEAN,
         ~failed /\ prog.result = "none" => late = {} /\ "match" \in honours
  PROVE  DisposableInv'
<1>1. ProgType
  BY DEF DisposableInv
<1>2. /\ prog' = [prog EXCEPT !.pc = "clean", !.todo = {}, !.failed = failed]
      /\ Begin(One, Raw(List(Prefix)))
  BY DEF Cleanup
<1>3. late' = late /\ honours' = honours
  BY <1>2 DEF Begin
<1>4. ProgType' /\ prog'.pc = "clean" /\ prog'.failed = failed /\ prog'.result = prog.result
  BY <1>1, <1>2 DEF ProgType
<1>5. Prepared(Raw(List(Prefix)))'
  BY <1>3, <1>4 DEF Prepared, Trusted, Cleaning
<1>6. QED
  BY <1>2, <1>4, <1>5, ListingIsOp, CallKeeps

-----------------------------------------------------------------------------
(* The steps of the program, one by one.                                   *)

LEMMA AtFacts ==
  ASSUME DisposableInv, NEW pc, At(pc), pc # "production"
  PROVE  /\ AllIdle /\ prog.pc = pc /\ StoreInv /\ ProgType /\ Stages /\ prog.todo \subseteq Prefix
         /\ prog.failed \in BOOLEAN /\ journal \in BOOLEAN
         /\ pc # "ended" => prog.result # "PASS"
         /\ pc \notin Cleaning \cup {"ended"} => prog.result = "none" /\ ~prog.failed
<1>1. prog.failed \in BOOLEAN /\ journal \in BOOLEAN /\ prog.todo \subseteq Prefix
  BY DEF DisposableInv, ProgType
<1>2. AllIdle /\ prog.pc = pc /\ StoreInv /\ ProgType /\ Stages
  BY DEF At, AllIdle, DisposableInv
<1>3. pc # "ended" => prog.result # "PASS"
  BY DEF At, DisposableInv, Passed
<1>4. pc \notin Cleaning \cup {"ended"} => prog.result = "none" /\ ~prog.failed
  BY <1>2 DEF Stages
<1>5. QED
  BY <1>1, <1>2, <1>3, <1>4

LEMMA JournalKeeps ==
  ASSUME DisposableInv, Journal, UNCHANGED <<calm, made>>
  PROVE  DisposableInv'
<1>1. At("start") /\ Calling("preflight", {}, List(Prefix)) /\ journal' = TRUE
  BY DEF Journal
<1>2. AllIdle /\ prog.pc = "start" /\ prog.result = "none" /\ ~prog.failed /\ StoreInv /\ ProgType
  BY <1>1, AtFacts DEF Cleaning
<1>3. To("preflight", {}) /\ Begin(One, Raw(List(Prefix)))
  BY <1>1 DEF Calling
<1>4. /\ ProgType' /\ prog'.pc = "preflight" /\ prog'.result = "none" /\ ~prog'.failed
      /\ Trusted' <=> ~prog.failed
  BY <1>1, <1>2, <1>3, ToType
<1>5. late' = late
  BY <1>3 DEF Begin
<1>6. Trusted' => late = {}
  <2>1. Trusted' => Trusted
    BY <1>2, <1>4 DEF Trusted
  <2>2. QED
    BY <1>2, <2>1 DEF DisposableInv, NothingLeft
<1>7. Prepared(Raw(List(Prefix)))'
  BY <1>4, <1>5, <1>6 DEF Prepared, Cleaning
<1>8. QED
  BY <1>2, <1>3, <1>4, <1>7, ListingIsOp, CallKeeps

LEMMA PreflightKeeps ==
  ASSUME DisposableInv, Preflight, UNCHANGED <<calm, made>>
  PROVE  DisposableInv'
<1>1. At("preflight") /\ journal' = journal
  BY DEF Preflight
<1>2. /\ AllIdle /\ prog.pc = "preflight" /\ prog.result = "none" /\ ~prog.failed /\ journal' \in BOOLEAN
  BY <1>1, AtFacts DEF Cleaning
<1>3. CASE Ok(One) /\ Calling("create", Item, [Upload(Min(Item)) EXCEPT !.op = "put"])
  <2>1. Item \in SUBSET Prefix /\ Item # {} /\ Min(Item) \in Item
    BY KeysTyped, DisposableAssumption, MinIsIn
  <2>2. call[One].out # "error"
    BY <1>3 DEF Ok
  <2>3. QED
    BY <1>2, <1>3, <2>1, <2>2, UploadsAreOps, NextCallKeeps DEF Cleaning
<1>4. CASE Exits("FAIL")
  BY <1>2, <1>4, ExitKeeps
<1>5. QED
  BY <1>3, <1>4 DEF Preflight

LEMMA UploadedKeeps ==
  ASSUME DisposableInv, Uploaded, UNCHANGED <<calm, made>>
  PROVE  DisposableInv'
<1>1. At("create") /\ journal' = journal
  BY DEF Uploaded
<1>2. /\ AllIdle /\ prog.pc = "create" /\ prog.result = "none" /\ ~prog.failed /\ journal' \in BOOLEAN
      /\ prog.todo # {} /\ prog.todo \subseteq Item /\ prog.todo \subseteq Prefix
  BY <1>1, AtFacts DEF Cleaning, Stages
<1>3. CASE Ok(One) /\ Calling("read", prog.todo, Get(Min(prog.todo)))
  <2>1. Min(prog.todo) \in Key
    BY <1>2, KeysTyped, MinIsIn
  <2>2. call[One].out # "error"
    BY <1>3 DEF Ok
  <2>3. QED
    BY <1>2, <1>3, <2>1, <2>2, ReadsAreOps, NextCallKeeps DEF Cleaning
<1>4. CASE Cleanup(TRUE)
  BY <1>2, <1>4, CleanupKeeps
<1>5. QED
  BY <1>3, <1>4 DEF Uploaded

LEMMA ReadBackKeeps ==
  ASSUME DisposableInv, ReadBack, UNCHANGED <<calm, made>>
  PROVE  DisposableInv'
<1> DEFINE todo == prog.todo \ {Min(prog.todo)}
<1>1. At("read") /\ journal' = journal
  BY DEF ReadBack
<1>2. /\ AllIdle /\ prog.pc = "read" /\ prog.result = "none" /\ ~prog.failed /\ journal' \in BOOLEAN
      /\ prog.todo # {} /\ prog.todo \subseteq Item /\ todo \in SUBSET Prefix /\ todo \subseteq Item
  BY <1>1, AtFacts DEF Cleaning, Stages
<1>3. \/ Cleanup(TRUE)
      \/ Ok(One) /\ Calling("list", {}, List(Prefix))
      \/ Ok(One) /\ todo # {} /\ Calling("create", todo, [Upload(Min(todo)) EXCEPT !.op = "put"])
  BY DEF ReadBack
<1> HIDE DEF todo
<1>4. Ok(One) => call[One].out # "error"
  BY DEF Ok
<1>5. CASE Cleanup(TRUE)
  BY <1>2, <1>5, CleanupKeeps
<1>6. CASE Ok(One) /\ Calling("list", {}, List(Prefix))
  BY <1>2, <1>4, <1>6, ListingIsOp, NextCallKeeps DEF Cleaning
<1>7. CASE Ok(One) /\ todo # {} /\ Calling("create", todo, [Upload(Min(todo)) EXCEPT !.op = "put"])
  <2>1. Min(todo) \in Item
    BY <1>2, <1>7, MinIsIn
  <2>2. QED
    BY <1>2, <1>4, <1>7, <2>1, UploadsAreOps, NextCallKeeps DEF Cleaning
<1>8. QED
  BY <1>3, <1>5, <1>6, <1>7

LEMMA ListedKeeps ==
  ASSUME DisposableInv, Listed, UNCHANGED <<calm, made>>
  PROVE  DisposableInv'
<1>1. At("list") /\ journal' = journal
  BY DEF Listed
<1>2. AllIdle /\ prog.pc = "list" /\ prog.result = "none" /\ ~prog.failed /\ journal' \in BOOLEAN
  BY <1>1, AtFacts DEF Cleaning
<1>3. CASE Ok(One) /\ Calling("initial", {}, Put(Cas, Initial, None))
  <2>1. Cas \in Key /\ Initial \in Object /\ None \in Object
    BY KeysTyped DEF Object
  <2>2. call[One].out # "error"
    BY <1>3 DEF Ok
  <2>3. QED
    BY <1>2, <1>3, <2>1, <2>2, PutsAreOps, NextCallKeeps DEF Cleaning
<1>4. CASE Cleanup(TRUE)
  BY <1>2, <1>4, CleanupKeeps
<1>5. QED
  BY <1>3, <1>4 DEF Listed

\* Both threads begin at once, with the same precondition.
LEMMA StartRaceKeeps ==
  ASSUME DisposableInv, StartRace, UNCHANGED <<calm, made>>
  PROVE  DisposableInv'
<1>1. At("initial") /\ journal' = journal
  BY DEF StartRace
<1>2. /\ AllIdle /\ prog.pc = "initial" /\ prog.result = "none" /\ ~prog.failed /\ journal' \in BOOLEAN
      /\ StoreInv /\ ProgType
  BY <1>1, AtFacts DEF Cleaning
<1>3. CASE Cleanup(TRUE)
  BY <1>2, <1>3, CleanupKeeps
<1>4. CASE Ok(One) /\ ~Cleanup(TRUE)
  <2> DEFINE o(c) == Raw(Put(Cas, BodyOf[c], Initial))
             s    == [k \in Key |-> IF k = Cas THEN {bucket[k]} ELSE {}]
  <2>1. /\ To("race", {}) /\ bucket' = bucket /\ late' = late /\ honours' = honours
        /\ call' = [c \in Client |-> New(o(c))] /\ seen' = [c \in Client |-> s]
    BY <1>4 DEF StartRace
  <2>2. \A c \in Client : o(c) \in Op /\ o(c).op = "put" /\ o(c).raw = TRUE
    <3>1. Cas \in Key /\ Initial \in Object /\ \A c \in Client : BodyOf[c] \in Object
      BY KeysTyped DEF Object
    <3>2. QED
      BY <3>1, PutsAreOps
  <2>3. \A c \in Client : Concerns(o(c)) = {Cas}
    BY DEF Concerns, Raw, Put
  <2>4. \A c \in Client : /\ New(o(c)) \in CallSet /\ New(o(c)).o = o(c)
                          /\ New(o(c)).pc = "send" /\ New(o(c)).out = "nothing"
    <3>1. ASSUME NEW c \in Client
          PROVE  New(o(c)) \in CallSet
      BY <2>2, NewType
    <3>2. QED
      BY <3>1 DEF New
  <2>5. StoreTypeOK /\ bucket \in [Key -> Object] /\ Cas \in Key
    BY <1>2, KeysTyped DEF StoreInv, StoreTypeOK
  <2>6. s \in [Key -> SUBSET Object] /\ s[Cas] = {bucket[Cas]}
    BY <2>5
  <2> HIDE DEF o, s
  <2>7. StoreTypeOK'
    <3>1. call' \in [Client -> CallSet] /\ seen' \in [Client -> [Key -> SUBSET Object]]
      BY <2>1, <2>4, <2>6
    <3>2. QED
      BY <2>1, <2>5, <3>1 DEF StoreTypeOK, CallSet
  <2>8. ASSUME NEW c \in Client
        PROVE  CallInv(c, call[c], seen[c], bucket, late)'
    <3>1. \A r \in late : r.by = c => r.told # "nothing"
      BY <1>2 DEF StoreInv, CallInv, LostWrite, AllIdle, Busy
    <3>2. CallInv(c, New(o(c)), s, bucket, late)
      BY <2>2, <2>3, <2>6, <3>1, NewInv
    <3>3. QED
      BY <2>1, <3>2
  <2>9. StoreInv'
    BY <1>2, <2>1, <2>7, <2>8 DEF StoreInv
  <2>10. /\ ProgType' /\ prog'.pc = "race" /\ prog'.result = "none"
         /\ ~prog'.failed
         /\ Trusted' <=> ~prog.failed
    BY <1>2, <2>1, ToType
  <2>11. Trusted' => late = {}
    <3>1. Trusted' => Trusted
      BY <1>2, <2>10 DEF Trusted
    <3>2. QED
      BY <1>2, <1>4, <3>1, OkMeansClean DEF Ok
  <2>12. OwnCalls' /\ Stages' /\ RaceProved'
    <3>1. \A c \in Client : call'[c].o = o(c) /\ call'[c].pc = "send" /\ call'[c].out = "nothing"
      BY <2>1, <2>4
    <3>2. OwnCalls' /\ RaceProved'
      BY <2>2, <2>10, <3>1 DEF OwnCalls, RaceProved, Cleaning
    <3>3. Stages'
      BY <2>10, <3>1 DEF Stages, o
    <3>4. QED
      BY <3>2, <3>3
  <2>13. NothingLeft' /\ Passed'
    BY <2>1, <2>10, <2>11 DEF NothingLeft, Passed
  <2>14. QED
    BY <2>9, <2>10, <2>12, <2>13 DEF DisposableInv
<1>5. QED
  BY <1>3, <1>4 DEF StartRace

\* One acceptance and one refusal: the store compared the ETag, and nothing is left over.
LEMMA RacedKeeps ==
  ASSUME DisposableInv, Raced, UNCHANGED <<calm, made>>
  PROVE  DisposableInv'
<1>1. At("race") /\ journal' = journal
  BY DEF Raced
<1>2. /\ AllIdle /\ prog.pc = "race" /\ prog.result = "none" /\ ~prog.failed /\ journal' \in BOOLEAN
      /\ StoreInv /\ ProgType /\ NothingLeft /\ RaceProved
  BY <1>1, AtFacts DEF Cleaning, DisposableInv
<1>3. CASE Cleanup(TRUE)
  BY <1>2, <1>3, CleanupKeeps
<1>4. CASE OneWinner /\ ~Cleanup(TRUE)
  <2> DEFINE w == CHOOSE c \in Client : Ok(c)
  <2>1. prog' = [prog EXCEPT !.pc = "winner", !.winner = w] /\ Begin(One, Raw(Get(Cas)))
    BY <1>4 DEF Raced
  <2>2. /\ "ok" \in {call[c].out : c \in Client}
        /\ "refused" \in {call[c].out : c \in Client}
        /\ "error" \notin {call[c].out : c \in Client}
    BY <1>4 DEF OneWinner
  <2>3. w \in Client
    <3>1. \E c \in Client : Ok(c)
      BY <2>2 DEF Ok
    <3>2. QED
      BY <3>1
  <2> HIDE DEF w
  <2>4. "match" \in honours
    BY <1>2, <2>2 DEF RaceProved
  <2>5. Trusted => late = {}
    BY <1>2, <2>2 DEF NothingLeft, Failure
  <2>6. /\ ProgType' /\ prog'.pc = "winner" /\ prog'.result = "none" /\ prog'.failed = prog.failed
    BY <1>2, <2>1, <2>3 DEF ProgType
  <2>7. late' = late /\ honours' = honours
    BY <2>1 DEF Begin
  <2>8. Prepared(Raw(Get(Cas)))'
    BY <1>2, <2>4, <2>5, <2>6, <2>7 DEF Prepared, Cleaning, Trusted
  <2>9. Cas \in Key
    BY KeysTyped
  <2>10. QED
    BY <1>2, <2>1, <2>6, <2>8, <2>9, ReadsAreOps, CallKeeps
<1>5. QED
  BY <1>3, <1>4 DEF Raced

LEMMA WinnerReadKeeps ==
  ASSUME DisposableInv, WinnerRead, UNCHANGED <<calm, made>>
  PROVE  DisposableInv'
<1> DEFINE failed == ~Ok(One) \/ call[One].value # BodyOf[prog.winner]
<1>1. At("winner") /\ journal' = journal /\ Cleanup(failed)
  BY DEF WinnerRead
<1>2. /\ AllIdle /\ prog.pc = "winner" /\ prog.result = "none" /\ ~prog.failed /\ journal' \in BOOLEAN
      /\ RaceProved
  BY <1>1, AtFacts DEF Cleaning, DisposableInv
<1>3. ~failed => call[One].out # "error"
  BY DEF Ok
<1>4. failed \in BOOLEAN
  OBVIOUS
<1> HIDE DEF failed
<1>5. ~failed => late = {} /\ "match" \in honours
  BY <1>2, <1>3, OkMeansClean DEF RaceProved, Trusted
<1>6. QED
  BY <1>1, <1>2, <1>4, <1>5, CleanupKeeps

LEMMA DeleteNextKeeps ==
  ASSUME DisposableInv, DeleteNext, UNCHANGED <<calm, made>>
  PROVE  DisposableInv'
<1> DEFINE todo == IF prog.pc = "clean" THEN Doomed(call[One].keys) ELSE prog.todo
<1>1. (At("clean") \/ At("delete")) /\ journal' = journal
  BY DEF DeleteNext
<1>2. /\ AllIdle /\ prog.pc \in {"clean", "delete"} /\ prog.result # "PASS" /\ journal' \in BOOLEAN
      /\ StoreInv /\ Stages /\ prog.todo \subseteq Prefix
  BY <1>1, AtFacts
<1>3. \/ ~Ok(One) /\ Exits("FAIL")
      \/ Ok(One) /\ Calling("final", {}, List(Prefix))
      \/ Ok(One) /\ todo # {} /\ Calling("delete", todo \ {Min(todo)}, Delete(Min(todo)))
  BY DEF DeleteNext
<1>4. Ok(One) => call[One].out # "error" /\ todo \in SUBSET Prefix
  <2>1. CASE prog.pc = "delete"
    BY <1>2, <2>1 DEF Ok
  <2>2. CASE prog.pc = "clean" /\ Ok(One)
    <3>1. call[One].o = Raw(List(Prefix)) /\ CallInv(One, call[One], seen[One], bucket, late)
      BY <1>2, <2>2, KeysTyped DEF Stages, StoreInv
    <3>2. call[One].pc = "done" /\ call[One].out = "ok"
      BY <1>2, <2>2, KeysTyped DEF AllIdle, Busy, Ok
    <3>3. call[One].keys \subseteq Prefix
      BY <3>1, <3>2, ListingIsOp DEF CallInv, Succeeded
    <3>4. QED
      BY <2>2, <3>2, <3>3 DEF Doomed
  <2>3. QED
    BY <1>2, <2>1, <2>2
<1> HIDE DEF todo
<1>5. CASE Exits("FAIL")
  BY <1>2, <1>5, ExitKeeps
<1>6. CASE Ok(One) /\ Calling("final", {}, List(Prefix))
  BY <1>2, <1>4, <1>6, ListingIsOp, NextCallKeeps DEF Cleaning
<1>7. CASE Ok(One) /\ todo # {} /\ Calling("delete", todo \ {Min(todo)}, Delete(Min(todo)))
  <2>1. Min(todo) \in Key /\ todo \ {Min(todo)} \in SUBSET Prefix
    BY <1>4, <1>7, KeysTyped, MinIsIn
  <2>2. QED
    BY <1>2, <1>4, <1>7, <2>1, ReadsAreOps, NextCallKeeps DEF Cleaning
<1>8. QED
  BY <1>3, <1>5, <1>6, <1>7

\* The final listing is complete, and nothing has changed since it began.
LEMMA FinalListKeeps ==
  ASSUME DisposableInv, FinalList, UNCHANGED <<calm, made>>
  PROVE  DisposableInv'
<1> DEFINE clean  == Ok(One) /\ call[One].keys = {}
           result == IF ~clean \/ prog.failed THEN "FAIL"
                     ELSE IF prog.result = "none" THEN "PASS" ELSE "recovered"
<1>1. At("final") /\ journal' = journal /\ Exits(result)
  BY DEF FinalList
<1>2. /\ AllIdle /\ prog.pc = "final" /\ journal' \in BOOLEAN
      /\ StoreInv /\ Stages /\ NothingLeft /\ RaceProved
  BY <1>1, AtFacts DEF DisposableInv
<1>3. result \in {"PASS", "FAIL", "recovered"}
  OBVIOUS
<1>4. ASSUME result = "PASS"
      PROVE  "match" \in honours /\ late = {} /\ \A k \in Prefix : bucket[k] = None
  <2>1. clean /\ Trusted
    BY <1>2, <1>4 DEF Trusted
  <2>2. "match" \in honours /\ late = {} /\ \A k \in Prefix : seen[One][k] = {bucket[k]}
    BY <1>2, <2>1 DEF RaceProved, NothingLeft, Cleaning
  <2>3. /\ call[One].o = Raw(List(Prefix)) /\ CallInv(One, call[One], seen[One], bucket, late)
        /\ call[One].pc = "done" /\ call[One].out = "ok" /\ call[One].keys = {}
    BY <1>2, <2>1, KeysTyped DEF Stages, StoreInv, AllIdle, Busy, Ok
  <2>4. \A k \in Prefix : None \in seen[One][k]
    BY <2>3, ListingIsOp DEF CallInv, Succeeded
  <2>5. QED
    BY <2>2, <2>4
<1> HIDE DEF result
<1>5. QED
  BY <1>1, <1>2, <1>3, <1>4, ExitKeeps

\* An interruption: the requests of a write under way are told as lost.
LEMMA DieKeeps ==
  ASSUME DisposableInv, Die, UNCHANGED <<journal, calm, made>>
  PROVE  DisposableInv'
<1> DEFINE cut  == {c \in Client : Busy(c) /\ ~ReadOnly(call[c].o)}
           last(c) == Told(RequestOf(c), c, "error")
           dead(c) == [call[c] EXCEPT !.pc = "done", !.out = "error"]
<1>1. /\ StoreInv /\ StoreTypeOK /\ ProgType /\ OwnCalls /\ Stages /\ Passed
      /\ prog.pc \notin {"production", "start", "ended"} /\ prog.result # "PASS"
      /\ prog' = [prog EXCEPT !.pc = "ended", !.result = "FAIL"]
      /\ late' = late \cup {last(c) : c \in cut}
      /\ call' = [c \in Client |-> IF Busy(c) THEN dead(c) ELSE call[c]]
      /\ bucket' = bucket /\ seen' = seen /\ honours' = honours
  BY DEF DisposableInv, StoreInv, Die, Stop, Passed
<1>2. \A c \in Client : /\ call[c] \in CallSet /\ call[c].pc # "reread"
                        /\ dead(c) \in CallSet
                        /\ dead(c).pc = "done" /\ dead(c).out = "error"
  <2>1. \A c \in Client : call[c] \in CallSet /\ call[c].pc # "reread"
    BY <1>1, CallTypes DEF OwnCalls
  <2>2. QED
    BY <2>1 DEF CallSet
<1>3. \A c \in cut : last(c) \in Request /\ last(c).told = "error" /\ last(c).by = c
  <2>1. ASSUME NEW c \in cut
        PROVE  last(c) \in Request /\ last(c).told = "error" /\ last(c).by = c
    <3>1. RequestOf(c) \in Request /\ RequestOf(c).by = c /\ RequestOf(c).told = "nothing"
      BY <1>1, RequestOfType
    <3>2. last(c) \in Request /\ last(c).by = c
      BY <3>1, ToldType
    <3>3. last(c).told = "error"
      BY <3>1 DEF Told, Request
    <3>4. QED
      BY <3>2, <3>3
  <2>2. QED
    BY <2>1
<1> HIDE DEF cut, last, dead
<1>4. late' \subseteq Request
  <2>1. \A c \in cut : last(c) \in Request
    BY <1>3
  <2>2. late \subseteq Request
    BY <1>1 DEF StoreTypeOK
  <2>3. QED
    BY <1>1, <2>1, <2>2
<1>5. StoreTypeOK'
  <2>1. call' \in [Client -> CallSet]
    BY <1>1, <1>2
  <2>2. QED
    BY <1>1, <1>4, <2>1 DEF StoreTypeOK, CallSet
<1>6. \A r \in late' : r \in late \/ r.told = "error"
  BY <1>1, <1>3
<1>7. ASSUME NEW c \in Client
      PROVE  CallInv(c, call'[c], seen[c], bucket, late')
  <2>1. CallInv(c, call[c], seen[c], bucket, late)
    BY <1>1 DEF StoreInv
  <2>2. \A r \in late' : r.by = c => r.told # "nothing"
    BY <1>2, <1>6, <2>1 DEF CallInv, LostWrite
  <2>3. CASE Busy(c)
    <3>1. call'[c] = dead(c)
      BY <1>1, <2>3
    <3>2. CallInv(c, dead(c), seen[c], bucket, late')
      BY <1>2, <2>2 DEF CallInv
    <3>3. QED
      BY <3>1, <3>2
  <2>4. CASE ~Busy(c)
    <3>1. call'[c] = call[c]
      BY <1>1, <2>4
    <3>2. QED
      BY <2>1, <2>2, <2>4, <3>1 DEF CallInv, Busy
  <2>5. QED
    BY <2>3, <2>4
<1>8. StoreInv'
  <2>1. \A r \in late' : r.told \notin {"refused", "rejected"}
    BY <1>1, <1>6 DEF StoreInv
  <2>2. QED
    BY <1>1, <1>5, <1>7, <2>1 DEF StoreInv
<1>9. ProgType' /\ prog'.pc = "ended" /\ prog'.result = "FAIL"
  BY <1>1 DEF ProgType
<1>10. \A c \in Client : call'[c].pc = "done"
  BY <1>1, <1>2 DEF Busy
<1>11. OwnCalls' /\ Stages' /\ NothingLeft' /\ RaceProved' /\ Passed'
  BY <1>9, <1>10, KeysTyped DEF OwnCalls, Stages, NothingLeft, RaceProved, Passed, Trusted, Busy, Cleaning
<1>12. QED
  BY <1>8, <1>9, <1>11 DEF DisposableInv

LEMMA RecoverKeeps ==
  ASSUME DisposableInv, Recover, UNCHANGED <<journal, calm, made>>
  PROVE  DisposableInv'
<1>1. At("ended") /\ prog.result # "PASS" /\ Cleanup(FALSE)
  BY DEF Recover
<1>2. /\ AllIdle /\ prog.pc = "ended" /\ prog.result # "none" /\ journal' \in BOOLEAN
  <2>1. AllIdle /\ prog.pc = "ended" /\ Stages /\ journal \in BOOLEAN
    BY <1>1, AtFacts
  <2>2. QED
    BY <2>1 DEF Stages
<1>3. QED
  BY <1>1, <1>2, CleanupKeeps

LEMMA ProduceKeeps ==
  ASSUME DisposableInv, Produce
  PROVE  DisposableInv'
<1>1. /\ StoreInv /\ ProgType /\ Stages /\ Passed /\ prog.pc = "production"
      /\ prog' = prog /\ journal' = journal /\ calm' = calm
      /\ made < MaxCalls /\ made' = made + 1
  BY DEF DisposableInv, Produce, progVars
<1>2. PICK c \in Client, o \in Calls : Begin(c, o)
  BY DEF Produce
<1>3. StoreInv'
  BY <1>1, <1>2, CallsAreOps, BeginKeeps
<1>4. ProgType'
  <2>1. made' \in 0..MaxCalls
    BY <1>1, DisposableAssumption DEF ProgType
  <2>2. QED
    BY <1>1, <2>1 DEF ProgType
<1>5. OwnCalls' /\ Stages' /\ NothingLeft' /\ RaceProved' /\ Passed'
  BY <1>1 DEF OwnCalls, Stages, NothingLeft, RaceProved, Passed, Trusted, Cleaning
<1>6. QED
  BY <1>3, <1>4, <1>5 DEF DisposableInv

LEMMA InitHolds ==
  ASSUME DisposableInit
  PROVE  DisposableInv
<1>1. /\ StoreInit /\ honours \subseteq {"create", "match"} /\ journal = FALSE /\ calm = FALSE /\ made = 0
      /\ prog \in [pc : {"production", "start"}, todo : {{}}, failed : {FALSE},
                   winner : {One}, result : {"none"}]
  BY DEF DisposableInit
<1>2. prog.pc \in {"production", "start"} /\ prog.result = "none" /\ ~prog.failed
  BY <1>1
<1>3. late = {} /\ \A c \in Client : call[c].pc = "done"
  BY <1>1 DEF StoreInit, Idle, New
<1>4. StoreInv
  BY <1>1, StoreInitInv
<1>5. ProgType
  <2>1. 0 \in 0..MaxCalls
    BY DisposableAssumption
  <2>2. prog \in
       [pc : {"production", "start", "preflight", "create", "read", "list",
              "initial", "race", "winner", "clean", "delete", "final", "ended"},
        todo : SUBSET Prefix, failed : BOOLEAN, winner : Client,
        result : {"none", "PASS", "FAIL", "recovered"}]
    BY <1>1, KeysTyped
  <2>3. QED
    BY <1>1, <2>1, <2>2 DEF ProgType
<1>6. OwnCalls /\ Stages /\ NothingLeft /\ RaceProved /\ Passed
  BY <1>2, <1>3, KeysTyped DEF OwnCalls, Stages, NothingLeft, RaceProved, Passed, Busy, Cleaning
<1>7. QED
  BY <1>4, <1>5, <1>6 DEF DisposableInv

LEMMA NextKeeps ==
  ASSUME DisposableInv, [DisposableNext]_vars
  PROVE  DisposableInv'
<1>1. CASE Produce
  BY <1>1, ProduceKeeps
<1>2. CASE Serve \/ Trouble
  BY <1>2, ServeKeeps DEF Serve, Trouble
<1>3. CASE LandAny
  BY <1>3, LandAnyKeeps DEF LandAny
<1>4. CASE Run
  BY <1>4, JournalKeeps, PreflightKeeps, UploadedKeeps, ReadBackKeeps, ListedKeeps,
     StartRaceKeeps, RacedKeeps, WinnerReadKeeps, DeleteNextKeeps, FinalListKeeps DEF Run, Program
<1>5. CASE Recovery
  BY <1>5, RecoverKeeps DEF Recovery
<1>6. CASE Die /\ UNCHANGED <<journal, calm, made>>
  BY <1>6, DieKeeps
<1>7. CASE CalmDown \/ UNCHANGED vars
  <2>1. /\ UNCHANGED storeVars /\ prog' = prog /\ journal' = journal /\ made' = made
        /\ calm' = calm \/ calm' = TRUE
    BY <1>7 DEF CalmDown, vars, progVars
  <2>2. StoreInv'
    BY <2>1, StoreStutters DEF DisposableInv
  <2>3. QED
    BY <2>1, <2>2 DEF DisposableInv, ProgType, OwnCalls, Stages, NothingLeft, RaceProved, Passed,
                      Trusted, Failure, Busy, storeVars
<1>8. QED
  BY <1>1, <1>2, <1>3, <1>4, <1>5, <1>6, <1>7 DEF DisposableNext

-----------------------------------------------------------------------------
(* Theorems.                                                               *)

\* dkc/storage_disposable.py and the client it calls: the stages, the calls, what the store
\* holds and what is left over agree, whatever is lost, late or interrupted.
THEOREM DisposableIsSound == DisposableSpec => []DisposableInv
<1>1. DisposableInit => DisposableInv
  BY InitHolds
<1>2. DisposableInv /\ [DisposableNext]_vars => DisposableInv'
  BY NextKeeps
<1>3. QED
  BY <1>1, <1>2, PTL DEF DisposableSpec

\* Type correctness of dkc/s3.py, dkc/remote_store.py and dkc/storage_disposable.py.
THEOREM TypeCorrect == DisposableSpec => []TypeOK
<1>1. DisposableInv => TypeOK
  BY DEF DisposableInv, StoreInv, ProgType, TypeOK
<1>2. QED
  BY <1>1, DisposableIsSound, PTL

\* _cas_probe: a store that ignores If-Match never passes, however the answers of the race
\* are lost or repeated.
THEOREM PassMeansMatch == DisposableSpec => []PassNeedsMatch
<1>1. DisposableInv => PassNeedsMatch
  BY DEF DisposableInv, Passed, PassNeedsMatch
<1>2. QED
  BY <1>1, DisposableIsSound, PTL

\* cleanup_disposable_prefix before the result: a pass leaves nothing behind, and nothing
\* that was sent can still arrive.
THEOREM PassMeansClean == DisposableSpec => []PassIsClean
<1>1. DisposableInv => PassIsClean
  BY DEF DisposableInv, Passed, PassIsClean
<1>2. QED
  BY <1>1, DisposableIsSound, PTL

\* S3Client._send under the program and under production: a refused write never happens.
THEOREM RefusalsHold == DisposableSpec => []RefusedNeverWrote
<1>1. DisposableInv => RefusedNeverWrote
  BY StoreInvRefused DEF DisposableInv
<1>2. QED
  BY <1>1, DisposableIsSound, PTL

\* The same for S3ObjectStore.put and create_immutable: what was reported as done was there.
THEOREM SuccessesHold == DisposableSpec => []OkWasThere
<1>1. DisposableInv => OkWasThere
  BY StoreInvOk DEF DisposableInv
<1>2. QED
  BY <1>1, DisposableIsSound, PTL

\* And for S3Client.list_objects, on which the clean-up of the prefix relies.
THEOREM ListingsHold == DisposableSpec => []ListIsSound
<1>1. DisposableInv => ListIsSound
  BY StoreInvListing DEF DisposableInv
<1>2. QED
  BY <1>1, DisposableIsSound, PTL
=============================================================================
