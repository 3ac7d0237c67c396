------------------------- MODULE ObjectStoreProofs -------------------------
(***************************************************************************)
(* Facts about every step of ObjectStore, for any number of clients, keys, *)
(* attempts and late requests, whoever makes the calls: types, and what a  *)
(* call knows of the store while it lasts and when it has ended.  The      *)
(* theorems are about a program that makes any calls of S3ObjectStore;     *)
(* DisposableProofs uses the facts for the program that it is about.       *)
(***************************************************************************)
EXTENDS ObjectStore, FiniteNumbers

-----------------------------------------------------------------------------
(* The inductive invariant.  Its parts speak of the call m of a client c,  *)
(* of what its keys held (s), of the bucket b and of the late requests L.  *)

CallSet ==
  [o : Op, pc : {"send", "reread", "done"}, lost : BOOLEAN, tries : 1..MaxAttempts,
   keys : SUBSET Key, value : Object, writes : Nat,
   out : {"nothing", "ok", "refused", "rejected", "error"}]

LostWrite(m) == m.pc = "reread" /\ m.lost

\* A listing under way: up to the last key returned it has all that was there all along,
\* and it has nothing that was never there.
ListedSoFar(m, s) ==
  /\ m.keys \subseteq m.o.under
  /\ \A k \in m.o.under : None \notin s[k] /\ (\E j \in m.keys : k <= j) => k \in m.keys
  /\ \A k \in m.keys : s[k] # {None}

\* What the success of a call says.
Succeeded(m, s) ==
  /\ s[m.o.key] # {} =>
       /\ m.o.op \in {"put", "create", "delete"} => m.o.body \in s[m.o.key]
       /\ m.o.op = "get" => m.value \in s[m.o.key]
  /\ m.o.op = "list" =>
       /\ m.keys \subseteq m.o.under
       /\ \A k \in m.o.under : /\ None \notin s[k] => k \in m.keys
                               /\ s[k] = {None} => k \notin m.keys

CallInv(c, m, s, b, L) ==
  /\ m.pc = "reread" => ~ReadOnly(m.o)
  /\ m.pc # "done" =>
       /\ m.out = "nothing"
       /\ \A k \in Concerns(m.o) : b[k] \in s[k]
       /\ m.o.op = "list" => ListedSoFar(m, s)
  /\ m.pc # "done" /\ ~LostWrite(m) => m.writes = 0
  /\ m.out \in {"refused", "rejected"} => m.writes = 0
  /\ m.pc = "done" /\ m.out = "ok" => Succeeded(m, s)
  /\ \A r \in L : r.by = c /\ r.told = "nothing" => LostWrite(m)

StoreInv ==
  /\ StoreTypeOK
  /\ \A c \in Client : CallInv(c, call[c], seen[c], bucket, late)
  /\ \A r \in late : r.told \notin {"refused", "rejected"}

-----------------------------------------------------------------------------
(* Listings: pages, and where the next one starts.                         *)

\* Where the next page of a listing starts.
LEMMA LastIsLast ==
  ASSUME NEW T \in SUBSET Key
  PROVE  /\ Last(T) \in Int
         /\ T = {} => Last(T) = -1
         /\ T # {} => Last(T) \in T /\ \A j \in T : j <= Last(T)
<1>1. CASE T = {}
  BY <1>1 DEF Last
<1>2. CASE T # {}
  <2>1. \E x \in T : \A y \in T : y <= x
    BY <1>2, StoreAssumption, FS_Subset, LastExists
  <2>2. Last(T) \in T /\ \A j \in T : j <= Last(T)
    BY <1>2, <2>1 DEF Last
  <2>3. \A k \in Key : k \in Int
    BY StoreAssumption
  <2>4. Last(T) \in Int
    BY <2>2, <2>3
  <2>5. QED
    BY <1>2, <2>2, <2>4
<1>3. QED
  BY <1>1, <1>2

\* A page has the remaining keys up to its last one.
LEMMA PageIsPrefix ==
  ASSUME NEW o, NEW after, NEW p \in Page(o, after), NEW k \in Remaining(o, after), k <= p,
         o.under \subseteq Key
  PROVE  k \in Page(o, after)
<1> DEFINE upTo(n) == {j \in Remaining(o, after) : j <= n}
<1>1. Remaining(o, after) \subseteq Key
  BY DEF Remaining
<1>2. p \in Remaining(o, after) /\ Cardinality(upTo(p)) <= PageSize
  BY DEF Page
<1>3. IsFiniteSet(upTo(p)) /\ upTo(p) \subseteq Key
  BY <1>1, StoreAssumption, FS_Subset
<1>4. upTo(k) \subseteq upTo(p)
  <2>1. \A j \in Key : j \in Int
    BY StoreAssumption
  <2>2. \A j \in Remaining(o, after) : j \in Int
    BY <1>1, <2>1
  <2>3. p \in Int /\ k \in Int
    BY <1>2, <2>2
  <2>4. \A j \in upTo(k) : j \in upTo(p)
    BY <2>2, <2>3
  <2>5. QED
    BY <2>4
<1>5. IsFiniteSet(upTo(k)) /\ Cardinality(upTo(k)) <= Cardinality(upTo(p))
  BY <1>3, <1>4, FS_Subset
<1>6. Cardinality(upTo(k)) \in Nat /\ Cardinality(upTo(p)) \in Nat
  BY <1>3, <1>5, FS_CardinalityType
<1>7. Cardinality(upTo(k)) <= PageSize
  BY <1>2, <1>5, <1>6, StoreAssumption
<1>8. QED
  BY <1>7 DEF Page

-----------------------------------------------------------------------------
(* Types.                                                                  *)

LEMMA CallTypes ==
  ASSUME StoreTypeOK
  PROVE  /\ call \in [Client -> CallSet]
         /\ \A c \in Client : call[c] \in CallSet /\ call[c].o \in Op
BY DEF StoreTypeOK, CallSet

LEMMA UpdateType ==
  ASSUME StoreTypeOK, NEW c \in Client, NEW new \in CallSet, Update(c, new)
  PROVE  call' \in [Client -> CallSet]
BY CallTypes DEF Update

LEMMA ToldType ==
  ASSUME NEW r \in Request, NEW c \in Client, NEW out \in {"ok", "refused", "rejected", "error"}
  PROVE  /\ Told(r, c, out) \in Request
         /\ Told(r, c, out).key = r.key
         /\ Told(r, c, out).by = r.by
         /\ r.by = c => Told(r, c, out).told # "nothing"
         /\ r.by # c => Told(r, c, out) = r
         /\ Told(r, c, out).told \in {r.told, out}
         /\ Told(r, c, out).told = out => r.told \in {"nothing", out} /\ (r.told = out \/ r.by = c)
BY DEF Told, Request

LEMMA RequestOfType ==
  ASSUME StoreTypeOK, NEW c \in Client, ~ReadOnly(call[c].o)
  PROVE  /\ RequestOf(c) \in Request
         /\ RequestOf(c).by = c /\ RequestOf(c).told = "nothing"
         /\ RequestOf(c).key = call[c].o.key
BY CallTypes DEF RequestOf, Request, Op, ReadOnly, Object

LEMMA EndType ==
  ASSUME StoreTypeOK, NEW c \in Client, NEW m \in CallSet, NEW requests \in SUBSET Request,
         NEW out \in {"ok", "refused", "rejected", "error"}, EndWith(c, m, out, requests)
  PROVE  call' \in [Client -> CallSet] /\ late' \subseteq Request
<1>1. [m EXCEPT !.pc = "done", !.out = out] \in CallSet
  BY DEF CallSet
<1>2. call' \in [Client -> CallSet]
  BY <1>1, UpdateType DEF EndWith
<1>3. late' \subseteq Request
  BY ToldType DEF EndWith
<1>4. QED
  BY <1>2, <1>3

LEMMA NewType ==
  ASSUME NEW o \in Op
  PROVE  New(o) \in CallSet
BY StoreAssumption DEF New, CallSet, Object

LEMMA ObserveType ==
  ASSUME StoreTypeOK, Observe, bucket' \in [Key -> Object]
  PROVE  /\ seen' \in [Client -> [Key -> SUBSET Object]]
         /\ \A d \in Client, k \in Key : seen[d][k] \subseteq seen'[d][k]
         /\ \A d \in Client, k \in Key : Busy(d) /\ k \in Concerns(call[d].o) =>
              seen'[d][k] = seen[d][k] \cup {bucket'[k]}
         /\ \A d \in Client : ~Busy(d) => seen'[d] = seen[d]
<1> DEFINE new(d, k) == IF Busy(d) /\ k \in Concerns(call[d].o)
                        THEN seen[d][k] \cup {bucket'[k]} ELSE seen[d][k]
<1>1. seen' = [d \in Client |-> [k \in Key |-> new(d, k)]]
  BY DEF Observe
<1>2. \A d \in Client, k \in Key : seen[d][k] \in SUBSET Object /\ bucket'[k] \in Object
  BY DEF StoreTypeOK
<1>3. \A d \in Client, k \in Key : new(d, k) \in SUBSET Object
  BY <1>2
<1>4. \A d \in Client : ~Busy(d) => [k \in Key |-> new(d, k)] = seen[d]
  BY DEF StoreTypeOK
<1> HIDE DEF new
<1>5. seen' \in [Client -> [Key -> SUBSET Object]]
  BY <1>1, <1>3
<1>6. \A d \in Client, k \in Key : seen'[d][k] = new(d, k)
  BY <1>1
<1>7. \A d \in Client : ~Busy(d) => seen'[d] = seen[d]
  BY <1>1, <1>4
<1>8. QED
  BY <1>5, <1>6, <1>7 DEF new

-----------------------------------------------------------------------------
(* What a step of client c leaves alone.                                   *)

Frame(c) ==
  /\ call' \in [Client -> CallSet] /\ late' \subseteq Request
  /\ bucket' \in [Key -> Object] /\ honours' = honours
  /\ \A d \in Client \ {c} : call'[d] = call[d]
  /\ \A r \in late' : r.by # c => r \in late
  /\ call'[c].o = call[c].o

\* What becomes of the call and of the requests when it ends.
Ends(c, m, out, requests) ==
  /\ call'[c] = [m EXCEPT !.pc = "done", !.out = out]
  /\ \A d \in Client \ {c} : call'[d] = call[d]
  /\ \A r \in late' : /\ r.by # c => r \in requests
                      /\ r.by = c => r.told # "nothing"
                      /\ r \in requests \/ \E q \in requests :
                            q.by = c /\ q.told = "nothing" /\ r.told = out /\ r.key = q.key

LEMMA EndFacts ==
  ASSUME StoreTypeOK, NEW c \in Client, NEW m \in CallSet, NEW requests \in SUBSET Request,
         NEW out \in {"ok", "refused", "rejected", "error"}, EndWith(c, m, out, requests)
  PROVE  Ends(c, m, out, requests)
<1>1. call'[c] = [m EXCEPT !.pc = "done", !.out = out] /\ \A d \in Client \ {c} : call'[d] = call[d]
  BY CallTypes DEF EndWith, Update
<1>2. ASSUME NEW r \in late'
      PROVE  /\ r.by # c => r \in requests
             /\ r.by = c => r.told # "nothing"
             /\ r \in requests \/ \E q \in requests :
                   q.by = c /\ q.told = "nothing" /\ r.told = out /\ r.key = q.key
  <2>1. PICK q \in requests : r = Told(q, c, out)
    BY DEF EndWith
  <2>2. q \in Request
    OBVIOUS
  <2>3. CASE q.by = c /\ q.told = "nothing"
    BY <2>1, <2>2, <2>3, ToldType DEF Told, Request
  <2>4. CASE ~(q.by = c /\ q.told = "nothing")
    BY <2>1, <2>2, <2>4, ToldType DEF Told
  <2>5. QED
    BY <2>3, <2>4
<1>3. QED
  BY <1>1, <1>2 DEF Ends

LEMMA EndFrame ==
  ASSUME StoreTypeOK, NEW c \in Client, NEW m \in CallSet, m.o = call[c].o,
         NEW out \in {"ok", "refused", "rejected", "error"}, End(c, m, out),
         bucket' \in [Key -> Object], honours' = honours
  PROVE  Frame(c)
<1>1. EndWith(c, m, out, late) /\ late \in SUBSET Request
  BY DEF End, StoreTypeOK
<1>2. call' \in [Client -> CallSet] /\ late' \subseteq Request
  BY <1>1, EndType
<1>3. Ends(c, m, out, late)
  BY <1>1, EndFacts
<1>4. call'[c].o = call[c].o
  BY <1>3 DEF CallSet, Ends
<1>5. QED
  BY <1>2, <1>3, <1>4 DEF Frame, Ends

LEMMA UpdateFrame ==
  ASSUME StoreTypeOK, NEW c \in Client, NEW m \in CallSet, m.o = call[c].o, Update(c, m),
         UNCHANGED bucket, UNCHANGED honours,
         late' \subseteq Request, \A r \in late' : r.by # c => r \in late
  PROVE  Frame(c) /\ call'[c] = m
<1>1. call'[c] = m /\ \A d \in Client \ {c} : call'[d] = call[d]
  BY CallTypes DEF Update
<1>2. QED
  BY <1>1, UpdateType DEF Frame, StoreTypeOK

\* While a call lasts, its keys' history takes up what they hold.
LEMMA Watching ==
  ASSUME StoreInv, Observe, bucket' \in [Key -> Object], NEW d \in Client, Busy(d)
  PROVE  /\ \A k \in Concerns(call[d].o) : bucket'[k] \in seen'[d][k]
         /\ \A k \in Concerns(call[d].o) : seen'[d][k] = seen[d][k] \cup {bucket'[k]}
         /\ call[d].o.op = "list" => ListedSoFar(call[d], seen'[d])
<1>1. /\ CallInv(d, call[d], seen[d], bucket, late)
      /\ StoreTypeOK /\ call[d] \in CallSet /\ call[d].o \in Op
  BY CallTypes DEF StoreInv
<1>2. Concerns(call[d].o) \subseteq Key /\ call[d].o.under \subseteq Key
  BY <1>1 DEF Concerns, Op
<1>3. /\ \A k \in Key : seen[d][k] \subseteq seen'[d][k]
      /\ \A k \in Concerns(call[d].o) : seen'[d][k] = seen[d][k] \cup {bucket'[k]}
  BY <1>1, <1>2, ObserveType
<1>4. call[d].pc # "done"
  BY DEF Busy
<1>5. call[d].o.op = "list" => ListedSoFar(call[d], seen'[d])
  <2>1. SUFFICES ASSUME ListedSoFar(call[d], seen[d])
                 PROVE  ListedSoFar(call[d], seen'[d])
    BY <1>1, <1>4 DEF CallInv
  <2>2. \A k \in call[d].o.under : k \in Concerns(call[d].o)
    BY DEF Concerns
  <2>3. \A k \in call[d].keys : k \in Key /\ k \in Concerns(call[d].o)
    BY <1>2, <2>1, <2>2 DEF ListedSoFar
  <2>4. \A k \in call[d].keys : seen[d][k] # {None} /\ bucket[k] \in seen[d][k]
    BY <1>1, <1>4, <2>1, <2>3 DEF ListedSoFar, CallInv
  <2>5. \A k \in call[d].keys : seen'[d][k] # {None}
    BY <1>3, <2>3, <2>4
  <2>6. QED
    BY <1>2, <1>3, <2>1, <2>5 DEF ListedSoFar
<1>6. QED
  BY <1>3, <1>5

\* Another client's call only sees the bucket change.
LEMMA OthersKeep ==
  ASSUME StoreInv, NEW c \in Client, Frame(c), Observe, NEW d \in Client \ {c}
  PROVE  CallInv(d, call[d], seen[d], bucket, late)'
<1>1. /\ CallInv(d, call[d], seen[d], bucket, late)
      /\ call'[d] = call[d]
      /\ \A r \in late' : r.by = d => r \in late
  BY DEF StoreInv, Frame
<1>2. CASE Busy(d)
  <2>1. bucket' \in [Key -> Object]
    BY DEF Frame
  <2>2. call[d].pc # "done"
    BY <1>2 DEF Busy
  <2>3. /\ \A k \in Concerns(call[d].o) : bucket'[k] \in seen'[d][k]
        /\ call[d].o.op = "list" => ListedSoFar(call[d], seen'[d])
    BY <1>2, <2>1, Watching
  <2>4. QED
    BY <1>1, <2>2, <2>3 DEF CallInv
<1>3. CASE ~Busy(d)
  <2>1. seen'[d] = seen[d]
    BY <1>3, ObserveType DEF Frame, StoreInv
  <2>2. QED
    BY <1>1, <1>3, <2>1 DEF CallInv, Busy
<1>4. QED
  BY <1>2, <1>3

-----------------------------------------------------------------------------
(* What a step of client c does to its own call.                           *)

Good(c) ==
  /\ CallInv(c, call'[c], seen'[c], bucket', late')
  /\ \A r \in late' : r.told \notin {"refused", "rejected"}

LEMMA EndGood ==
  ASSUME StoreInv, NEW c \in Client, NEW m \in CallSet, m.o = call[c].o,
         NEW out \in {"ok", "refused", "rejected", "error"}, End(c, m, out),
         bucket' \in [Key -> Object], honours' = honours,
         out \in {"refused", "rejected"} => m.writes = 0 /\ ~LostWrite(call[c]),
         out = "ok" => Succeeded(m, seen'[c])
  PROVE  Frame(c) /\ Good(c)
<1>1. StoreTypeOK /\ EndWith(c, m, out, late) /\ late \in SUBSET Request
  BY DEF End, StoreTypeOK, StoreInv
<1>2. Ends(c, m, out, late)
  BY <1>1, EndFacts
<1>3. \A r \in late' : r.told \notin {"refused", "rejected"}
  <2>1. \A q \in late : q.by = c /\ q.told = "nothing" => LostWrite(call[c])
    BY DEF StoreInv, CallInv
  <2>2. QED
    BY <1>2, <2>1 DEF Ends, StoreInv
<1>4. \A r \in late' : r.by = c => r.told # "nothing"
  BY <1>2 DEF Ends
<1> DEFINE n == [m EXCEPT !.pc = "done", !.out = out]
<1>5. /\ n.pc = "done" /\ n.out = out /\ n.o = m.o /\ n.value = m.value
      /\ n.keys = m.keys /\ n.writes = m.writes
  BY DEF CallSet
<1>6. call'[c] = n
  BY <1>2 DEF Ends
<1> HIDE DEF n
<1>7. out = "ok" => Succeeded(n, seen'[c])
  BY <1>5 DEF Succeeded
<1>8. CallInv(c, n, seen'[c], bucket', late')
  BY <1>4, <1>5, <1>7 DEF CallInv
<1>9. Frame(c)
  BY <1>1, EndFrame
<1>10. QED
  BY <1>3, <1>6, <1>8, <1>9 DEF Good

LEMMA GoesOn ==
  ASSUME StoreInv, Observe, NEW c \in Client, Busy(c), NEW m \in CallSet, Update(c, m),
         m.o = call[c].o, m.out = "nothing", m.pc # "done",
         UNCHANGED bucket, UNCHANGED honours, late' \subseteq Request,
         \A r \in late' : r \in late \/ (r.by = c /\ r.told = "nothing" /\ LostWrite(m)),
         LostWrite(call[c]) => LostWrite(m),
         m.pc = "reread" => ~ReadOnly(m.o),
         m.writes = 0 \/ LostWrite(m),
         m.o.op = "list" => ListedSoFar(m, seen'[c])
  PROVE  Frame(c) /\ Good(c)
<1>1. Frame(c) /\ call'[c] = m
  BY UpdateFrame DEF StoreInv
<1>2. \A k \in Concerns(m.o) : bucket'[k] \in seen'[c][k]
  BY <1>1, Watching DEF Frame
<1>3. \A r \in late' : r.by = c /\ r.told = "nothing" => LostWrite(m)
  BY DEF StoreInv, CallInv
<1>4. \A r \in late' : r.told \notin {"refused", "rejected"}
  BY DEF StoreInv
<1>5. CallInv(c, m, seen'[c], bucket', late')
  BY <1>2, <1>3 DEF CallInv
<1>6. QED
  BY <1>1, <1>4, <1>5 DEF Good

LEMMA BusyFacts ==
  ASSUME StoreInv, NEW c \in Client, call[c].pc # "done"
  PROVE  /\ Busy(c) /\ call[c] \in CallSet /\ call[c].o \in Op /\ call[c].out = "nothing"
         /\ call[c].o.key \in Concerns(call[c].o) /\ call[c].o.key \in Key
         /\ call[c].o.under \subseteq Key /\ call[c].o.under \subseteq Concerns(call[c].o)
         /\ call[c].pc = "reread" => ~ReadOnly(call[c].o)
         /\ ~LostWrite(call[c]) => call[c].writes = 0
         /\ bucket \in [Key -> Object] /\ late \in SUBSET Request
BY CallTypes DEF StoreInv, StoreTypeOK, CallInv, Busy, Concerns, Op

LEMMA WriteAnsweredGood ==
  ASSUME StoreInv, NEW c \in Client, WriteAnswered(c), Observe
  PROVE  Frame(c) /\ Good(c)
<1> DEFINE m == call[c]
<1>1. /\ m.pc = "send" /\ ~ReadOnly(m.o) /\ ~LostWrite(m) /\ honours' = honours
      /\ IF Holds(m.o)
         THEN bucket' = Executed(m.o) /\ End(c, [m EXCEPT !.writes = @ + 1], "ok")
         ELSE /\ IF m.o.op = "create" THEN Reread(c, FALSE) /\ UNCHANGED late
                 ELSE End(c, m, "refused")
              /\ UNCHANGED bucket
  BY DEF WriteAnswered, LostWrite
<1>2. /\ Busy(c) /\ m \in CallSet /\ m.o \in Op /\ m.out = "nothing"
      /\ m.o.key \in Concerns(m.o) /\ m.o.key \in Key /\ m.writes = 0
      /\ bucket \in [Key -> Object] /\ late \in SUBSET Request
  BY <1>1, BusyFacts
<1>3. CASE Holds(m.o)
  <2> DEFINE n == [m EXCEPT !.writes = @ + 1]
  <2>1. n \in CallSet /\ n.o = m.o
    BY <1>2 DEF CallSet
  <2>2. bucket' \in [Key -> Object] /\ bucket'[m.o.key] = m.o.body
    BY <1>1, <1>2, <1>3 DEF Executed, Op
  <2>3. m.o.body \in seen'[c][m.o.key]
    BY <1>2, <2>2, Watching
  <2>4. Succeeded(n, seen'[c])
    BY <1>1, <2>1, <2>3 DEF Succeeded, ReadOnly
  <2> HIDE DEF n
  <2>5. End(c, n, "ok")
    BY <1>1, <1>3 DEF n
  <2>6. QED
    BY <1>1, <2>1, <2>2, <2>4, <2>5, EndGood
<1>4. CASE ~Holds(m.o) /\ m.o.op = "create"
  <2> DEFINE n == [m EXCEPT !.pc = "reread", !.tries = 1, !.lost = FALSE]
  <2>1. n \in CallSet
    <3>1. 1 \in 1..MaxAttempts
      BY StoreAssumption
    <3>2. QED
      BY <1>2, <3>1 DEF CallSet
  <2>2. n.o = m.o /\ n.out = "nothing" /\ n.pc = "reread" /\ n.writes = 0
    BY <1>2 DEF CallSet
  <2>3. Update(c, n) /\ late' = late /\ bucket' = bucket
    BY <1>1, <1>4 DEF Reread
  <2> HIDE DEF n
  <2>4. QED
    BY <1>1, <1>2, <1>4, <2>1, <2>2, <2>3, GoesOn DEF ReadOnly
<1>5. CASE ~Holds(m.o) /\ m.o.op # "create"
  BY <1>1, <1>2, <1>5, EndGood
<1>6. QED
  BY <1>3, <1>4, <1>5

LEMMA GetAnsweredGood ==
  ASSUME StoreInv, NEW c \in Client, GetAnswered(c), Observe
  PROVE  Frame(c) /\ Good(c)
<1> DEFINE m == call[c]
           n == [m EXCEPT !.value = bucket[m.o.key]]
<1>1. m.pc = "send" /\ m.o.op = "get" /\ End(c, n, "ok") /\ bucket' = bucket /\ honours' = honours
  BY DEF GetAnswered
<1>2. /\ Busy(c) /\ m \in CallSet /\ m.o.key \in Concerns(m.o) /\ m.o.key \in Key
      /\ bucket \in [Key -> Object]
  BY <1>1, BusyFacts
<1>3. n \in CallSet /\ n.o = m.o /\ n.value = bucket[m.o.key]
  BY <1>2 DEF CallSet
<1>4. n.value \in seen'[c][m.o.key]
  BY <1>1, <1>2, <1>3, Watching
<1>5. Succeeded(n, seen'[c])
  BY <1>1, <1>3, <1>4 DEF Succeeded
<1> HIDE DEF n
<1>6. QED
  BY <1>1, <1>2, <1>3, <1>5, EndGood

LEMMA ReconcileGood ==
  ASSUME StoreInv, NEW c \in Client, Reconcile(c), Observe
  PROVE  Frame(c) /\ Good(c)
<1> DEFINE m   == call[c]
           n   == [m EXCEPT !.value = bucket[m.o.key]]
           out == IF Agrees(m.o, bucket[m.o.key]) THEN "ok"
                  ELSE IF m.lost THEN "error" ELSE "refused"
<1>1. m.pc = "reread" /\ End(c, n, out) /\ bucket' = bucket /\ honours' = honours
  BY DEF Reconcile
<1>2. /\ Busy(c) /\ m \in CallSet /\ m.o.key \in Concerns(m.o) /\ m.o.key \in Key
      /\ bucket \in [Key -> Object] /\ ~ReadOnly(m.o) /\ (~LostWrite(m) => m.writes = 0)
  BY <1>1, BusyFacts
<1>3. n \in CallSet /\ n.o = m.o /\ n.writes = m.writes
  BY <1>2 DEF CallSet
<1>4. bucket[m.o.key] \in seen'[c][m.o.key]
  BY <1>1, <1>2, Watching
<1>5. out = "ok" => Succeeded(n, seen'[c])
  BY <1>2, <1>3, <1>4 DEF Succeeded, Agrees, ReadOnly
<1>6. out \in {"refused", "rejected"} => n.writes = 0 /\ ~LostWrite(call[c])
  BY <1>2, <1>3 DEF LostWrite
<1>7. out \in {"ok", "refused", "rejected", "error"}
  OBVIOUS
<1> HIDE DEF n, out
<1>8. QED
  BY <1>1, <1>2, <1>3, <1>5, <1>6, <1>7, EndGood

\* A listing of several pages: what the next page adds.
LEMMA PageExtends ==
  ASSUME NEW o \in Op, NEW keys \in SUBSET Key, NEW new, NEW m, NEW s,
         m.o = o, m.keys = keys, new.o = o, new.keys = keys \cup Page(o, Last(keys)),
         ListedSoFar(m, s), \A k \in o.under : bucket[k] \in s[k]
  PROVE  /\ ListedSoFar(new, s)
         /\ Remaining(o, Last(keys)) = Page(o, Last(keys)) =>
              \A k \in o.under : /\ None \notin s[k] => k \in new.keys
                                 /\ s[k] = {None} => k \notin new.keys
<1> DEFINE page == Page(o, Last(keys))
           rest == Remaining(o, Last(keys))
<1>1. /\ o.under \subseteq Key /\ \A k \in Key : k \in Int
  BY StoreAssumption DEF Op
<1>2. /\ page \subseteq rest /\ rest \subseteq o.under
      /\ \A k \in rest : bucket[k] # None
      /\ \A k \in o.under : bucket[k] # None /\ k > Last(keys) => k \in rest
  BY DEF Page, Remaining
<1>3. /\ Last(keys) \in Int /\ (keys = {} => Last(keys) = -1)
      /\ keys # {} => Last(keys) \in keys /\ \A j \in keys : j <= Last(keys)
  BY LastIsLast
<1>4. /\ keys \subseteq o.under
      /\ \A k \in o.under : None \notin s[k] /\ (\E j \in keys : k <= j) => k \in keys
      /\ \A k \in keys : s[k] # {None}
  BY DEF ListedSoFar
<1>5. \A k \in keys \cup page : s[k] # {None}
  BY <1>2, <1>4
<1>6. ASSUME NEW k \in o.under, None \notin s[k], k \notin keys
      PROVE  k \in rest
  <2>1. bucket[k] # None
    BY <1>6
  <2>2. k > Last(keys)
    <3>1. k \in Nat
      BY <1>1, StoreAssumption
    <3>2. CASE keys = {}
      BY <1>3, <3>1, <3>2
    <3>3. CASE keys # {}
      <4>1. ~(k <= Last(keys))
        BY <1>3, <1>4, <1>6, <3>3
      <4>2. QED
        BY <1>3, <3>1, <4>1
    <3>4. QED
      BY <3>2, <3>3
  <2>3. QED
    BY <1>2, <2>1, <2>2
<1>7. ASSUME NEW k \in o.under, None \notin s[k], NEW j \in keys \cup page, k <= j
      PROVE  k \in keys \cup page
  <2>1. CASE k \in keys
    BY <2>1
  <2>2. CASE k \notin keys
    <3>1. k \in rest
      BY <1>6, <1>7, <2>2
    <3>2. j \in page
      BY <1>4, <1>7, <2>2
    <3>3. k \in page
      BY <1>1, <1>7, <3>1, <3>2, PageIsPrefix
    <3>4. QED
      BY <3>3
  <2>3. QED
    BY <2>1, <2>2
<1>8. new.keys \subseteq o.under
  BY <1>2, <1>4
<1>9. ListedSoFar(new, s)
  BY <1>5, <1>7, <1>8 DEF ListedSoFar
<1>10. ASSUME rest = page, NEW k \in o.under
       PROVE  /\ None \notin s[k] => k \in new.keys
              /\ s[k] = {None} => k \notin new.keys
  BY <1>5, <1>6, <1>10
<1>11. QED
  BY <1>9, <1>10

LEMMA PageAnsweredGood ==
  ASSUME StoreInv, NEW c \in Client, PageAnswered(c), Observe
  PROVE  Frame(c) /\ Good(c)
<1> DEFINE m    == call[c]
           page == Page(m.o, Last(m.keys))
           all  == [m EXCEPT !.keys = @ \cup page, !.tries = 1]
<1>1. /\ m.pc = "send" /\ m.o.op = "list" /\ bucket' = bucket /\ honours' = honours
      /\ IF Truncated(m.o, Last(m.keys), page)
         THEN Update(c, all) /\ UNCHANGED late
         ELSE End(c, all, "ok")
  BY DEF PageAnswered
<1>2. /\ Busy(c) /\ m \in CallSet /\ m.o \in Op /\ m.out = "nothing" /\ m.writes = 0
      /\ m.o.under \subseteq Key /\ m.o.under \subseteq Concerns(m.o)
      /\ bucket \in [Key -> Object] /\ late \in SUBSET Request
      /\ ~LostWrite(m)
  BY <1>1, BusyFacts DEF LostWrite
<1>3. page \subseteq Key
  BY <1>2 DEF Page, Remaining
<1>4. all \in CallSet
  <2>1. 1 \in 1..MaxAttempts
    BY StoreAssumption
  <2>2. QED
    BY <1>2, <1>3, <2>1 DEF CallSet
<1>5. /\ all.o = m.o /\ all.keys = m.keys \cup page /\ all.pc = "send" /\ all.out = "nothing"
      /\ all.writes = 0 /\ m.keys \in SUBSET Key
  BY <1>1, <1>2 DEF CallSet
<1>6. ListedSoFar(m, seen'[c]) /\ \A k \in m.o.under : bucket[k] \in seen'[c][k]
  BY <1>1, <1>2, Watching
<1> HIDE DEF all
<1>7. /\ ListedSoFar(all, seen'[c])
      /\ Remaining(m.o, Last(m.keys)) = page =>
           \A k \in m.o.under : /\ None \notin seen'[c][k] => k \in all.keys
                                /\ seen'[c][k] = {None} => k \notin all.keys
  BY <1>2, <1>5, <1>6, PageExtends
<1>8. CASE Truncated(m.o, Last(m.keys), page)
  <2>1. Update(c, all) /\ late' = late
    BY <1>1, <1>8
  <2>2. QED
    BY <1>1, <1>2, <1>4, <1>5, <1>7, <2>1, GoesOn
<1>9. CASE ~Truncated(m.o, Last(m.keys), page)
  <2>1. Succeeded(all, seen'[c])
    BY <1>1, <1>5, <1>7, <1>9 DEF Succeeded, ListedSoFar, Truncated
  <2>2. End(c, all, "ok")
    BY <1>1, <1>9
  <2>3. QED
    BY <1>1, <1>2, <1>4, <1>5, <2>1, <2>2, EndGood
<1>10. QED
  BY <1>8, <1>9

LEMMA AgainGood ==
  ASSUME StoreInv, NEW c \in Client, Observe, call[c].pc # "done", AttemptsLeft(call[c]),
         Again(c), UNCHANGED bucket, UNCHANGED honours, late' = late
  PROVE  Frame(c) /\ Good(c)
<1> DEFINE m == call[c]
           n == [m EXCEPT !.tries = @ + 1]
<1>1. /\ Busy(c) /\ m \in CallSet /\ m.out = "nothing"
      /\ (m.pc = "reread" => ~ReadOnly(m.o)) /\ (~LostWrite(m) => m.writes = 0)
      /\ bucket \in [Key -> Object] /\ late \in SUBSET Request
  BY BusyFacts
<1>2. m.tries + 1 \in 1..MaxAttempts
  BY <1>1, StoreAssumption DEF AttemptsLeft, CallSet
<1>3. n \in CallSet
  BY <1>1, <1>2 DEF CallSet
<1>4. /\ n.o = m.o /\ n.out = m.out /\ n.pc = m.pc /\ n.writes = m.writes /\ n.keys = m.keys
      /\ n.lost = m.lost
  BY <1>1 DEF CallSet
<1>5. LostWrite(n) <=> LostWrite(m)
  BY <1>4 DEF LostWrite
<1>6. Update(c, n)
  BY DEF Again
<1>7. m.o.op = "list" => ListedSoFar(n, seen'[c])
  BY <1>1, <1>4, Watching DEF ListedSoFar
<1> HIDE DEF n
<1>8. QED
  BY <1>1, <1>3, <1>4, <1>5, <1>6, <1>7, GoesOn

LEMMA RejectedGood ==
  ASSUME StoreInv, NEW c \in Client, Rejected(c), Observe
  PROVE  Frame(c) /\ Good(c)
<1> DEFINE m   == call[c]
           out == IF m.pc = "reread" /\ m.lost THEN "error" ELSE "rejected"
<1>1. m.pc # "done" /\ bucket' = bucket /\ honours' = honours
  BY DEF Rejected, Busy
<1>2. CASE AttemptsLeft(m) /\ Again(c) /\ UNCHANGED late
  BY <1>1, <1>2, AgainGood
<1>3. CASE End(c, m, out)
  <2>1. m \in CallSet /\ bucket \in [Key -> Object] /\ (~LostWrite(m) => m.writes = 0)
    BY <1>1, BusyFacts
  <2>2. out \in {"error", "rejected"} /\ (out = "rejected" => ~LostWrite(m))
    BY DEF LostWrite
  <2> HIDE DEF out
  <2>3. QED
    BY <1>1, <1>3, <2>1, <2>2, EndGood
<1>4. QED
  BY <1>2, <1>3 DEF Rejected

\* A raw write whose answer is lost ends; its request is told so.
LEMMA LostRawGood ==
  ASSUME StoreInv, NEW c \in Client, call[c].pc = "send", ~ReadOnly(call[c].o),
         EndWith(c, call[c], "error", late \cup {RequestOf(c)}),
         UNCHANGED bucket, UNCHANGED honours
  PROVE  Frame(c) /\ Good(c)
<1> DEFINE m    == call[c]
           n    == [m EXCEPT !.pc = "done", !.out = "error"]
           sent == late \cup {RequestOf(c)}
<1>1. StoreTypeOK /\ m \in CallSet /\ bucket \in [Key -> Object] /\ late \in SUBSET Request
  BY BusyFacts DEF StoreInv
<1>2. RequestOf(c) \in Request /\ RequestOf(c).by = c /\ RequestOf(c).told = "nothing"
  BY <1>1, RequestOfType
<1>3. sent \in SUBSET Request
  BY <1>1, <1>2
<1>4. EndWith(c, m, "error", sent)
  OBVIOUS
<1> HIDE DEF sent
<1>5. Ends(c, m, "error", sent)
  BY <1>1, <1>3, <1>4, EndFacts
<1>6. call' \in [Client -> CallSet] /\ late' \subseteq Request
  BY <1>1, <1>3, <1>4, EndType
<1>7. n.pc = "done" /\ n.out = "error" /\ n.o = m.o
  BY <1>1 DEF CallSet
<1>8. call'[c] = n /\ \A d \in Client \ {c} : call'[d] = call[d]
  BY <1>5 DEF Ends
<1> HIDE DEF n
<1>9. \A r \in late' : /\ r.by # c => r \in late
                       /\ r.by = c => r.told # "nothing"
                       /\ r.told \notin {"refused", "rejected"}
  <2>1. ASSUME NEW r \in late'
        PROVE  /\ r.by # c => r \in sent
               /\ r.by = c => r.told # "nothing"
               /\ r \in sent \/ r.told = "error"
    BY <1>5 DEF Ends
  <2>2. \A r \in sent : r \in late \/ r = RequestOf(c)
    BY DEF sent
  <2>3. \A r \in late : r.told \notin {"refused", "rejected"}
    BY DEF StoreInv
  <2>4. ASSUME NEW r \in late'
        PROVE  /\ r.by # c => r \in late
               /\ r.by = c => r.told # "nothing"
               /\ r.told \notin {"refused", "rejected"}
    BY <1>2, <2>1, <2>2, <2>3
  <2>5. QED
    BY <2>4
<1>10. Frame(c)
  BY <1>1, <1>6, <1>7, <1>8, <1>9 DEF Frame
<1>11. CallInv(c, n, seen'[c], bucket', late')
  BY <1>7, <1>9 DEF CallInv
<1>12. QED
  BY <1>8, <1>9, <1>10, <1>11 DEF Good

\* Another write whose answer is lost is read again.
LEMMA LostWriteGood ==
  ASSUME StoreInv, NEW c \in Client, Observe, call[c].pc = "send", ~ReadOnly(call[c].o),
         Reread(c, TRUE), late' = late \cup {RequestOf(c)},
         UNCHANGED bucket, UNCHANGED honours
  PROVE  Frame(c) /\ Good(c)
<1> DEFINE m == call[c]
           n == [m EXCEPT !.pc = "reread", !.tries = 1, !.lost = TRUE]
<1>1. /\ StoreTypeOK /\ Busy(c) /\ m \in CallSet /\ m.out = "nothing"
      /\ late \in SUBSET Request /\ ~LostWrite(m)
  BY BusyFacts DEF StoreInv, LostWrite
<1>2. RequestOf(c) \in Request /\ RequestOf(c).by = c /\ RequestOf(c).told = "nothing"
  BY <1>1, RequestOfType
<1>3. n \in CallSet
  <2>1. 1 \in 1..MaxAttempts
    BY StoreAssumption
  <2>2. QED
    BY <1>1, <2>1 DEF CallSet
<1>4. n.o = m.o /\ n.out = "nothing" /\ n.pc = "reread" /\ LostWrite(n)
  BY <1>1 DEF CallSet, LostWrite
<1>5. Update(c, n)
  BY DEF Reread
<1> HIDE DEF n
<1>6. late' \subseteq Request
  BY <1>1, <1>2
<1>7. \A r \in late' : r \in late \/ (r.by = c /\ r.told = "nothing" /\ LostWrite(n))
  BY <1>2, <1>4
<1>8. n.o.op # "list" /\ ~ReadOnly(n.o) /\ n.pc # "done"
  BY <1>4 DEF ReadOnly
<1>9. QED
  BY <1>1, <1>3, <1>4, <1>5, <1>6, <1>7, <1>8, GoesOn

LEMMA LostGood ==
  ASSUME StoreInv, NEW c \in Client, Lost(c), Observe
  PROVE  Frame(c) /\ Good(c)
<1> DEFINE m     == call[c]
           write == m.pc = "send" /\ ~ReadOnly(m.o)
           sent  == IF write THEN late \cup {RequestOf(c)} ELSE late
           out   == IF m.pc = "reread" /\ ~m.lost THEN "rejected" ELSE "error"
<1>1. m.pc # "done" /\ bucket' = bucket /\ honours' = honours
  BY DEF Lost, Busy
<1>2. \/ Repeats(m) /\ AttemptsLeft(m) /\ Again(c) /\ late' = sent
      \/ IF write /\ ~m.o.raw THEN Reread(c, TRUE) /\ late' = sent
                              ELSE EndWith(c, m, out, sent)
  BY DEF Lost
<1>3. m \in CallSet /\ bucket \in [Key -> Object] /\ (~LostWrite(m) => m.writes = 0)
  BY <1>1, BusyFacts
<1>4. CASE write
  <2>1. ~Repeats(m) /\ sent = late \cup {RequestOf(c)} /\ out = "error"
    BY <1>4 DEF Repeats
  <2>2. CASE ~m.o.raw
    BY <1>1, <1>2, <1>4, <2>1, <2>2, LostWriteGood
  <2>3. CASE m.o.raw
    BY <1>1, <1>2, <1>4, <2>1, <2>3, LostRawGood
  <2>4. QED
    BY <2>2, <2>3
<1>5. CASE ~write
  <2>1. sent = late
    BY <1>5
  <2>2. CASE AttemptsLeft(m) /\ Again(c) /\ late' = sent
    BY <1>1, <2>1, <2>2, AgainGood
  <2>3. CASE EndWith(c, m, out, sent)
    <3>1. End(c, m, out)
      BY <2>1, <2>3 DEF End
    <3>2. m.lost \in BOOLEAN
      BY <1>3 DEF CallSet
    <3>3. out \in {"error", "rejected"} /\ (out = "rejected" => ~LostWrite(m))
      BY DEF LostWrite
    <3> HIDE DEF out
    <3>4. QED
      BY <1>1, <1>3, <3>1, <3>3, EndGood
  <2>4. QED
    BY <1>2, <1>5, <2>2, <2>3
<1>6. QED
  BY <1>4, <1>5

-----------------------------------------------------------------------------
(* Every step of the client and of the store keeps the invariant.          *)

LEMMA ClientKeeps ==
  ASSUME StoreInv, NEW c \in Client, Answers(c) \/ Fails(c), Observe
  PROVE  StoreInv' /\ Frame(c)
<1>1. Frame(c) /\ Good(c)
  BY WriteAnsweredGood, GetAnsweredGood, PageAnsweredGood, ReconcileGood,
     RejectedGood, LostGood DEF Answers, Fails
<1>2. StoreTypeOK'
  <2>1. StoreTypeOK /\ bucket' \in [Key -> Object]
    BY <1>1 DEF StoreInv, Frame
  <2>2. seen' \in [Client -> [Key -> SUBSET Object]]
    BY <2>1, ObserveType
  <2>3. QED
    BY <1>1, <2>1, <2>2 DEF StoreTypeOK, Frame, CallSet
<1>3. \A d \in Client \ {c} : CallInv(d, call[d], seen[d], bucket, late)'
  BY <1>1, OthersKeep
<1>4. CallInv(c, call[c], seen[c], bucket, late)' /\ \A r \in late' : r.told \notin {"refused", "rejected"}
  BY <1>1 DEF Good
<1>5. QED
  BY <1>1, <1>2, <1>3, <1>4 DEF StoreInv

LEMMA LandKeeps ==
  ASSUME StoreInv, NEW r \in late, Land(r), Observe
  PROVE  /\ StoreInv'
         /\ late' = late \ {r} /\ honours' = honours
         /\ \A k \in Key : bucket'[k] = bucket[k] \/ (k = r.key /\ bucket'[k] = r.body)
         /\ \A d \in Client : ~Busy(d) => call'[d] = call[d]
         /\ \A d \in Client : call'[d].o = call[d].o /\ call'[d].pc = call[d].pc
                              /\ call'[d].out = call[d].out /\ call'[d].keys = call[d].keys
<1>1. /\ StoreTypeOK /\ r \in Request /\ r.by \in Client /\ r.key \in Key /\ r.body \in Object
      /\ bucket \in [Key -> Object] /\ late' = late \ {r} /\ honours' = honours
  BY DEF StoreInv, StoreTypeOK, Land, Request
<1>2. /\ bucket' \in [Key -> Object]
      /\ \A k \in Key : bucket'[k] = bucket[k] \/ (k = r.key /\ bucket'[k] = r.body)
  BY <1>1 DEF Land, Executed
<1>3. /\ \A d \in Client : call[d] \in CallSet
      /\ call' \in [Client -> CallSet]
      /\ \A d \in Client : \/ call'[d] = call[d]
                           \/ /\ Busy(d) /\ LostWrite(call[d])
                              /\ call'[d] = [call[d] EXCEPT !.writes = @ + 1]
  <2>1. call \in [Client -> CallSet] /\ \A d \in Client : call[d] \in CallSet
    BY <1>1, CallTypes
  <2>2. CASE call' = call
    BY <2>1, <2>2
  <2>3. CASE /\ Busy(r.by) /\ r.told = "nothing"
             /\ call' = [call EXCEPT ![r.by].writes = @ + 1]
    <3>1. LostWrite(call[r.by])
      BY <1>1, <2>3 DEF StoreInv, CallInv
    <3>2. [call[r.by] EXCEPT !.writes = @ + 1] \in CallSet
      BY <1>1, <2>1 DEF CallSet
    <3>3. QED
      BY <1>1, <2>1, <2>3, <3>1, <3>2
  <2>4. QED
    BY <2>2, <2>3 DEF Land
<1>4. \A d \in Client : /\ ~Busy(d) => call'[d] = call[d]
                        /\ call'[d].o = call[d].o /\ call'[d].pc = call[d].pc
                        /\ call'[d].out = call[d].out /\ call'[d].keys = call[d].keys
                        /\ call'[d].value = call[d].value /\ call'[d].lost = call[d].lost
                        /\ call'[d].writes = call[d].writes \/ (Busy(d) /\ LostWrite(call[d]))
  BY <1>3 DEF CallSet
<1>5. seen' \in [Client -> [Key -> SUBSET Object]]
  BY <1>1, <1>2, ObserveType
<1>6. StoreTypeOK'
  BY <1>1, <1>2, <1>3, <1>5 DEF StoreTypeOK, CallSet
<1>7. ASSUME NEW d \in Client
      PROVE  CallInv(d, call[d], seen[d], bucket, late)'
  <2>1. CallInv(d, call[d], seen[d], bucket, late)
    BY DEF StoreInv
  <2>2. CASE Busy(d)
    <3>1. call[d].pc # "done"
      BY <2>2 DEF Busy
    <3>2. /\ \A k \in Concerns(call[d].o) : bucket'[k] \in seen'[d][k]
          /\ call[d].o.op = "list" => ListedSoFar(call[d], seen'[d])
      BY <1>2, <2>2, Watching
    <3>3. call[d].o.op = "list" => ListedSoFar(call'[d], seen'[d])
      BY <1>4, <3>2 DEF ListedSoFar
    <3>4. LostWrite(call'[d]) <=> LostWrite(call[d])
      BY <1>4 DEF LostWrite
    <3>5. \A k \in Concerns(call'[d].o) : bucket'[k] \in seen'[d][k]
      BY <1>4, <3>2
    <3> DEFINE n == call'[d]
    <3>6. /\ n.o = call[d].o /\ n.pc = call[d].pc /\ n.out = call[d].out
          /\ n.writes = call[d].writes \/ LostWrite(call[d])
      BY <1>4
    <3> HIDE DEF n
    <3>7. CallInv(d, n, seen'[d], bucket', late')
      BY <1>1, <2>1, <3>1, <3>3, <3>4, <3>5, <3>6 DEF CallInv, n
    <3>8. QED
      BY <3>7 DEF n
  <2>3. CASE ~Busy(d)
    <3>1. seen'[d] = seen[d] /\ call'[d] = call[d]
      BY <1>1, <1>2, <1>4, <2>3, ObserveType
    <3>2. QED
      BY <1>1, <2>1, <2>3, <3>1 DEF CallInv, Busy
  <2>4. QED
    BY <2>2, <2>3
<1>8. QED
  BY <1>1, <1>2, <1>4, <1>6, <1>7 DEF StoreInv

\* A call that has only begun has seen its keys.
LEMMA NewInv ==
  ASSUME NEW c \in Client, NEW o \in Op, NEW s, NEW L,
         \A k \in Concerns(o) : bucket[k] \in s[k],
         \A r \in L : r.by = c => r.told # "nothing"
  PROVE  CallInv(c, New(o), s, bucket, L)
<1>1. /\ New(o).o = o /\ New(o).pc = "send" /\ New(o).out = "nothing"
      /\ New(o).writes = 0 /\ New(o).keys = {}
  BY DEF New
<1> DEFINE n == New(o)
<1> HIDE DEF n
<1>2. ListedSoFar(n, s)
  BY <1>1 DEF ListedSoFar, n
<1>3. CallInv(c, n, s, bucket, L)
  BY <1>1, <1>2 DEF CallInv, n
<1>4. QED
  BY <1>3 DEF n

LEMMA BeginKeeps ==
  ASSUME StoreInv, NEW c \in Client, NEW o \in Op, Begin(c, o)
  PROVE  /\ StoreInv'
         /\ call'[c] = New(o)
         /\ \A d \in Client \ {c} : call'[d] = call[d]
         /\ \A k \in Concerns(o) : seen'[c][k] = {bucket[k]}
         /\ UNCHANGED <<bucket, late, honours>>
<1>1. /\ StoreTypeOK /\ New(o) \in CallSet /\ Concerns(o) \subseteq Key
      /\ ~Busy(c) /\ Update(c, New(o)) /\ UNCHANGED <<bucket, late, honours>>
      /\ bucket \in [Key -> Object]
  BY NewType DEF Begin, StoreInv, StoreTypeOK, Concerns, Op
<1> DEFINE s == [k \in Key |-> IF k \in Concerns(o) THEN {bucket[k]} ELSE {}]
<1>2. seen' = [seen EXCEPT ![c] = s] /\ seen \in [Client -> [Key -> SUBSET Object]]
  BY <1>1 DEF Begin, StoreTypeOK
<1>3. s \in [Key -> SUBSET Object] /\ \A k \in Concerns(o) : s[k] = {bucket[k]}
  BY <1>1
<1> HIDE DEF s
<1>4. /\ seen' \in [Client -> [Key -> SUBSET Object]] /\ seen'[c] = s
      /\ \A d \in Client \ {c} : seen'[d] = seen[d]
  BY <1>2, <1>3
<1>5. /\ call' \in [Client -> CallSet] /\ call'[c] = New(o)
      /\ \A d \in Client \ {c} : call'[d] = call[d]
  BY <1>1, UpdateType, CallTypes DEF Update
<1>6. StoreTypeOK'
  BY <1>1, <1>4, <1>5 DEF StoreTypeOK, CallSet
<1>7. \A r \in late : r.by = c => r.told # "nothing"
  BY <1>1 DEF StoreInv, CallInv, LostWrite, Busy
<1>8. CallInv(c, New(o), s, bucket, late)
  BY <1>3, <1>7, NewInv
<1>9. CallInv(c, call[c], seen[c], bucket, late)'
  BY <1>1, <1>4, <1>5, <1>8
<1>10. \A d \in Client \ {c} : CallInv(d, call[d], seen[d], bucket, late)'
  BY <1>1, <1>4, <1>5 DEF StoreInv
<1>11. QED
  BY <1>1, <1>3, <1>4, <1>5, <1>6, <1>9, <1>10 DEF StoreInv

LEMMA StoreInitInv ==
  ASSUME StoreInit, honours \subseteq {"create", "match"}
  PROVE  StoreInv
<1> DEFINE k0   == CHOOSE k \in Key : TRUE
           idle == Idle(k0)
<1>1. k0 \in Key
  BY StoreAssumption
<1> HIDE DEF k0
<1>2. Get(k0) \in Op
  BY <1>1 DEF Get, Put, Op, Object
<1>3. New(Get(k0)) \in CallSet
  BY <1>2, NewType
<1>4. idle \in CallSet
  BY <1>3 DEF Idle, CallSet
<1>5. idle.pc = "done" /\ idle.out = "ok" /\ idle.o = Get(k0)
  BY DEF Idle, New
<1>6. call = [c \in Client |-> idle] /\ late = {} /\ bucket \in [Key -> Object]
      /\ seen = [c \in Client |-> [k \in Key |-> {}]]
  BY DEF StoreInit, k0
<1> HIDE DEF idle
<1>7. StoreTypeOK
  BY <1>4, <1>6 DEF StoreTypeOK, CallSet
<1>8. ASSUME NEW c \in Client
      PROVE  CallInv(c, idle, seen[c], bucket, late)
  <2>1. Succeeded(idle, seen[c])
    BY <1>1, <1>5, <1>6 DEF Succeeded, Get, Put
  <2>2. QED
    BY <1>5, <1>6, <2>1 DEF CallInv
<1>9. QED
  BY <1>6, <1>7, <1>8 DEF StoreInv

-----------------------------------------------------------------------------
(* What the invariant says of the client.                                  *)

LEMMA StoreInvRefused ==
  ASSUME StoreInv
  PROVE  RefusedNeverWrote
BY DEF StoreInv, CallInv, RefusedNeverWrote

LEMMA StoreInvOk ==
  ASSUME StoreInv
  PROVE  OkWasThere
BY DEF StoreInv, CallInv, OkWasThere, Succeeded

LEMMA StoreInvListing ==
  ASSUME StoreInv
  PROVE  ListIsSound
BY DEF StoreInv, CallInv, ListIsSound, Succeeded

-----------------------------------------------------------------------------
(* Production: any number of calls of S3ObjectStore.                       *)

LEMMA CallsAreOps == Calls \subseteq Op
<1>1. ASSUME NEW k \in Key, NEW b \in Object, NEW e \in Object
      PROVE  Put(k, b, e) \in Op /\ Create(k, b) \in Op /\ Delete(k) \in Op /\ Get(k) \in Op
  <2>1. None \in Object
    BY DEF Object
  <2>2. Put(k, b, e) \in Op /\ Put(k, None, None) \in Op /\ Put(k, b, None) \in Op
    BY <1>1, <2>1 DEF Put, Op
  <2>3. QED
    BY <2>2 DEF Create, Delete, Get, Op
<1>2. List(Key) \in Op
  <2>1. (CHOOSE k \in Key : TRUE) \in Key
    BY StoreAssumption
  <2>2. QED
    BY <2>1 DEF List, Put, Op, Object
<1>3. QED
  BY <1>1, <1>2 DEF Calls, Object

LEMMA StoreStutters ==
  ASSUME StoreInv, UNCHANGED storeVars
  PROVE  StoreInv'
BY DEF StoreInv, StoreTypeOK, CallInv, storeVars

\* However many clients call the store through S3ObjectStore, and however many answers are
\* lost: the invariant of the client.
THEOREM ClientIsSound == Spec => []StoreInv
<1>1. Init => StoreInv
  BY StoreInitInv DEF Init
<1>2. StoreInv /\ [Next]_storeVars => StoreInv'
  <2> SUFFICES ASSUME StoreInv, [Next]_storeVars
               PROVE  StoreInv'
    OBVIOUS
  <2>1. ASSUME NEW c \in Client, NEW o \in Calls, Begin(c, o)
        PROVE  StoreInv'
    BY <2>1, BeginKeeps, CallsAreOps
  <2>2. ASSUME Step, Observe
        PROVE  StoreInv'
    BY <2>2, ClientKeeps, LandKeeps DEF Step
  <2>3. CASE UNCHANGED storeVars
    BY <2>3, StoreStutters
  <2>4. QED
    BY <2>1, <2>2, <2>3 DEF Next
<1>3. QED
  BY <1>1, <1>2, PTL DEF Spec

\* S3Client._send and S3ObjectStore.put, create_immutable: a conditional write that is
\* reported as refused was not executed and will not be, for any number of attempts.
THEOREM RefusalIsFinal == Spec => []RefusedNeverWrote
BY ClientIsSound, StoreInvRefused, PTL

\* S3ObjectStore.put and the reread after a lost answer: success means that the key held
\* the intended object during the call.
THEOREM SuccessWasThere == Spec => []OkWasThere
BY ClientIsSound, StoreInvOk, PTL

\* S3Client.list_objects: for any page size and any writes between two pages.
THEOREM ListingIsSound == Spec => []ListIsSound
BY ClientIsSound, StoreInvListing, PTL
=============================================================================
