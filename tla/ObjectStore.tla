----------------------------- MODULE ObjectStore -----------------------------
(***************************************************************************)
(* The object store client: S3Client (dkc/s3.py), which sends one signed   *)
(* request at a time and repeats some of them, and S3ObjectStore           *)
(* (dkc/remote_store.py), which settles the outcome of a write whose       *)
(* answer was lost.  Lease, Publication and Site take a write as one step  *)
(* with a few outcomes; this module shows that the client earns that.      *)
(*                                                                         *)
(* A client is a thread that makes one call at a time.  An object is its   *)
(* bytes and metadata.  Its ETag is opaque, and the weakest ETag a store   *)
(* may give is a function of the bytes: equal objects have equal ETags, so *)
(* an object stands for its ETag too.  Keys are numbers, in the order in   *)
(* which a listing returns them.                                           *)
(***************************************************************************)
EXTENDS Integers, FiniteSets

CONSTANTS
  Client,       \* threads that call the object store
  Key,          \* object keys
  Body,         \* what an object may be
  None,         \* no object
  MaxAttempts,  \* max_attempts of S3Client
  PageSize,     \* keys per page of a listing
  MaxLate       \* bound: requests whose client gave up, at the same time

ASSUME StoreAssumption ==
  /\ Key \subseteq Nat /\ Key # {}
  /\ IsFiniteSet(Key)   \* the length of a key is limited
  /\ MaxAttempts \in Nat \ {0} /\ PageSize \in Nat \ {0}
  /\ None \notin Body

VARIABLES
  bucket,   \* the objects
  call,     \* the current or latest call of each client
  late,     \* requests nobody waits for any more and that may still be executed
  seen,     \* history: what each key held during the call
  honours   \* the preconditions this object store enforces

storeVars == <<bucket, call, late, seen, honours>>

Object == Body \cup {None}

\* The arguments of a call.  put and create (create_immutable) have a precondition: the
\* object If-Match names, or None for If-None-Match: *.  A raw call is one of S3Client,
\* without the reconciliation of S3ObjectStore.
Op == [op : {"put", "create", "delete", "get", "list"}, key : Key, body : Object,
       expect : Object, under : SUBSET Key, raw : BOOLEAN]

Request == [op : {"put", "create", "delete"}, key : Key, body : Object,
            expect : Object, told : {"nothing", "ok", "refused", "rejected", "error"}, by : Client]

Put(k, b, e)  == [op |-> "put", key |-> k, body |-> b, expect |-> e, under |-> {}, raw |-> FALSE]
Create(k, b)  == [Put(k, b, None) EXCEPT !.op = "create"]
Delete(k)     == [Put(k, None, None) EXCEPT !.op = "delete"]
Get(k)        == [Put(k, None, None) EXCEPT !.op = "get"]
List(P)       == [Put(CHOOSE k \in P : TRUE, None, None) EXCEPT !.op = "list", !.under = P]
Raw(o)        == [o EXCEPT !.raw = TRUE]

ReadOnly(o) == o.op \in {"get", "list"}

-----------------------------------------------------------------------------
StoreTypeOK ==
  /\ bucket \in [Key -> Object]
  /\ call \in [Client ->
       [o      : Op,
        pc     : {"send",      \* the request is on its way
                  "reread",    \* the authoritative read after a lost or refused write
                  "done"},
        lost   : BOOLEAN,      \* the answer of the write was lost
        tries  : 1..MaxAttempts,
        keys   : SUBSET Key,   \* a listing so far
        value  : Object,       \* what was read
        writes : Nat,          \* history: how often the write was executed
        out    : {"nothing", "ok", "refused", "rejected", "error"}]]
  /\ late \subseteq Request
  /\ seen \in [Client -> [Key -> SUBSET Object]]
  /\ honours \subseteq {"create", "match"}

New(o) == [o |-> o, pc |-> "send", lost |-> FALSE, tries |-> 1, keys |-> {},
           value |-> None, writes |-> 0, out |-> "nothing"]

Idle(k) == [New(Get(k)) EXCEPT !.pc = "done", !.out = "ok"]

StoreInit ==
  /\ bucket \in [Key -> Object]
  /\ call = [c \in Client |-> Idle(CHOOSE k \in Key : TRUE)]
  /\ late = {}
  /\ seen = [c \in Client |-> [k \in Key |-> {}]]

Busy(c) == call[c].pc # "done"

-----------------------------------------------------------------------------
(* The object store.                                                       *)

\* The precondition of a conditional write, as far as this store enforces it.
Holds(r) ==
  CASE r.op = "delete" -> TRUE
    [] r.expect = None -> "create" \in honours => bucket[r.key] = None
    [] OTHER           -> "match" \in honours => bucket[r.key] = r.expect

Executed(r) == [bucket EXCEPT ![r.key] = r.body]

\* One page of a listing: the first keys after those already returned.
Remaining(o, after) == {k \in o.under : bucket[k] # None /\ k > after}

Page(o, after) ==
  {k \in Remaining(o, after) : Cardinality({j \in Remaining(o, after) : j <= k}) <= PageSize}

-----------------------------------------------------------------------------
(* The client.                                                             *)

Concerns(o) == {o.key} \cup o.under

\* History: what the keys of a call hold while it lasts.
Observe ==
  seen' = [c \in Client |-> [k \in Key |->
             IF Busy(c) /\ k \in Concerns(call[c].o)
             THEN seen[c][k] \cup {bucket'[k]} ELSE seen[c][k]]]

Update(c, new) == call' = [call EXCEPT ![c] = new]

\* What the caller of the call that ends was told.
Told(r, c, out) == IF r.by = c /\ r.told = "nothing" THEN [r EXCEPT !.told = out] ELSE r

EndWith(c, m, out, requests) ==
  /\ Update(c, [m EXCEPT !.pc = "done", !.out = out])
  /\ late' = {Told(r, c, out) : r \in requests}

End(c, m, out) == EndWith(c, m, out, late)

Begin(c, o) ==
  /\ ~Busy(c)
  /\ Update(c, New(o))
  /\ seen' = [seen EXCEPT ![c] = [k \in Key |->
                IF k \in Concerns(o) THEN {bucket[k]} ELSE {}]]
  /\ UNCHANGED <<bucket, late, honours>>

Again(c) == Update(c, [call[c] EXCEPT !.tries = @ + 1])

Reread(c, lost) ==
  Update(c, [call[c] EXCEPT !.pc = "reread", !.tries = 1, !.lost = lost])

\* A write is executed and its answer arrives.
WriteAnswered(c) ==
  LET m == call[c]
  IN  /\ m.pc = "send" /\ ~ReadOnly(m.o)
      /\ IF Holds(m.o)
         THEN /\ bucket' = Executed(m.o)
              /\ End(c, [m EXCEPT !.writes = @ + 1], "ok")
         ELSE /\ IF m.o.op = "create"
                 THEN Reread(c, FALSE) /\ UNCHANGED late
                 ELSE End(c, m, "refused")
              /\ UNCHANGED bucket
      /\ UNCHANGED honours

GetAnswered(c) ==
  LET m == call[c]
  IN  /\ m.pc = "send" /\ m.o.op = "get"
      /\ End(c, [m EXCEPT !.value = bucket[m.o.key]], "ok")
      /\ UNCHANGED <<bucket, honours>>

\* Slip: the first page is taken for the whole listing.
TruncatedNever(o, after, page) == FALSE

Truncated(o, after, page) == Remaining(o, after) # page

Last(keys) == IF keys = {} THEN -1 ELSE CHOOSE k \in keys : \A j \in keys : j <= k

\* One page; a listing goes on with a request of its own for each further page.
PageAnswered(c) ==
  LET m    == call[c]
      page == Page(m.o, Last(m.keys))
      all  == [m EXCEPT !.keys = @ \cup page, !.tries = 1]
  IN  /\ m.pc = "send" /\ m.o.op = "list"
      /\ IF Truncated(m.o, Last(m.keys), page)
         THEN Update(c, all) /\ UNCHANGED late
         ELSE End(c, all, "ok")
      /\ UNCHANGED <<bucket, honours>>

\* Slip: something is there, so the write must have arrived.
AgreesIfThere(o, value) == (o.op = "delete") = (value = None)

\* The exact intended bytes and metadata, or nothing after a DELETE.
Agrees(o, value) == value = o.body

Reconcile(c) ==
  LET m == call[c]
  IN  /\ m.pc = "reread"
      /\ End(c, [m EXCEPT !.value = bucket[m.o.key]],
             IF Agrees(m.o, bucket[m.o.key]) THEN "ok"
             ELSE IF m.lost THEN "error" ELSE "refused")
      /\ UNCHANGED <<bucket, honours>>

\* Slip: a write whose answer is lost is sent again.
RepeatsAll(m) == TRUE

\* Slip: the attempts are counted from zero.
AttemptsLeftFromZero(m) == m.tries <= MaxAttempts

AttemptsLeft(m) == m.tries < MaxAttempts

\* A request that is repeated when nothing is known about its outcome.
Repeats(m) == m.pc = "reread" \/ ReadOnly(m.o)

\* HTTP 429, the store did not process the request: reads and PUT are repeated.  The last
\* one, or another refusal (credentials, a bad request), ends the call.
Rejected(c) ==
  LET m == call[c]
  IN  /\ Busy(c)
      /\ \/ /\ AttemptsLeft(m)
            /\ Repeats(m) \/ m.o.op \in {"put", "create"}
            /\ Again(c) /\ UNCHANGED late
         \/ End(c, m, IF m.pc = "reread" /\ m.lost THEN "error" ELSE "rejected")
      /\ UNCHANGED <<bucket, honours>>

RequestOf(c) ==
  LET o == call[c].o
  IN  [op |-> o.op, key |-> o.key, body |-> o.body, expect |-> o.expect,
       told |-> "nothing", by |-> c]

\* No answer, a truncated one, or a transient server failure.  A write may have been
\* executed, may still be, or never is (Land).
Lost(c) ==
  LET m     == call[c]
      write == m.pc = "send" /\ ~ReadOnly(m.o)
      sent  == IF write THEN late \cup {RequestOf(c)} ELSE late
  IN  /\ Busy(c)
      /\ write => Cardinality(late) < MaxLate
      /\ \/ /\ Repeats(m) /\ AttemptsLeft(m)
            /\ Again(c) /\ late' = sent
         \/ /\ ~Repeats(m) \/ ~AttemptsLeft(m)
            /\ IF write /\ ~m.o.raw
               THEN Reread(c, TRUE) /\ late' = sent
               ELSE EndWith(c, m, IF m.pc = "reread" /\ ~m.lost THEN "rejected" ELSE "error", sent)
      /\ UNCHANGED <<bucket, honours>>

\* A late request is executed, if its precondition holds, or is lost.
Land(r) ==
  /\ \/ UNCHANGED <<bucket, call>>
     \/ /\ Holds(r)
        /\ bucket' = Executed(r)
        /\ call' = IF Busy(r.by) /\ r.told = "nothing"
                   THEN [call EXCEPT ![r.by].writes = @ + 1] ELSE call
  /\ late' = late \ {r}
  /\ UNCHANGED honours

Answers(c) == WriteAnswered(c) \/ GetAnswered(c) \/ PageAnswered(c) \/ Reconcile(c)

Fails(c) == Rejected(c) \/ Lost(c)

Step == (\E c \in Client : Answers(c) \/ Fails(c)) \/ (\E r \in late : Land(r))

-----------------------------------------------------------------------------
(* Production: publishers, the lease and the site call S3ObjectStore.      *)

Calls ==
  {Put(k, b, e) : k \in Key, b \in Body, e \in Object}
    \cup {Create(k, b) : k \in Key, b \in Body}
    \cup {Delete(k) : k \in Key}
    \cup {Get(k) : k \in Key}
    \cup {List(Key)}

Next == (\E c \in Client, o \in Calls : Begin(c, o)) \/ (Step /\ Observe)

Init == StoreInit /\ honours = {"create", "match"}

Spec == Init /\ [][Next]_storeVars

-----------------------------------------------------------------------------
(* Properties.                                                             *)

\* A conditional write that is reported as refused was never executed and never will be:
\* the caller may take the failure for a lost race.  (S3Client._send repeats a write only
\* after HTTP 429; a repetition after a lost answer would meet its own first write.)
RefusedNeverWrote ==
  /\ \A c \in Client : call[c].out \in {"refused", "rejected"} => call[c].writes = 0
  /\ \A r \in late : r.told \notin {"refused", "rejected"}

\* A write that is reported as done: at some moment of the call, the key held exactly the
\* intended object, or nothing after a deletion; what a read returns was there.
\* (S3ObjectStore.put: "accepts only exact intended bytes plus metadata".)
OkWasThere ==
  \A c \in Client :
    LET m == call[c]
    IN  m.pc = "done" /\ m.out = "ok" /\ seen[c][m.o.key] # {} =>
          CASE m.o.op \in {"put", "create", "delete"} -> m.o.body \in seen[c][m.o.key]
            [] m.o.op = "get"                        -> m.value \in seen[c][m.o.key]
            [] OTHER                                 -> TRUE

\* A listing of several pages is not a snapshot, but it has every key that was there all
\* along and none that never was: what garbage collection, the storage measure and the
\* site plan rely on.
ListIsSound ==
  \A c \in Client :
    LET m == call[c]
    IN  m.pc = "done" /\ m.out = "ok" /\ m.o.op = "list" =>
          \A k \in m.o.under : /\ None \notin seen[c][k] => k \in m.keys
                               /\ seen[c][k] = {None} => k \notin m.keys
=============================================================================
