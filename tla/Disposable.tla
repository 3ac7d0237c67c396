----------------------------- MODULE Disposable -----------------------------
(***************************************************************************)
(* The qualification of an object store under a disposable prefix          *)
(* (storage-disposable.py, dkc/storage_disposable.py) and its recovery     *)
(* (storage-disposable-cleanup.py), on top of the client of ObjectStore.   *)
(*                                                                         *)
(* The program uploads a verified repository, reads it back, lists it,     *)
(* lets two threads race for one ETag and removes everything.  It calls    *)
(* S3Client directly, so a lost answer is a failure.  The store under test *)
(* may ignore preconditions.  A bucket is either the disposable one or the *)
(* production one, whose callers ObjectStore describes.                    *)
(***************************************************************************)
EXTENDS ObjectStore

CONSTANTS
  One, Two,   \* the threads of the race; the main thread makes its calls as One
  Item,       \* keys of the repository below the prefix
  Cas,        \* the key of the race
  Content,    \* the verified repository: the object of each item
  Initial,    \* the object the race starts from
  BodyOf,     \* what each thread writes
  MaxCalls    \* bound: calls in production

Prefix == Item \cup {Cas}

ASSUME DisposableAssumption ==
  /\ Client = {One, Two} /\ One # Two
  /\ Prefix \subseteq Key /\ Cas \notin Item /\ Item # {}
  /\ Content \in [Item -> Body] /\ BodyOf \in [Client -> Body] /\ Initial \in Body
  /\ BodyOf[One] # BodyOf[Two]
  /\ MaxCalls \in Nat

VARIABLES
  prog,     \* where the program is
  journal,  \* cleanup.json names the prefix
  calm,     \* no failure happens any more
  made      \* calls in production

vars == <<storeVars, prog, journal, calm, made>>

progVars == <<prog, journal>>

TypeOK ==
  /\ StoreTypeOK
  /\ prog \in
       [pc : {"production", "start", "preflight", "create", "read", "list",
              "initial", "race", "winner", "clean", "delete", "final", "ended"},
        todo    : SUBSET Prefix,                \* items to upload, or keys to delete
        failed  : BOOLEAN,                      \* primary_error
        winner  : Client,                       \* whose write of the race was accepted
        result  : {"none", "PASS", "FAIL", "recovered"}]
  /\ journal \in BOOLEAN
  /\ calm \in BOOLEAN
  /\ made \in 0..MaxCalls

DisposableInit ==
  /\ StoreInit
  /\ prog \in [pc : {"production", "start"}, todo : {{}}, failed : {FALSE},
               winner : {One}, result : {"none"}]
  /\ honours \in SUBSET {"create", "match"}
  /\ IF prog.pc = "production" THEN honours = {"create", "match"}
     ELSE \A k \in Prefix : bucket[k] = None
  /\ journal = FALSE
  /\ calm = FALSE
  /\ made = 0

-----------------------------------------------------------------------------
At(pc) == prog.pc = pc /\ \A c \in Client : ~Busy(c)

Ok(c) == call[c].out = "ok"

To(pc, todo) == prog' = [prog EXCEPT !.pc = pc, !.todo = todo]

Stop(result) == prog' = [prog EXCEPT !.pc = "ended", !.result = result]

\* The next call of the main thread.
Calling(pc, todo, o) == To(pc, todo) /\ Begin(One, Raw(o))

Exits(result) == Stop(result) /\ UNCHANGED storeVars

\* cleanup_disposable_prefix begins with a listing, whether or not there was an error.
Cleanup(failed) ==
  /\ prog' = [prog EXCEPT !.pc = "clean", !.todo = {}, !.failed = failed]
  /\ Begin(One, Raw(List(Prefix)))

Min(S) == CHOOSE k \in S : \A j \in S : k <= j

Upload(k) == Create(k, Content[k])

\* The journal is on disk before the first request.
Journal == At("start") /\ Calling("preflight", {}, List(Prefix)) /\ journal' = TRUE

\* The prefix must be empty; nothing was changed yet, so nothing is cleaned.
Preflight ==
  /\ At("preflight")
  /\ IF Ok(One) /\ call[One].keys = {}
     THEN Calling("create", Item, [Upload(Min(Item)) EXCEPT !.op = "put"])
     ELSE Exits("FAIL")
  /\ UNCHANGED journal

Uploaded ==
  /\ At("create")
  /\ IF Ok(One) THEN Calling("read", prog.todo, Get(Min(prog.todo))) ELSE Cleanup(TRUE)
  /\ UNCHANGED journal

ReadBack ==
  /\ At("read")
  /\ LET k    == Min(prog.todo)
         todo == prog.todo \ {k}
     IN  IF ~Ok(One) \/ call[One].value # Content[k] THEN Cleanup(TRUE)
         ELSE IF todo = {} THEN Calling("list", {}, List(Prefix))
         ELSE Calling("create", todo, [Upload(Min(todo)) EXCEPT !.op = "put"])
  /\ UNCHANGED journal

Listed ==
  /\ At("list")
  /\ IF Ok(One) /\ call[One].keys = Item
     THEN Calling("initial", {}, Put(Cas, Initial, None))
     ELSE Cleanup(TRUE)
  /\ UNCHANGED journal

\* The barrier: both threads write with the ETag of the initial object.
StartRace ==
  /\ At("initial")
  /\ IF Ok(One)
     THEN /\ To("race", {})
          /\ LET o == [c \in Client |-> Raw(Put(Cas, BodyOf[c], Initial))]
             IN  /\ call' = [c \in Client |-> New(o[c])]
                 /\ seen' = [c \in Client |-> [k \in Key |-> IF k = Cas THEN {bucket[k]} ELSE {}]]
                 /\ UNCHANGED <<bucket, late, honours>>
     ELSE Cleanup(TRUE)
  /\ UNCHANGED journal

\* Slip: somebody won.
OneWinnerAtLeast == \E c \in Client : Ok(c)

\* Exactly one 2xx and one 412.
OneWinner == {call[c].out : c \in Client} = {"ok", "refused"}

Raced ==
  /\ At("race")
  /\ IF OneWinner
     THEN /\ prog' = [prog EXCEPT !.pc = "winner", !.winner = CHOOSE c \in Client : Ok(c)]
          /\ Begin(One, Raw(Get(Cas)))
     ELSE Cleanup(TRUE)
  /\ UNCHANGED journal

WinnerRead ==
  /\ At("winner")
  /\ Cleanup(~Ok(One) \/ call[One].value # BodyOf[prog.winner])
  /\ UNCHANGED journal

\* Slip: only the repository is removed.
DoomedItems(keys) == keys \cap Item

Doomed(keys) == keys

\* Each listed key is deleted; an error ends the cleanup.
DeleteNext ==
  /\ At("clean") \/ At("delete")
  /\ LET todo == IF prog.pc = "clean" THEN Doomed(call[One].keys) ELSE prog.todo
     IN  IF ~Ok(One) THEN Exits("FAIL")
         ELSE IF todo = {} THEN Calling("final", {}, List(Prefix))
         ELSE Calling("delete", todo \ {Min(todo)}, Delete(Min(todo)))
  /\ UNCHANGED journal

\* The result of a recovery is its own.
FinalList ==
  /\ At("final")
  /\ LET clean == Ok(One) /\ call[One].keys = {}
     IN  Exits(IF ~clean \/ prog.failed THEN "FAIL"
               ELSE IF prog.result = "none" THEN "PASS" ELSE "recovered")
  /\ UNCHANGED journal

\* The host, the shell or the container is interrupted; requests under way stay under way.
Die ==
  /\ prog.pc \notin {"production", "start", "ended"}
  /\ ~calm
  /\ LET cut == {c \in Client : Busy(c) /\ ~ReadOnly(call[c].o)}
     IN  /\ Cardinality(late) + Cardinality(cut) <= MaxLate
         /\ late' = late \cup {Told(RequestOf(c), c, "error") : c \in cut}
  /\ call' = [c \in Client |-> IF Busy(c) THEN [call[c] EXCEPT !.pc = "done", !.out = "error"]
                               ELSE call[c]]
  /\ Stop("FAIL")
  /\ UNCHANGED <<bucket, seen, honours>>

\* storage-disposable-cleanup.py, with the retained result of an interrupted or failed run.
Recover ==
  /\ At("ended")
  /\ prog.result # "PASS"
  /\ journal
  /\ Cleanup(FALSE)

Program ==
  \/ Journal \/ Preflight \/ Uploaded \/ ReadBack \/ Listed \/ StartRace \/ Raced
  \/ WinnerRead \/ DeleteNext \/ FinalList

CalmDown ==
  /\ prog.pc # "production"
  /\ ~calm
  /\ calm' = TRUE
  /\ UNCHANGED <<storeVars, progVars, made>>

Produce ==
  /\ prog.pc = "production"
  /\ made < MaxCalls
  /\ made' = made + 1
  /\ \E c \in Client, o \in Calls :
       /\ made = 0 => c = One   \* the clients are alike
       /\ made > 0 => Concerns(o) \cap Concerns(call[One].o) # {}   \* or nothing is shared
       /\ Begin(c, o)
  /\ UNCHANGED <<progVars, calm>>

-----------------------------------------------------------------------------
Serve ==
  (\E c \in Client : Answers(c)) /\ Observe /\ UNCHANGED <<progVars, calm, made>>

Trouble ==
  ~calm /\ (\E c \in Client : Fails(c)) /\ Observe /\ UNCHANGED <<progVars, calm, made>>

LandAny ==
  (\E r \in late : Land(r)) /\ Observe /\ UNCHANGED <<progVars, calm, made>>

Run == Program /\ UNCHANGED <<calm, made>>

Recovery == Recover /\ UNCHANGED <<journal, calm, made>>

DisposableNext ==
  \/ Produce \/ Serve \/ Trouble \/ LandAny \/ Run \/ Recovery \/ CalmDown
  \/ Die /\ UNCHANGED <<journal, calm, made>>

\* Requests are answered and programs go on, a late request ends, failures cease, and the
\* operator repeats the recovery.
Fairness ==
  /\ WF_vars(Serve) /\ WF_vars(Run) /\ WF_vars(LandAny)
  /\ WF_vars(CalmDown) /\ WF_vars(Recovery)

DisposableSpec == DisposableInit /\ [][DisposableNext]_vars /\ Fairness

-----------------------------------------------------------------------------
(* Properties.                                                             *)

\* A store that ignores If-Match never passes: with the ETag of one object, two different
\* writes were answered.  (The race of _cas_probe.  A store that ignores If-None-Match may
\* pass: nothing is ever created over an existing key.)
PassNeedsMatch == prog.result = "PASS" => "match" \in honours

\* A pass leaves nothing behind, and no request that could bring something back later.
\* (STORAGE.md: "A normal pass cleans the prefix automatically".)
PassIsClean ==
  prog.result = "PASS" =>
    /\ \A k \in Prefix : bucket[k] = None
    /\ \A r \in late : r.key \notin Prefix

\* Whatever interrupts the qualification, and whichever writes arrive late, repeating the
\* recovery empties the prefix for good.  (STORAGE.md: "If the host, shell, or container is
\* interrupted after mutation starts, recover with the exact retained result".)
EventuallyClean == <>[](prog.pc # "production" => \A k \in Prefix : bucket[k] = None)
=============================================================================
