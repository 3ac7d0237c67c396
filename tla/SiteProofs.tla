------------------------------ MODULE SiteProofs ------------------------------
(***************************************************************************)
(* Theorems about Site, for any pages, assets, commits and number of late  *)
(* writes: what visitors see during and after a publication, and that no   *)
(* older site replaces a newer one.                                        *)
(***************************************************************************)
EXTENDS Site, TLAPS

-----------------------------------------------------------------------------
(* The inductive invariant: TypeOK and three parts.                        *)

\* What comes after the audit has passed it.
OnlyAccepted ==
  /\ run.pc # "idle" => run.rev # 0
  /\ run.pc \in {"check", "plan", "publish"} => Accepted(commits[run.rev])
  /\ plan.rev # 0 => Accepted(commits[plan.rev])

\* Revisions only go up on the way from the check to the verification.
InOrder ==
  /\ verified <= plan.rev
  /\ run.pc = "plan" => plan.rev <= run.rev
  /\ run.pc = "publish" => ~plan.done

\* How far the site s is on the way to b under plan p.  A key is either still to write, and
\* then not what it shall be, or it is there; pages come after the assets; what is to be
\* deleted is not of b.  A late write (h) is an exception until the next publication.
Progress(b, p, s, h) ==
  /\ p.todo \subseteq p.writes
  /\ \A k \in p.todo : b[k] # None /\ (s[k] # b[k] \/ k \in h)
  /\ \A k \in p.gc : b[k] = None
  /\ \A k \in Key \ p.todo : b[k] # None => s[k] # None \/ k \in h
  /\ (p.writes \ p.todo) \cap PageKey # {} => p.todo \cap Asset = {}
  /\ p.done => \A k \in Key \ h : s[k] = b[k]

SiteInv == TypeOK /\ OnlyAccepted /\ InOrder /\ Progress(Built(plan.rev), plan, site, hit)

-----------------------------------------------------------------------------
(* A build: what its keys hold, and that an accepted one is whole.         *)

LEMMA KeyFacts ==
  /\ PageKey \subseteq Key /\ Asset \subseteq Key /\ Asset \cap PageKey = {}
  /\ UrlOf[Home] \in PageKey /\ \A d \in Doc : UrlOf[d] \in PageKey
BY ConstantsAssumption DEF PageKey, Key

LEMMA PageType ==
  ASSUME NEW t \in Tree, NEW r \in Nat, NEW d \in Pages(t)
  PROVE  /\ Page(t, r, d) \in Object
         /\ Page(t, r, d).names = t.names
         /\ Page(t, r, d).links \subseteq {UrlOf[e] : e \in Pages(t)}
<1> DEFINE links == {UrlOf[e] : e \in t.links[d] \cap Pages(t)}
           pin   == IF t.links[d] \subseteq Pages(t) THEN 0 ELSE r
<1>1. links \subseteq {UrlOf[e] : e \in Pages(t)}
  OBVIOUS
<1>2. {UrlOf[e] : e \in Pages(t)} \subseteq PageKey
  BY TreeAssumption DEF Pages, PageKey
<1>3. pin \in Nat /\ t.text \in Nat /\ t.names \subseteq Asset
  BY TreeAssumption
<1>4. Page(t, r, d) = [text |-> t.text, names |-> t.names, links |-> links, pin |-> pin]
  BY DEF Page
<1> HIDE DEF links, pin
<1>5. QED
  BY <1>1, <1>2, <1>3, <1>4 DEF Object

LEMMA FileType ==
  ASSUME NEW t \in Tree
  PROVE  File(t) \in Object
BY TreeAssumption DEF File, Object

LEMMA PageOfKey ==
  ASSUME NEW t \in Tree, NEW k \in Keys(t), k \notin Asset
  PROVE  (CHOOSE d \in Pages(t) : UrlOf[d] = k) \in Pages(t)
<1>1. \E d \in Pages(t) : UrlOf[d] = k
  BY TreeAssumption DEF Keys
<1>2. QED
  BY <1>1

LEMMA GeneratedFacts ==
  ASSUME NEW t \in Tree, NEW r \in Nat
  PROVE  /\ Generated(t, r) \in [Key -> Object \cup {None}]
         /\ \A k \in Key : Generated(t, r)[k] # None <=> k \in Keys(t)
         /\ \A k \in Key \ Asset : k \in Keys(t) =>
              /\ Generated(t, r)[k].names = t.names
              /\ Generated(t, r)[k].links \subseteq Keys(t)
         /\ Keys(t) \subseteq Key
<1> DEFINE page(k) == Page(t, r, CHOOSE d \in Pages(t) : UrlOf[d] = k)
           at(k)   == IF k \notin Keys(t) THEN None ELSE IF k \in Asset THEN File(t) ELSE page(k)
<1>1. ASSUME NEW k \in Keys(t), k \notin Asset
      PROVE  /\ page(k) \in Object /\ page(k).names = t.names
             /\ page(k).links \subseteq {UrlOf[e] : e \in Pages(t)}
  <2> DEFINE d == CHOOSE d \in Pages(t) : UrlOf[d] = k
  <2>1. d \in Pages(t)
    BY <1>1, PageOfKey
  <2>2. page(k) = Page(t, r, d)
    OBVIOUS
  <2> HIDE DEF d, page
  <2>3. QED
    BY <2>1, <2>2, PageType
<1>2. {UrlOf[e] : e \in Pages(t)} \subseteq Keys(t)
  BY DEF Keys
<1>3. Keys(t) \subseteq Key
  BY TreeAssumption DEF Keys, Key, PageKey, Pages
<1>4. Generated(t, r) = [k \in Key |-> at(k)]
  BY DEF Generated
<1> HIDE DEF page
<1>5. \A k \in Key : at(k) \in Object \cup {None} /\ (at(k) # None <=> k \in Keys(t))
  BY <1>1, FileType, NoneAssumption
<1>6. \A k \in Key \ Asset : k \in Keys(t) => at(k) = page(k)
  OBVIOUS
<1> HIDE DEF at
<1>7. QED
  BY <1>1, <1>2, <1>3, <1>4, <1>5, <1>6

\* audit_site has followed what an accepted page loads.
LEMMA AcceptedFacts ==
  ASSUME NEW t \in Tree, Accepted(t)
  PROVE  t.names \subseteq Keys(t) /\ Keys(t) \cap (Reserved \cup Pruned) = {}
<1>1. t.names \subseteq Keys(t) /\ Keys(t) \cap Reserved = {}
  BY DEF Accepted, Audits, ReferencesExist, Inventory
<1>2. Keys(t) \cap Pruned = {}
  BY TreeAssumption, ConstantsAssumption DEF Keys, Pages
<1>3. QED
  BY <1>1, <1>2

LEMMA RevisionFacts ==
  ASSUME TypeOK, NEW r \in 0..Len(commits)
  PROVE  /\ r \in Nat
         /\ r # 0 => commits[r] \in Tree /\ r \in 1..Len(commits)
         /\ Built(r) \in [Key -> Object \cup {None}]
         /\ r = 0 => \A k \in Key : Built(r)[k] = None
         /\ r # 0 => /\ \A k \in Key : Built(r)[k] # None <=> k \in Keys(commits[r])
                     /\ \A k \in Key \ Asset : k \in Keys(commits[r]) =>
                          /\ Built(r)[k].names = commits[r].names
                          /\ Built(r)[k].links \subseteq Keys(commits[r])
                     /\ Keys(commits[r]) \subseteq Key
<1>1. commits \in Seq(Tree) /\ Len(commits) \in Nat /\ r \in Nat
  BY DEF TypeOK
<1>2. CASE r = 0
  BY <1>1, <1>2 DEF Built
<1>3. CASE r # 0
  <2>1. r \in 1..Len(commits) /\ commits[r] \in Tree
    BY <1>1, <1>3
  <2>2. Built(r) = Generated(commits[r], r)
    BY <1>3 DEF Built
  <2>3. QED
    BY <1>1, <1>3, <2>1, <2>2, GeneratedFacts
<1>4. QED
  BY <1>2, <1>3

\* What a page of an accepted build loads and links to is in that build.
LEMMA BuiltIsWhole ==
  ASSUME TypeOK, NEW r \in 0..Len(commits), r # 0 => Accepted(commits[r]),
         NEW k \in PageKey, Built(r)[k] # None
  PROVE  /\ Built(r)[k].names \subseteq Asset
         /\ \A j \in Built(r)[k].names \cup Built(r)[k].links : j \in Key /\ Built(r)[j] # None
<1>1. k \in Key /\ k \notin Asset
  BY KeyFacts
<1>2. r # 0
  BY <1>1, RevisionFacts
<1>3. k \in Keys(commits[r]) /\ commits[r] \in Tree /\ commits[r].names \subseteq Asset
  BY <1>1, <1>2, RevisionFacts, TreeAssumption
<1>4. commits[r].names \subseteq Keys(commits[r])
  BY <1>2, <1>3, AcceptedFacts
<1>5. QED
  BY <1>1, <1>2, <1>3, <1>4, RevisionFacts

-----------------------------------------------------------------------------
(* What every step leaves alone.                                           *)

LEMMA Unpack ==
  ASSUME SiteInv
  PROVE  /\ TypeOK /\ OnlyAccepted /\ InOrder /\ Progress(Built(plan.rev), plan, site, hit)
         /\ plan.rev \in 0..Len(commits) /\ run.rev \in 0..Len(commits) /\ Len(commits) \in Nat
         /\ run.pc \in {"idle", "build", "check", "plan", "publish"}
         /\ verified \in 0..Len(commits) /\ verified \in Nat /\ plan.rev \in Nat /\ run.rev \in Nat
         /\ site \in [Key -> Object \cup {None}] /\ hit \subseteq Key
         /\ plan.todo \subseteq Key /\ plan.gc \subseteq Key /\ plan.writes \subseteq Key
BY DEF SiteInv, TypeOK

LEMMA SameBuild ==
  ASSUME commits' = commits, plan'.rev = plan.rev
  PROVE  Built(plan.rev)' = Built(plan.rev)
BY DEF Built

\* A step that publishes nothing: the workflow's own.
LEMMA RunSteps ==
  ASSUME SiteInv, UNCHANGED <<commits, site, plan, verified, hit>>, late' \subseteq Write,
         calm' \in BOOLEAN, NEW pc \in {"idle", "build", "check", "plan", "publish"},
         NEW rev \in 0..Len(commits), run' = [pc |-> pc, rev |-> rev],
         pc # "idle" => rev # 0,
         pc \in {"check", "plan", "publish"} => Accepted(commits[rev]),
         pc = "plan" => plan.rev <= rev,
         pc = "publish" => ~plan.done
  PROVE  SiteInv'
<1>1. TypeOK /\ OnlyAccepted /\ InOrder /\ Progress(Built(plan.rev), plan, site, hit)
  BY DEF SiteInv
<1>2. TypeOK'
  BY <1>1 DEF TypeOK
<1>3. OnlyAccepted' /\ InOrder'
  BY <1>1 DEF OnlyAccepted, InOrder
<1>4. Progress(Built(plan.rev), plan, site, hit)'
  BY <1>1, SameBuild
<1>5. QED
  BY <1>2, <1>3, <1>4 DEF SiteInv

-----------------------------------------------------------------------------
(* The steps of the workflow and of a publication.                         *)

LEMMA InitHolds ==
  ASSUME Init
  PROVE  SiteInv
<1>1. /\ commits \in Seq(Tree) /\ Len(commits) = 0 /\ 0 \in 0..Len(commits)
      /\ run = [pc |-> "idle", rev |-> 0] /\ verified = 0 /\ late = {} /\ hit = {} /\ calm = FALSE
      /\ site = [k \in Key |-> None]
      /\ plan = [rev |-> 0, expect |-> [k \in Key |-> None],
                 writes |-> {}, todo |-> {}, gc |-> {}, done |-> FALSE]
  BY DEF Init
<1>2. TypeOK
  <2>1. site \in [Key -> Object \cup {None}]
    BY <1>1
  <2>2. plan \in [rev : 0..Len(commits), expect : [Key -> Object \cup {None}],
                  writes : SUBSET Key, todo : SUBSET Key, gc : SUBSET Key, done : BOOLEAN]
    BY <1>1, <2>1
  <2>3. run \in [pc : {"idle", "build", "check", "plan", "publish"}, rev : 0..Len(commits)]
    BY <1>1
  <2>4. Len(commits) <= MaxCommits
    BY <1>1, ConstantsAssumption
  <2>5. late \subseteq Write /\ hit \subseteq Key /\ calm \in BOOLEAN
    BY <1>1
  <2>6. QED
    BY <1>1, <2>1, <2>2, <2>3, <2>4, <2>5 DEF TypeOK
<1>3. \A k \in Key : Built(plan.rev)[k] = None
  BY <1>1 DEF Built
<1>4. OnlyAccepted /\ InOrder /\ Progress(Built(plan.rev), plan, site, hit)
  BY <1>1, <1>3 DEF OnlyAccepted, InOrder, Progress
<1>5. QED
  BY <1>2, <1>4 DEF SiteInv

\* A commit more leaves the builds of the others as they are.
LEMMA PushKeeps ==
  ASSUME SiteInv, NEW t \in Tree, Push(t)
  PROVE  SiteInv'
<1>1. /\ TypeOK /\ OnlyAccepted /\ InOrder /\ Progress(Built(plan.rev), plan, site, hit)
      /\ plan.rev \in 0..Len(commits) /\ run.rev \in 0..Len(commits) /\ Len(commits) \in Nat
      /\ verified \in 0..Len(commits)
  BY Unpack
<1>2. /\ commits' = Append(commits, t) /\ Len(commits) < MaxCommits
      /\ UNCHANGED <<run, site, plan, verified, late, hit, calm>>
  BY DEF Push, Main
<1>3. /\ commits' \in Seq(Tree) /\ Len(commits') = Len(commits) + 1 /\ Len(commits') <= MaxCommits
      /\ \A r \in 1..Len(commits) : commits'[r] = commits[r]
      /\ 0..Len(commits) \subseteq 0..Len(commits')
  BY <1>1, <1>2, ConstantsAssumption DEF TypeOK
<1>4. TypeOK'
  BY <1>1, <1>2, <1>3 DEF TypeOK
<1>5. Built(plan.rev)' = Built(plan.rev)
  <2>1. plan.rev # 0 => commits'[plan.rev] = commits[plan.rev]
    BY <1>1, <1>3
  <2>2. QED
    BY <1>2, <2>1 DEF Built
<1>6. OnlyAccepted'
  <2>1. run.rev # 0 => commits'[run.rev] = commits[run.rev]
    BY <1>1, <1>3
  <2>2. plan.rev # 0 => commits'[plan.rev] = commits[plan.rev]
    BY <1>1, <1>3
  <2>3. QED
    BY <1>1, <1>2, <2>1, <2>2 DEF OnlyAccepted
<1>7. InOrder' /\ Progress(Built(plan.rev), plan, site, hit)'
  BY <1>1, <1>2, <1>5 DEF InOrder
<1>8. QED
  BY <1>4, <1>6, <1>7 DEF SiteInv

LEMMA WorkflowKeeps ==
  ASSUME SiteInv, (\E r \in 1..MaxCommits : Start(r)) \/ BuildSite \/ CheckMain \/ Fail \/ CalmDown
  PROVE  SiteInv'
<1>1. /\ TypeOK /\ OnlyAccepted /\ InOrder
      /\ run.rev \in 0..Len(commits) /\ plan.rev \in 0..Len(commits) /\ Len(commits) \in Nat
      /\ run.pc \in {"idle", "build", "check", "plan", "publish"}
      /\ late \subseteq Write /\ calm \in BOOLEAN
      /\ run = [pc |-> run.pc, rev |-> run.rev]
      /\ \A pc : [run EXCEPT !.pc = pc] = [pc |-> pc, rev |-> run.rev]
  BY Unpack DEF TypeOK
<1>2. CASE \E r \in 1..MaxCommits : Start(r)
  <2>1. PICK r \in 1..MaxCommits : Start(r)
    BY <1>2
  <2>2. r \in 0..Len(commits) /\ r # 0
    BY <1>1, <2>1 DEF Start, Main
  <2>3. run' = [pc |-> "build", rev |-> r] /\ UNCHANGED <<commits, site, plan, verified, late, hit, calm>>
    BY <2>1 DEF Start
  <2>4. QED
    BY <1>1, <2>2, <2>3, RunSteps
<1>3. CASE BuildSite
  <2> DEFINE pc == IF Accepted(commits[run.rev]) THEN "check" ELSE "idle"
  <2>1. run' = [pc |-> pc, rev |-> run.rev] /\ UNCHANGED <<commits, site, plan, verified, late, hit, calm>>
    BY <1>1, <1>3 DEF BuildSite, To
  <2>2. run.rev # 0
    BY <1>1, <1>3 DEF BuildSite, OnlyAccepted
  <2>3. pc \in {"check", "idle"} /\ (pc = "check" => Accepted(commits[run.rev]))
    OBVIOUS
  <2> HIDE DEF pc
  <2>4. QED
    BY <1>1, <2>1, <2>2, <2>3, RunSteps
<1>4. CASE CheckMain
  <2> DEFINE pc == IF IsMain(run.rev) THEN "plan" ELSE "idle"
  <2>1. run' = [pc |-> pc, rev |-> run.rev] /\ UNCHANGED <<commits, site, plan, verified, late, hit, calm>>
    BY <1>1, <1>4 DEF CheckMain, To
  <2>2. run.rev # 0 /\ Accepted(commits[run.rev])
    BY <1>1, <1>4 DEF CheckMain, OnlyAccepted
  <2>3. pc \in {"plan", "idle"} /\ (pc = "plan" => plan.rev <= run.rev)
    BY <1>1 DEF IsMain, Main
  <2> HIDE DEF pc
  <2>4. QED
    BY <1>1, <2>1, <2>2, <2>3, RunSteps
<1>5. CASE Fail
  <2>1. /\ run' = [pc |-> "idle", rev |-> run.rev]
        /\ UNCHANGED <<commits, site, plan, verified, late, hit, calm>>
    BY <1>1, <1>5 DEF Fail, To
  <2>2. QED
    BY <1>1, <2>1, RunSteps
<1>6. CASE CalmDown
  <2>1. /\ run' = [pc |-> run.pc, rev |-> run.rev] /\ calm' \in BOOLEAN
        /\ UNCHANGED <<commits, site, plan, verified, late, hit>>
    BY <1>1, <1>6 DEF CalmDown
  <2>2. QED
    BY <1>1, <2>1, RunSteps DEF OnlyAccepted, InOrder
<1>7. QED
  BY <1>2, <1>3, <1>4, <1>5, <1>6

\* The comparison: what is not to be written is there already.
LEMMA MakePlanKeeps ==
  ASSUME SiteInv, MakePlan
  PROVE  SiteInv'
<1> DEFINE new  == Built(run.rev)
           todo == {k \in Key : new[k] # None /\ site[k] # new[k]}
           p    == [rev |-> run.rev, expect |-> site, writes |-> todo,
                    todo |-> todo, gc |-> Stale(new), done |-> FALSE]
<1>1. /\ TypeOK /\ OnlyAccepted /\ InOrder
      /\ run.rev \in 0..Len(commits) /\ plan.rev \in 0..Len(commits) /\ Len(commits) \in Nat
      /\ verified \in Nat /\ plan.rev \in Nat /\ run.rev \in Nat
      /\ site \in [Key -> Object \cup {None}] /\ late \subseteq Write /\ calm \in BOOLEAN /\ hit \subseteq Key
      /\ \A pc : [run EXCEPT !.pc = pc] = [pc |-> pc, rev |-> run.rev]
  BY Unpack DEF TypeOK
<1>2. /\ run.pc = "plan" /\ UNCHANGED <<commits, site, verified, late, calm>>
      /\ IF Cardinality(Stale(new)) > MaxDeletions
         THEN To("idle") /\ UNCHANGED <<plan, hit>>
         ELSE /\ plan' = p
              /\ hit' = hit \cap (todo \cup Stale(new))
              /\ To("publish")
  BY DEF MakePlan, Capped
<1>3. CASE To("idle") /\ UNCHANGED <<plan, hit>>
  <2>1. run' = [pc |-> "idle", rev |-> run.rev]
    BY <1>1, <1>3 DEF To
  <2>2. QED
    BY <1>1, <1>2, <1>3, <2>1, RunSteps
<1>4. CASE plan' = p /\ hit' = hit \cap (todo \cup Stale(new)) /\ To("publish")
  <2>1. run' = [pc |-> "publish", rev |-> run.rev]
    BY <1>1, <1>4 DEF To
  <2>2. run.rev # 0 /\ Accepted(commits[run.rev]) /\ verified <= run.rev
    BY <1>1, <1>2 DEF OnlyAccepted, InOrder
  <2>3. new \in [Key -> Object \cup {None}]
    BY <1>1, RevisionFacts
  <2>4. Stale(new) = {k \in Key : site[k] # None /\ new[k] = None}
    BY DEF Stale
  <2>5. /\ plan'.rev = run.rev /\ plan'.todo = todo /\ plan'.writes = todo /\ plan'.gc = Stale(new)
        /\ plan'.done = FALSE
    BY <1>4
  <2>6. Built(plan.rev)' = new
    BY <1>2, <2>5 DEF Built
  <2>7. TypeOK'
    <3>1. plan' \in [rev : 0..Len(commits), expect : [Key -> Object \cup {None}],
                     writes : SUBSET Key, todo : SUBSET Key, gc : SUBSET Key, done : BOOLEAN]
      BY <1>1, <1>4, <2>4
    <3>2. hit' \subseteq Key
      BY <1>1, <1>4
    <3>3. QED
      BY <1>1, <1>2, <2>1, <3>1, <3>2 DEF TypeOK
  <2> HIDE DEF new
  <2>8. Progress(new, plan', site, hit')
    BY <1>4, <2>4, <2>5 DEF Progress
  <2>9. OnlyAccepted' /\ InOrder'
    BY <1>2, <2>1, <2>2, <2>5 DEF OnlyAccepted, InOrder
  <2>10. QED
    BY <1>2, <2>6, <2>7, <2>8, <2>9 DEF SiteInv
<1>5. QED
  BY <1>2, <1>3, <1>4

\* What a step of a publication leaves alone, and the types of what it changes.
LEMMA PublishSteps ==
  ASSUME SiteInv, commits' = commits, plan'.rev = plan.rev,
         site' \in [Key -> Object \cup {None}], hit' \subseteq Key, late' \subseteq Write,
         calm' = calm, verified' \in {verified, plan.rev},
         NEW pc \in {"idle", run.pc}, run' = [pc |-> pc, rev |-> run.rev],
         plan' \in [rev : 0..Len(commits), expect : [Key -> Object \cup {None}],
                    writes : SUBSET Key, todo : SUBSET Key, gc : SUBSET Key, done : BOOLEAN],
         pc = "publish" => ~plan'.done,
         Progress(Built(plan.rev), plan', site', hit')
  PROVE  SiteInv'
<1>1. TypeOK /\ OnlyAccepted /\ InOrder /\ plan.rev \in Nat /\ plan.rev \in 0..Len(commits)
      /\ run.rev \in 0..Len(commits) /\ run.pc \in {"idle", "build", "check", "plan", "publish"}
      /\ verified \in Nat
  BY Unpack
<1>2. TypeOK'
  <2>1. run' \in [pc : {"idle", "build", "check", "plan", "publish"}, rev : 0..Len(commits)]
    BY <1>1
  <2>2. verified' \in 0..Len(commits)
    BY <1>1 DEF TypeOK
  <2>3. QED
    BY <1>1, <2>1, <2>2 DEF TypeOK
<1>3. OnlyAccepted' /\ InOrder'
  BY <1>1 DEF OnlyAccepted, InOrder
<1>4. Progress(Built(plan.rev), plan, site, hit)'
  BY SameBuild
<1>5. QED
  BY <1>2, <1>3, <1>4 DEF SiteInv

LEMMA RunFacts ==
  ASSUME SiteInv
  PROVE  /\ run = [pc |-> run.pc, rev |-> run.rev]
         /\ To("idle") => run' = [pc |-> "idle", rev |-> run.rev]
BY DEF SiteInv, TypeOK, To

LEMMA PlanFacts ==
  ASSUME SiteInv
  PROVE  plan \in [rev : 0..Len(commits), expect : [Key -> Object \cup {None}],
                   writes : SUBSET Key, todo : SUBSET Key, gc : SUBSET Key, done : BOOLEAN]
BY DEF SiteInv, TypeOK

\* Assets have the lowest class, so a page is written when none is left to write.
LEMMA PageComesLast ==
  ASSUME SiteInv, NEW k \in PageKey, NextWrite(k)
  PROVE  plan.todo \cap Asset = {}
<1>1. \A a \in Asset : Class(a) = 0
  BY KeyFacts DEF Class
<1>2. Class(k) \in {1, 2}
  BY DEF Class
<1>3. QED
  BY <1>1, <1>2 DEF NextWrite

LEMMA PutObjectKeeps ==
  ASSUME SiteInv, NEW k \in Key, PutObject(k)
  PROVE  SiteInv'
<1> DEFINE b == Built(plan.rev)
<1>1. /\ b \in [Key -> Object \cup {None}] /\ Progress(b, plan, site, hit) /\ InOrder
      /\ site \in [Key -> Object \cup {None}] /\ hit \subseteq Key /\ late \subseteq Write
      /\ calm \in BOOLEAN
  BY Unpack, RevisionFacts DEF TypeOK
<1>2. /\ run.pc = "publish" /\ NextWrite(k) /\ k \in plan.todo
      /\ UNCHANGED <<commits, verified, late, calm>>
      /\ IF site[k] = plan.expect[k]
         THEN /\ site' = [site EXCEPT ![k] = b[k]]
              /\ plan' = [plan EXCEPT !.todo = @ \ {k}]
              /\ hit' = hit \ {k}
              /\ UNCHANGED run
         ELSE To("idle") /\ UNCHANGED <<site, plan, hit>>
  BY DEF PutObject, NextWrite
<1>3. CASE To("idle") /\ UNCHANGED <<site, plan, hit>>
  BY <1>1, <1>2, <1>3, RunFacts, PlanFacts, PublishSteps
<1>4. CASE /\ site' = [site EXCEPT ![k] = b[k]] /\ plan' = [plan EXCEPT !.todo = @ \ {k}]
           /\ hit' = hit \ {k} /\ UNCHANGED run
  <2>1. /\ plan' \in [rev : 0..Len(commits), expect : [Key -> Object \cup {None}],
                      writes : SUBSET Key, todo : SUBSET Key, gc : SUBSET Key, done : BOOLEAN]
        /\ plan'.rev = plan.rev /\ plan'.todo = plan.todo \ {k} /\ plan'.writes = plan.writes
        /\ plan'.gc = plan.gc /\ plan'.done = plan.done
    BY <1>4, PlanFacts
  <2>2. site' \in [Key -> Object \cup {None}] /\ hit' \subseteq Key
    BY <1>1, <1>4
  <2>3. ~plan.done
    BY <1>1, <1>2 DEF InOrder
  <2>4. k \in PageKey => plan.todo \cap Asset = {}
    BY <1>2, PageComesLast
  <2> HIDE DEF b
  <2>5. /\ site'[k] = b[k] /\ \A j \in Key \ {k} : site'[j] = site[j]
    BY <1>1, <1>4
  <2>6. Progress(b, plan', site', hit')
    <3>1. /\ plan.todo \subseteq plan.writes
          /\ \A j \in plan.todo : b[j] # None /\ (site[j] # b[j] \/ j \in hit)
          /\ \A j \in plan.gc : b[j] = None
          /\ \A j \in Key \ plan.todo : b[j] # None => site[j] # None \/ j \in hit
          /\ (plan.writes \ plan.todo) \cap PageKey # {} => plan.todo \cap Asset = {}
          /\ plan.todo \subseteq Key
      BY <1>1, PlanFacts DEF Progress
    <3>2. \A j \in Key \ plan'.todo : b[j] # None => site'[j] # None \/ j \in hit'
      BY <1>4, <2>1, <2>5, <3>1
    <3>3. (plan'.writes \ plan'.todo) \cap PageKey # {} => plan'.todo \cap Asset = {}
      BY <2>1, <2>4, <3>1
    <3>4. \A j \in plan'.todo : b[j] # None /\ (site'[j] # b[j] \/ j \in hit')
      BY <1>4, <2>1, <2>5, <3>1
    <3>5. QED
      BY <2>1, <2>3, <3>1, <3>2, <3>3, <3>4 DEF Progress
  <2> USE DEF b
  <2>7. QED
    BY <1>1, <1>2, <1>4, <2>1, <2>2, <2>3, <2>6, RunFacts, PublishSteps
<1>5. QED
  BY <1>2, <1>3, <1>4

LEMMA DeleteObjectKeeps ==
  ASSUME SiteInv, NEW k \in Key, DeleteObject(k)
  PROVE  SiteInv'
<1> DEFINE b == Built(plan.rev)
<1>1. /\ b \in [Key -> Object \cup {None}] /\ Progress(b, plan, site, hit) /\ InOrder
      /\ site \in [Key -> Object \cup {None}] /\ hit \subseteq Key /\ late \subseteq Write
      /\ calm \in BOOLEAN
  BY Unpack, RevisionFacts DEF TypeOK
<1>2. /\ run.pc = "publish" /\ plan.todo = {} /\ k \in plan.gc
      /\ site' = [site EXCEPT ![k] = None] /\ plan' = [plan EXCEPT !.gc = @ \ {k}]
      /\ hit' = hit \ {k} /\ UNCHANGED <<commits, run, verified, late, calm>>
  BY DEF DeleteObject
<1>3. /\ plan' \in [rev : 0..Len(commits), expect : [Key -> Object \cup {None}],
                    writes : SUBSET Key, todo : SUBSET Key, gc : SUBSET Key, done : BOOLEAN]
      /\ plan'.rev = plan.rev /\ plan'.todo = plan.todo /\ plan'.writes = plan.writes
      /\ plan'.gc = plan.gc \ {k} /\ plan'.done = plan.done
  BY <1>2, PlanFacts
<1>4. /\ site' \in [Key -> Object \cup {None}] /\ hit' \subseteq Key
      /\ site'[k] = None /\ \A j \in Key \ {k} : site'[j] = site[j]
  BY <1>1, <1>2
<1>5. ~plan.done
  BY <1>1, <1>2 DEF InOrder
<1>6. Progress(b, plan', site', hit')
  <2> HIDE DEF b
  <2>1. QED
    BY <1>1, <1>2, <1>3, <1>4, <1>5 DEF Progress
<1>7. QED
  BY <1>1, <1>2, <1>3, <1>4, <1>5, <1>6, RunFacts, PublishSteps

LEMMA VerifyKeeps ==
  ASSUME SiteInv, Verify
  PROVE  SiteInv'
<1> DEFINE b == Built(plan.rev)
<1>1. /\ b \in [Key -> Object \cup {None}] /\ Progress(b, plan, site, hit)
      /\ site \in [Key -> Object \cup {None}] /\ hit \subseteq Key /\ late \subseteq Write
      /\ calm \in BOOLEAN
  BY Unpack, RevisionFacts DEF TypeOK
<1>2. /\ plan.todo = {} /\ plan.gc = {} /\ To("idle") /\ UNCHANGED <<commits, site, late, calm>>
      /\ IF site = b
         THEN verified' = plan.rev /\ plan' = [plan EXCEPT !.done = TRUE] /\ hit' = {}
         ELSE UNCHANGED <<verified, plan, hit>>
  BY DEF Verify
<1>3. CASE UNCHANGED <<verified, plan, hit>>
  BY <1>1, <1>2, <1>3, RunFacts, PlanFacts, PublishSteps
<1>4. CASE site = b /\ verified' = plan.rev /\ plan' = [plan EXCEPT !.done = TRUE] /\ hit' = {}
  <2>1. /\ plan' \in [rev : 0..Len(commits), expect : [Key -> Object \cup {None}],
                      writes : SUBSET Key, todo : SUBSET Key, gc : SUBSET Key, done : BOOLEAN]
        /\ plan'.rev = plan.rev /\ plan'.todo = plan.todo /\ plan'.writes = plan.writes
        /\ plan'.gc = plan.gc
    BY <1>4, PlanFacts
  <2>2. Progress(b, plan', site', hit')
    <3> HIDE DEF b
    <3>1. QED
      BY <1>1, <1>2, <1>4, <2>1 DEF Progress
  <2>3. QED
    BY <1>1, <1>2, <1>4, <2>1, <2>2, RunFacts, PublishSteps
<1>5. QED
  BY <1>2, <1>3, <1>4

LEMMA TimeOutKeeps ==
  ASSUME SiteInv, TimeOut
  PROVE  SiteInv'
<1> DEFINE b == Built(plan.rev)
<1>1. /\ b \in [Key -> Object \cup {None}] /\ Progress(b, plan, site, hit)
      /\ site \in [Key -> Object \cup {None}] /\ hit \subseteq Key /\ late \subseteq Write
      /\ calm \in BOOLEAN /\ plan.expect \in [Key -> Object \cup {None}] /\ plan.gc \subseteq Key
  BY Unpack, RevisionFacts DEF TypeOK
<1>2. /\ To("idle") /\ UNCHANGED <<commits, site, plan, verified, hit, calm>>
      /\ \/ \E k \in Key :
              /\ NextWrite(k)
              /\ late' = late \cup {[put |-> k, expect |-> plan.expect[k], new |-> b[k]]}
         \/ \E k \in plan.gc : plan.todo = {} /\ late' = late \cup {[delete |-> k]}
  BY DEF TimeOut
<1>3. late' \subseteq Write
  <2>1. ASSUME NEW k \in Key, NextWrite(k)
        PROVE  [put |-> k, expect |-> plan.expect[k], new |-> b[k]] \in Write
    <3>1. b[k] \in Object
      BY <1>1, <2>1 DEF Progress, NextWrite
    <3> HIDE DEF b
    <3>2. QED
      BY <1>1, <3>1 DEF Write
  <2>2. ASSUME NEW k \in plan.gc
        PROVE  [delete |-> k] \in Write
    BY <1>1 DEF Write
  <2> HIDE DEF b
  <2>3. QED
    BY <1>1, <1>2, <2>1, <2>2
<1>4. QED
  BY <1>1, <1>2, <1>3, RunFacts, PlanFacts, PublishSteps

\* A late write makes its key an exception.
LEMMA LandKeeps ==
  ASSUME SiteInv, NEW w \in late, Land(w)
  PROVE  SiteInv'
<1> DEFINE b == Built(plan.rev)
<1>1. /\ b \in [Key -> Object \cup {None}] /\ Progress(b, plan, site, hit) /\ InOrder
      /\ site \in [Key -> Object \cup {None}] /\ hit \subseteq Key /\ late \subseteq Write
      /\ calm \in BOOLEAN /\ w \in Write /\ plan.todo \subseteq Key /\ plan.gc \subseteq Key
  BY Unpack, RevisionFacts DEF TypeOK
<1>2. late' \subseteq Write /\ UNCHANGED <<commits, run, plan, verified, calm>>
  BY <1>1 DEF Land
<1>3. CASE UNCHANGED <<site, hit>>
  BY <1>1, <1>2, <1>3, RunFacts, PlanFacts, PublishSteps DEF InOrder
<1>4. ASSUME NEW k \in Key, NEW v \in Object \cup {None},
             site' = [site EXCEPT ![k] = v], hit' = hit \cup {k}
      PROVE  SiteInv'
  <2>1. /\ site' \in [Key -> Object \cup {None}] /\ hit' \subseteq Key
        /\ \A j \in Key \ {k} : site'[j] = site[j]
    BY <1>1, <1>4
  <2>2. Progress(b, plan', site', hit')
    <3> HIDE DEF b
    <3>1. QED
      BY <1>1, <1>2, <1>4, <2>1 DEF Progress
  <2>3. QED
    BY <1>1, <1>2, <2>1, <2>2, RunFacts, PlanFacts, PublishSteps DEF InOrder
<1>5. CASE /\ "put" \in DOMAIN w /\ site' = [site EXCEPT ![w.put] = w.new]
           /\ hit' = hit \cup {w.put}
  <2>1. w.put \in Key /\ w.new \in Object
    BY <1>1, <1>5 DEF Write
  <2>2. QED
    BY <1>4, <1>5, <2>1
<1>6. CASE /\ "delete" \in DOMAIN w /\ site' = [site EXCEPT ![w.delete] = None]
           /\ hit' = hit \cup {w.delete}
  <2>1. w.delete \in Key
    BY <1>1, <1>6 DEF Write
  <2>2. QED
    BY <1>4, <1>6, <2>1
<1>7. QED
  BY <1>3, <1>5, <1>6 DEF Land

LEMMA NextKeeps ==
  ASSUME SiteInv, [Next]_vars
  PROVE  SiteInv'
<1>1. CASE Work
  BY <1>1, WorkflowKeeps, MakePlanKeeps, VerifyKeeps, PutObjectKeeps, DeleteObjectKeeps DEF Work
<1>2. CASE Fail \/ CalmDown \/ \E r \in 1..MaxCommits : Start(r)
  BY <1>2, WorkflowKeeps
<1>3. CASE TimeOut
  BY <1>3, TimeOutKeeps
<1>4. CASE \E t \in Tree : Push(t)
  BY <1>4, PushKeeps
<1>5. CASE \E w \in late : Land(w)
  BY <1>5, LandKeeps
<1>6. CASE UNCHANGED vars
  <2>1. UNCHANGED <<commits, run, site, plan, verified, late, hit, calm>>
    BY <1>6 DEF vars
  <2>2. Built(plan.rev)' = Built(plan.rev)
    BY <2>1, SameBuild
  <2>3. QED
    BY <2>1, <2>2 DEF SiteInv, TypeOK, OnlyAccepted, InOrder
<1>7. QED
  BY <1>1, <1>2, <1>3, <1>4, <1>5, <1>6 DEF Next

-----------------------------------------------------------------------------
(* Theorems.                                                               *)

\* dkc/site_publication.py and site.yml: the site is always on the way from what it was to
\* the build of the plan, in the order of the plan.
THEOREM SiteIsSound == Spec => []SiteInv
<1>1. Init => SiteInv
  BY InitHolds
<1>2. SiteInv /\ [Next]_vars => SiteInv'
  BY NextKeeps
<1>3. QED
  BY <1>1, <1>2, PTL DEF Spec

\* Type correctness of dkc/site.py and dkc/site_publication.py.
THEOREM TypeCorrect == Spec => []TypeOK
<1>1. SiteInv => TypeOK
  BY DEF SiteInv
<1>2. QED
  BY <1>1, SiteIsSound, PTL

\* _write_order and the precondition of each write: a page that was written finds what it
\* loads, for any number of pages and assets and wherever the publication stops.
THEOREM AssetsComeFirst == Spec => []NoPageBeforeItsAssets
<1>1. ASSUME SiteInv
      PROVE  NoPageBeforeItsAssets
  <2> SUFFICES ASSUME NEW k \in (PageKey \cap plan.writes) \ hit, Current(k),
                      NEW a \in site[k].names
               PROVE  site[a] # None \/ a \in hit
    BY DEF NoPageBeforeItsAssets
  <2> DEFINE b == Built(plan.rev)
  <2>1. /\ TypeOK /\ OnlyAccepted /\ Progress(b, plan, site, hit) /\ plan.rev \in 0..Len(commits)
    BY <1>1, Unpack
  <2>2. site[k] = b[k] /\ b[k] # None /\ k \in PageKey /\ k \in Key
    BY KeyFacts DEF Current
  <2>3. a \in Asset /\ a \in Key /\ b[a] # None
    BY <2>1, <2>2, BuiltIsWhole DEF OnlyAccepted
  <2> HIDE DEF b
  <2>4. k \notin plan.todo
    BY <2>1, <2>2 DEF Progress
  <2>5. a \notin plan.todo
    BY <2>1, <2>2, <2>3, <2>4 DEF Progress
  <2>6. QED
    BY <2>1, <2>3, <2>5 DEF Progress
<1>2. QED
  BY <1>1, SiteIsSound, PTL

\* audit_site before, verify_site_publication after: a verified site has no dangling link
\* or reference and shadows nothing, for any commit the generator accepts.
THEOREM VerifiedMeansWhole == Spec => []VerifiedSiteIsWhole
<1>1. ASSUME SiteInv
      PROVE  VerifiedSiteIsWhole
  <2> SUFFICES ASSUME plan.done
               PROVE  /\ \A k \in PageKey \ hit : site[k] # None =>
                           \A j \in site[k].names \cup site[k].links : site[j] # None \/ j \in hit
                      /\ \A k \in Key \ hit : site[k] # None => k \notin Reserved \cup Pruned
    BY DEF VerifiedSiteIsWhole
  <2> DEFINE b == Built(plan.rev)
  <2>1. /\ TypeOK /\ OnlyAccepted /\ plan.rev \in 0..Len(commits)
        /\ \A k \in Key \ hit : site[k] = b[k]
    BY <1>1, Unpack DEF Progress
  <2>2. ASSUME NEW k \in PageKey \ hit, site[k] # None,
               NEW j \in site[k].names \cup site[k].links
        PROVE  site[j] # None \/ j \in hit
    <3>1. site[k] = b[k] /\ b[k] # None
      BY <2>1, <2>2, KeyFacts
    <3>2. j \in Key /\ b[j] # None
      BY <2>1, <2>2, <3>1, BuiltIsWhole DEF OnlyAccepted
    <3>3. QED
      BY <2>1, <3>2
  <2>3. ASSUME NEW k \in Key \ hit, site[k] # None
        PROVE  k \notin Reserved \cup Pruned
    <3>1. b[k] # None
      BY <2>1, <2>3
    <3>2. plan.rev # 0 /\ k \in Keys(commits[plan.rev]) /\ commits[plan.rev] \in Tree
      BY <2>1, <3>1, RevisionFacts
    <3>3. QED
      BY <2>1, <3>2, AcceptedFacts DEF OnlyAccepted
  <2>4. QED
    BY <2>2, <2>3
<1>2. QED
  BY <1>1, SiteIsSound, PTL

\* check-current-main.sh under the lease and the concurrency group: a re-run of an older
\* commit never replaces a verified newer site.
THEOREM RevisionsGoUp == Spec => NeverOlderSite
<1>1. ASSUME SiteInv, [Next]_vars
      PROVE  [verified' >= verified]_verified
  <2>1. verified \in Nat /\ plan.rev \in Nat /\ verified <= plan.rev
    BY <1>1, Unpack DEF InOrder
  <2>2. verified' = verified \/ verified' = plan.rev
    BY <1>1 DEF Next, Work, vars, BuildSite, CheckMain, MakePlan, Verify, PutObject, DeleteObject,
                Fail, TimeOut, CalmDown, Push, Start, Land
  <2>3. QED
    BY <2>1, <2>2
<1>2. QED
  BY <1>1, SiteIsSound, PTL DEF Spec, NeverOlderSite
=============================================================================
