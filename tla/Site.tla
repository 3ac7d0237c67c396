-------------------------------- MODULE Site --------------------------------
(***************************************************************************)
(* The documentation site: staging and audit of one commit (dkc/site.py,   *)
(* site-build.py), the publication below site/ (dkc/site_publication.py,   *)
(* site-publish.py) and the workflow that runs both.                       *)
(*                                                                         *)
(* There is no commit point: visitors read the objects while they are      *)
(* written and deleted one by one, and a deleted key may be used again.    *)
(* The lease (Lease) makes the publisher the only one that mutates site/;  *)
(* a write whose sender gave up may still land.                            *)
(*                                                                         *)
(* Names matter only by their class (asset, page, home page), so within a  *)
(* class the sorted order of writes is any order, and so is the order of   *)
(* deletions.  An object is what its bytes tell: a text, the files it      *)
(* loads, the pages it links to, and the revision if a link is pinned.     *)
(***************************************************************************)
EXTENDS Naturals, FiniteSets, Sequences

CONSTANTS
  Doc,            \* tracked Markdown files
  Home,           \* README.md
  Required,       \* the home page and the renamed pages, which must exist
  Excluded,       \* tracked Markdown that is not published
  UrlOf,          \* the key of each Markdown file's page
  Asset,          \* files of the generated site that are no page
  Pruned,         \* generator output that is never served
  Reserved,       \* keys that the delivery layer serves from the repository
  Tree,           \* what a commit may contain
  None,           \* no object
  MaxObjects,     \* MAX_OBJECTS
  MaxDeletions,   \* SITE_MAX_DELETIONS
  MaxCommits,     \* bound: commits
  MaxLate         \* bound: writes that are late at the same time

ASSUME ConstantsAssumption ==
  /\ Home \in Required /\ Required \subseteq Doc
  /\ Asset \cap {UrlOf[d] : d \in Doc} = {}
  /\ Pruned \subseteq Asset   \* no page has the name of such output
  /\ MaxCommits \in Nat

ASSUME TreeAssumption ==
  \A t \in Tree : /\ t.docs \subseteq Doc /\ t.output \subseteq Asset
                  /\ t.names \subseteq Asset /\ t.text \in Nat

VARIABLES
  commits,    \* the commits of main
  run,        \* the workflow run that has the concurrency group
  site,       \* the objects below site/
  plan,       \* the plan of the latest publication, and how far it came
  verified,   \* the revision of the latest publication that was verified
  late,       \* writes whose sender gave up and that may still land
  hit,        \* keys a late write changed and no publication put right
  calm        \* no run fails by itself any more

vars == <<commits, run, site, plan, verified, late, hit, calm>>

PageKey == {UrlOf[d] : d \in Doc}

Key == Asset \cup PageKey

\* Link targets: a Markdown file, another tracked file, something that is not there.
Target == Doc \cup {"file", "gone"}

-----------------------------------------------------------------------------
(* Staging, generation and audit.                                          *)

Pages(t) == t.docs \ Excluded

\* discover_pages: no two pages have one key, and none is missing.
Discovers(t) ==
  /\ Required \subseteq Pages(t)
  /\ \A d, e \in Pages(t) : UrlOf[d] = UrlOf[e] => d = e

\* rewrite_links: a link outside of literal text has a target in the repository.
RewritesLinks(t) == \A d \in Pages(t) : t.links[d] \subseteq t.docs \cup {"file"}

Stages(t) == Discovers(t) /\ RewritesLinks(t)

\* The files that are left after prune_output.
Keys(t) == (t.output \ Pruned) \cup {UrlOf[d] : d \in Pages(t)}

\* The navigation names every page exactly once.
NavIsComplete(t) == t.nav = Pages(t)

\* inventory: every key may be published, and there are not too many.
Inventory(t) == Keys(t) \cap Reserved = {} /\ Cardinality(Keys(t)) <= MaxObjects

\* _check_reference: what a page loads is there.  (Links were rewritten to pages.)
ReferencesExist(t) == t.names \subseteq Keys(t)

\* Slip: references are not followed.
AuditsInventory(t) == NavIsComplete(t) /\ Inventory(t)

Audits(t) == NavIsComplete(t) /\ Inventory(t) /\ ReferencesExist(t)

Accepted(t) == Stages(t) /\ Audits(t)

\* Slip: links keep their Markdown targets.
PageUnstaged(t, r, d) == [text |-> t.text, names |-> t.names, links |-> t.links[d], pin |-> 0]

\* The page of a Markdown file: a link to a page stays relative, any other link is
\* pinned to the revision.
Page(t, r, d) ==
  [text |-> t.text, names |-> t.names,
   links |-> {UrlOf[e] : e \in t.links[d] \cap Pages(t)},
   pin |-> IF t.links[d] \subseteq Pages(t) THEN 0 ELSE r]

File(t) == [text |-> t.text, names |-> {}, links |-> {}, pin |-> 0]

\* The generated site, by key.
Generated(t, r) ==
  [k \in Key |->
     IF k \notin Keys(t) THEN None
     ELSE IF k \in Asset THEN File(t)
     ELSE Page(t, r, CHOOSE d \in Pages(t) : UrlOf[d] = k)]

\* The audited build of revision r; revision 0 is no build.
Built(r) == IF r = 0 THEN [k \in Key |-> None] ELSE Generated(commits[r], r)

Object == [text : Nat, names : SUBSET Asset, links : SUBSET PageKey, pin : Nat]

ASSUME NoneAssumption == None \notin Object

Write == [put : Key, expect : Object \cup {None}, new : Object] \cup [delete : Key]

-----------------------------------------------------------------------------
TypeOK ==
  /\ commits \in Seq(Tree) /\ Len(commits) <= MaxCommits
  /\ run \in [pc : {"idle", "build", "check", "plan", "publish"}, rev : 0..Len(commits)]
  /\ site \in [Key -> Object \cup {None}]
  /\ plan \in [rev    : 0..Len(commits),
               expect : [Key -> Object \cup {None}],  \* what the comparison found
               writes : SUBSET Key,
               todo   : SUBSET Key,                   \* writes still to do
               gc     : SUBSET Key,                   \* deletions still to do
               done   : BOOLEAN]                      \* verified
  /\ verified \in 0..Len(commits)
  /\ late \subseteq Write
  /\ hit \subseteq Key
  /\ calm \in BOOLEAN

Init ==
  /\ commits = <<>>
  /\ run = [pc |-> "idle", rev |-> 0]
  /\ site = [k \in Key |-> None]
  /\ plan = [rev |-> 0, expect |-> [k \in Key |-> None],
             writes |-> {}, todo |-> {}, gc |-> {}, done |-> FALSE]
  /\ verified = 0
  /\ late = {}
  /\ hit = {}
  /\ calm = FALSE

Main == Len(commits)

-----------------------------------------------------------------------------
(* The workflow: one run at a time.                                        *)

Push(t) ==
  /\ Main < MaxCommits
  /\ commits' = Append(commits, t)
  /\ UNCHANGED <<run, site, plan, verified, late, hit, calm>>

\* The concurrency group is free for the run of a push, for a dispatch on main, or for
\* a re-run of the run of any commit.
Start(r) ==
  /\ run.pc = "idle"
  /\ r \in 1..Main
  /\ r < Main => ~calm
  /\ run' = [pc |-> "build", rev |-> r]
  /\ UNCHANGED <<commits, site, plan, verified, late, hit, calm>>

To(pc) == run' = [run EXCEPT !.pc = pc]

\* site-build.py; load_site_build finds what was uploaded.
BuildSite ==
  /\ run.pc = "build"
  /\ To(IF Accepted(commits[run.rev]) THEN "check" ELSE "idle")
  /\ UNCHANGED <<commits, site, plan, verified, late, hit, calm>>

\* Slip: a superseded commit is not noticed.
IsOnMain(r) == r <= Main

IsMain(r) == r = Main

\* The publication job repeats the current-main check, then acquires the lease.
CheckMain ==
  /\ run.pc = "check"
  /\ To(IF IsMain(run.rev) THEN "plan" ELSE "idle")
  /\ UNCHANGED <<commits, site, plan, verified, late, hit, calm>>

-----------------------------------------------------------------------------
(* Publication.                                                            *)

\* Slip: nothing is deleted.
StaleNothing(new) == {}

Stale(new) == {k \in Key : site[k] # None /\ new[k] = None}

\* Slip: the cap itself is not allowed.
CappedTooEarly(new) == Cardinality(Stale(new)) >= MaxDeletions

Capped(new) == Cardinality(Stale(new)) > MaxDeletions

\* plan_site_publication: the listing, then one read per key of the build.
MakePlan ==
  /\ run.pc = "plan"
  /\ LET new  == Built(run.rev)
         todo == {k \in Key : new[k] # None /\ site[k] # new[k]}
     IN  IF Capped(new)
         THEN To("idle") /\ UNCHANGED <<plan, hit>>
         ELSE /\ plan' = [rev |-> run.rev, expect |-> site, writes |-> todo,
                          todo |-> todo, gc |-> Stale(new), done |-> FALSE]
              /\ hit' = hit \cap (todo \cup Stale(new))
              /\ To("publish")
  /\ UNCHANGED <<commits, site, verified, late, calm>>

\* Slip: pages before the assets they load.
ClassPagesFirst(k) == IF k = UrlOf[Home] THEN 2 ELSE IF k \in PageKey THEN 0 ELSE 1

\* _write_order.
Class(k) == IF k = UrlOf[Home] THEN 2 ELSE IF k \in PageKey THEN 1 ELSE 0

NextWrite(k) == k \in plan.todo /\ \A j \in plan.todo : Class(k) <= Class(j)

\* One conditional write of execute_site_plan; the loser of the precondition ends the job.
PutObject(k) ==
  /\ run.pc = "publish"
  /\ NextWrite(k)
  /\ IF site[k] = plan.expect[k]
     THEN /\ site' = [site EXCEPT ![k] = Built(plan.rev)[k]]
          /\ plan' = [plan EXCEPT !.todo = @ \ {k}]
          /\ hit' = hit \ {k}
          /\ UNCHANGED run
     ELSE To("idle") /\ UNCHANGED <<site, plan, hit>>
  /\ UNCHANGED <<commits, verified, late, calm>>

DeleteObject(k) ==
  /\ run.pc = "publish"
  /\ plan.todo = {}
  /\ k \in plan.gc
  /\ site' = [site EXCEPT ![k] = None]
  /\ plan' = [plan EXCEPT !.gc = @ \ {k}]
  /\ hit' = hit \ {k}
  /\ UNCHANGED <<commits, run, verified, late, calm>>

\* verify_site_publication; the lease is released either way.
Verify ==
  /\ run.pc = "publish"
  /\ plan.todo = {} /\ plan.gc = {}
  /\ IF site = Built(plan.rev)
     THEN verified' = plan.rev /\ plan' = [plan EXCEPT !.done = TRUE] /\ hit' = {}
     ELSE UNCHANGED <<verified, plan, hit>>
  /\ To("idle")
  /\ UNCHANGED <<commits, site, late, calm>>

\* An exception, a lost lease, a killed runner.
Fail ==
  /\ run.pc # "idle"
  /\ ~calm
  /\ To("idle")
  /\ UNCHANGED <<commits, site, plan, verified, late, hit, calm>>

\* A mutation times out, is not there when it is looked for, and is still under way.
TimeOut ==
  /\ run.pc = "publish"
  /\ ~calm
  /\ Cardinality(late) < MaxLate
  /\ \/ \E k \in Key :
          /\ NextWrite(k)
          /\ late' = late \cup {[put |-> k, expect |-> plan.expect[k],
                                 new |-> Built(plan.rev)[k]]}
     \/ \E k \in plan.gc : plan.todo = {} /\ late' = late \cup {[delete |-> k]}
  /\ To("idle")
  /\ UNCHANGED <<commits, site, plan, verified, hit, calm>>

Land(w) ==
  /\ late' = late \ {w}
  /\ \/ UNCHANGED <<site, hit>>
     \/ /\ "put" \in DOMAIN w
        /\ site[w.put] = w.expect
        /\ site' = [site EXCEPT ![w.put] = w.new]
        /\ hit' = hit \cup {w.put}
     \/ /\ "delete" \in DOMAIN w
        /\ site' = [site EXCEPT ![w.delete] = None]
        /\ hit' = hit \cup {w.delete}
  /\ UNCHANGED <<commits, run, plan, verified, calm>>

CalmDown ==
  /\ ~calm
  /\ calm' = TRUE
  /\ UNCHANGED <<commits, run, site, plan, verified, late, hit>>

-----------------------------------------------------------------------------
Work ==
  \/ BuildSite \/ CheckMain \/ MakePlan \/ Verify
  \/ \E k \in Key : PutObject(k) \/ DeleteObject(k)

Next ==
  \/ Work \/ Fail \/ TimeOut \/ CalmDown
  \/ \E t \in Tree : Push(t)
  \/ \E r \in 1..MaxCommits : Start(r)
  \/ \E w \in late : Land(w)

\* Runs go on, a late write ends, failures cease, and somebody starts the workflow on
\* main again and again.
Fairness ==
  /\ WF_vars(Work)
  /\ WF_vars(\E w \in late : Land(w))
  /\ WF_vars(CalmDown)
  /\ WF_vars(Start(Main))

Spec == Init /\ [][Next]_vars /\ Fairness

-----------------------------------------------------------------------------
(* Properties.                                                             *)

Current(k) == site[k] # None /\ site[k] = Built(plan.rev)[k]

\* A page that a publication writes is never visible without the files it loads, even
\* between two writes and after an interruption; but a late deletion may take one away,
\* until the next publication.  (_write_order: "a new page never names an asset that is
\* not yet present".  A page left from before may: deletions are not ordered.)
NoPageBeforeItsAssets ==
  \A k \in (PageKey \cap plan.writes) \ hit : Current(k) =>
    \A a \in site[k].names : site[a] # None \/ a \in hit

\* After a verified publication, until the next one starts to write, every link and
\* every reference of a page finds its object, and no object shadows the repository.
\* (audit_site decides before anything is published; verify_site_publication compares.)
VerifiedSiteIsWhole ==
  plan.done =>
    /\ \A k \in PageKey \ hit : site[k] # None =>
         \A j \in site[k].names \cup site[k].links : site[j] # None \/ j \in hit
    /\ \A k \in Key \ hit : site[k] # None => k \notin Reserved \cup Pruned

\* Once a commit's site was verified, no older commit's site is, whatever is re-run.
\* (The current-main check and the concurrency group of site.yml.)
NeverOlderSite == [][verified' >= verified]_verified

\* When failures cease and the workflow is started again, the site becomes that of main
\* and stays it, whatever interrupted publications and late writes left behind; only more
\* stale objects than the cap allows, those of interrupted publications included, keep it
\* from that.  (SITE.md: "the next run converges"; plan_site_publication.)
Converges ==
  <>[](Main > 0 /\ Accepted(commits[Main]) =>
         \/ site = Built(Main)
         \/ Cardinality({k \in Key : site[k] # None /\ Built(Main)[k] = None}) > MaxDeletions)
=============================================================================
