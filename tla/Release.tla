------------------------------ MODULE Release ------------------------------
(***************************************************************************)
(* From an accepted source to a published release (.github/workflows/      *)
(* ci.yml): a run resolves the container images, decides, builds and       *)
(* qualifies both flavors in parallel jobs that keep their accepted result *)
(* in a cache, audits both together, publishes them, and removes the       *)
(* caches.  A run may fail anywhere, be re-run in its failed jobs or as a  *)
(* whole, or be left to the next scheduled run; GitHub may evict a cache.  *)
(* Lease, Publication and Lifecycle have the publication in detail; here   *)
(* it is one step.                                                         *)
(*                                                                         *)
(* A source stands for all that makes a new version: Debian's source, the  *)
(* dkc revision, the build policy and the LTO mode.  A commit stands for   *)
(* the validation policy: each commit changes what a build is tested for.  *)
(***************************************************************************)
EXTENDS Qualification

CONSTANTS
  v2, v3,         \* the flavors that are released
  What,           \* what each build consists of
  Yields,         \* the builds a flavor's job can come to, by commit
  None,           \* nothing
  MaxCommit,      \* bound: commits
  MaxSurprise     \* bound: all that happens by itself, together

ASSUME ReleaseAssumption ==
  /\ Flavor = {v2, v3} /\ v2 # v3
  /\ Yields \in [1..MaxCommit -> [Flavor -> SUBSET Build]]
  /\ MaxCommit \in Nat \ {0} /\ MaxSurprise \in Nat

ASSUME WhatAssumption == \A b \in Build : \A c \in What[b].commands : IsCommand(c)

VARIABLES
  source,   \* the newest source, as discovery finds it
  commit,   \* the head of main
  bundle,   \* the published image bundle
  caches,   \* the cache entries
  live,     \* the released results of both flavors, or None
  run,      \* the current or latest run
  verdict,  \* what the gates and the audit of both flavors say of every build: it never
            \* changes, and is kept for TLC to evaluate once
  surprises \* how much may still happen by itself: changes, failures, re-runs, evictions

vars == <<source, commit, bundle, caches, live, run, surprises, verdict>>

-----------------------------------------------------------------------------
(* Identities.                                                             *)

\* ReleaseCacheIdentity: what a cached result must agree with.  No image is in it.
Identity(f, s, c) == [flavor |-> f, source |-> s, commit |-> c]

\* Slip: a result outlives the criteria it was accepted by.
IdentityOfSource(f, s, c) == Identity(f, s, 1)

\* Slip: a result is named after the version it replaces.
IdentityOfPredecessor(f, s, c) == Identity(f, s - 1, c)

CacheIdentity(f, s, c) == Identity(f, s, c)

Trusted == [request |-> 0, attempt |-> 0]

\* Who builds: a run of main, or a pull request's run and the attempt that decided.
Author(r) ==
  IF r.event = "pull_request" THEN [request |-> r.request, attempt |-> r.keyed] ELSE Trusted

\* Slip: a pull request's keys are the trusted ones.
ScopeShared(r) == Trusted

\* Every trusted run has the same keys; those of a pull request name its run.
Scope(r) == Author(r)

TransportKey(r, f) == [scope |-> Scope(r), id |-> CacheIdentity(f, r.source, r.commit)]

\* The publication identity: the source and every package of the build image.
BuildId(res) == <<res.source, res.images, res.bundle>>

Cached(key) == {e \in caches : e.key = key}

-----------------------------------------------------------------------------
\* Counts of what changes start at 1.
Count == 1..MaxSurprise + 1

Result == [flavor : Flavor, source : Count, commit : 1..MaxCommit,
           bundle : {0} \cup Count, images : {"registry", "candidate"}, build : Build,
           by : [request : 0..MaxSurprise, attempt : {0} \cup Count]]

Key == [scope : [request : 0..MaxSurprise, attempt : {0} \cup Count],
        id : [flavor : Flavor, source : Count, commit : 1..MaxCommit]]

Stage == {"flavors", "matrix", "sign", "publish", "confirm", "clean"}

Run == [event   : {"schedule", "pull_request"},
        request : 0..MaxSurprise,      \* which pull request run
        attempt : Count,
        keyed   : Count,               \* the attempt that made the decision
        commit  : 1..MaxCommit,
        source  : Count,
        bundle  : {0} \cup Count,      \* 0: the run's own candidate images
        expect  : {0} \cup Count,      \* the released source the decision saw
        jobs    : [Flavor -> {"wait", "success", "failure"}],
        pair    : [Flavor -> Result] \cup {None},
        left    : SUBSET Flavor,       \* caches to remove
        stage   : Stage,
        status  : {"running", "failed", "passed"}]

Verdict ==
  LET accepted == {fb \in Flavor \X Build : Gates(What[fb[2]], fb[1])}
  IN  [accepted |-> accepted,
       pairs    |-> {p \in Build \X Build :
                       /\ {<<v2, p[1]>>, <<v3, p[2]>>} \subseteq accepted
                       /\ MatrixAudit(What[p[1]], v2, What[p[2]], v3)}]

TypeOK ==
  /\ source \in Count /\ commit \in 1..MaxCommit /\ bundle \in Count
  /\ caches \subseteq [key : Key, res : Result]
  /\ \A d, e \in caches : d.key = e.key => d = e
  /\ live \in [Flavor -> Result] \cup {None}
  /\ run \in Run
  /\ surprises \in 0..MaxSurprise
  /\ verdict \in [accepted : SUBSET (Flavor \X Build), pairs : SUBSET (Build \X Build)]

LiveSource == IF live = None THEN 0 ELSE live[v2].source

\* decide: build what is newer, else only refresh or do nothing.
Decided(event) ==
  IF event = "pull_request" \/ source > LiveSource THEN "flavors" ELSE "clean"

Fresh(event, request, attempt, c) ==
  [event |-> event, request |-> request, attempt |-> attempt, keyed |-> attempt,
   commit |-> c, source |-> source,
   bundle |-> IF event = "pull_request" THEN 0 ELSE bundle,
   expect |-> LiveSource, jobs |-> [f \in Flavor |-> "wait"], pair |-> None,
   left |-> Flavor, stage |-> Decided(event), status |-> "running"]

Init ==
  /\ source = 1 /\ commit = 1 /\ bundle = 1
  /\ caches = {} /\ live = None
  /\ run = [Fresh("schedule", 0, 1, 1) EXCEPT !.status = "passed"]
  /\ surprises = MaxSurprise
  /\ verdict = Verdict

-----------------------------------------------------------------------------
(* Runs.                                                                   *)

Surprise == surprises > 0 /\ surprises' = surprises - 1

Idle == run.status # "running"

Schedule ==
  /\ Idle
  /\ run' = Fresh("schedule", run.request, 1, commit)
  /\ UNCHANGED <<source, commit, bundle, caches, live, surprises, verdict>>

PullRequest ==
  /\ Idle /\ Surprise
  /\ run' = Fresh("pull_request", run.request + 1, 1, commit)
  /\ UNCHANGED <<source, commit, bundle, caches, live, verdict>>

Rerunnable == run.status = "failed" /\ Surprise

\* Jobs that succeeded keep their outputs: the images, the decision, the keys.
RerunFailedJobs ==
  /\ Rerunnable
  /\ run' = [run EXCEPT !.attempt = @ + 1, !.status = "running",
               !.left = Flavor,
               !.jobs = [f \in Flavor |-> IF @[f] = "failure" THEN "wait" ELSE @[f]]]
  /\ UNCHANGED <<source, commit, bundle, caches, live, verdict>>

\* All of it again, from the commit of the run.
RerunAll ==
  /\ Rerunnable
  /\ run' = Fresh(run.event, run.request, run.attempt + 1, run.commit)
  /\ UNCHANGED <<source, commit, bundle, caches, live, verdict>>

\* A runner is lost, a job times out, a service does not answer.
Fail ==
  /\ run.status = "running" /\ Surprise
  /\ run' = [run EXCEPT !.status = "failed"]
  /\ UNCHANGED <<source, commit, bundle, caches, live, verdict>>

-----------------------------------------------------------------------------
(* A flavor's job.                                                         *)

Building(f) == run.status = "running" /\ run.stage = "flavors" /\ run.jobs[f] = "wait"

\* _image_provenance: only a qualification may use a pull request's own images.
ImagesAllowed(r, res) == res.images = "registry" \/ r.event = "pull_request"

\* verify_release_cache: the manifest is of the expected identity.  (The evidence in it says
\* that every gate passed, and only then is it saved.)
Verifies(r, f, res) ==
  /\ CacheIdentity(res.flavor, res.source, res.commit) = CacheIdentity(f, r.source, r.commit)
  /\ ImagesAllowed(r, res)

EndJob(f, outcome) ==
  LET jobs == [run.jobs EXCEPT ![f] = outcome]
  IN  run' = [run EXCEPT !.jobs = jobs,
                !.status = IF /\ \A g \in Flavor : jobs[g] # "wait"
                              /\ \E g \in Flavor : jobs[g] = "failure"
                           THEN "failed" ELSE @,
                !.stage = IF \A g \in Flavor : jobs[g] = "success" THEN "matrix" ELSE @]

\* The accepted result of an earlier run or attempt is used, and nothing is built.
Restore(f) ==
  /\ Building(f)
  /\ \E e \in Cached(TransportKey(run, f)) :
       EndJob(f, IF Verifies(run, f, e.res) THEN "success" ELSE "failure")
  /\ UNCHANGED <<source, commit, bundle, caches, live, surprises, verdict>>

ResultOf(f, b) ==
  [flavor |-> f, source |-> run.source, commit |-> run.commit, bundle |-> run.bundle,
   images |-> IF run.event = "pull_request" THEN "candidate" ELSE "registry",
   build |-> b, by |-> Author(run)]

Save(f, b) ==
  caches' = caches \cup {[key |-> TransportKey(run, f), res |-> ResultOf(f, b)]}

Qualifies(f, b) == <<f, b>> \in verdict.accepted /\ Verifies(run, f, ResultOf(f, b))

\* The build, its gates, the sealed handoff and its verification; then the cache is saved,
\* which fails with a warning only, and the evidence is exported.
BuildFlavor(f) ==
  /\ Building(f)
  /\ Cached(TransportKey(run, f)) = {}
  /\ \/ /\ \E b \in Yields[run.commit][f] : Save(f, b) /\ Qualifies(f, b)
        /\ \/ EndJob(f, "success") /\ UNCHANGED surprises
           \/ EndJob(f, "failure") /\ Surprise
     \/ /\ EndJob(f, "success") /\ UNCHANGED caches /\ Surprise
        /\ \E b \in Yields[run.commit][f] : Qualifies(f, b)
     \/ EndJob(f, "failure") /\ UNCHANGED caches /\ Surprise
  /\ UNCHANGED <<source, commit, bundle, live, verdict>>

-----------------------------------------------------------------------------
(* Both flavors.                                                           *)

Stops == run' = [run EXCEPT !.status = "failed"] /\ UNCHANGED <<caches, live>>

\* Slip: the packages are audited, but not where they came from.
SameIdentityNever(p) == TRUE

\* The publication identity of v3 is, byte for byte, that of v2.
SameIdentity(p) == BuildId(p[v3]) = BuildId(p[v2])

MatrixPasses(p) == SameIdentity(p) /\ <<p[v2].build, p[v3].build>> \in verdict.pairs

Restorable(f) == \E e \in Cached(TransportKey(run, f)) : Verifies(run, f, e.res)

Restored == [f \in Flavor |-> (CHOOSE e \in Cached(TransportKey(run, f)) : TRUE).res]

\* Both results come from the cache: a runner keeps nothing.  A pull request ends with a
\* repository that is signed with a disposable key.
PackageMatrix ==
  /\ run.status = "running" /\ run.stage = "matrix"
  /\ IF (\A f \in Flavor : Restorable(f)) /\ MatrixPasses(Restored)
     THEN /\ run' = [run EXCEPT !.pair = Restored, !.stage = "sign",
                       !.status = IF run.event = "pull_request" THEN "passed" ELSE @]
          /\ UNCHANGED <<caches, live>>
     ELSE Stops
  /\ UNCHANGED <<source, commit, bundle, surprises, verdict>>

\* current-main, twice: nothing is signed for a commit that main has left behind.
CurrentMain == run.commit = commit

Sign ==
  /\ run.status = "running" /\ run.stage = "sign"
  /\ IF CurrentMain
     THEN run' = [run EXCEPT !.stage = "publish"] /\ UNCHANGED <<caches, live>>
     ELSE Stops
  /\ UNCHANGED <<source, commit, bundle, surprises, verdict>>

\* The publication requires the predecessor the decision saw.
Publish ==
  /\ run.status = "running" /\ run.stage = "publish"
  /\ IF LiveSource = run.expect
     THEN live' = run.pair /\ run' = [run EXCEPT !.stage = "confirm"] /\ UNCHANGED caches
     ELSE Stops
  /\ UNCHANGED <<source, commit, bundle, surprises, verdict>>

\* verify-published-state and require_terminal_result.
Confirm ==
  /\ run.status = "running" /\ run.stage = "confirm"
  /\ IF LiveSource = run.source
     THEN run' = [run EXCEPT !.stage = "clean"] /\ UNCHANGED <<caches, live>>
     ELSE Stops
  /\ UNCHANGED <<source, commit, bundle, surprises, verdict>>

\* Slip: a run that found nothing to do removes nothing.
CollectsAfterPublication(r) == r.pair # None

Collects(r) == TRUE

\* delete_release_caches: the exact keys of the decision, v2's before v3's.
RemoveCache(f) ==
  /\ run.status = "running" /\ run.stage = "clean"
  /\ f \in run.left /\ (f = v3 => v2 \notin run.left)
  /\ caches' = IF Collects(run)
               THEN caches \ Cached([scope |-> Trusted,
                                       id |-> CacheIdentity(f, run.source, run.commit)])
               ELSE caches
  /\ run' = [run EXCEPT !.left = @ \ {f}, !.status = IF f = v3 THEN "passed" ELSE @]
  /\ UNCHANGED <<source, commit, bundle, live, surprises, verdict>>

-----------------------------------------------------------------------------
(* What happens around the runs.                                           *)

NewSource ==
  /\ Surprise
  /\ source' = source + 1
  /\ UNCHANGED <<commit, bundle, caches, live, run, verdict>>

NewCommit ==
  /\ commit < MaxCommit /\ Surprise
  /\ commit' = commit + 1
  /\ UNCHANGED <<source, bundle, caches, live, run, verdict>>

\* container-images.yml publishes a bundle: every week, and when its inputs change.
NewBundle ==
  /\ Surprise
  /\ bundle' = bundle + 1
  /\ UNCHANGED <<source, commit, caches, live, run, verdict>>

Evict ==
  /\ Surprise
  /\ \E e \in caches : caches' = caches \ {e}
  /\ UNCHANGED <<source, commit, bundle, live, run, verdict>>

Works ==
  \/ \E f \in Flavor : Restore(f) \/ BuildFlavor(f) \/ RemoveCache(f)
  \/ PackageMatrix \/ Sign \/ Publish \/ Confirm

Next ==
  \/ Schedule \/ PullRequest \/ RerunFailedJobs \/ RerunAll \/ Fail
  \/ Works
  \/ NewSource \/ NewCommit \/ NewBundle \/ Evict

Fairness == WF_vars(Schedule) /\ WF_vars(Works)

Spec == Init /\ [][Next]_vars

FairSpec == Spec /\ Fairness

-----------------------------------------------------------------------------
(* Properties.                                                             *)

\* The token of S that the compiler obeys: the last one.
Obeyed(c, S) ==
  LET at == {i \in DOMAIN c.flags : c.flags[i] \in S}
  IN  IF at = {} THEN "none" ELSE c.flags[CHOOSE i \in at : \A j \in at : j <= i]

\* Kernel code is for the flavor's CPUs and without SIMD, but where that is reviewed; code
\* that runs before the kernel, or on the build host, is not for the flavor's CPUs.
CodeIsForFlavor(b) ==
  \A c \in b.commands :
    IF c.place # "kernel" THEN c.lang # "S" => Obeyed(c, {"base", "cpu"}) = "none"
    ELSE c.lang # "S" =>
           /\ Obeyed(c, {"base", "cpu"}) = "base"
           /\ Obeyed(c, {"simd", "nosimd"}) = "nosimd" \/ c.target \in FpuObject

\* A vector instruction is where the kernel saves the FPU, or where it was reviewed.
VectorsAreReviewed(b) ==
  \A i \in b.code :
    i.vector /\ ~(i.artifact = "vmlinux" /\ i.section = ".data") =>
      \/ i.artifact = "vmlinux" /\ {i.symbol, i.base} \cap b.fpuSymbols # {}
      \/ \E s \in {i.symbol, i.base, i.section} :
           {<<i.artifact, "symbol", s>>, <<i.artifact, "section", s>>} \cap Reviewed # {}

\* The packages of both flavors can be installed and removed together: what one needs is
\* there and of the same version, no path is in two, and one package a flavor runs hooks.
Installs(b) ==
  /\ \A p \in DOMAIN b.packages : \A d \in b.packages[p].depends :
       d.to \in DOMAIN b.packages /\ b.packages[d.to].version = b.packages[p].version
  /\ \A p, q \in DOMAIN b.packages :
       \A d \in b.packages[p].payload, e \in b.packages[q].payload : d.path = e.path => p = q
  /\ \A f \in Flavor : Cardinality({p \in DOMAIN b.packages :
                                      p[2] = f /\ b.packages[p].onRemoval}) = 1
  /\ \A p \in DOMAIN b.packages : \A d \in b.packages[p].payload : d.to # "" => d.of = "own"

LoadsModules(b) == \A m \in b.modules : m.release = "own"

\* What is released was built as one: the same source, commit and registry images for both
\* flavors; each was tested and booted, holds code for its CPUs only and no signing key; and
\* the packages of both fit together.  Nothing here asks the audits.  At risk: the results
\* come through caches that other runs, attempts and commits filled (release_cache.py:430,
\* audit-package-matrix.py:1104).
ReleasedIsQualified ==
  live # None =>
    /\ \A f \in Flavor :
         LET b == What[live[f].build]
         IN  /\ live[f].flavor = f /\ live[f].images = "registry"
             /\ CodeIsForFlavor(b) /\ VectorsAreReviewed(b) /\ LoadsModules(b)
             /\ b.selftest /\ b.boot /\ b.keys = {}
    /\ Installs(Union(What[live[v2].build], What[live[v3].build]))
    /\ What[live[v2].build].source = What[live[v3].build].source
    /\ live[v2].source = live[v3].source /\ live[v2].commit = live[v3].commit
    /\ live[v2].bundle = live[v3].bundle

\* A pull request that passes has built and tested its own code, with its own images: not a
\* result that main, another pull request or an earlier decision left in a cache
\* (github.py:171, release_cache.py:147).
PrTestsItself ==
  run.event = "pull_request" /\ run.status = "passed" =>
    \A f \in Flavor : run.pair[f].by = Author(run) /\ run.pair[f].images = "candidate"

\* The caches of the newest source are removed once it is released, also when the run that
\* released it failed before or amid the removal: a later run, which has nothing to build,
\* removes them (github_cache.py:87, ci.yml:1191).
CachesCollected ==
  <>[](LiveSource = source =>
         \A f \in Flavor : \A e \in caches :
           e.key # [scope |-> Trusted, id |-> Identity(f, source, commit)])

\* Results of different images are kept for the newest source: neither is built again, and
\* the audit of both refuses them.
Mixed ==
  \E d, e \in caches :
    /\ {d.key.scope, e.key.scope} = {Trusted}
    /\ <<d.key.id.source, e.key.id.source>> = <<source, source>>
    /\ <<d.key.id.commit, e.key.id.commit>> = <<commit, commit>>
    /\ BuildId(d.res) # BuildId(e.res)

\* In the end the newest source is released, whatever caches the failed runs before have
\* left, once the criteria are the last ones: a failure permits a retry
\* (docs/PUBLISHING.md:53).
Released == <>[](commit = MaxCommit => LiveSource = source)

\* It is, or the caches hold results of different images (release_cache.py:53, buildid.py:72).
ReleasedUnlessMixed == <>[](commit = MaxCommit => LiveSource = source \/ Mixed)
=============================================================================
