# TLA+ models of the DKC repository lifecycle

This directory specifies, model-checks and proves the parts of the program where
an error would be expensive and a test hard to write: who may change the object
storage, in which order a publication becomes visible and authoritative, what is
deleted, how the unattended lifecycle decides what to do next, which cached
result may be released, and what an answer of the object store means. It
describes the code below `dkc/`, `scripts/` and `.github/workflows/`.
`PROJECT.json` maps every definition to the lines it stands for and lists runs,
mutants, hazards, findings and theorems.

## Inventory

### How the system works

A scheduled workflow run authenticates the newest Debian kernel source and the
repository's signed state, decides (`dkc/lifecycle.py`) whether to build, to do
maintenance or nothing, builds and qualifies both CPU flavors in parallel jobs
that keep their accepted results in caches, audits both together, exports the
live pool, assembles a new signed repository (`build-signed-repository.py`) and
publishes it (`storage-publish.py`) to an S3-compatible object storage. A second
workflow publishes the documentation site (`site-publish.py`) below `site/` of
the same storage; a third publishes container images. There is no database and
no coordinating server: the storage, with conditional writes on ETags, is the
only shared state, and GitHub's caches are the only memory between runs.

| Component | State | Operations | Status |
|---|---|---|---|
| production lease (`lease.py`, `github_runs.py`) | one object, a handle per process | acquire, take over, renew, check, release | `Lease`, proved |
| publication (`publication.py`, `publication_plan.py`, `storage-publish.py`) | mutable keys, immutable pool, signed records | check the predecessor, plan, phases 5-12 | `Publication`, proved |
| garbage collection (`gc.py`) | permanent tombstones in the manifest | plan, delete | `Publication`, proved |
| assembly and signing (`build-signed-repository.py`, `handoffs.py`) | the new manifest | inherit, retain, tombstone, account, sign | its content, in `Publication` and `Lifecycle` |
| lifecycle decision (`lifecycle.py`, `release_gate.py`) | none; reads state and inputs | `decide` | `Lifecycle`, proved |
| retention, accounting (`retention.py`, `storage_budget.py`) | none | select, project | `Lifecycle`, proved |
| object store client (`s3.py`, `remote_store.py`) | attempts of one request | put, create, get, delete, list | `ObjectStore`, proved |
| disposable storage check (`storage_disposable.py` and its programs) | throw-away prefix, journal | upload, race, verify, clean, recover | `Disposable`, proved |
| site generator (`site.py`, `site-build.py`) | none | stage, prune, audit | `Site`, as predicates, proved |
| site publication (`site_publication.py`, `site.yml`) | objects below `site/` | plan, write, delete, verify | `Site`, proved; its lease in `Lease` |
| release cache (`release_cache.py`, `github_cache.py`) | cache entries | save, restore, verify, remove | `Release`, proved |
| workflows (`ci.yml`, `release_gate.py`) | jobs, attempts | schedule, re-run, gate | `Release`, `Lifecycle`, `Lease` |
| build qualification (`audit-*.py`, `attest-one-build.py`, `buildid.py`) | none | audit | `Qualification`, as predicates, proved |
| source discovery, profiles | none | parse, authenticate | result only |
| Debian versions (`debver.py`) | none | compare, group | order as an assumption |
| GitHub artifacts, kernel build, guest tests | none | - | not modelled |

### How components interact

- `LeaseManager` and `PublicationExecutor` share the object storage through
  `S3ObjectStore`, one request at a time. The executor calls a checkpoint
  (check the lease, renew it) before and after each mutation; the planner and
  the garbage collector read what other processes wrote.
- Jobs of one run hand signed, hash-bound directories to each other; the
  publisher repeats the checks that may have become stale (generation,
  identity of the predecessor, whole-storage size, current main).
- Runs of the lifecycle are serialised by the workflow, but the site workflow
  is not serialised with them, a run can be re-run wholly or from its failed
  jobs, and a killed job leaves whatever it had written.
- A flavor's job takes its result from a cache when one with the run's identity
  is there. Main and pull requests share the cache service and are kept apart by
  the names of the keys. The image workflow changes the build images at any time.

### What is hard

Steps of two processes between a read and the conditional write that depends on
it; clocks of different machines; responses that are lost and writes that land
late; crashes between any two writes, with no clean-up; publications that follow
an interrupted one; deletions planned on a state that may move; listings that are
no snapshots; inputs that change while a run is under way; results of one run
that are used by another under other conditions; byte limits at their boundary.
`hazards` in `PROJECT.json` lists them, each at its line, with the properties
that cover it.

### What makes each component correct

- Lease: a process mutates the storage only while the lease object is exactly
  its own record; a holder is replaced only when it is over and its record is
  stale; nobody waits for ever.
- Publication: what clients see and what the controller trusts is always
  complete; authority moves last and only forward; a retried publication
  converges.
- Garbage collection: only tombstoned objects disappear, and a tombstoned
  object never becomes live again.
- Lifecycle: the repository never goes back to an older source or revision;
  the newest release of each of the newest series survives; the lifecycle comes
  to rest when its inputs do.
- Object store client: a write reported as done was done, one reported as refused
  was not and will not be, and a listing has what was there all along.
- Disposable check: a store that ignores `If-Match` does not pass, and nothing
  is left under the prefix, whatever interrupts it.
- Site: a page never appears before what it loads; the site never goes back and
  comes to equal main's.
- Release: what is released was built and qualified as one; a pull request tests
  itself; caches go away; the newest source is released in the end.

## Modules

| Module | What it is |
|---|---|
| `LeaseMutex` | abstract: a lock whose holder may mutate, and does not change under a mutation |
| `Lease` | the lease protocol, its users, the storage, GitHub's run records, time |
| `Repository` | abstract: a repository that is exposed and committed as a whole |
| `Publication` | planning, the phases of a publication, garbage collection, failures |
| `Lifecycle` | decision, assembly with retention and accounting, publication as one step |
| `ObjectStore` | the client's retries and reconciliation, the store, late requests, listings |
| `Disposable` | the disposable check and its recovery, composed with `ObjectStore` |
| `Site` | staging and audit of a commit, the site publication, the workflow |
| `Qualification` | the gates a build must pass, as predicates |
| `Release` | runs, jobs, caches, images, pull requests; uses `Qualification` |
| `MC...` | instances of these for TLC |
| `LeaseProofs`, `PublicationProofs`, `LifecycleProofs`, `ObjectStoreProofs`, `DisposableProofs`, `SiteProofs`, `ReleaseProofs` | theorems about the module of that name, with proofs |
| `FiniteNumbers` | that finite sets of numbers have a first and a last member, proved for `ObjectStoreProofs` and `ReleaseProofs` |

How they fit together: `ObjectStore` shows which outcomes a write can have, and
`Lease`, `Publication` and `Site` have writes with those outcomes as steps.
`Lease` shows that the mutations of different jobs exclude each other, and
`Publication` and `Site` have one job at a time. `Publication` shows that a
publication becomes authoritative as a whole or leaves objects behind, and
`Lifecycle` and `Release` have it as one step with an interrupted variant.
Operators with the word `Slip` in their comment are not part of a specification:
each is a plausible mistake in the definition that follows it, used to see that a
property can fail.

### Lease

`lease` is the object at `state/locks/production.json`. `proc[w]` is a process:
its place (`pc`), the `LeaseManager` method it is in (`op`), the clock value that
method read, the record of its handle, and the conditional write it has sent. One
method call is several steps: the clock, the GET, perhaps the request for the
terminal proof, the PUT, perhaps the reconciling read. `GetFor...` are the parts
of the four methods before their write; `Put...` are its outcomes: accepted,
refused, applied with the response lost, or timed out, after which it is in
`late` and may `Land` at any time. `Checkpoint` is `checkpoint()` of both
programs, `Raised` their `except` path with its attempt to release. `Busy` and
`Poll` are the waiting loop of `acquire_lease`. `Complete` and `Rerun` are
GitHub's record of a run, which names only the latest attempt.

- An ETag is the bytes it stands for. Equal records then have equal ETags, which
  allows more conditional writes than a store with unique ETags.
- Every process has a fresh nonce and calls `acquire` again only after
  `LeaseBusy`, which is raised before any write, so the branch of `acquire` that
  finds the caller's own record is modelled but never taken.
- A clock differs from real time by a constant between 0 and `MaxSkew`. Real
  clocks may also step back; a renewal then raises in `LeaseRecord`.
- `StepsBounded` says that a mutation ends at most `MaxOp` after the clock
  reading of the renewal that covers it; the code takes 120 s as the time of a
  batch. `ProofSound` says that GitHub reports an attempt as completed only after
  its processes ended. Either is enough for safety, as the runs and the theorems
  show: `Fenced == ProofSound \/ (StepsBounded /\ MaxOp + MaxSkew < TTL + Grace)`.

### Publication

A publication is a signed repository, so its name stands for the bytes and ETags
of all its mutable objects. `slot` groups the mutable keys by the phase that
writes them; `pool` holds the immutable objects below `pool/` and `by-hash/`;
`record` holds the signed records, whose names are bound to their content.
`manifest` is what assembly decided: live objects, tombstones, predecessor,
generation. `job.pc` is the phase. `Follows` is `verify_current_generation`,
`Plan` is `plan_repository` with `plan_gc`, `PutMutable` is `_put_mutable`,
`Creatable` is the collision rule of `create_immutable`, `Collect` is one target
of `execute_gc`. `Fail` ends a job anywhere; `TimeOut` also leaves a write in
flight. A mutation and the checkpoints around it are one step.

- A group of keys with one fate is one key, and a publication has some live
  object.
- A write of a mutable key that timed out is decided before the next job holds
  the lease (`LateMutable = FALSE`), because a new runner and a lease acquisition
  lie between them. It is the assumption of every theorem about `Publication`.
  Without it, the predecessor could be checked with one read
  (`publication_plan.py`, `verify_current_generation`) and the ETag for the
  commit captured with a later one, between which a late write lands; the code
  has no check that ties the two reads together.
- A build of the same version yields the same bytes (`Reproducible`) only where
  convergence is checked. An object of an interrupted attempt that no manifest
  names is never removed, so other bytes under its name would collide for ever.

### Lifecycle

`input` is the authenticated source with the configuration, `state` the manifest
the controller trusts, `pool` the builds whose objects are stored, `fresh`
whether Valid-Until is beyond the maintenance horizon. `run` is first the
decision, with what is stored when it is made, then the signed candidate; `shelf`
is the candidate of an interrupted run, which a re-run of its failed jobs may
publish between two later runs. `Blocked`, `BuildDue`, `MaintenanceDue` are the
branches of `decide`; `Selected`, `Protected`, `Since`, `Retained` are
`select_retained_objects`: its loop removes unprotected releases from the oldest
on until the rest fits, so its result is given by the first release it keeps.
`FixedBytes` and `After` are the two accountings, before assembly and before
publication.

A build is one object with one size; the epoch and the comparison of versions are
an order on `Source`; the keyring package, the records of earlier publications
and the site are part of `Other`; `Variant` stands for the descriptor hash and
for the build policy with the LTO mode; two decisions that end a run at once
(state unreadable, bootstrap not allowed) are left out.

### ObjectStore and Disposable

`bucket` is the store, `call[c]` the call a thread is in: the operation, the
attempts used, the pages of a listing read so far, and at the end the outcome.
`WriteAnswered`, `GetAnswered`, `PageAnswered`, `Rejected` and `Lost` are what can
become of a request in `S3Client._send`; a request nobody waits for any more is in
`late` until it lands or is lost (`Land`). `Reconcile` is the authoritative read of
`S3ObjectStore` after an ambiguous write. `honours` is the set of preconditions
the store enforces: a production store enforces both, a store under test may not.
`seen` is a history variable: what each key of a call held while it lasted; the
properties speak of it, no action reads it.

`Disposable` is the program on top: `prog.pc` is its place, each of its actions
starts the next call of `ObjectStore` when the last one ended. It calls `S3Client`
directly (`raw`), so a lost answer is a failure there. `Die` is an interruption
anywhere, `Recover` the separate cleanup program with the retained journal. In the
same module `Produce` makes arbitrary calls of `S3ObjectStore`, so that the
properties of the client are checked for both kinds of callers in one run.

### Site

`commits` is main, each commit as what its audit can tell apart: pages, links,
generator output, references, navigation. `Stages`, `Audits` and `Built` are
`discover_pages`, `rewrite_links`, `prune_output` and `audit_site` (`Generated` is the
inventory of one commit, `Built` that of a revision or nothing); `run` is the
workflow run that has the concurrency group, `plan` the latest publication plan
and how far it came, `late` what may still land. There is no commit point, so the
properties are about what visitors meet between writes. `hit` remembers keys that
a late write changed and nothing has put right since: site keys have no
tombstones, and a late deletion can take an object away until the next
publication. The two safety properties except exactly those keys. `Converges` says
that the site comes to the newest accepted commit, unless more than `MaxDeletions`
keys are stale then: past the cap a publication ends before its first write
(`Capped`), and stays so until somebody raises the cap or cleans up.

### Qualification and Release

`Qualification` has each gate between the compiler and the repository as a
predicate of a build: `KbuildAudit`, `SimdAudit`, `Attest`, `VmInputAudit` and
`MatrixAudit`. A build is what those programs look at: commands with their flags in
order, vector instructions by artifact and symbol, packages with relations, scripts
and payload. `Release` says when each gate is asked. `run` is one workflow run with
its attempt, decision and jobs; `caches` the entries of the cache service; `live`
what is published. `Restore` and `BuildFlavor` are a flavor's job, `PackageMatrix`
to `RemoveCache` the later jobs, `RerunFailedJobs` keeps the outputs of the jobs
that succeeded (the images, the decision, the keys) and `RerunAll` does not.
`IsCommand` says what the audit of the commands meets: it tells Rust for the kernel
from Rust for the host by the `--target` file, and early boot code only among C and
assembly. `CacheIdentity` names source and criteria but no image; `BuildId` hashes the
packages of the build image as well (`buildid.py`). `verdict` is a constant that
is kept as a variable so that TLC evaluates the gates once.

`ReleasedIsQualified` does not ask the gates: it states what a released pair must
be (`CodeIsForFlavor`, `VectorsAreReviewed`, `Installs`, ...) in terms of the last
flag a compiler obeys, the paths of installed packages and so on, and so checks
that the gates, asked where and when they are, with results out of caches, are
enough. One run is under way at a time; the workflow's concurrency group does that
for main, and runs of pull requests only share the cache service, whose keys they
do not have in common. Caches of a superseded source or commit are never removed
by the code, only by GitHub's eviction, so `CachesCollected` is about the newest.

## Runs

State counts are distinct states; times are for two TLC workers.

| Run | Asks | Expected |
|---|---|---|
| `Lease_bounded` | ownership, exclusion, refinement of `LeaseMutex`, with skewed clocks and a proof that may be wrong, when the time of steps is bounded; that no mutation starts without the lease | pass |
| `Lease_live` | an orphaned lease is recovered, waiting is bounded, only stale leases of ended holders are evicted, when the proof is sound | pass |
| `Lease_rerun` | recovery, with re-runs | violation |
| `Publication_safe` | completeness, order, tombstones, refinement of `Repository` (3.0 million) | pass |
| `Publication_live` | a retried publication commits, with reproducible builds | pass |
| `Lifecycle_safe` | order, retention over generations, no retired build (3.6 million) | pass |
| `Lifecycle_live` | the lifecycle comes to rest when there is room for what is measured (59 thousand) | pass |
| `Lifecycle_orphans` | the same when there is room for what retention protects | violation |
| `ObjectStore` | what the client's answers mean; the disposable check passes no store without `If-Match` and cleans up after itself | pass |
| `Site` | visitors meet whole pages, the site never goes back and converges, up to the cap on deletions (1.8 million) | pass |
| `Release` | what is released is qualified, pull requests test themselves, caches go, the newest source is released unless caches of different images are mixed (258 thousand) | pass |
| `Release_mixed` | the newest source is released | violation |

### Findings

The violations are disagreements between the code and its documentation, not
failures of safety; `findings` quotes both.

1. `Lease_rerun`: after a re-run of the workflow run that left a held lease,
   `workflow_attempt_terminal` can never prove the recorded attempt terminal,
   so the lease stays held until somebody removes it. The re-run of an
   interrupted publication blocks on its own first attempt.
2. `Lifecycle_orphans`: bytes that an interrupted attempt left, or that a
   deletion has not removed yet, count as fixed and, when the same build is
   tried again, a second time as its pool. Assembly may fail for ever.
3. `Release_mixed`: the cache key of an accepted flavor does not depend on the
   build image, but the publication identity does, and both flavors must have the
   same one. When one flavor is cached, the other fails and the images are
   published anew before the next run, the two cached results never fit
   together, and as both are restored neither is built again.

### Bounds, and why they are enough

- Lease: a publisher of a lifecycle run and a waiting site publication of another
  run, one checkpoint each, one late write at a time, a clock to 4 with `TTL` 2
  and `Grace` 1; the runs may be re-run once in `Lease_bounded`. This lets a lease
  expire, be taken over, and a late write of the first holder land under the
  second. The theorems have none of these bounds.
- Publication: three publications over two keys (a chain of three, or two rivals
  on one predecessor, with a key retired in one and tombstoned in the next), one
  late write. Publications and keys are interchangeable (`SYMMETRY`); the live
  run uses two publications and no symmetry. The theorems have none of these.
- Lifecycle: sources 1 and 2 are patch releases of one series, 3 and 4 start new
  series, with room for two series and, under the limit, two or three builds: a
  series and a patch release are retired. `MaxGen` bounds the generation until
  which the world moves, `MaxRest` how many more it may take to come to rest;
  if that were too few, `Settles` would fail. The theorems of safety have neither.
- ObjectStore: two clients, two keys and two bodies, two attempts per request, one
  key per page, so that a listing has several pages and a repeated write meets the
  first one; one request may be late. In production two calls that share a key
  (`MaxCalls`): every property of the client is about one call and what another
  one does meanwhile. The disposable check runs to its end, and recoveries without
  a bound.
- Site: three commits out of five kinds, three accepted (pages and assets come, go
  and change bytes under the same name) and two refused for different reasons;
  one late write. Three commits let an older run be overtaken twice. At most two
  deletions are allowed: a publication that nothing interrupts stays at the cap, and
  the third commit meets three stale keys when the second one was interrupted after
  its new assets and before its deletions, and so reaches it.
- Release: two commits, so that criteria change, and three surprises
  (`MaxSurprise`) among new sources, commits, images, pull requests, failures,
  re-runs and evictions. `Release_mixed` needs two. The first commit may yield 19
  flawed builds of v3, each wrong in one way. A build that only the audit of both
  flavors refuses is cached and, by the code, blocks its source until an input
  changes; the last commit does not yield those four.
- The theorems about ObjectStore, Disposable, Site and Release hold for any values of
  these bounds, and of the clients, keys, pages, commits and builds; the disposable
  check has its two threads and the release its two flavors, as in the code.

Deadlock is checked in `Release`, which always has a next scheduled run. In the
other models a job that ended, a world at its bound and a lifecycle with nothing
to do are proper final states.

### Fairness

- `Lease`: a started process executes its next statement, GitHub records the end
  of an attempt, time passes (weak fairness). An acquirer that keeps asking is not
  refused for ever once the proof exists (strong fairness of `Takeover`, whose
  read alternates with sleeping). No fairness for crashes, landing writes,
  re-runs or the start of jobs.
- `Publication`: a job goes on; a late write lands or is lost; the publications in
  `Retried` are started again whenever the lease is free again and again (strong
  fairness: operators re-run failed jobs); failures cease at some time (`Calm`).
  Without the last one nothing is promised by any protocol.
- `Lifecycle`: the schedule starts runs, runs go on to their end, inputs and
  failures come to rest. Nobody re-runs failed jobs.
- `Disposable`: requests are answered, late ones end, programs go on, failures
  cease, and the operator repeats the recovery, as `STORAGE.md` asks.
- `Site`: runs go on, a late write ends, failures cease, and the workflow is
  started on main again and again (a push, or a dispatch by hand).
- `Release`: the cron trigger starts a run whenever none is under way, and jobs
  go on. Surprises are bounded by `MaxSurprise` and have no fairness. Nobody
  re-runs.

## Proofs

The theorems hold for every instance: any sets of workers, publications, keys or
sources, any number of late writes, any times, sizes and limits. Each rests on
the constants' assumptions of its module, which TLC evaluates in every run, and on
what the table names.

| Theorem | Property | Assumes |
|---|---|---|
| `LeaseProofs!TypeCorrect` | `TypeOK` | - |
| `LeaseProofs!Invariant` | `IInv` | `Fenced` |
| `OwnedMutation`, `ExclusiveMutation`, `Refinement` | `MutatorOwnsLease`, `MutationExclusive`, `ImplementsMutex` | `Fenced` |
| `MutationsStartOwned` | `MutationStartsOwned` | - |
| `EvictionsAreStale` | `EvictionIsStale` | `ProofSound` |
| `PublicationProofs!Invariant`, `TypeCorrect` | `IInv`, `TypeOK` | `~LateMutable` |
| `ClientsSeeCompleteRepositories`, `ControllerSeesCompleteState`, `StateFollowsClients` | `ClientComplete`, `StateComplete`, `StateNeverAhead` | `~LateMutable` |
| `TombstonesStay`, `CommitsFollow`, `DeletesOnlyTombstones` | `TombstonesArePermanent`, `CommitFollows`, `DeletesTombstonesOnly` | `~LateMutable` |
| `Implements` | `ImplementsRepository` | `~LateMutable` |
| `LifecycleProofs!Invariant`, `TypeCorrect` | `IInv`, `TypeOK` | - |
| `PublishedStaysLive`, `NewestStay`, `NoDecisionOnDeadBuild`, `NeverGoesBackward` | `PublishedIsLive`, `NewestKept`, `NoDeadBuild`, `NeverBackward` | - |
| `ObjectStoreProofs!ClientIsSound` | `StoreInv` | - |
| `RefusalIsFinal`, `SuccessWasThere`, `ListingIsSound` (any calls of `S3ObjectStore`) | `RefusedNeverWrote`, `OkWasThere`, `ListIsSound` | - |
| `DisposableProofs!DisposableIsSound`, `TypeCorrect` | `DisposableInv`, `TypeOK` | - |
| `PassMeansMatch`, `PassMeansClean` | `PassNeedsMatch`, `PassIsClean` | - |
| `RefusalsHold`, `SuccessesHold`, `ListingsHold` (the calls of the run) | `RefusedNeverWrote`, `OkWasThere`, `ListIsSound` | - |
| `SiteProofs!SiteIsSound`, `TypeCorrect` | `SiteInv`, `TypeOK` | - |
| `AssetsComeFirst`, `VerifiedMeansWhole`, `RevisionsGoUp` | `NoPageBeforeItsAssets`, `VerifiedSiteIsWhole`, `NeverOlderSite` | - |
| `ReleaseProofs!ReleaseIsSound`, `TypeCorrect` | `ReleaseInv`, `TypeOK` | - |
| `QualifiedMeansReleasable`, `PullRequestsAreTested` | `ReleasedIsQualified`, `PrTestsItself` | - |

### Lease

`MutatorOwnsLease` is not inductive: whether a step preserves it depends on the
conditional writes in flight, those of processes that wait and those nobody waits
for. `IInv` therefore says what each write expects and writes (`GoodWrite`): it
is of its sender, and what it replaces is free, its sender's own record, or another
worker's record with `Evidence` that this worker cannot mutate on it any more,
namely that it is past expiry and grace on the clock of the sender and, if the
proof is sound, that the owner's attempt and process are over for good (`Over`,
which is stable because attempts only grow). `WorkerInv` says what a process
remembers: where it owns the lease, its handle is its own record and expires
no later than `TTL` after its clock reading, which ties the bound on steps to the
expiry in the object. The key lemma is `NoEvidence`: under `Fenced` there is no
evidence against a worker between a checkpoint and the end of its mutation. Hence
no write displaces its record (`WriteDisplacesNobody`, `LandingDisplacesNobody`),
which is preserved action by action. Two mutating workers would both own the one
lease, so `ExclusiveMutation` follows, and each step maps to a step of the abstract
lock or leaves it alone (`MutexStep`).

`MutationsStartOwned` has an invariant of its own, `Renewing`: what a process that
renews has sent is its next handle. `EvictionsAreStale` adds that a process that has
not started has no record anywhere (`Unstarted`).

### Publication

What is complete at one moment need not be after the next write, so `IInv` says
for each phase what is in place before the job may come to it (`Ready`: objects and
records stored, and which slots are its own), and for each write in flight what it
can still do (`LateInv`): a late write of a mutable key is one the job was ready
for, is the only one and finds no job; a late deletion hits a tombstone of the
state. `Chain` makes that harmless: tombstones are inherited and never live, so no
publication that follows the state can need what a late deletion removes, however
many publications lie between. `View` ties the slots together: each belongs to the
state or to a publication built on it. Every step of the phases maps to an
exposure, a commit or a stutter of `Repository`.

### Lifecycle

`NewestKept` compares what is live with everything ever published, but assembly
sees its predecessor only. The link is `TopInsert`: the newest series of a set to
which a series is added that is not older than all its newest ones are the newest
series of those newest series and the added one. `KeptByAssembly` combines it
with the existence of a newest release in a finite set (`NewestExists`), and
`IInv` carries it through decisions, candidates and the shelf of candidates that
may be published late. `AtMost` (nothing live or retired is newer than the
publication) gives `NoDeadBuild`; that a candidate is bound to its predecessor
gives `NeverBackward`.

### ObjectStore and Disposable

The promises are about the end of a call, and `CallInv` says what makes them true
while it lasts. What the call observed of its keys includes what they hold now. Nothing
was written as long as no answer was lost, and a write whose answer was lost is on its
way to the reconciling read (`LostWrite`), from which no path leads to a refusal; only
such a write has requests whose fate it was not told, and no request is left over from a
call that ended in a refusal (`told`), however late it is. A listing has, up to the last
key it has read, all that was there all along (`ListedSoFar`). `PageExtends` is its step,
with any page size and any writes between two pages; it rests on `PageIsPrefix`, that a
page is cut off in the order of the keys, and so on finite sets of numbers having a first
and a last member. A step concerns one client or the store, and the invariant is about
each call by itself: lemmas say what a step leaves alone, and `ClientKeeps`, `LandKeeps`
and `BeginKeeps` put the parts together for any caller.

`PassNeedsMatch` needs to know of the race that an answer "refused" came from a store
that honours `If-Match` (`RaceProved`), which would fail if a request of an earlier
stage could still change the object: the first attempt to lose one ends the trust in
the program (`Trusted`, `NothingLeft`). This is where it matters that the program
calls `S3Client` without reconciliation (`OwnCalls`). `PassIsClean` follows from the
final listing because nothing is left over that could write after it.

The assumptions say that the keys are numbered, as their order is all that a listing
uses, and finitely many, as the length of a key is limited; that the prefix and its
items are keys; and that production makes some bounded number of calls next to the
check (`MaxCalls`; `ObjectStoreProofs` has no bound).

### Site

The properties are about every moment between two writes, and each write is judged by
the plan, which was made for a site that an earlier and perhaps interrupted plan left.
`Progress` ties them: a key of the target is still to be written, is already what it
shall be, or was hit by a late write; pages are to be written after assets; nothing
that is to be deleted is of the target. `OnlyAccepted` keeps the audit's answer on the
way from the audit to the plan, and `InOrder` the order of revisions from the
current-main check to the verification, over runs that are superseded in between.
`GeneratedFacts` and `BuiltIsWhole`, that the pages of an accepted commit find what they
name and link to and shadow nothing, are lemmas for commits of any content.

The assumptions are that the tables of the instance are of their kinds
(`TreeAssumption`), that what is pruned is output and no page
(`Pruned \subseteq Asset`), and that nothing is no object (`NoneAssumption`).

### Release

`ReleasedIsQualified` has two halves. One is about the gates and has no state: what
`KbuildAudit` lets through obeys the flavor's baseline and no SIMD, although the audit
counts and orders flags and the property asks for the last one
(`AuditedCommands`); no LTO suffix hides a vector instruction (`AuditedCode`); and the
packages of the two flavors fit together (`AuditedPackages`). These are lemmas for
builds of any content. The other half is that the gates' answer reaches the release:
`KeptByIdentity` says that a cache entry lies under the identity and the author of its
result, whoever put it there and whatever has changed since; with at most one entry per
key, the result that is restored is the one that was verified
(`RestoredIsVerified`). `Audited` and `Belongs` keep that through re-runs of failed
jobs, which begin in the middle, and `LiveAudited` is what is left of it when the run
is gone. `PrStops`, that a pull request ends before the signature, is needed because
its candidate images are allowed in its own results. `Counted` ties the numbers to the
bound on surprises and is needed for the types only.

`WhatAssumption` says that commands are of the kinds the audit tells apart
(`IsCommand`); `ReleaseAssumption` that there are two flavors and what jobs may come to.

### What is only model-checked

- Liveness (`OrphanRecovered`, `AcquireTerminates`, the two `Converges`,
  `Settles`, `EventuallyClean`, `CachesCollected`, `ReleasedUnlessMixed`): the
  prover does not handle fairness and `ENABLED`.
- That a predicate such as `MatrixAudit` or `Accepted` is satisfied by some build or
  commit: the theorems speak of what is accepted, and the instances of `Release` and
  `Site` show that good ones are accepted and each bad one is refused.
- That the copyright links of packages end at a file (`Copyrighted`): the definition
  is recursive, and no property is about it.

Every safety property of a passing run is stated by a theorem.

## Not modelled

- **File formats, signatures and hashes**: package indexes, OpenPGP, canonical
  JSON, XML of the store, request signing, HTML. They are pure transformations;
  the models use what they establish, namely that a record is bound to its content.
- **Debian version comparison** (`debver.py`): an order on versions is assumed
  where `Lifecycle` uses it. The algorithm is recursive over characters, and
  `tests/test_debver.py` compares it with dpkg.
- **Source discovery, profiles and source packages**: parsing and authentication of
  Debian's metadata. Their result is an input of `Lifecycle` and `Release`.
- **The kernel build, packaging and guest tests**: a build is an input of
  `Qualification`, with the ways it can be wrong.
- **Overlay patch generation** (`generate-overlay-patches.py`): a maintainer's
  tool over Git trees, outside of the lifecycle.
- **GitHub artifacts** (`github_artifacts.py`, `evidence.py`): files are copied,
  bounded and hashed for readers; no program reads them again. The image artifacts
  of a pull request, which a clean-up may remove while failed jobs are re-run, are
  a hazard without a property: the run fails and has to be started anew.
- **Deletion caps** of `gc.py`: configuration limits far above real sizes; planning
  may fail in `Publication`, without a reason.
- **Two lifecycle runs at once, a clock that steps back, a store that is not
  linearizable**: excluded by the workflow's concurrency group, by an exception in
  `LeaseRecord` and by the storage requirements (`STORAGE.md`).
