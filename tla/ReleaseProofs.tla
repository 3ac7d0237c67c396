----------------------------- MODULE ReleaseProofs -----------------------------
(***************************************************************************)
(* Theorems about Release, for any builds a job can come to, any number of *)
(* commits and of what happens by itself: that what is released was        *)
(* qualified as one, and that a pull request tests its own code.           *)
(***************************************************************************)
EXTENDS Release, FiniteNumbers

-----------------------------------------------------------------------------
(* The inductive invariant: TypeOK and five parts.                         *)

\* Whatever happens by itself is counted.
Counted ==
  /\ source + surprises <= MaxSurprise + 1 /\ bundle + surprises <= MaxSurprise + 1
  /\ run.request + surprises <= MaxSurprise /\ run.attempt + surprises <= MaxSurprise + 1

\* The gates say of a build what they always said.
VerdictStands == verdict = Verdict

\* A cache entry is kept under the identity of its result and under the author's scope;
\* only a pull request has candidate images, and it has no others.
KeptByIdentity ==
  \A e \in caches :
    /\ e.key = [scope |-> e.res.by,
                id |-> CacheIdentity(e.res.flavor, e.res.source, e.res.commit)]
    /\ e.res.by # Trusted => e.res.images = "candidate"

\* A pull request ends before anything is signed.
PrStops ==
  run.event = "pull_request" =>
    \/ run.stage \in {"flavors", "matrix"} /\ run.status # "passed"
    \/ run.stage = "sign" /\ run.status = "passed"

\* Both results are of the run's identity and of its author.
Belongs(r, p) ==
  \A f \in Flavor :
    /\ Verifies(r, f, p[f]) /\ p[f].by = Author(r)
    /\ r.event = "pull_request" => p[f].images = "candidate"

\* What is signed and published has passed the audit of both flavors.
Audited ==
  run.stage \in {"sign", "publish", "confirm"} => MatrixPasses(run.pair) /\ Belongs(run, run.pair)

\* What is released comes from one source and one commit, and from images of the registry.
OneOrigin(p) ==
  \A f \in Flavor :
    /\ p[f].flavor = f /\ p[f].images = "registry"
    /\ p[f].source = p[v2].source /\ p[f].commit = p[v2].commit

LiveAudited == live # None => MatrixPasses(live) /\ OneOrigin(live)

ReleaseInv ==
  TypeOK /\ Counted /\ VerdictStands /\ KeptByIdentity /\ PrStops /\ Audited /\ LiveAudited

-----------------------------------------------------------------------------
(* The Kbuild commands.                                                    *)

LEMMA FlagsAreFinite ==
  ASSUME NEW c, IsCommand(c)
  PROVE  DOMAIN c.flags \in SUBSET Nat /\ IsFiniteSet(DOMAIN c.flags)
<1>1. c.flags \in Seq(STRING)
  BY DEF IsCommand
<1>2. DOMAIN c.flags = 1..Len(c.flags) /\ 1 \in Int /\ Len(c.flags) \in Int
  BY <1>1
<1>3. IsFiniteSet(1..Len(c.flags)) /\ 1..Len(c.flags) \subseteq Nat
  BY <1>2, FS_Interval
<1>4. QED
  BY <1>2, <1>3

\* One -march, and it is the expected one: the compiler obeys it.
LEMMA BaselineIsObeyed ==
  ASSUME NEW c, IsCommand(c), Baseline(c)
  PROVE  Obeyed(c, {"base", "cpu"}) = "base"
<1> DEFINE at == {i \in DOMAIN c.flags : c.flags[i] \in {"base", "cpu"}}
<1>1. PICK n : At(c, "base") = {n}
  <2>1. IsFiniteSet(At(c, "base"))
    BY FlagsAreFinite, FS_Subset DEF At
  <2>2. QED
    BY <2>1, FS_Singleton DEF Baseline
<1>2. At(c, "cpu") = {}
  BY DEF Baseline, Has
<1>3. at = {n} /\ c.flags[n] = "base"
  BY <1>1, <1>2 DEF At
<1>4. n \in Nat
  BY <1>1, FlagsAreFinite DEF At
<1>5. \A i \in at : \A j \in at : j <= i
  BY <1>3, <1>4
<1>6. (CHOOSE i \in at : \A j \in at : j <= i) = n
  BY <1>3, <1>5
<1>7. QED
  BY <1>3, <1>6 DEF Obeyed

\* No -march at all: there is none to obey.
LEMMA NoBaselineIsObeyed ==
  ASSUME NEW c, NoBaseline(c)
  PROVE  Obeyed(c, {"base", "cpu"}) = "none"
BY DEF NoBaseline, Has, At, Obeyed

\* The last of the tokens that turn SIMD on or off turns it off.
LEMMA NoSimdIsObeyed ==
  ASSUME NEW c, IsCommand(c), FinalAfter(c, "nosimd", "base"),
         Has(c, "simd") => FinalAfter(c, "nosimd", "simd")
  PROVE  Obeyed(c, {"simd", "nosimd"}) = "nosimd"
<1> DEFINE at     == {i \in DOMAIN c.flags : c.flags[i] \in {"simd", "nosimd"}}
           last   == CHOOSE i \in at : \A j \in at : j <= i
<1>1. PICK n \in At(c, "nosimd") : Has(c, "simd") => \A j \in At(c, "simd") : j < n
  BY DEF FinalAfter
<1>2. at = At(c, "simd") \cup At(c, "nosimd") /\ at # {}
  BY <1>1 DEF At
<1>3. at \in SUBSET Nat /\ IsFiniteSet(at)
  <2>1. at \subseteq DOMAIN c.flags
    OBVIOUS
  <2>2. QED
    BY <2>1, FlagsAreFinite, FS_Subset
<1>4. \E x \in at : \A y \in at : y <= x
  <2> HIDE DEF at
  <2>1. QED
    BY <1>2, <1>3, LastExists
<1>5. last \in at /\ \A j \in at : j <= last
  BY <1>4
<1>6. last \notin At(c, "simd")
  <2>1. SUFFICES ASSUME last \in At(c, "simd")
                 PROVE  FALSE
    OBVIOUS
  <2>2. last < n /\ n <= last
    BY <1>1, <1>2, <1>5, <2>1 DEF Has
  <2>3. last \in Nat /\ n \in Nat
    BY <1>1, <1>2, <1>3, <1>5
  <2>4. QED
    BY <2>2, <2>3
<1>7. c.flags[last] = "nosimd"
  BY <1>2, <1>5, <1>6 DEF At
<1>8. QED
  BY <1>2, <1>7 DEF Obeyed

\* The audit of the commands: what it lets through runs on the flavor's CPUs and, but for
\* the reviewed objects, without SIMD.
LEMMA AuditedCommands ==
  ASSUME NEW b, \A c \in b.commands : IsCommand(c), KbuildAudit(b)
  PROVE  CodeIsForFlavor(b)
<1> SUFFICES ASSUME NEW c \in b.commands, c.lang # "S"
             PROVE  IF c.place # "kernel" THEN Obeyed(c, {"base", "cpu"}) = "none"
                    ELSE /\ Obeyed(c, {"base", "cpu"}) = "base"
                         /\ \/ Obeyed(c, {"simd", "nosimd"}) = "nosimd"
                            \/ c.target \in FpuObject
  BY DEF CodeIsForFlavor
<1>1. IsCommand(c) /\ CommandIsRight(c)
  BY DEF KbuildAudit
<1>2. CASE c.place # "kernel"
  <2>1. c.place = "host" \/ (c.lang = "C" /\ c.place = "special")
    BY <1>1, <1>2 DEF IsCommand
  <2>2. NoBaseline(c)
    BY <1>1, <2>1 DEF CommandIsRight, SpecialUnit
  <2>3. QED
    BY <1>2, <2>2, NoBaselineIsObeyed
<1>3. CASE c.place = "kernel" /\ c.lang = "rust"
  <2>1. RustUnit(c)
    BY <1>1, <1>3 DEF CommandIsRight
  <2>2. QED
    BY <1>1, <1>3, <2>1, BaselineIsObeyed, NoSimdIsObeyed DEF RustUnit
<1>4. CASE c.place = "kernel" /\ c.lang = "C"
  <2>1. NormalUnit(c)
    BY <1>1, <1>4 DEF CommandIsRight
  <2>2. Has(c, "simd") => c.target \in FpuObject
    BY <2>1 DEF NormalUnit, UsesFpu
  <2>3. QED
    BY <1>1, <1>4, <2>1, <2>2, BaselineIsObeyed, NoSimdIsObeyed DEF NormalUnit
<1>5. QED
  BY <1>1, <1>2, <1>3, <1>4 DEF IsCommand

-----------------------------------------------------------------------------
(* The code and the packages.                                              *)

\* The SIMD audit: an LTO suffix hides no symbol that was not reviewed.
LEMMA AuditedCode ==
  ASSUME NEW b, SimdAudit(b)
  PROVE  VectorsAreReviewed(b)
<1> SUFFICES ASSUME NEW i \in b.code, i.vector,
                    ~(i.artifact = "vmlinux" /\ i.section = ".data")
             PROVE  \/ i.artifact = "vmlinux" /\ {i.symbol, i.base} \cap b.fpuSymbols # {}
                    \/ \E s \in {i.symbol, i.base, i.section} :
                         {<<i.artifact, "symbol", s>>, <<i.artifact, "section", s>>} \cap Reviewed # {}
  BY DEF VectorsAreReviewed
<1>1. PICK k \in ReviewedKeys(b, i) : TRUE
  BY DEF SimdAudit, Observed, Code
<1>2. k \in Reviewed \cup DerivedKeys(b)
  BY <1>1 DEF ReviewedKeys
<1>3. \/ k = <<i.artifact, "section", i.section>>
      \/ \E s \in {i.symbol, i.base} : k = <<i.artifact, "symbol", s>>
  BY <1>1 DEF ReviewedKeys, ScanKey
<1>4. CASE k \in Reviewed
  BY <1>3, <1>4
<1>5. CASE k \in DerivedKeys(b)
  BY <1>3, <1>5 DEF DerivedKeys
<1>6. QED
  BY <1>2, <1>4, <1>5

\* A package depends on packages of its own flavor, or on the shared ones.
LEMMA DependenciesAreThere ==
  ASSUME NEW f, NEW p \in Packages(f), NEW d \in ExpectedRelations(p)
  PROVE  d.to \in Packages(f)
<1>1. PICK role \in Role : p = Named(role, f)
  BY DEF Packages
<1>2. PICK need \in Dependency(role) : d.to = Named(need, p[2])
  BY <1>1 DEF ExpectedRelations, Named
<1>3. need \in Role /\ role \notin SharedRole
  BY <1>1, <1>2 DEF Dependency, Role, SharedRole
<1>4. p[2] = f
  BY <1>1, <1>3 DEF Named
<1>5. QED
  BY <1>2, <1>3, <1>4 DEF Packages

\* The audit of both flavors: their packages can be installed and removed together.
LEMMA AuditedPackages ==
  ASSUME NEW a, NEW b, MatrixAudit(a, v2, b, v3)
  PROVE  Installs(Union(a, b))
<1> DEFINE both == Union(a, b)
           P    == Packages(v2) \cup Packages(v3)
<1>1. /\ DOMAIN both.packages = P
      /\ \A p \in P : PackageIsOwn(both, p) /\ ScriptsAreRight(both, p) /\ RelationsAreExact(both, p)
      /\ NoCollisions(both) /\ PayloadLayout(both, P)
  BY DEF MatrixAudit
<1> HIDE DEF both
<1>2. ASSUME NEW p \in P, NEW d \in both.packages[p].depends
      PROVE  d.to \in P /\ both.packages[d.to].version = both.packages[p].version
  <2>1. d \in ExpectedRelations(p)
    BY <1>1, <1>2 DEF RelationsAreExact
  <2>2. d.to \in P
    BY <1>2, <2>1, DependenciesAreThere
  <2>3. QED
    BY <1>1, <2>2 DEF PackageIsOwn
<1>3. ASSUME NEW p \in P, NEW q \in P,
             NEW d \in both.packages[p].payload, NEW e \in both.packages[q].payload,
             d.path = e.path
      PROVE  p = q
  BY <1>1, <1>3 DEF NoCollisions, Collides, Entries
<1>4. ASSUME NEW f \in Flavor
      PROVE  Cardinality({p \in P : p[2] = f /\ both.packages[p].onRemoval}) = 1
  <2>1. <<"binary", f>> \in P
    BY <1>4, ReleaseAssumption DEF Packages, Role, Named, SharedRole
  <2>2. \A p \in P : both.packages[p].onRemoval = (p[1] = "binary")
    BY <1>1 DEF ScriptsAreRight
  <2>3. \A p \in P : p = <<p[1], p[2]>>
    BY DEF Packages, Named
  <2>4. {p \in P : p[2] = f /\ both.packages[p].onRemoval} = {<<"binary", f>>}
    <3> HIDE DEF P
    <3>1. QED
      BY <2>1, <2>2, <2>3
  <2>5. QED
    BY <2>4, FS_Singleton
<1>5. ASSUME NEW p \in P, NEW d \in both.packages[p].payload
      PROVE  d.of = "own"
  BY <1>1, <1>5 DEF PayloadLayout, AllowedPayload, Entries
<1>6. QED
  BY <1>1, <1>2, <1>3, <1>4, <1>5 DEF Installs, both

-----------------------------------------------------------------------------
(* Types.                                                                  *)

LEMMA Counts ==
  /\ 1 \in Count /\ Count \subseteq Nat /\ 1 \in 1..MaxCommit /\ 0 \in 0..MaxSurprise
  /\ \A n \in Int : n \in Count <=> 1 <= n /\ n <= MaxSurprise + 1
BY ReleaseAssumption DEF Count

LEMMA FreshType ==
  ASSUME TypeOK, NEW event \in {"schedule", "pull_request"}, NEW request \in 0..MaxSurprise,
         NEW attempt \in Count, NEW c \in 1..MaxCommit
  PROVE  Fresh(event, request, attempt, c) \in Run
<1>1. LiveSource \in {0} \cup Count
  BY ReleaseAssumption DEF TypeOK, LiveSource, Result
<1>2. Decided(event) \in Stage
  BY DEF Decided, Stage
<1>3. [f \in Flavor |-> "wait"] \in [Flavor -> {"wait", "success", "failure"}]
  OBVIOUS
<1>4. source \in Count /\ bundle \in Count
  BY DEF TypeOK
<1>5. QED
  BY <1>1, <1>2, <1>3, <1>4 DEF Fresh, Run

\* A pull request never has the keys of main.
LEMMA AuthorType ==
  ASSUME NEW r \in Run
  PROVE  /\ Author(r) \in [request : 0..MaxSurprise, attempt : {0} \cup Count]
         /\ r.event = "pull_request" => Author(r) # Trusted
<1>1. r.keyed \in Count /\ r.request \in 0..MaxSurprise
  BY DEF Run
<1>2. r.keyed # 0
  BY <1>1, Counts
<1>3. QED
  BY <1>1, <1>2, Counts DEF Author, Trusted

LEMMA KeyType ==
  ASSUME NEW r \in Run, NEW f \in Flavor
  PROVE  TransportKey(r, f) \in Key
BY AuthorType DEF TransportKey, Scope, CacheIdentity, Identity, Key, Run

LEMMA ResultType ==
  ASSUME TypeOK, NEW f \in Flavor, NEW b \in Build
  PROVE  ResultOf(f, b) \in Result
<1>1. run \in Run
  BY DEF TypeOK
<1>2. run.source \in Count /\ run.commit \in 1..MaxCommit /\ run.bundle \in {0} \cup Count
  BY <1>1 DEF Run
<1>3. QED
  BY <1>1, <1>2, AuthorType DEF ResultOf, Result

\* Whatever happens by itself, one less is left.
LEMMA OneLess ==
  ASSUME TypeOK, Surprise
  PROVE  surprises' \in 0..MaxSurprise /\ surprises' = surprises - 1
         /\ surprises \in Int /\ surprises > 0
BY ReleaseAssumption DEF TypeOK, Surprise

-----------------------------------------------------------------------------
(* What a step of a run keeps, and what a step around the runs keeps.      *)

LEMMA RunSteps ==
  ASSUME ReleaseInv, UNCHANGED <<source, commit, bundle, caches, live, verdict>>,
         run' \in Run, surprises' \in 0..MaxSurprise, Counted', PrStops', Audited'
  PROVE  ReleaseInv'
<1> USE DEF ReleaseInv
<1>1. TypeOK'
  BY DEF TypeOK
<1>2. VerdictStands'
  BY DEF VerdictStands, Verdict
<1>3. KeptByIdentity'
  BY DEF KeptByIdentity
<1>4. LiveAudited'
  BY DEF LiveAudited, MatrixPasses, OneOrigin
<1>5. QED
  BY <1>1, <1>2, <1>3, <1>4

\* A step that leaves the run alone, and adds nothing to the caches.
LEMMA AroundSteps ==
  ASSUME ReleaseInv, UNCHANGED <<live, run, verdict>>, caches' \subseteq caches,
         source' \in Count, commit' \in 1..MaxCommit, bundle' \in Count,
         surprises' \in 0..MaxSurprise, Counted'
  PROVE  ReleaseInv'
<1> USE DEF ReleaseInv
<1>1. TypeOK'
  BY DEF TypeOK
<1>2. VerdictStands'
  BY DEF VerdictStands, Verdict
<1>3. KeptByIdentity'
  BY DEF KeptByIdentity
<1>4. LiveAudited'
  BY DEF LiveAudited, MatrixPasses, OneOrigin
<1>5. PrStops'
  BY DEF PrStops
<1>6. Audited'
  BY DEF Audited, MatrixPasses, Belongs, Verifies, ImagesAllowed, Author
<1>7. QED
  BY <1>1, <1>2, <1>3, <1>4, <1>5, <1>6

\* What was audited stays so while the run is what it was.
LEMMA AuditStands ==
  ASSUME Audited, UNCHANGED verdict, run'.stage = run.stage, run'.pair = run.pair,
         run'.event = run.event, run'.source = run.source, run'.commit = run.commit,
         run'.request = run.request, run'.keyed = run.keyed
  PROVE  Audited'
BY DEF Audited, MatrixPasses, Belongs, Verifies, ImagesAllowed, Author

-----------------------------------------------------------------------------
(* Runs start, fail and start again.                                       *)

LEMMA RunFacts ==
  ASSUME ReleaseInv
  PROVE  /\ run \in Run /\ run.event \in {"schedule", "pull_request"}
         /\ run.request \in 0..MaxSurprise /\ run.attempt \in Count /\ run.attempt \in Int
         /\ run.request \in Int /\ run.commit \in 1..MaxCommit
         /\ commit \in 1..MaxCommit /\ surprises \in 0..MaxSurprise /\ surprises \in Int
         /\ source \in Count /\ source \in Int /\ bundle \in Count /\ bundle \in Int
         /\ MaxSurprise \in Nat
<1>1. run \in Run
  BY DEF ReleaseInv, TypeOK
<1>2. /\ run.event \in {"schedule", "pull_request"} /\ run.request \in 0..MaxSurprise
      /\ run.attempt \in Count /\ run.commit \in 1..MaxCommit
  BY <1>1 DEF Run
<1>3. /\ commit \in 1..MaxCommit /\ surprises \in 0..MaxSurprise
      /\ source \in Count /\ bundle \in Count
  BY DEF ReleaseInv, TypeOK
<1>4. \A n \in Count : n \in Int
  BY Counts
<1>5. MaxSurprise \in Nat
  BY ReleaseAssumption
<1>6. run.request \in Int /\ surprises \in Int
  BY <1>2, <1>3, <1>5
<1>7. QED
  BY <1>1, <1>2, <1>3, <1>4, <1>5, <1>6

LEMMA StartKeeps ==
  ASSUME ReleaseInv, NEW event \in {"schedule", "pull_request"},
         NEW request \in 0..MaxSurprise, NEW attempt \in Count, NEW c \in 1..MaxCommit,
         run' = Fresh(event, request, attempt, c),
         UNCHANGED <<source, commit, bundle, caches, live, verdict>>,
         surprises' \in 0..MaxSurprise, surprises' <= surprises,
         request + surprises' <= MaxSurprise, attempt + surprises' <= MaxSurprise + 1
  PROVE  ReleaseInv'
<1>1. run' \in Run
  BY FreshType DEF ReleaseInv
<1>2. /\ run'.event = event /\ run'.request = request /\ run'.attempt = attempt
      /\ run'.stage = Decided(event) /\ run'.status = "running"
  BY DEF Fresh
<1>3. Counted'
  <2>1. surprises' \in Int
    BY RunFacts
  <2>2. source' + surprises' <= MaxSurprise + 1 /\ bundle' + surprises' <= MaxSurprise + 1
    BY <2>1, RunFacts DEF Counted, ReleaseInv
  <2>3. QED
    BY <1>2, <2>2 DEF Counted
<1>4. PrStops'
  BY <1>2 DEF PrStops, Decided
<1>5. Audited'
  BY <1>2 DEF Audited, Decided
<1>6. QED
  BY <1>1, <1>3, <1>4, <1>5, RunSteps

LEMMA ScheduleKeeps ==
  ASSUME ReleaseInv, Schedule
  PROVE  ReleaseInv'
<1>1. 1 + surprises <= MaxSurprise + 1 /\ run.request + surprises <= MaxSurprise
  BY RunFacts DEF ReleaseInv, Counted
<1>2. QED
  BY <1>1, RunFacts, Counts, StartKeeps DEF Schedule

LEMMA PullRequestKeeps ==
  ASSUME ReleaseInv, PullRequest
  PROVE  ReleaseInv'
<1>1. surprises' \in 0..MaxSurprise /\ surprises' = surprises - 1
  BY OneLess DEF PullRequest, ReleaseInv
<1>2. /\ run.request + 1 + surprises' <= MaxSurprise /\ run.request + 1 \in 0..MaxSurprise
      /\ 1 + surprises' <= MaxSurprise + 1 /\ surprises' <= surprises
  BY <1>1, RunFacts DEF ReleaseInv, Counted
<1>3. QED
  BY <1>1, <1>2, RunFacts, Counts, StartKeeps DEF PullRequest

LEMMA RerunAllKeeps ==
  ASSUME ReleaseInv, RerunAll
  PROVE  ReleaseInv'
<1>1. surprises' \in 0..MaxSurprise /\ surprises' = surprises - 1
  BY OneLess DEF RerunAll, Rerunnable, ReleaseInv
<1>2. /\ run.attempt + 1 + surprises' <= MaxSurprise + 1 /\ surprises' <= surprises
      /\ run.request + surprises' <= MaxSurprise
  BY <1>1, RunFacts DEF ReleaseInv, Counted
<1>3. run.attempt + 1 \in Count
  BY <1>1, <1>2, RunFacts, Counts
<1>4. QED
  BY <1>1, <1>2, <1>3, RunFacts, StartKeeps DEF RerunAll

LEMMA RerunFailedJobsKeeps ==
  ASSUME ReleaseInv, RerunFailedJobs
  PROVE  ReleaseInv'
<1> DEFINE jobs == [f \in Flavor |-> IF run.jobs[f] = "failure" THEN "wait" ELSE run.jobs[f]]
<1>1. surprises' \in 0..MaxSurprise /\ surprises' = surprises - 1
  BY OneLess DEF RerunFailedJobs, Rerunnable, ReleaseInv
<1>2. run.attempt + 1 + surprises' <= MaxSurprise + 1 /\ run.attempt + 1 \in Int
  BY <1>1, RunFacts DEF ReleaseInv, Counted
<1>3. run.attempt + 1 \in Count
  BY <1>1, <1>2, RunFacts, Counts
<1>4. run' = [run EXCEPT !.attempt = run.attempt + 1, !.status = "running", !.left = Flavor,
                         !.jobs = jobs]
      /\ run.status = "failed"
  BY DEF RerunFailedJobs, Rerunnable
<1>5. jobs \in [Flavor -> {"wait", "success", "failure"}]
  BY RunFacts DEF Run
<1> HIDE DEF jobs
<1>6. run' \in Run
  BY <1>3, <1>4, <1>5, RunFacts DEF Run
<1>7. /\ run'.stage = run.stage /\ run'.pair = run.pair /\ run'.event = run.event
      /\ run'.source = run.source /\ run'.commit = run.commit /\ run'.request = run.request
      /\ run'.keyed = run.keyed /\ run'.attempt = run.attempt + 1 /\ run'.status = "running"
  BY <1>4, RunFacts DEF Run
<1>8. Counted'
  BY <1>1, <1>7, RunFacts DEF Counted, ReleaseInv, RerunFailedJobs
<1>9. PrStops'
  BY <1>4, <1>7 DEF PrStops, ReleaseInv
<1>10. Audited'
  BY <1>7, AuditStands DEF ReleaseInv, RerunFailedJobs
<1>11. QED
  BY <1>1, <1>6, <1>8, <1>9, <1>10, RunSteps DEF RerunFailedJobs

LEMMA FailKeeps ==
  ASSUME ReleaseInv, Fail
  PROVE  ReleaseInv'
<1>1. surprises' \in 0..MaxSurprise /\ surprises' = surprises - 1
  BY OneLess DEF Fail, ReleaseInv
<1>2. run' \in Run
  BY RunFacts DEF Run, Fail
<1>3. /\ run'.stage = run.stage /\ run'.pair = run.pair /\ run'.event = run.event
      /\ run'.source = run.source /\ run'.commit = run.commit /\ run'.request = run.request
      /\ run'.keyed = run.keyed /\ run'.attempt = run.attempt /\ run'.status = "failed"
  BY RunFacts DEF Run, Fail
<1>4. Counted'
  BY <1>1, <1>3, RunFacts DEF Counted, ReleaseInv, Fail
<1>5. PrStops'
  BY <1>3 DEF PrStops, ReleaseInv, Fail
<1>6. Audited'
  BY <1>3, AuditStands DEF ReleaseInv, Fail
<1>7. QED
  BY <1>1, <1>2, <1>4, <1>5, <1>6, RunSteps DEF Fail

-----------------------------------------------------------------------------
(* A flavor's job.                                                         *)

LEMMA EndJobFacts ==
  ASSUME ReleaseInv, NEW f \in Flavor, Building(f), NEW outcome \in {"success", "failure"},
         EndJob(f, outcome)
  PROVE  /\ run' \in Run /\ run'.stage \in {"flavors", "matrix"}
         /\ run'.status # "passed"
         /\ run'.request = run.request /\ run'.attempt = run.attempt
<1> DEFINE jobs   == [run.jobs EXCEPT ![f] = outcome]
           status == IF /\ \A g \in Flavor : jobs[g] # "wait"
                        /\ \E g \in Flavor : jobs[g] = "failure"
                     THEN "failed" ELSE run.status
           stage  == IF \A g \in Flavor : jobs[g] = "success" THEN "matrix" ELSE run.stage
<1>1. run' = [run EXCEPT !.jobs = jobs, !.status = status, !.stage = stage]
  BY DEF EndJob
<1>2. jobs \in [Flavor -> {"wait", "success", "failure"}]
  BY RunFacts DEF Run
<1>3. status \in {"running", "failed"} /\ stage \in {"flavors", "matrix"}
  BY DEF Building
<1> HIDE DEF jobs, status, stage
<1>4. stage \in Stage
  BY <1>3 DEF Stage
<1>5. QED
  BY <1>1, <1>2, <1>3, <1>4, RunFacts DEF Run

\* No job's end disturbs what is not of the jobs.
LEMMA EndJobKeeps ==
  ASSUME ReleaseInv, NEW f \in Flavor, Building(f), NEW outcome \in {"success", "failure"},
         EndJob(f, outcome), UNCHANGED <<source, bundle>>, UNCHANGED surprises \/ Surprise
  PROVE  Counted' /\ PrStops' /\ Audited' /\ surprises' \in 0..MaxSurprise
<1>1. surprises' \in 0..MaxSurprise /\ surprises' <= surprises /\ surprises' \in Int
  <2>1. CASE UNCHANGED surprises
    BY <2>1, RunFacts
  <2>2. CASE Surprise
    <3>1. surprises' \in 0..MaxSurprise /\ surprises' = surprises - 1
      BY <2>2, OneLess DEF ReleaseInv
    <3>2. QED
      BY <3>1, RunFacts
  <2>3. QED
    BY <2>1, <2>2
<1>2. Counted'
  BY <1>1, EndJobFacts, RunFacts DEF Counted, ReleaseInv
<1>3. PrStops' /\ Audited'
  BY EndJobFacts DEF PrStops, Audited
<1>4. QED
  BY <1>1, <1>2, <1>3

LEMMA RestoreKeeps ==
  ASSUME ReleaseInv, NEW f \in Flavor, Restore(f)
  PROVE  ReleaseInv'
<1>1. PICK outcome \in {"success", "failure"} : EndJob(f, outcome)
  BY DEF Restore
<1>2. run' \in Run
  BY <1>1, EndJobFacts DEF Restore
<1>3. Counted' /\ PrStops' /\ Audited' /\ surprises' \in 0..MaxSurprise
  BY <1>1, EndJobKeeps DEF Restore
<1>4. QED
  BY <1>2, <1>3, RunSteps DEF Restore

\* A result is saved where none is, under its identity and its author.
LEMMA SaveKeeps ==
  ASSUME ReleaseInv, NEW f \in Flavor, NEW b \in Build, Save(f, b),
         Cached(TransportKey(run, f)) = {}
  PROVE  /\ caches' \subseteq [key : Key, res : Result]
         /\ \A d, e \in caches' : d.key = e.key => d = e
         /\ KeptByIdentity'
<1> DEFINE saved == [key |-> TransportKey(run, f), res |-> ResultOf(f, b)]
<1>1. caches' = caches \cup {saved}
  BY DEF Save
<1>2. saved \in [key : Key, res : Result]
  BY RunFacts, KeyType, ResultType DEF ReleaseInv
<1>3. caches \subseteq [key : Key, res : Result] /\ \A d, e \in caches : d.key = e.key => d = e
  BY DEF ReleaseInv, TypeOK
<1>4. \A e \in caches : e.key # saved.key
  BY DEF Cached
<1>5. saved.key = [scope |-> saved.res.by,
                   id |-> CacheIdentity(saved.res.flavor, saved.res.source, saved.res.commit)]
  BY DEF TransportKey, ResultOf, Scope
<1>6. saved.res.by # Trusted => saved.res.images = "candidate"
  BY RunFacts DEF ResultOf, Author
<1> HIDE DEF saved
<1>7. KeptByIdentity'
  BY <1>1, <1>5, <1>6 DEF ReleaseInv, KeptByIdentity
<1>8. QED
  BY <1>1, <1>2, <1>3, <1>4, <1>7

LEMMA BuildFlavorKeeps ==
  ASSUME ReleaseInv, NEW f \in Flavor, BuildFlavor(f)
  PROVE  ReleaseInv'
<1>1. PICK outcome \in {"success", "failure"} : EndJob(f, outcome)
  BY DEF BuildFlavor
<1>2. UNCHANGED surprises \/ Surprise
  BY DEF BuildFlavor
<1>3. run' \in Run
  BY <1>1, EndJobFacts DEF BuildFlavor
<1>4. Counted' /\ PrStops' /\ Audited' /\ surprises' \in 0..MaxSurprise
  BY <1>1, <1>2, EndJobKeeps DEF BuildFlavor
<1>5. UNCHANGED <<source, commit, bundle, live, verdict>>
  BY DEF BuildFlavor
<1>6. /\ caches' \subseteq [key : Key, res : Result]
      /\ \A d, e \in caches' : d.key = e.key => d = e
      /\ KeptByIdentity'
  <2>1. CASE UNCHANGED caches
    BY <2>1 DEF ReleaseInv, TypeOK, KeptByIdentity
  <2>2. CASE \E b \in Yields[run.commit][f] : Save(f, b)
    <3>1. Yields[run.commit][f] \subseteq Build
      BY RunFacts, ReleaseAssumption
    <3>2. QED
      BY <2>2, <3>1, SaveKeeps DEF BuildFlavor
  <2>3. QED
    BY <2>1, <2>2 DEF BuildFlavor
<1>7. TypeOK'
  BY <1>3, <1>4, <1>5, <1>6 DEF ReleaseInv, TypeOK
<1>8. VerdictStands'
  BY <1>5 DEF ReleaseInv, VerdictStands, Verdict
<1>9. LiveAudited'
  BY <1>5 DEF ReleaseInv, LiveAudited, MatrixPasses, OneOrigin
<1>10. QED
  BY <1>4, <1>6, <1>7, <1>8, <1>9 DEF ReleaseInv

-----------------------------------------------------------------------------
(* Both flavors.                                                           *)

\* What is restored is the one entry under the key, and it was verified.
LEMMA RestoredIsVerified ==
  ASSUME ReleaseInv, NEW f \in Flavor, Restorable(f)
  PROVE  /\ Restored[f] \in Result /\ Verifies(run, f, Restored[f])
         /\ Restored[f].by = Author(run)
         /\ Restored[f].by # Trusted => Restored[f].images = "candidate"
<1>1. PICK e \in Cached(TransportKey(run, f)) : Verifies(run, f, e.res)
  BY DEF Restorable
<1>2. \A d \in Cached(TransportKey(run, f)) : d = e
  BY <1>1 DEF ReleaseInv, TypeOK, Cached
<1>3. Restored[f] = e.res
  BY <1>1, <1>2 DEF Restored
<1>4. e \in caches /\ e.key = TransportKey(run, f) /\ e.res \in Result
  BY <1>1 DEF Cached, ReleaseInv, TypeOK
<1>5. e.res.by = Author(run) /\ (e.res.by # Trusted => e.res.images = "candidate")
  <2>1. /\ e.key = [scope |-> e.res.by,
                    id |-> CacheIdentity(e.res.flavor, e.res.source, e.res.commit)]
        /\ e.res.by # Trusted => e.res.images = "candidate"
    BY <1>4 DEF ReleaseInv, KeptByIdentity
  <2>2. e.key.scope = Author(run)
    BY <1>4 DEF TransportKey, Scope
  <2>3. QED
    BY <2>1, <2>2
<1>6. QED
  BY <1>1, <1>3, <1>4, <1>5

LEMMA StopKeeps ==
  ASSUME ReleaseInv, Stops, run.status = "running",
         UNCHANGED <<source, commit, bundle, surprises, verdict>>
  PROVE  ReleaseInv'
<1>1. run' \in Run
  BY RunFacts DEF Run, Stops
<1>2. /\ run'.stage = run.stage /\ run'.pair = run.pair /\ run'.event = run.event
      /\ run'.source = run.source /\ run'.commit = run.commit /\ run'.request = run.request
      /\ run'.keyed = run.keyed /\ run'.attempt = run.attempt /\ run'.status = "failed"
  BY RunFacts DEF Run, Stops
<1>3. Counted'
  BY <1>2 DEF Counted, ReleaseInv
<1>4. PrStops'
  BY <1>2 DEF PrStops, ReleaseInv
<1>5. Audited'
  BY <1>2, AuditStands DEF ReleaseInv
<1>6. QED
  BY <1>1, <1>3, <1>4, <1>5, RunFacts, RunSteps DEF Stops

\* A run of main goes on to its next stage.
LEMMA StageKeeps ==
  ASSUME ReleaseInv, NEW stage \in {"publish", "confirm", "clean"},
         run' = [run EXCEPT !.stage = stage],
         run.stage \in {"sign", "publish", "confirm"}, run.status = "running",
         UNCHANGED <<source, bundle, surprises, verdict>>
  PROVE  run' \in Run /\ Counted' /\ PrStops' /\ Audited'
<1>1. run' \in Run
  BY RunFacts DEF Run, Stage
<1>2. /\ run'.stage = stage /\ run'.pair = run.pair /\ run'.event = run.event
      /\ run'.source = run.source /\ run'.commit = run.commit /\ run'.request = run.request
      /\ run'.keyed = run.keyed /\ run'.attempt = run.attempt /\ run'.status = run.status
  BY RunFacts DEF Run
<1>3. Counted'
  BY <1>2 DEF Counted, ReleaseInv
<1>4. run.event # "pull_request"
  BY DEF ReleaseInv, PrStops
<1>5. PrStops'
  BY <1>2, <1>4 DEF PrStops
<1>6. Audited'
  BY <1>2 DEF ReleaseInv, Audited, MatrixPasses, Belongs, Verifies, ImagesAllowed, Author
<1>7. QED
  BY <1>1, <1>3, <1>5, <1>6

LEMMA PackageMatrixKeeps ==
  ASSUME ReleaseInv, PackageMatrix
  PROVE  ReleaseInv'
<1>1. CASE Stops
  BY <1>1, StopKeeps DEF PackageMatrix
<1>2. CASE (\A f \in Flavor : Restorable(f)) /\ MatrixPasses(Restored) /\ ~Stops
  <2> DEFINE status == IF run.event = "pull_request" THEN "passed" ELSE run.status
  <2>1. run' = [run EXCEPT !.pair = Restored, !.stage = "sign", !.status = status]
        /\ UNCHANGED <<caches, live>>
    BY <1>2 DEF PackageMatrix
  <2>2. Restored \in [Flavor -> Result]
    <3>1. \A f \in Flavor : Restored[f] \in Result
      BY <1>2, RestoredIsVerified
    <3>2. Restored = [f \in Flavor |-> Restored[f]]
      BY DEF Restored
    <3>3. QED
      BY <3>1, <3>2
  <2>3. Belongs(run, Restored)
    BY <1>2, RunFacts, AuthorType, RestoredIsVerified DEF Belongs
  <2> DEFINE p == Restored
  <2> HIDE DEF p
  <2>4. run' = [run EXCEPT !.pair = p, !.stage = "sign", !.status = status]
        /\ p \in [Flavor -> Result] /\ Belongs(run, p) /\ MatrixPasses(p)
    BY <1>2, <2>1, <2>2, <2>3 DEF p
  <2>5. run' \in Run
    BY <2>4, RunFacts DEF Run, Stage
  <2>6. /\ run'.stage = "sign" /\ run'.pair = p /\ run'.event = run.event
        /\ run'.source = run.source /\ run'.commit = run.commit /\ run'.request = run.request
        /\ run'.keyed = run.keyed /\ run'.attempt = run.attempt /\ run'.status = status
    BY <2>4, RunFacts DEF Run
  <2>7. Counted'
    BY <2>6 DEF Counted, ReleaseInv, PackageMatrix
  <2>8. PrStops'
    BY <2>6 DEF PrStops
  <2>9. Audited'
    BY <2>4, <2>6
       DEF Audited, MatrixPasses, Belongs, Verifies, ImagesAllowed, Author, PackageMatrix
  <2>10. QED
    BY <2>1, <2>5, <2>7, <2>8, <2>9, RunFacts, RunSteps DEF PackageMatrix
<1>3. QED
  BY <1>1, <1>2 DEF PackageMatrix

LEMMA SignKeeps ==
  ASSUME ReleaseInv, Sign
  PROVE  ReleaseInv'
<1>1. CASE Stops
  BY <1>1, StopKeeps DEF Sign
<1>2. CASE run' = [run EXCEPT !.stage = "publish"] /\ UNCHANGED <<caches, live>>
  <2>1. run' \in Run /\ Counted' /\ PrStops' /\ Audited'
    BY <1>2, StageKeeps DEF Sign
  <2>2. QED
    BY <1>2, <2>1, RunFacts, RunSteps DEF Sign
<1>3. QED
  BY <1>1, <1>2 DEF Sign

LEMMA ConfirmKeeps ==
  ASSUME ReleaseInv, Confirm
  PROVE  ReleaseInv'
<1>1. CASE Stops
  BY <1>1, StopKeeps DEF Confirm
<1>2. CASE run' = [run EXCEPT !.stage = "clean"] /\ UNCHANGED <<caches, live>>
  <2>1. run' \in Run /\ Counted' /\ PrStops' /\ Audited'
    BY <1>2, StageKeeps DEF Confirm
  <2>2. QED
    BY <1>2, <2>1, RunFacts, RunSteps DEF Confirm
<1>3. QED
  BY <1>1, <1>2 DEF Confirm

\* What a run of main has audited is of one origin.
LEMMA BelongingIsOneOrigin ==
  ASSUME NEW p, Belongs(run, p), run.event # "pull_request"
  PROVE  OneOrigin(p)
<1>1. \A f \in Flavor : p[f].flavor = f /\ p[f].source = run.source /\ p[f].commit = run.commit
  BY DEF Belongs, Verifies, CacheIdentity, Identity
<1>2. \A f \in Flavor : p[f].images = "registry"
  BY DEF Belongs, Verifies, ImagesAllowed
<1>3. QED
  BY <1>1, <1>2, ReleaseAssumption DEF OneOrigin

LEMMA PublishKeeps ==
  ASSUME ReleaseInv, Publish
  PROVE  ReleaseInv'
<1>1. CASE Stops
  BY <1>1, StopKeeps DEF Publish
<1>2. CASE live' = run.pair /\ run' = [run EXCEPT !.stage = "confirm"] /\ UNCHANGED caches
  <2>1. run' \in Run /\ Counted' /\ PrStops' /\ Audited'
    BY <1>2, StageKeeps DEF Publish
  <2>2. MatrixPasses(run.pair) /\ Belongs(run, run.pair) /\ run.event # "pull_request"
    BY DEF ReleaseInv, Audited, PrStops, Publish
  <2>3. LiveAudited'
    <3>1. MatrixPasses(run.pair) /\ OneOrigin(run.pair)
      BY <2>2, BelongingIsOneOrigin
    <3>2. QED
      BY <1>2, <3>1 DEF LiveAudited, MatrixPasses, OneOrigin, Publish
  <2>4. live' \in [Flavor -> Result] \cup {None}
    BY <1>2, RunFacts DEF Run
  <2>5. TypeOK'
    BY <1>2, <2>1, <2>4 DEF ReleaseInv, TypeOK, Publish
  <2>6. VerdictStands' /\ KeptByIdentity'
    BY <1>2 DEF ReleaseInv, VerdictStands, Verdict, KeptByIdentity, Publish
  <2>7. QED
    BY <2>1, <2>3, <2>5, <2>6 DEF ReleaseInv
<1>3. QED
  BY <1>1, <1>2 DEF Publish

LEMMA RemoveCacheKeeps ==
  ASSUME ReleaseInv, NEW f \in Flavor, RemoveCache(f)
  PROVE  ReleaseInv'
<1> DEFINE left   == run.left \ {f}
           status == IF f = v3 THEN "passed" ELSE run.status
<1>1. run' = [run EXCEPT !.left = left, !.status = status]
  BY DEF RemoveCache
<1>2. left \subseteq Flavor /\ status \in {"running", "passed"}
  BY RunFacts DEF Run, RemoveCache
<1> HIDE DEF left, status
<1>3. run' \in Run
  BY <1>1, <1>2, RunFacts DEF Run
<1>4. /\ run'.stage = "clean" /\ run'.event = run.event
      /\ run'.request = run.request /\ run'.attempt = run.attempt
  BY <1>1, RunFacts DEF Run, RemoveCache
<1>5. run.event # "pull_request"
  BY DEF ReleaseInv, PrStops, RemoveCache
<1>6. Counted' /\ PrStops' /\ Audited'
  BY <1>4, <1>5 DEF ReleaseInv, Counted, PrStops, Audited, RemoveCache
<1>7. caches' \subseteq caches
  BY DEF RemoveCache
<1>8. TypeOK'
  BY <1>3, <1>7 DEF ReleaseInv, TypeOK, RemoveCache
<1>9. VerdictStands' /\ KeptByIdentity'
  BY <1>7 DEF ReleaseInv, VerdictStands, Verdict, KeptByIdentity, RemoveCache
<1>10. LiveAudited'
  BY DEF ReleaseInv, LiveAudited, MatrixPasses, OneOrigin, RemoveCache
<1>11. QED
  BY <1>6, <1>8, <1>9, <1>10 DEF ReleaseInv

-----------------------------------------------------------------------------
(* What happens around the runs, and every step together.                  *)

LEMMA NewSourceKeeps ==
  ASSUME ReleaseInv, NewSource
  PROVE  ReleaseInv'
<1>1. surprises' \in 0..MaxSurprise /\ surprises' = surprises - 1
  BY OneLess DEF NewSource, ReleaseInv
<1>2. Counted'
  BY <1>1, RunFacts DEF ReleaseInv, Counted, NewSource
<1>3. source' \in Count
  <2>1. source' = source + 1 /\ source + 1 \in Int
    BY RunFacts DEF NewSource
  <2>2. source + 1 <= MaxSurprise + 1 /\ 1 <= source + 1
    BY <1>1, <2>1, RunFacts, Counts DEF ReleaseInv, Counted
  <2>3. QED
    BY <2>1, <2>2, Counts
<1>4. QED
  BY <1>1, <1>2, <1>3, RunFacts, AroundSteps DEF NewSource

LEMMA NewBundleKeeps ==
  ASSUME ReleaseInv, NewBundle
  PROVE  ReleaseInv'
<1>1. surprises' \in 0..MaxSurprise /\ surprises' = surprises - 1
  BY OneLess DEF NewBundle, ReleaseInv
<1>2. Counted'
  BY <1>1, RunFacts DEF ReleaseInv, Counted, NewBundle
<1>3. bundle' \in Count
  <2>1. bundle' = bundle + 1 /\ bundle + 1 \in Int
    BY RunFacts DEF NewBundle
  <2>2. bundle + 1 <= MaxSurprise + 1 /\ 1 <= bundle + 1
    BY <1>1, <2>1, RunFacts, Counts DEF ReleaseInv, Counted
  <2>3. QED
    BY <2>1, <2>2, Counts
<1>4. QED
  BY <1>1, <1>2, <1>3, RunFacts, AroundSteps DEF NewBundle

LEMMA NewCommitKeeps ==
  ASSUME ReleaseInv, NewCommit
  PROVE  ReleaseInv'
<1>1. surprises' \in 0..MaxSurprise /\ surprises' = surprises - 1
  BY OneLess DEF NewCommit, ReleaseInv
<1>2. Counted'
  BY <1>1, RunFacts DEF ReleaseInv, Counted, NewCommit
<1>3. commit' \in 1..MaxCommit
  BY RunFacts, ReleaseAssumption DEF NewCommit
<1>4. QED
  BY <1>1, <1>2, <1>3, RunFacts, AroundSteps DEF NewCommit

LEMMA EvictKeeps ==
  ASSUME ReleaseInv, Evict
  PROVE  ReleaseInv'
<1>1. surprises' \in 0..MaxSurprise /\ surprises' = surprises - 1
  BY OneLess DEF Evict, ReleaseInv
<1>2. Counted'
  BY <1>1, RunFacts DEF ReleaseInv, Counted, Evict
<1>3. caches' \subseteq caches
  BY DEF Evict
<1>4. QED
  BY <1>1, <1>2, <1>3, RunFacts, AroundSteps DEF Evict

LEMMA InitHolds ==
  ASSUME Init
  PROVE  ReleaseInv
<1> DEFINE fresh == Fresh("schedule", 0, 1, 1)
<1>1. /\ fresh.event = "schedule" /\ fresh.request = 0 /\ fresh.attempt = 1
      /\ fresh.stage \in {"flavors", "clean"}
  BY DEF Fresh, Decided
<1>2. fresh \in Run
  <2>1. LiveSource = 0 /\ source \in Count /\ bundle \in Count
    BY Counts DEF Init, LiveSource
  <2>2. [f \in Flavor |-> "wait"] \in [Flavor -> {"wait", "success", "failure"}]
    OBVIOUS
  <2>3. Decided("schedule") \in Stage
    BY DEF Decided, Stage
  <2>4. QED
    BY <2>1, <2>2, <2>3, Counts DEF Fresh, Run
<1>3. run = [fresh EXCEPT !.status = "passed"]
  BY DEF Init
<1> HIDE DEF fresh
<1>4. /\ run \in Run /\ run.event = "schedule" /\ run.request = 0 /\ run.attempt = 1
      /\ run.stage \in {"flavors", "clean"}
  BY <1>1, <1>2, <1>3 DEF Run
<1>5. TypeOK
  <2>1. verdict \in [accepted : SUBSET (Flavor \X Build), pairs : SUBSET (Build \X Build)]
    BY DEF Init, Verdict
  <2>2. source \in Count /\ commit \in 1..MaxCommit /\ bundle \in Count
    BY Counts DEF Init
  <2>3. surprises \in 0..MaxSurprise
    BY ReleaseAssumption DEF Init
  <2>4. caches = {} /\ live = None
    BY DEF Init
  <2>5. QED
    BY <1>4, <2>1, <2>2, <2>3, <2>4 DEF TypeOK
<1>6. Counted
  BY <1>4, ReleaseAssumption DEF Init, Counted
<1>7. VerdictStands /\ KeptByIdentity /\ LiveAudited
  BY DEF Init, VerdictStands, KeptByIdentity, LiveAudited
<1>8. PrStops /\ Audited
  BY <1>4 DEF PrStops, Audited
<1>9. QED
  BY <1>5, <1>6, <1>7, <1>8 DEF ReleaseInv

LEMMA NextKeeps ==
  ASSUME ReleaseInv, [Next]_vars
  PROVE  ReleaseInv'
<1>1. CASE Schedule
  BY <1>1, ScheduleKeeps
<1>2. CASE PullRequest
  BY <1>2, PullRequestKeeps
<1>3. CASE RerunFailedJobs
  BY <1>3, RerunFailedJobsKeeps
<1>4. CASE RerunAll
  BY <1>4, RerunAllKeeps
<1>5. CASE Fail
  BY <1>5, FailKeeps
<1>6. CASE Works
  <2>1. ASSUME NEW f \in Flavor, Restore(f) \/ BuildFlavor(f) \/ RemoveCache(f)
        PROVE  ReleaseInv'
    BY <2>1, RestoreKeeps, BuildFlavorKeeps, RemoveCacheKeeps
  <2>2. CASE PackageMatrix
    BY <2>2, PackageMatrixKeeps
  <2>3. CASE Sign
    BY <2>3, SignKeeps
  <2>4. CASE Publish
    BY <2>4, PublishKeeps
  <2>5. CASE Confirm
    BY <2>5, ConfirmKeeps
  <2>6. QED
    BY <1>6, <2>1, <2>2, <2>3, <2>4, <2>5 DEF Works
<1>7. CASE NewSource
  BY <1>7, NewSourceKeeps
<1>8. CASE NewCommit
  BY <1>8, NewCommitKeeps
<1>9. CASE NewBundle
  BY <1>9, NewBundleKeeps
<1>10. CASE Evict
  BY <1>10, EvictKeeps
<1>11. CASE UNCHANGED vars
  <2>1. UNCHANGED <<source, commit, bundle, caches, live, run, surprises, verdict>>
    BY <1>11 DEF vars
  <2>2. Counted'
    BY <2>1 DEF ReleaseInv, Counted
  <2>3. QED
    BY <2>1, <2>2, RunFacts, AroundSteps
<1>12. QED
  BY <1>1, <1>2, <1>3, <1>4, <1>5, <1>6, <1>7, <1>8, <1>9, <1>10, <1>11 DEF Next

-----------------------------------------------------------------------------
(* The theorems.                                                           *)

\* ci.yml, dkc/github.py and dkc/release_cache.py: caches are kept by identity and author,
\* and what is signed and released was audited as one.
THEOREM ReleaseIsSound == Spec => []ReleaseInv
<1>1. Init => ReleaseInv
  BY InitHolds
<1>2. ReleaseInv /\ [Next]_vars => ReleaseInv'
  BY NextKeeps
<1>3. QED
  BY <1>1, <1>2, PTL DEF Spec

\* Type correctness of the caches, the runs and the released results.
THEOREM TypeCorrect == Spec => []TypeOK
<1>1. ReleaseInv => TypeOK
  BY DEF ReleaseInv
<1>2. QED
  BY <1>1, ReleaseIsSound, PTL

\* ci.yml, release_cache.py and the audits under scripts/in-container: what is released is one
\* source, commit and bundle, tested, for its CPUs, and installs together, whatever the
\* builds come to and whichever runs filled the caches.
THEOREM QualifiedMeansReleasable == Spec => []ReleasedIsQualified
<1>1. ASSUME ReleaseInv
      PROVE  ReleasedIsQualified
  <2> SUFFICES ASSUME live # None
               PROVE  /\ \A f \in Flavor :
                           LET b == What[live[f].build]
                           IN  /\ live[f].flavor = f /\ live[f].images = "registry"
                               /\ CodeIsForFlavor(b) /\ VectorsAreReviewed(b) /\ LoadsModules(b)
                               /\ b.selftest /\ b.boot /\ b.keys = {}
                      /\ Installs(Union(What[live[v2].build], What[live[v3].build]))
                      /\ What[live[v2].build].source = What[live[v3].build].source
                      /\ live[v2].source = live[v3].source
                      /\ live[v2].commit = live[v3].commit
                      /\ live[v2].bundle = live[v3].bundle
    BY DEF ReleasedIsQualified
  <2> DEFINE a == live[v2].build
             b == live[v3].build
  <2>1. MatrixPasses(live) /\ OneOrigin(live)
    BY <1>1 DEF ReleaseInv, LiveAudited
  <2>2. <<a, b>> \in Verdict.pairs
    BY <1>1, <2>1 DEF ReleaseInv, VerdictStands, MatrixPasses
  <2>3. /\ a \in Build /\ b \in Build
        /\ Gates(What[a], v2) /\ Gates(What[b], v3)
        /\ MatrixAudit(What[a], v2, What[b], v3)
    BY <2>2 DEF Verdict
  <2>4. ASSUME NEW f \in Flavor
        PROVE  LET x == What[live[f].build]
               IN  /\ live[f].flavor = f /\ live[f].images = "registry"
                   /\ CodeIsForFlavor(x) /\ VectorsAreReviewed(x) /\ LoadsModules(x)
                   /\ x.selftest /\ x.boot /\ x.keys = {}
    <3> DEFINE x == What[live[f].build]
    <3>1. live[f].build \in Build /\ Gates(x, f)
      BY <2>3, ReleaseAssumption
    <3>2. \A c \in x.commands : IsCommand(c)
      BY <3>1, WhatAssumption
    <3> HIDE DEF x
    <3>3. CodeIsForFlavor(x)
      BY <3>1, <3>2, AuditedCommands DEF Gates
    <3>4. VectorsAreReviewed(x)
      BY <3>1, AuditedCode DEF Gates
    <3>5. LoadsModules(x) /\ x.keys = {}
      BY <3>1 DEF Gates, Attest, ModulesAreOwn, NoSigningKey, LoadsModules
    <3>6. x.selftest /\ x.boot
      BY <3>1 DEF Gates, Tested
    <3>7. live[f].flavor = f /\ live[f].images = "registry"
      BY <2>1 DEF OneOrigin
    <3>8. QED
      BY <3>3, <3>4, <3>5, <3>6, <3>7 DEF x
  <2>5. Installs(Union(What[a], What[b]))
    BY <2>3, AuditedPackages
  <2>6. What[a].source = What[b].source
    BY <2>3 DEF MatrixAudit, SameSource
  <2>7. /\ live[v2].source = live[v3].source /\ live[v2].commit = live[v3].commit
        /\ live[v2].bundle = live[v3].bundle
    BY <2>1, ReleaseAssumption DEF OneOrigin, MatrixPasses, SameIdentity, BuildId
  <2>8. QED
    BY <2>4, <2>5, <2>6, <2>7
<1>2. QED
  BY <1>1, ReleaseIsSound, PTL

\* dkc/github.py, dkc/release_cache.py: a pull request that passes was built and tested by
\* that request and decision, with its own images.
THEOREM PullRequestsAreTested == Spec => []PrTestsItself
<1>1. ASSUME ReleaseInv
      PROVE  PrTestsItself
  <2> SUFFICES ASSUME run.event = "pull_request", run.status = "passed", NEW f \in Flavor
               PROVE  run.pair[f].by = Author(run) /\ run.pair[f].images = "candidate"
    BY DEF PrTestsItself
  <2>1. Belongs(run, run.pair)
    BY <1>1 DEF ReleaseInv, PrStops, Audited
  <2>2. QED
    BY <1>1, <2>1 DEF Belongs
<1>2. QED
  BY <1>1, ReleaseIsSound, PTL
================================================================================
