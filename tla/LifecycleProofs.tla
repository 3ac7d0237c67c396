--------------------------- MODULE LifecycleProofs ---------------------------
(***************************************************************************)
(* Proofs about Lifecycle, for every set of sources, revisions, sizes and  *)
(* limits and however often old candidates are published again: clients    *)
(* never go back, what is published stays installable, no decision asks    *)
(* for a retired build, and over all generations retention keeps exactly   *)
(* the newest series ever published with their newest patch releases.      *)
(*                                                                         *)
(* The last one compares with everything ever published, while the code    *)
(* only sees the previous publication.  The link is TopInsert: the newest  *)
(* series of a set and one that is not older are the newest series of its  *)
(* newest series and that one.                                             *)
(***************************************************************************)
EXTENDS Lifecycle, FiniteSetTheorems, TLAPS

-----------------------------------------------------------------------------
(* The inductive invariant.                                                *)

\* Retention never lost a newest series or its newest release.
Kept(live, ever) ==
  /\ Series(live) = Series(Selected(ever))
  /\ Protected(Selected(ever)) \subseteq live

\* Build x is not newer than revision v of source s.
AtMost(x, s, v) == x[1] < s \/ (x[1] = s /\ x[2] <= v)

GoodState(m) ==
  /\ <<m.source, m.revision>> \in m.live
  /\ m.live \cap m.tombs = {}
  /\ \A x \in m.live \cup m.tombs : AtMost(x, m.source, m.revision)
  /\ Kept(m.live, m.live \cup m.tombs)

\* What is in i is newer than the publication m.
Newer(i, m) ==
  \/ i.source > m.source
  \/ i.source = m.source /\ i.hash = m.hash /\ i.revision > m.revision

NotOlder(i, m) ==
  \/ i.source > m.source
  \/ i.source = m.source /\ i.hash = m.hash /\ i.revision >= m.revision

GoodDecision(d) ==
  /\ d.prev # None => GoodState(d.prev)
  /\ d.kind = "build" /\ d.prev # None => Newer(d.input, d.prev)
  /\ d.kind = "maintenance" => d.prev # None

GoodCandidate(c) ==
  /\ GoodState(c.next)
  /\ c.prev # None => NotOlder(c.next, c.prev)

IInv ==
  /\ TypeOK
  /\ state # None => GoodState(state) /\ state.live \subseteq pool
  /\ run \in Decision => GoodDecision(run)
  /\ run \in Candidate => GoodCandidate(run)
  /\ \A c \in shelf : GoodCandidate(c)

-----------------------------------------------------------------------------
(* Retention.                                                              *)

LEMMA BuildFields ==
  ASSUME NEW x \in Build
  PROVE  /\ x[1] \in Source /\ x[2] \in Revision /\ x = <<x[1], x[2]>>
         /\ x[1] \in Nat /\ x[2] \in Nat
         /\ SeriesOf[x[1]] \in Nat /\ ReleaseOf[x[1]] \in Nat
<1>1. x[1] \in Source /\ x[2] \in Revision /\ x = <<x[1], x[2]>>
  BY DEF Build
<1>2. x[1] \in Nat /\ x[2] \in Nat
  BY <1>1, ConstantsAssumption
<1>3. SeriesOf[x[1]] \in Nat /\ ReleaseOf[x[1]] \in Nat
  BY <1>1, ConstantsAssumption
<1>4. QED
  BY <1>1, <1>2, <1>3

\* Of bounded releases there is a newest one.
LEMMA NewestExists ==
  ASSUME NEW T \in SUBSET Build, T # {}, NEW n \in Nat,
         \A x \in T : ReleaseOf[x[1]] <= n
  PROVE  \E x \in T : \A y \in T : ReleaseOf[y[1]] <= ReleaseOf[x[1]]
<1> DEFINE upTo(x) == ReleaseOf[x[1]] .. n
           F       == {upTo(x) : x \in T}
<1>1. \A x \in T : ReleaseOf[x[1]] \in Nat
  BY BuildFields
<1>2. F \subseteq FiniteSubsetsOf(Nat)
  <2>1. ASSUME NEW x \in T
        PROVE  upTo(x) \in SUBSET Nat /\ IsFiniteSet(upTo(x))
    <3>1. ReleaseOf[x[1]] \in Int /\ n \in Int
      BY <1>1
    <3>2. IsFiniteSet(ReleaseOf[x[1]] .. n)
      BY <3>1, FS_Interval
    <3>3. QED
      BY <1>1, <3>2
  <2>2. QED
    BY <2>1 DEF FiniteSubsetsOf
<1>3. PICK f \in F : \A g \in F : <<g, f>> \notin StrictSubsetOrdering(Nat)
  <2>1. F # {}
    OBVIOUS
  <2> HIDE DEF F
  <2>2. IsWellFoundedOn(StrictSubsetOrdering(Nat), FiniteSubsetsOf(Nat))
    BY FS_StrictSubsetOrderingWellFounded
  <2>3. QED
    BY <1>2, <2>1, <2>2, WFMin
<1>4. PICK x \in T : f = upTo(x)
  BY DEF F
<1>5. ASSUME NEW y \in T, ReleaseOf[y[1]] > ReleaseOf[x[1]]
      PROVE  FALSE
  <2>1. upTo(y) \subseteq upTo(x) /\ upTo(y) # upTo(x)
    BY <1>1, <1>5
  <2>2. <<upTo(y), upTo(x)>> \in StrictSubsetOrdering(Nat)
    BY <2>1, <1>1 DEF StrictSubsetOrdering
  <2>3. QED
    BY <1>3, <1>4, <2>2
<1>6. QED
  BY <1>1, <1>5

\* Every series has a protected release.
LEMMA SeriesProtected ==
  ASSUME NEW b \in SUBSET Build, NEW n \in Nat, \A x \in b : ReleaseOf[x[1]] <= n
  PROVE  Series(Protected(b)) = Series(b)
<1>1. Protected(b) \subseteq b
  BY DEF Protected
<1>2. ASSUME NEW y \in b
      PROVE  \E x \in Protected(b) : SeriesOf[x[1]] = SeriesOf[y[1]]
  <2> DEFINE T == {x \in b : SeriesOf[x[1]] = SeriesOf[y[1]]}
  <2>1. T # {} /\ T \in SUBSET Build /\ \A x \in T : ReleaseOf[x[1]] <= n
    BY <1>2
  <2> HIDE DEF T
  <2>2. PICK x \in T : \A z \in T : ReleaseOf[z[1]] <= ReleaseOf[x[1]]
    BY <2>1, NewestExists
  <2>3. x \in Protected(b) /\ SeriesOf[x[1]] = SeriesOf[y[1]]
    BY <2>2 DEF T, Protected
  <2>4. QED
    BY <2>3
<1>3. QED
  BY <1>1, <1>2 DEF Series

\* The MaxSeries highest members of a set of series.
Above(E, n) == {m \in E : m > n}

Top(E) == {n \in E : Cardinality(Above(E, n)) < MaxSeries}

LEMMA SelectedIsTop ==
  ASSUME NEW b
  PROVE  /\ Selected(b) = {x \in b : SeriesOf[x[1]] \in Top(Series(b))}
         /\ Series(Selected(b)) = Top(Series(b))
<1>1. ASSUME NEW x \in b
      PROVE  x \in Selected(b) <=> SeriesOf[x[1]] \in Top(Series(b))
  <2>1. SeriesOf[x[1]] \in Series(b)
    BY DEF Series
  <2>2. QED
    BY <2>1 DEF Selected, Top, Above
<1>2. Selected(b) \subseteq b /\ Top(Series(b)) \subseteq Series(b)
  BY DEF Selected, Top
<1>3. QED
  BY <1>1, <1>2 DEF Series

\* Fewer are above what is higher, and among fewer.
LEMMA AboveFewer ==
  ASSUME NEW n \in Nat, NEW E \in SUBSET (0 .. n), NEW D \in SUBSET E,
         NEW i \in Nat, NEW j \in Nat, i <= j
  PROVE  Cardinality(Above(D, j)) <= Cardinality(Above(E, i))
<1>1. IsFiniteSet(0 .. n)
  BY FS_Interval
<1>2. Above(E, i) \in SUBSET (0 .. n)
  BY DEF Above
<1>3. IsFiniteSet(Above(E, i))
  BY <1>1, <1>2, FS_Subset
<1>4. ASSUME NEW m \in Above(D, j)
      PROVE  m \in Above(E, i)
  <2>1. m \in E /\ m \in D /\ m > j /\ m \in Nat
    BY DEF Above
  <2>2. QED
    BY <2>1 DEF Above
<1>5. QED
  BY <1>3, <1>4, FS_Subset

LEMMA AboveCount ==
  ASSUME NEW n \in Nat, NEW E \in SUBSET (0 .. n), NEW i
  PROVE  Cardinality(Above(E, i)) \in Nat
<1>1. IsFiniteSet(0 .. n)
  BY FS_Interval
<1>2. Above(E, i) \in SUBSET (0 .. n)
  BY DEF Above
<1>3. QED
  BY <1>1, <1>2, FS_Subset, FS_CardinalityType

\* Nothing that matters is forgotten with the series below the newest ones.
LEMMA TopInsert ==
  ASSUME NEW n \in Nat, NEW E \in SUBSET (0 .. n)
  PROVE  Top(E \cup {n}) = Top(Top(E) \cup {n})
<1> DEFINE D == E \cup {n}
           T == Top(E)
           K == T \cup {n}
<1>1. /\ D \in SUBSET (0 .. n) /\ K \in SUBSET D /\ T \in SUBSET E
      /\ K \in SUBSET (0 .. n)
  <2>1. T \subseteq E
    BY DEF Top
  <2>2. n \in 0 .. n
    OBVIOUS
  <2> HIDE DEF T
  <2>3. QED
    BY <2>1, <2>2
<1> HIDE DEF D, T, K
<1>2. ASSUME NEW i \in D, Cardinality(Above(D, i)) < MaxSeries
      PROVE  i \in K /\ Cardinality(Above(K, i)) < MaxSeries
  <2>1. i \in Nat /\ i <= i
    BY <1>1
  <2>2. Cardinality(Above(K, i)) <= Cardinality(Above(D, i))
    BY <1>1, <2>1, AboveFewer
  <2>3. Cardinality(Above(K, i)) \in Nat /\ Cardinality(Above(D, i)) \in Nat
        /\ Cardinality(Above(E, i)) \in Nat
    BY <1>1, AboveCount
  <2>4. i \in E => i \in T
    <3>1. Cardinality(Above(E, i)) <= Cardinality(Above(D, i))
      BY <1>1, <2>1, AboveFewer DEF D
    <3>2. QED
      BY <1>2, <2>3, <3>1, ConstantsAssumption DEF T, Top
  <2>5. QED
    BY <1>2, <2>2, <2>3, <2>4, ConstantsAssumption DEF D, K
<1>3. ASSUME NEW i \in K
      PROVE  Above(D, i) = Above(K, i)
  <2>1. i \in Nat /\ i <= n
    BY <1>1
  <2>2. ASSUME NEW m \in Above(D, i)
        PROVE  m \in Above(K, i)
    <3>1. m \in D /\ m > i /\ m \in Nat
      BY <1>1 DEF Above
    <3>2. CASE m = n
      BY <3>1, <3>2 DEF K, Above
    <3>3. CASE m # n
      <4>1. m \in E /\ m <= n
        BY <1>1, <3>1, <3>3 DEF D
      <4>2. i \in T
        BY <2>1, <3>1, <3>3, <4>1 DEF K
      <4>3. Cardinality(Above(E, m)) <= Cardinality(Above(E, i))
        BY <1>1, <2>1, <3>1, AboveFewer
      <4>4. Cardinality(Above(E, m)) \in Nat /\ Cardinality(Above(E, i)) \in Nat
        BY <1>1, AboveCount
      <4>5. m \in T
        BY <4>1, <4>2, <4>3, <4>4, ConstantsAssumption DEF T, Top
      <4>6. QED
        BY <3>1, <4>5 DEF K, Above
    <3>4. QED
      BY <3>2, <3>3
  <2>3. QED
    BY <1>1, <2>2 DEF Above
<1>4. QED
  BY <1>1, <1>2, <1>3 DEF Top, D, T, K

\* One assembly: out of the live builds and a build x that is not older than
\* anything published, the newest series are kept with their newest releases.
LEMMA KeptByAssembly ==
  ASSUME NEW live \in SUBSET Build, NEW ever \in SUBSET Build, live \subseteq ever,
         Kept(live, ever),
         NEW x \in Build, \A y \in ever : y[1] <= x[1],
         NEW kept, kept \subseteq Selected(live \cup {x}),
         Protected(Selected(live \cup {x})) \subseteq kept
  PROVE  Kept(kept, ever \cup {x})
<1> DEFINE n == SeriesOf[x[1]]
           b == live \cup {x}
           all == ever \cup {x}
           sel == Selected(b)
<1>1. /\ n \in Nat /\ ReleaseOf[x[1]] \in Nat /\ x \in b /\ x \in all
      /\ b \in SUBSET Build /\ all \in SUBSET Build /\ b \subseteq all
  BY BuildFields
<1>2. \A y \in all : ReleaseOf[y[1]] <= ReleaseOf[x[1]] /\ SeriesOf[y[1]] <= n
  <2>1. ASSUME NEW y \in all
        PROVE  ReleaseOf[y[1]] <= ReleaseOf[x[1]] /\ SeriesOf[y[1]] <= n
    <3>1. y[1] \in Source /\ x[1] \in Source /\ y[1] \in Nat /\ y[1] <= x[1]
      BY <1>1, BuildFields
    <3>2. QED
      BY <3>1, ConstantsAssumption
  <2>2. QED
    BY <2>1
<1>3. Series(ever) \in SUBSET (0 .. n)
  <2>1. ASSUME NEW y \in ever
        PROVE  SeriesOf[y[1]] \in 0 .. n
    BY <1>1, <1>2, BuildFields
  <2>2. QED
    BY <2>1 DEF Series
<1>4. Series(b) = Series(live) \cup {n} /\ Series(all) = Series(ever) \cup {n}
  BY DEF Series
<1>5. Series(live) = Top(Series(ever))
  BY SelectedIsTop DEF Kept
<1>6. Top(Series(all)) = Top(Series(b))
  <2> HIDE DEF n, b, all
  <2>1. Top(Series(ever) \cup {n}) = Top(Top(Series(ever)) \cup {n})
    BY <1>1, <1>3, TopInsert
  <2>2. QED
    BY <1>4, <1>5, <2>1
<1>7. /\ sel = {y \in b : SeriesOf[y[1]] \in Top(Series(b))}
      /\ Series(sel) = Top(Series(b))
      /\ Selected(all) = {y \in all : SeriesOf[y[1]] \in Top(Series(b))}
      /\ Series(Selected(all)) = Top(Series(b))
      /\ Selected(ever) = {y \in ever : SeriesOf[y[1]] \in Top(Series(ever))}
  BY <1>6, SelectedIsTop
<1> HIDE DEF b, all, sel, n
<1>8. Series(kept) = Series(Selected(all))
  <2>1. Series(Protected(sel)) = Series(sel)
    BY <1>1, <1>2, <1>7, SeriesProtected
  <2>2. Protected(sel) \subseteq kept /\ kept \subseteq sel
    BY DEF sel, b
  <2>3. Series(Protected(sel)) \subseteq Series(kept) /\ Series(kept) \subseteq Series(sel)
    BY <2>2 DEF Series
  <2>4. QED
    BY <1>7, <2>1, <2>3
<1>9. ASSUME NEW y \in Protected(Selected(all))
      PROVE  y \in kept
  <2>1. /\ y \in all /\ SeriesOf[y[1]] \in Top(Series(b))
        /\ \A z \in Selected(all) : SeriesOf[z[1]] = SeriesOf[y[1]] => ReleaseOf[z[1]] <= ReleaseOf[y[1]]
    BY <1>7 DEF Protected
  <2>2. y \in b
    <3>1. CASE y = x
      BY <1>1, <3>1
    <3>2. CASE y # x
      <4>1. y \in ever
        BY <2>1, <3>2 DEF all
      <4>2. SeriesOf[y[1]] \in Top(Series(ever))
        <5>1. SeriesOf[y[1]] \in Series(ever)
          BY <4>1 DEF Series
        <5>2. Cardinality(Above(Series(ever), SeriesOf[y[1]]))
                <= Cardinality(Above(Series(all), SeriesOf[y[1]]))
          <6>1. Series(all) \in SUBSET (0 .. n) /\ Series(ever) \in SUBSET Series(all)
            BY <1>1, <1>3, <1>4
          <6>2. SeriesOf[y[1]] \in Nat /\ SeriesOf[y[1]] <= SeriesOf[y[1]]
            BY <1>3, <5>1
          <6>3. QED
            BY <1>1, <6>1, <6>2, AboveFewer
        <5>3. Cardinality(Above(Series(all), SeriesOf[y[1]])) < MaxSeries
          BY <1>6, <2>1 DEF Top
        <5>4. /\ Cardinality(Above(Series(ever), SeriesOf[y[1]])) \in Nat
              /\ Cardinality(Above(Series(all), SeriesOf[y[1]])) \in Nat
          <6>1. Series(all) \in SUBSET (0 .. n)
            BY <1>1, <1>3, <1>4
          <6>2. QED
            BY <1>1, <1>3, <6>1, AboveCount
        <5>5. QED
          BY <5>1, <5>2, <5>3, <5>4, ConstantsAssumption DEF Top
      <4>3. y \in Selected(ever)
        BY <1>7, <4>1, <4>2
      <4>4. \A z \in Selected(ever) : SeriesOf[z[1]] = SeriesOf[y[1]] => ReleaseOf[z[1]] <= ReleaseOf[y[1]]
        <5>1. ASSUME NEW z \in Selected(ever), SeriesOf[z[1]] = SeriesOf[y[1]]
              PROVE  z \in Selected(all)
          BY <1>7, <2>1, <5>1 DEF all
        <5>2. QED
          BY <2>1, <5>1
      <4>5. y \in live
        BY <4>3, <4>4 DEF Kept, Protected
      <4>6. QED
        BY <4>5 DEF b
    <3>3. QED
      BY <3>1, <3>2
  <2>3. y \in sel
    BY <1>7, <2>1, <2>2
  <2>4. \A z \in sel : SeriesOf[z[1]] = SeriesOf[y[1]] => ReleaseOf[z[1]] <= ReleaseOf[y[1]]
    BY <1>1, <1>7, <2>1
  <2>5. QED
    BY <2>3, <2>4 DEF Protected, sel, b
<1>10. QED
  BY <1>8, <1>9 DEF Kept, all

-----------------------------------------------------------------------------
(* A candidate is as good as the decision and the publication it is made   *)
(* from.                                                                   *)

LEMMA RetainedForm ==
  ASSUME NEW b, NEW limit, NEW fixed, NEW k \in Retained(b, limit, fixed)
  PROVE  k \subseteq Selected(b) /\ Protected(Selected(b)) \subseteq k
BY DEF Retained, Since, Protected

LEMMA CandidatesGood ==
  ASSUME NEW d \in Decision, GoodDecision(d), NEW c \in Candidates(d)
  PROVE  c \in Candidate /\ GoodCandidate(c)
<1> USE ConstantsAssumption
<1> DEFINE built == IF d.kind = "build" THEN {<<d.input.source, d.input.revision>>} ELSE {}
           i     == NextInput(d)
           live  == LiveOf(d.prev)
           tombs == TombsOf(d.prev)
           b     == live \cup built
           x     == <<i.source, i.revision>>
<1>1. /\ d.kind \in {"build", "maintenance"} /\ d.input \in Input
      /\ d.prev \in State \cup {None}
      /\ d.prev # None => d.prev \in State
  BY DEF Decision
<1>2. PICK kept \in Retained(b, d.input.limit, FixedBytes(d)) :
        /\ kept \cap tombs = {}
        /\ c = [prev |-> d.prev,
                next |-> [gen |-> Generation(d),
                          source |-> i.source, hash |-> i.hash, revision |-> i.revision,
                          policy |-> i.policy, limit |-> i.limit,
                          live |-> kept,
                          tombs |-> tombs \cup (live \ kept)]]
  BY DEF Candidates
<1> DEFINE m == c.next
<1>3. /\ c.prev = d.prev
      /\ m.source = i.source /\ m.hash = i.hash /\ m.revision = i.revision
      /\ m.live = kept /\ m.tombs = tombs \cup (live \ kept)
  BY <1>2
<1>4. /\ i.source \in Source /\ i.hash \in Variant /\ i.revision \in Revision
      /\ i.policy \in Variant /\ i.limit \in Limit
      /\ d.kind = "build" => i = d.input
      /\ d.kind = "maintenance" =>
           i.source = d.prev.source /\ i.hash = d.prev.hash /\ i.revision = d.prev.revision
  <2>1. CASE d.kind = "build"
    BY <1>1, <2>1 DEF NextInput, Input
  <2>2. CASE d.kind = "maintenance"
    <3>1. d.prev \in State
      BY <1>1, <2>2 DEF GoodDecision
    <3>2. DOMAIN d.input = {"source", "hash", "revision", "policy", "limit"}
      BY <1>1 DEF Input
    <3>3. /\ i.source = d.prev.source /\ i.hash = d.prev.hash /\ i.revision = d.prev.revision
          /\ i.policy = d.prev.policy /\ i.limit = d.input.limit
      BY <2>2, <3>2 DEF NextInput
    <3>4. QED
      BY <1>1, <2>2, <3>1, <3>3 DEF State, Input
  <2>3. QED
    BY <1>1, <2>1, <2>2
<1>5. live \in SUBSET Build /\ tombs \in SUBSET Build
  BY <1>1 DEF LiveOf, TombsOf, State
<1>6. x \in Build /\ b = live \cup {x}
  <2>1. x \in Build
    BY <1>4 DEF Build
  <2>2. CASE d.kind = "build"
    <3>1. x = <<d.input.source, d.input.revision>>
      BY <1>4, <2>2
    <3>2. built = {x}
      BY <2>2, <3>1
    <3>3. QED
      BY <2>1, <3>2
  <2>3. CASE d.kind = "maintenance"
    <3>1. d.prev # None /\ GoodState(d.prev) /\ built = {}
      BY <2>3 DEF GoodDecision
    <3>2. x \in live
      BY <1>4, <2>3, <3>1 DEF GoodState, LiveOf
    <3>3. live \cup built = live \cup {x}
      <4> HIDE DEF x, live, built
      <4>1. QED
        BY <3>1, <3>2
    <3>4. QED
      BY <2>1, <3>3
  <2>4. QED
    BY <1>1, <2>1, <2>2, <2>3
<1> HIDE DEF i, built
<1>7. d.prev # None => NotOlder(m, d.prev)
  <2>1. CASE d.kind = "build"
    <3>1. ASSUME d.prev # None
          PROVE  NotOlder(m, d.prev)
      <4>1. /\ Newer(d.input, d.prev)
            /\ m.source = d.input.source /\ m.hash = d.input.hash
            /\ m.revision = d.input.revision
        BY <1>3, <1>4, <2>1, <3>1 DEF GoodDecision
      <4>2. d.input.revision \in Nat /\ d.prev.revision \in Nat
        BY <1>1, <3>1 DEF Input, State
      <4>3. QED
        BY <4>1, <4>2 DEF Newer, NotOlder
    <3>2. QED
      BY <3>1
  <2>2. CASE d.kind = "maintenance"
    <3>1. ASSUME d.prev # None
          PROVE  NotOlder(m, d.prev)
      <4>1. d.prev.revision \in Nat
        BY <1>1, <3>1 DEF State
      <4>2. QED
        BY <1>3, <1>4, <2>2, <4>1 DEF NotOlder
    <3>2. QED
      BY <3>1
  <2>3. QED
    BY <1>1, <2>1, <2>2
<1>8. \A y \in live \cup tombs : AtMost(y, i.source, i.revision)
  <2>1. CASE d.prev = None
    BY <2>1 DEF LiveOf, TombsOf
  <2>2. CASE d.prev # None
    <3>1. ASSUME NEW y \in live \cup tombs
          PROVE  AtMost(y, i.source, i.revision)
      <4>1. AtMost(y, d.prev.source, d.prev.revision)
        BY <2>2 DEF GoodDecision, GoodState, LiveOf, TombsOf
      <4>2. NotOlder(m, d.prev)
        BY <1>7, <2>2
      <4>3. /\ y[1] \in Nat /\ y[2] \in Nat /\ d.prev.source \in Nat /\ d.prev.revision \in Nat
            /\ i.source \in Nat /\ i.revision \in Nat
        <5>1. y \in Build /\ d.prev \in State
          BY <1>1, <1>5, <2>2
        <5>2. QED
          BY <1>4, <5>1, BuildFields DEF State
      <4>4. QED
        BY <1>3, <4>1, <4>2, <4>3 DEF AtMost, NotOlder
    <3>2. QED
      BY <3>1
  <2>3. QED
    BY <2>1, <2>2
<1>9. kept \subseteq Selected(b) /\ Protected(Selected(b)) \subseteq kept
  BY <1>2, RetainedForm
<1>10. Kept(live, live \cup tombs)
  <2>1. CASE d.prev = None
    BY <2>1 DEF LiveOf, TombsOf, Kept, Series, Selected, Protected
  <2>2. CASE d.prev # None
    BY <2>2 DEF GoodDecision, GoodState, LiveOf, TombsOf
  <2>3. QED
    BY <2>1, <2>2
<1>11. \A y \in live \cup tombs \cup {x} : y[1] <= x[1] /\ AtMost(y, i.source, i.revision)
  <2>1. i.source \in Nat /\ i.revision \in Nat /\ x[1] = i.source /\ x[2] = i.revision
    BY <1>4
  <2>2. ASSUME NEW y \in live \cup tombs
        PROVE  y[1] <= x[1]
    <3>1. y[1] \in Nat
      BY <1>5, BuildFields
    <3>2. QED
      BY <1>8, <2>1, <3>1 DEF AtMost
  <2>3. QED
    BY <1>8, <2>1, <2>2 DEF AtMost
<1>12. Kept(kept, live \cup tombs \cup {x})
  <2> HIDE DEF x, live, tombs, b
  <2>1. QED
    BY <1>5, <1>6, <1>9, <1>10, <1>11, KeptByAssembly
<1>13. x \in kept
  <2>1. x \in Selected(b)
    <3>1. \A y \in b : ~(SeriesOf[y[1]] > SeriesOf[x[1]])
      <4>1. ASSUME NEW y \in b
            PROVE  ~(SeriesOf[y[1]] > SeriesOf[x[1]])
        <5>1. y \in Build /\ x \in Build /\ y[1] <= x[1]
          BY <1>5, <1>6, <1>11
        <5>2. SeriesOf[y[1]] <= SeriesOf[x[1]] /\ SeriesOf[y[1]] \in Nat /\ SeriesOf[x[1]] \in Nat
          BY <5>1, BuildFields
        <5>3. QED
          BY <5>2
      <4>2. QED
        BY <4>1
    <3>2. {s \in Series(b) : s > SeriesOf[x[1]]} = {}
      BY <3>1 DEF Series
    <3>3. x \in b /\ Cardinality({}) < MaxSeries
      BY <1>6, FS_EmptySet
    <3>4. QED
      BY <3>2, <3>3 DEF Selected
  <2>2. \A y \in Selected(b) : ReleaseOf[y[1]] <= ReleaseOf[x[1]]
    <3>1. ASSUME NEW y \in b
          PROVE  ReleaseOf[y[1]] <= ReleaseOf[x[1]]
      <4>1. y \in Build /\ x \in Build /\ y[1] <= x[1]
        BY <1>5, <1>6, <1>11
      <4>2. QED
        BY <4>1, BuildFields
    <3>2. QED
      BY <3>1 DEF Selected
  <2>3. QED
    BY <1>9, <2>1, <2>2 DEF Protected
<1>14. m.live \cup m.tombs = live \cup tombs \cup {x}
  <2>1. kept \subseteq live \cup {x}
    BY <1>6, <1>9 DEF Selected
  <2>2. QED
    BY <1>3, <1>13, <2>1
<1>15. GoodState(m)
  <2>1. <<m.source, m.revision>> \in m.live
    BY <1>3, <1>13
  <2>2. m.live \cap m.tombs = {}
    BY <1>2, <1>3
  <2>3. \A y \in m.live \cup m.tombs : AtMost(y, m.source, m.revision)
    BY <1>3, <1>11, <1>14
  <2>4. Kept(m.live, m.live \cup m.tombs)
    BY <1>3, <1>12, <1>14
  <2>5. QED
    BY <2>1, <2>2, <2>3, <2>4 DEF GoodState
<1>16. c \in Candidate
  <2>1. kept \in SUBSET Build /\ tombs \cup (live \ kept) \in SUBSET Build
    BY <1>5, <1>6, <1>9 DEF Selected
  <2>2. Generation(d) \in Nat
    BY <1>1 DEF Generation, State
  <2> HIDE DEF tombs, live
  <2>3. QED
    BY <1>1, <1>2, <1>4, <2>1, <2>2 DEF Candidate, State
<1>17. QED
  BY <1>3, <1>7, <1>15, <1>16 DEF GoodCandidate

-----------------------------------------------------------------------------
(* The invariant is kept.                                                  *)

\* A decision is well typed and made from what the state allows.
LEMMA DecideStep ==
  ASSUME IInv, Decide
  PROVE  run' \in Decision /\ GoodDecision(run')
<1>1. /\ input \in Input /\ state \in State \cup {None} /\ pool \subseteq Build
      /\ state # None => GoodState(state)
  BY DEF IInv, TypeOK
<1>2. run' = [kind |-> IF BuildDue THEN "build" ELSE "maintenance",
              input |-> input, prev |-> state, stored |-> pool]
  BY DEF Decide
<1>3. run' \in Decision
  BY <1>1, <1>2 DEF Decision
<1>4. BuildDue /\ state # None => Newer(input, state)
  BY DEF BuildDue, SameSource, Newer
<1>5. ~BuildDue => state # None
  BY DEF BuildDue
<1>6. QED
  BY <1>1, <1>2, <1>3, <1>4, <1>5 DEF GoodDecision

\* What may be published is a good candidate.
LEMMA OfferedGood ==
  ASSUME IInv, NEW c \in Offered
  PROVE  c \in Candidate /\ GoodCandidate(c)
BY DEF IInv, TypeOK, Offered

\* Decisions, candidates and their absence differ.
LEMMA Disjoint ==
  /\ \A d \in Decision : d \notin Candidate
  /\ None \notin Decision /\ None \notin Candidate
<1>1. ASSUME NEW d \in Decision, d \in Candidate
      PROVE  FALSE
  <2>1. "kind" \in DOMAIN d
    BY DEF Decision
  <2>2. "kind" \notin DOMAIN d
    BY <1>1 DEF Candidate
  <2>3. QED
    BY <2>1, <2>2
<1>2. QED
  BY <1>1, NoneAssumption

\* A candidate is published, as a whole or in part.
LEMMA PublishStep ==
  ASSUME IInv, NEW c \in Offered, Publish(c) \/ Interrupted(c)
  PROVE  IInv'
<1>1. c \in Candidate /\ GoodCandidate(c)
  BY OfferedGood
<1>2. TypeOK /\ (state # None => GoodState(state) /\ state.live \subseteq pool)
  BY DEF IInv
<1>3. run' = None /\ shelf' \in SUBSET (shelf \cup {c}) /\ UNCHANGED <<input, calm>>
  BY DEF Publish, Interrupted
<1>4. \A d \in shelf' : d \in Candidate /\ GoodCandidate(d)
  BY <1>1, <1>2, <1>3 DEF IInv, TypeOK
<1>5. \/ state' = c.next /\ pool' \subseteq pool \cup c.next.live /\ c.next.live \subseteq pool'
      \/ state' = state /\ pool \subseteq pool' /\ pool' \subseteq pool \cup c.next.live
  <2>1. c.next.live \cap c.next.tombs = {}
    BY <1>1 DEF GoodCandidate, GoodState
  <2>2. CASE Publish(c)
    BY <2>1, <2>2 DEF Publish, After
  <2>3. CASE Interrupted(c)
    <3>1. CASE UNCHANGED <<state, fresh>> /\ \E w \in SUBSET c.next.live : pool' = pool \cup w
      BY <3>1
    <3>2. CASE /\ state' = c.next
               /\ \E del \in SUBSET c.next.tombs : pool' = (pool \cup c.next.live) \ del
      BY <2>1, <3>2
    <3>3. QED
      BY <2>3, <3>1, <3>2 DEF Interrupted
  <2>4. QED
    BY <2>2, <2>3
<1>6. fresh' \in BOOLEAN
  BY <1>2 DEF Publish, Interrupted, Restless, TypeOK
<1>7. /\ c.next \in State /\ GoodState(c.next) /\ c.next.live \subseteq Build
  BY <1>1 DEF Candidate, State, GoodCandidate
<1>8. TypeOK'
  BY <1>2, <1>3, <1>4, <1>5, <1>6, <1>7 DEF TypeOK
<1>9. state' # None => GoodState(state') /\ state'.live \subseteq pool'
  BY <1>2, <1>5, <1>7
<1>10. (state # None => GoodState(state) /\ state.live \subseteq pool)'
  BY <1>9 DEF GoodState, Kept, AtMost
<1>11. (\A d \in shelf : GoodCandidate(d))'
  BY <1>4
<1>12. QED
  BY <1>3, <1>8, <1>10, <1>11, Disjoint DEF IInv

\* A decision becomes a candidate or nothing.
LEMMA AssembleStep ==
  ASSUME IInv, Assemble
  PROVE  IInv'
<1>1. UNCHANGED <<input, state, fresh, pool, shelf, calm>>
  BY DEF Assemble
<1>2. CASE run' \in Candidates(run)
  <2>1. run' \in Candidate /\ GoodCandidate(run')
    BY <1>2, CandidatesGood DEF IInv, Assemble
  <2>2. run' \notin Decision
    BY <2>1, Disjoint
  <2>3. QED
    BY <1>1, <2>1, <2>2 DEF IInv, TypeOK
<1>3. CASE run' = None
  BY <1>1, <1>3, Disjoint DEF IInv, TypeOK
<1>4. QED
  BY <1>2, <1>3 DEF Assemble

LEMMA Step ==
  ASSUME IInv, [Next]_vars
  PROVE  IInv'
<1>1. CASE Decide
  <2>1. run' \in Decision /\ GoodDecision(run') /\ run' \notin Candidate
    BY <1>1, DecideStep, Disjoint
  <2>2. UNCHANGED <<input, state, fresh, pool, shelf, calm>>
    BY <1>1 DEF Decide
  <2>3. QED
    BY <2>1, <2>2 DEF IInv, TypeOK
<1>2. CASE Assemble
  BY <1>2, AssembleStep
<1>3. ASSUME NEW c \in Offered, Publish(c) \/ Interrupted(c)
      PROVE  IInv'
  BY <1>3, PublishStep
<1>4. ASSUME NEW c \in Offered, Refused(c)
      PROVE  IInv'
  <2>1. run' = None /\ shelf' \subseteq shelf /\ UNCHANGED <<input, state, fresh, pool, calm>>
    BY <1>4 DEF Refused
  <2>2. QED
    BY <2>1, Disjoint DEF IInv, TypeOK
<1>5. CASE Change
  <2>1. input' \in Input /\ UNCHANGED <<state, fresh, pool, run, shelf, calm>>
    BY <1>5 DEF Change
  <2>2. QED
    BY <2>1 DEF IInv, TypeOK
<1>6. CASE Age \/ Calm
  <2>1. /\ fresh' \in BOOLEAN /\ calm' \in BOOLEAN
        /\ UNCHANGED <<input, state, pool, run, shelf>>
    BY <1>6 DEF Age, Calm, IInv, TypeOK
  <2>2. QED
    BY <2>1 DEF IInv, TypeOK
<1>7. CASE UNCHANGED vars
  BY <1>7 DEF vars, IInv, TypeOK
<1>8. QED
  BY <1>1, <1>2, <1>3, <1>4, <1>5, <1>6, <1>7 DEF Next

LEMMA InitInv ==
  ASSUME Init
  PROVE  IInv
<1>1. run \notin Decision /\ run \notin Candidate
  BY Disjoint DEF Init
<1>2. QED
  BY <1>1 DEF Init, IInv, TypeOK

-----------------------------------------------------------------------------
(* The theorems.                                                           *)

\* The invariant holds throughout, whatever is re-run, interrupted or changed.
THEOREM Invariant == Spec => []IInv
<1>1. Init => IInv
  BY InitInv
<1>2. IInv /\ [Next]_vars => IInv'
  BY Step
<1>3. QED
  BY <1>1, <1>2, PTL DEF Spec

\* The types hold throughout (manifests, decisions and signed candidates).
THEOREM TypeCorrect == Spec => []TypeOK
<1>1. IInv => TypeOK
  BY DEF IInv
<1>2. QED
  BY <1>1, Invariant, PTL

\* The published source and revision can be installed (select_retained_objects
\* never drops it, storage-publish.py stores it before the state).
THEOREM PublishedStaysLive == Spec => []PublishedIsLive
<1>1. IInv => PublishedIsLive
  BY DEF IInv, GoodState, PublishedIsLive
<1>2. QED
  BY <1>1, Invariant, PTL

\* The newest series ever published are live, with their newest releases, and no
\* other series is, although select_retained_objects only sees the live ones.
THEOREM NewestStay == Spec => []NewestKept
<1>1. IInv => NewestKept
  BY DEF IInv, GoodState, Kept, NewestKept
<1>2. QED
  BY <1>1, Invariant, PTL

\* No decision asks for a build that was published or retired before.
THEOREM NoDecisionOnDeadBuild == Spec => []NoDeadBuild
<1>1. ASSUME IInv, run \in Decision, run.kind = "build"
      PROVE  <<run.input.source, run.input.revision>> \notin LiveOf(run.prev) \cup TombsOf(run.prev)
  <2>1. GoodDecision(run) /\ run.input \in Input /\ run.prev \in State \cup {None}
    BY <1>1 DEF IInv, Decision
  <2>2. CASE run.prev = None
    BY <2>2 DEF LiveOf, TombsOf
  <2>3. CASE run.prev # None
    <3>1. /\ run.input.source \in Nat /\ run.input.revision \in Nat
          /\ run.prev.source \in Nat /\ run.prev.revision \in Nat
      BY <2>1, <2>3, ConstantsAssumption DEF Input, State
    <3>2. Newer(run.input, run.prev)
      BY <1>1, <2>1, <2>3 DEF GoodDecision
    <3>3. ~AtMost(<<run.input.source, run.input.revision>>, run.prev.source, run.prev.revision)
      BY <3>1, <3>2 DEF AtMost, Newer
    <3>4. QED
      BY <2>1, <2>3, <3>3 DEF GoodDecision, GoodState, LiveOf, TombsOf
  <2>4. QED
    BY <2>2, <2>3
<1>2. IInv => NoDeadBuild
  BY <1>1 DEF NoDeadBuild
<1>3. QED
  BY <1>2, Invariant, PTL

\* Clients never go back, however late an old candidate is published
\* (decide, verify_current_generation).
THEOREM NeverGoesBackward == Spec => NeverBackward
<1>1. ASSUME IInv, [Next]_vars, state # None, state' # state
      PROVE  \/ state'.source > state.source
             \/ /\ state'.source = state.source /\ state'.hash = state.hash
                /\ state'.revision >= state.revision
  <2>1. PICK c \in Offered : Publish(c) \/ Interrupted(c)
    BY <1>1 DEF Next, vars, Decide, Assemble, Refused, Change, Age, Calm
  <2>2. state' = c.next /\ state = c.prev
    BY <1>1, <2>1 DEF Publish, Interrupted, Acceptable, Follows
  <2>3. GoodCandidate(c)
    BY <1>1, OfferedGood
  <2>4. QED
    BY <1>1, <2>2, <2>3 DEF GoodCandidate, NotOlder
<1>2. IInv /\ [Next]_vars =>
        [state # None /\ state' # state =>
           \/ state'.source > state.source
           \/ /\ state'.source = state.source /\ state'.hash = state.hash
              /\ state'.revision >= state.revision]_vars
  BY <1>1
<1>3. QED
  BY <1>2, Invariant, PTL DEF Spec, NeverBackward
=============================================================================
