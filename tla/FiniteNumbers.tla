----------------------------- MODULE FiniteNumbers -----------------------------
(***************************************************************************)
(* Finite sets of numbers have a first and a last member: the last key of  *)
(* a page of a listing, the first that was left out, the last flag of a    *)
(* command line.                                                           *)
(***************************************************************************)
EXTENDS Naturals, FiniteSetTheorems, TLAPS

LEMMA LastExists ==
  ASSUME NEW T \in SUBSET Nat, T # {}, IsFiniteSet(T)
  PROVE  \E x \in T : \A y \in T : y <= x
<1> DEFINE above(x) == {y \in T : y > x}
           F        == {above(x) : x \in T}
<1>1. F \subseteq FiniteSubsetsOf(Nat)
  <2>1. ASSUME NEW x \in T
        PROVE  above(x) \in SUBSET Nat /\ IsFiniteSet(above(x))
    BY FS_Subset
  <2>2. QED
    BY <2>1 DEF FiniteSubsetsOf
<1>2. PICK f \in F : \A g \in F : <<g, f>> \notin StrictSubsetOrdering(Nat)
  <2>1. F # {}
    OBVIOUS
  <2> HIDE DEF F
  <2>2. IsWellFoundedOn(StrictSubsetOrdering(Nat), FiniteSubsetsOf(Nat))
    BY FS_StrictSubsetOrderingWellFounded
  <2>3. QED
    BY <1>1, <2>1, <2>2, WFMin
<1>3. PICK x \in T : f = above(x)
  BY DEF F
<1>4. ASSUME NEW y \in T, y > x
      PROVE  FALSE
  <2>1. x \in Int /\ y \in Int /\ \A z \in T : z \in Int
    BY <1>4
  <2>2. \A w \in above(y) : w \in above(x)
    BY <1>4, <2>1
  <2>3. y \in above(x) /\ y \notin above(y)
    BY <1>4, <2>1
  <2>4. <<above(y), above(x)>> \in StrictSubsetOrdering(Nat)
    BY <2>2, <2>3 DEF StrictSubsetOrdering
  <2>5. QED
    BY <1>2, <1>3, <1>4, <2>4
<1>5. QED
  BY <1>4

LEMMA FirstExists ==
  ASSUME NEW T \in SUBSET Nat, T # {}, IsFiniteSet(T)
  PROVE  \E x \in T : \A y \in T : x <= y
<1> DEFINE below(x) == {y \in T : y < x}
           F        == {below(x) : x \in T}
<1>1. F \subseteq FiniteSubsetsOf(Nat)
  <2>1. ASSUME NEW x \in T
        PROVE  below(x) \in SUBSET Nat /\ IsFiniteSet(below(x))
    BY FS_Subset
  <2>2. QED
    BY <2>1 DEF FiniteSubsetsOf
<1>2. PICK f \in F : \A g \in F : <<g, f>> \notin StrictSubsetOrdering(Nat)
  <2>1. F # {}
    OBVIOUS
  <2> HIDE DEF F
  <2>2. IsWellFoundedOn(StrictSubsetOrdering(Nat), FiniteSubsetsOf(Nat))
    BY FS_StrictSubsetOrderingWellFounded
  <2>3. QED
    BY <1>1, <2>1, <2>2, WFMin
<1>3. PICK x \in T : f = below(x)
  BY DEF F
<1>4. ASSUME NEW y \in T, y < x
      PROVE  FALSE
  <2>1. x \in Int /\ y \in Int /\ \A z \in T : z \in Int
    BY <1>4
  <2>2. \A w \in below(y) : w \in below(x)
    BY <1>4, <2>1
  <2>3. y \in below(x) /\ y \notin below(y)
    BY <1>4, <2>1
  <2>4. <<below(y), below(x)>> \in StrictSubsetOrdering(Nat)
    BY <2>2, <2>3 DEF StrictSubsetOrdering
  <2>5. QED
    BY <1>2, <1>3, <1>4, <2>4
<1>5. QED
  BY <1>4
================================================================================
