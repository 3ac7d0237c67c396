--------------------------- MODULE MCPublication ---------------------------
(***************************************************************************)
(* Instances of Publication for TLC.  Publications are interchangeable,    *)
(* and so are keys.                                                        *)
(***************************************************************************)
EXTENDS Publication, TLC

Symmetry == Permutations(Pub) \cup Permutations(Key)
=============================================================================
