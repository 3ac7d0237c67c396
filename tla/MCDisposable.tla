---------------------------- MODULE MCDisposable ----------------------------
(***************************************************************************)
(* An instance of Disposable for TLC: a repository of one object and the   *)
(* key of the race, listed in pages of one key; in production, two clients *)
(* call S3ObjectStore on the same keys.                                    *)
(***************************************************************************)
EXTENDS Disposable, TLC

CONSTANTS x, y

MCContent == [k \in {1} |-> x]
MCBodyOf == (One :> x) @@ (Two :> y)
=============================================================================
