---------------------------- MODULE MCLifecycle ----------------------------
(***************************************************************************)
(* Instances of Lifecycle for TLC.  Sources 1 and 2 are patch releases of  *)
(* one series, 3 and 4 start new series.  The revisions of a source belong *)
(* to its patch release.                                                   *)
(***************************************************************************)
EXTENDS Lifecycle

MCReleaseOf == [s \in Source |-> s]

MCSeriesOf == [s \in Source |-> IF s <= 2 THEN 1 ELSE s - 1]

MCSize == [s \in Source |-> 1]
=============================================================================
