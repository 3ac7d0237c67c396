------------------------------- MODULE MCLease -------------------------------
(***************************************************************************)
(* Instances of Lease for TLC.  p1 and p2 are the publishers of the first  *)
(* and the second attempt of one lifecycle run, q is the publisher of      *)
(* another lifecycle run, s is a site publication, which waits.            *)
(***************************************************************************)
EXTENDS Lease

CONSTANTS p1, p2, q, s, lifecycle, later, site, SiteWait

MCRunOf == [w \in Worker |-> IF w = s THEN site ELSE IF w = q THEN later ELSE lifecycle]

MCAttemptOf == [w \in Worker |-> IF w = p2 THEN 2 ELSE 1]

MCWaitOf == [w \in Worker |-> IF w = s THEN SiteWait ELSE 0]
=============================================================================
