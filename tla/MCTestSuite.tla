---------------------------- MODULE MCTestSuite -----------------------------
(***************************************************************************)
(* Small instances of TestSuite: testers are model values, of which the    *)
(* ones in ParallelOnes allow to be run in parallel.                           *)
(***************************************************************************)
EXTENDS TestSuite

CONSTANTS p1, p2, p3, s1, s2

ParallelOnes == {p1, p2, p3}
All == ParallelOnes \cup {s1, s2}
=============================================================================
