----------------------------- MODULE MCSelector -----------------------------
(* Selector on a few descriptors and jobs. Jobs are interchangeable, so the *)
(* safety run takes them up to permutation; descriptors are numbers whose   *)
(* order matters and are not.                                               *)
EXTENDS Selector, TLC

CONSTANTS t1, t2

JobSymmetry == Permutations(Task)
=============================================================================
