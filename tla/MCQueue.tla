------------------------------ MODULE MCQueue ------------------------------
(* Instances of Queue for TLC. *)
EXTENDS Queue, TLC

CONSTANTS w1, w2, q1, q2, r1, r2

RequestSymmetry == Permutations({q1, q2})
=============================================================================
