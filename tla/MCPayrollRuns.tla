--------------------------- MODULE MCPayrollRuns ---------------------------
(* Instances of PayrollRuns for TLC: one month, drafts of an operator (op1)  *)
(* and of the client (cl1, cl2).                                             *)
EXTENDS PayrollRuns, TLC

CONSTANTS q1, q2, op1, cl1, cl2, may

DraftPeriods == [i \in Imports |-> may]
DraftPlanes == [i \in Imports |-> IF i = op1 THEN "operator" ELSE "client"]

ThreadSymmetry == Permutations({q1, q2})
=============================================================================
