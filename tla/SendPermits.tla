---------------------------- MODULE SendPermits ----------------------------
(***************************************************************************)
(* What the distribution system promises about one payslip row, with every  *)
(* detail of claims, outcomes and recovery left out.  A row starts with one *)
(* permit to be sent.  A message accepted by the provider uses one up; a    *)
(* permit may be forfeited (an attempt ends without a usable answer); and   *)
(* only a decision taken outside the send path - an operator, a failure     *)
(* report, a cancellation - grants another.                                 *)
(***************************************************************************)
EXTENDS Integers

CONSTANT Rows

VARIABLES copies, permits, released

vars == <<copies, permits, released>>

Init ==
    /\ copies = [d \in Rows |-> 0]
    /\ permits = [d \in Rows |-> 1]
    /\ released = [d \in Rows |-> 0]

(* The provider accepts a message for d. *)
Accept(d) ==
    /\ permits[d] > 0
    /\ copies' = [copies EXCEPT ![d] = @ + 1]
    /\ permits' = [permits EXCEPT ![d] = @ - 1]
    /\ UNCHANGED released

(* Attempts for d end, and d will not be sent again on their strength. *)
Forfeit(d) ==
    /\ \E left \in 0 .. (permits[d] - 1) : permits' = [permits EXCEPT ![d] = left]
    /\ UNCHANGED <<copies, released>>

(* Someone decides that the rows of S may be sent again. *)
Release(S) ==
    /\ permits' = [d \in Rows |-> IF d \in S THEN permits[d] + 1 ELSE permits[d]]
    /\ released' = [d \in Rows |-> IF d \in S THEN released[d] + 1 ELSE released[d]]
    /\ UNCHANGED copies

Next ==
    \/ \E d \in Rows : Accept(d) \/ Forfeit(d)
    \/ \E S \in SUBSET Rows : Release(S)

Spec == Init /\ [][Next]_vars
=============================================================================
