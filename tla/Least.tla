------------------------------- MODULE Least -------------------------------
(***************************************************************************)
(* Least elements.  Rows are numbered by their primary key and the code     *)
(* takes the first; and a least counterexample is how the proofs reason by  *)
(* induction on numbers.                                                    *)
(***************************************************************************)
EXTENDS Integers, FiniteSetsExt, WellFoundedInduction, TLAPS

(* A set of numbers that is not empty has a least element.                   *)
LEMMA LeastExists == ASSUME NEW T \in SUBSET Nat, T # {} PROVE \E x \in T : \A y \in T : x <= y
<1> DEFINE R == {ss \in Nat \X Nat : ss[1] < ss[2]}
<1>1. IsWellFoundedOn(R, Nat)
  BY NatLessThanWellFounded, Zenon DEF OpToRel
<1>2. PICK x \in T : \A y \in T : ~(<<y, x>> \in R)
  <2> HIDE DEF R
  <2> QED BY <1>1, WFMin
<1>3. ASSUME NEW y \in T PROVE x <= y
  <2>1. <<y, x>> \notin R /\ <<y, x>> \in Nat \X Nat
    BY <1>2
  <2>2. <<y, x>>[1] = y /\ <<y, x>>[2] = x
    OBVIOUS
  <2>3. ~(y < x)
    BY <2>1, <2>2
  <2> QED BY <2>3
<1> QED BY <1>3

(* What holds first, and of the next whenever it holds of one, holds of all  *)
(* up to a bound.                                                            *)
LEMMA HoldsUpTo ==
    ASSUME NEW n \in Nat, NEW good, 0 \in good, \A i \in 1 .. n : i - 1 \in good => i \in good
    PROVE  \A i \in 0 .. n : i \in good
<1> DEFINE bad == {i \in 0 .. n : i \notin good}
<1> SUFFICES ASSUME bad # {} PROVE FALSE
  OBVIOUS
<1>1. bad \in SUBSET Nat
  OBVIOUS
<1>2. PICK x \in bad : \A y \in bad : x <= y
  <2> HIDE DEF bad
  <2> QED BY <1>1, LeastExists
<1>3. x \in 1 .. n /\ x - 1 \in 0 .. n
  BY <1>2
<1>4. x - 1 \in good
  BY <1>2, <1>3
<1> QED BY <1>2, <1>3, <1>4

(* A set of ids that is not empty has its Min as a member: "the oldest        *)
(* queued batch" (claim_next_batch) and "the next primary key" exist.        *)
LEMMA MinIsMember == ASSUME NEW T \in SUBSET Nat, T # {} PROVE Min(T) \in T
BY LeastExists DEF Min
=============================================================================
