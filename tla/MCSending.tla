----------------------------- MODULE MCSending -----------------------------
(* What surrounds a send, for TLC: the POST and its repeats (SendRequest),     *)
(* the confirm page and the status page (Outreach), the links in the messages  *)
(* (PayslipLinks).  They share no state, so one run explores each from its own *)
(* initial states while the others stand still.                               *)
EXTENDS SendRequest, Outreach, PayslipLinks

CONSTANTS q1, q2, q3, q4, k1, k2, i1, i2, i3, r1, r2
VARIABLE part       \* the part that moves

(* Two presses, the first repeated twice.                                     *)
TwoPresses == (q1 :> k1) @@ (q2 :> k1) @@ (q3 :> k1) @@ (q4 :> k2)

(* A run of two payslips, and a run of one for the longer histories.          *)
TwoRuns == [i \in Items |-> IF i = i3 THEN r2 ELSE r1]
Number == << [country |-> "", plus |-> FALSE, trunk |-> FALSE, digits |-> 9, network |-> 24,
           ascii |-> TRUE] >>
Landline == [Number EXCEPT ![1].network = 30, ![1].trunk = TRUE]
Blank == [phone |-> <<>>, momo |-> <<>>, email |-> <<>>, pref |-> "none", rowMomo |-> <<>>,
          rowEmail |-> <<>>]
MoMoOnly == [Blank EXCEPT !.rowMomo = Number, !.rowEmail = <<"row">>, !.pref = "email"]
LandlineOnly == [Blank EXCEPT !.phone = Landline]
MCContacts == {Blank, MoMoOnly, LandlineOnly}

(* Texts in septets: "a", " " and "-" cost one, "e" two, "x" cannot be sent.  *)
MCNames == { <<>>, <<"x", "x">>, <<"a", "a", " ", "e", "a">>, <<"a", "e", "e", "a">>,
             <<" ", "a", "x", " ", " ", "e">>, <<"a", "-", " ", "a", "e", "a">> }
MCBrand == <<"a", "a", "a">>
MCTails == { <<"a", "a">>, <<"a", "e", "a">>, <<"a", "a", "a", "a", "a">>, <<"a", "x">> }

Symmetry == Permutations(Senders) \cup Permutations({i1, i2})

Init ==
    /\ part \in {"request", "run of two", "run of one", "links"}
    /\ RequestInit /\ OutreachInit /\ LinksInit
    /\ \A i \in Items : part # (IF i = i3 THEN "run of one" ELSE "run of two") => contact[i] = Blank
    /\ part # "links" => channel = "sms"

RequestMoves == part = "request" /\ RequestNext /\ UNCHANGED <<part, outreachVars, payslipVars>>
(* One run at a time: nobody confirms, sends or edits the other. *)
Only(run) ==
    \A r \in Runs \ {run} : /\ r \notin page'.runs
                             /\ UNCHANGED <<batch[r], [i \in ItemsOf(r) |-> contact[i]]>>

OutreachMoves ==
    /\ \/ part = "run of two" /\ OutreachNext /\ Only(r1) /\ requests' <= 1
       \/ part = "run of one" /\ OutreachNext /\ Only(r2)
    /\ UNCHANGED <<part, requestVars, payslipVars>>
LinksMoves == part = "links" /\ LinksNext /\ UNCHANGED <<part, requestVars, outreachVars>>
Next == RequestMoves \/ OutreachMoves \/ LinksMoves

(* Every part is well-typed, and no SMS takes more than one part.             *)
TypeOK == RequestTypeOK /\ OutreachTypeOK /\ LinksTypeOK
Spec == Init /\ [][Next]_<<part, requestVars, outreachVars, payslipVars>>
=============================================================================
