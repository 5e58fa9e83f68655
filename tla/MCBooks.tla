------------------------------ MODULE MCBooks ------------------------------
(* The roster, the expenses and the audit page, for TLC: they share no        *)
(* state, so one run explores each from its own initial states while the       *)
(* others stand still.                                                        *)
EXTENDS Roster, Expenses, AuditPages

CONSTANT Parts      \* of {"roster", "ledger", "trail"}
VARIABLE part       \* the part that moves

Plain(id) == [id |-> id, spelt |-> "plain"]
Spaced(id) == [id |-> id, spelt |-> "spaced"]

(* A salaried worker with a flat basic and an overtime rate on file.          *)
MCFirstRow == [Row(Plain("DCL1"), 1) EXCEPT !.pay = "salaried"]
MCTypedIds == {Spaced("DCL1"), Spaced("DCL2"), Plain("")}
MCReliefForms ==
    {[relief |-> 0, doc |-> "none", sound |-> TRUE],
     [relief |-> 1, doc |-> "january", sound |-> TRUE],
     [relief |-> 1, doc |-> "february", sound |-> TRUE],
     [relief |-> 1, doc |-> "partial", sound |-> TRUE]}
MCSeedFiles ==
    {<<[raw |-> Spaced("DCL1"), basic |-> 1, hourly |-> FALSE, relief |-> 1, rates |-> {}]>>,
     <<[raw |-> Plain("DCL2"), basic |-> 0, hourly |-> TRUE, relief |-> 0, rates |-> {"basic"}],
       [raw |-> Spaced("DCL2"), basic |-> 1, hourly |-> FALSE, relief |-> 0, rates |-> {}]>>}
MCBulkFiles ==
    {<<[raw |-> Spaced("DCL1"), named |-> TRUE, email |-> FALSE],
       [raw |-> Spaced("DCL2"), named |-> TRUE, email |-> TRUE],
       [raw |-> Plain("DCL2"), named |-> TRUE, email |-> FALSE]>>}
MCPayrollRows ==
    {[raw |-> Spaced("DCL1"), basic |-> 0, email |-> FALSE, status |-> "on leave"],
     [raw |-> Spaced("DCL2"), basic |-> 1, email |-> TRUE, status |-> ""],
     [raw |-> Plain(""), basic |-> 1, email |-> FALSE, status |-> ""]}

MCForms ==
    {[date |-> "past", listed |-> TRUE, described |-> TRUE, amount |-> "some"],
     [date |-> "future", listed |-> FALSE, described |-> TRUE, amount |-> "tiny"]}
MCUploads ==
    {[ext |-> "png", declared |-> "png", size |-> 2, content |-> "png"],
     [ext |-> "png", declared |-> "png", size |-> 2, content |-> "script"],
     [ext |-> "jpg", declared |-> "", size |-> 1, content |-> "pdf"],
     [ext |-> "pdf", declared |-> "pdf", size |-> 3, content |-> "pdf"]}

Symmetry == Permutations(Reps) \cup Permutations(Threads) \cup Permutations(Companies)

(* The other parts do not depend on the engine.                               *)
Init ==
    /\ part \in Parts /\ RosterInit /\ LedgerInit /\ TrailInit
    /\ part # "roster" => engine = CHOOSE e \in Engines : TRUE
RosterMoves == part = "roster" /\ RosterNext /\ UNCHANGED <<part, ledgerVars, trailVars>>
LedgerMoves == part = "ledger" /\ LedgerNext /\ UNCHANGED <<part, rosterVars, trailVars>>
TrailMoves == part = "trail" /\ TrailNext /\ UNCHANGED <<part, rosterVars, ledgerVars>>
Next == RosterMoves \/ LedgerMoves \/ TrailMoves
Spec == Init /\ [][Next]_<<part, rosterVars, ledgerVars, trailVars>>
=============================================================================
