----------------------------- MODULE MCTaxYear -----------------------------
(* An instance of TaxYear for TLC: two workers, an August and a September   *)
(* run, and versions on either side of the change of policy.                *)
EXTENDS TaxYear

Months == <<8, 9>>

Plain == [NoItem EXCEPT !.basic = 10, !.allowances = 3, !.overtime = 8, !.pf = 2]
Bonus == [NoItem EXCEPT !.basic = 10, !.bonus = 12, !.pfEmployer = 1]
BigBonus == [NoItem EXCEPT !.basic = 10, !.bonus = 25, !.relief = 2, !.advance = 1]
Refund == [NoItem EXCEPT !.basic = 10, !.bonus = -2, !.loan = -9]
Low == [NoItem EXCEPT !.basic = 4, !.bonus = 9]

MCSheets == {<<BigBonus, Plain>>, <<Bonus, Low>>, <<BigBonus, Refund>>}
MCEdits == {Low}

(* The columns end in half a pesewa or in nine tenths of one; the provident  *)
(* fund is within its limit both as typed and as rounded.                    *)
MCTyped == { [basic |-> 10500, allowances |-> 3500, difference |-> 900, bonus |-> 12900,
              overtime |-> 8400, pf |-> 900, pfEmployer |-> 400, relief |-> 2500, loan |-> 500,
              welfare |-> 500, other |-> 500, advance |-> 700, member |-> TRUE] }

NoAward == [from |-> 0, to |-> 0, amount |-> 0, reference |-> FALSE]
NoEvidence == [junior |-> FALSE, annualIncome |-> -1, incomeYear |-> FALSE, pfScheme |-> FALSE,
             awards |-> <<>>, roster |-> NoAward]
Proven == [junior |-> TRUE, annualIncome |-> 120, incomeYear |-> TRUE, pfScheme |-> TRUE,
           awards |-> << [from |-> 1, to |-> 12, amount |-> 3, reference |-> TRUE] >>,
           roster |-> NoAward]
Lapsed == [Proven EXCEPT !.awards = @ \o << [from |-> 9, to |-> 12, amount |-> 0,
                                              reference |-> TRUE] >>,
                         !.annualIncome = 300]

MCColumns == [bands |-> {}, policy |-> 0, ssfEmployee |-> 55, ssfEmployer |-> 130,
              overtimeLow |-> 50, overtimeHigh |-> 100, overtimeThreshold |-> 500,
              bonusRate |-> 50, bonusThreshold |-> 150, icuRate |-> 30, limitsThisYear |-> TRUE,
              ssnitMin |-> 6, ssnitMax |-> 40, minRemittance |-> 1, pfLimit |-> 165,
              overtimeLimit |-> 180]

Old == [month |-> 1, rows |-> << <<5, 50>>, <<0, 0>>, <<12, 175>> >>, columns |-> MCColumns,
        incomes |-> 18]
Backdated == [month |-> 8, rows |-> << <<21, 300>>, <<3, 175>>, <<7, 250>> >>,
              columns |-> MCColumns, incomes |-> 28]
New == [month |-> 9, rows |-> << <<0, 100>>, <<9, 333>> >>, columns |-> MCColumns, incomes |-> 18]

MCEvidences == {Proven, Lapsed}
MCOffers == {Old, Backdated, New}
=============================================================================
