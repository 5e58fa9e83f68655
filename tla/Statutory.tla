----------------------------- MODULE Statutory -----------------------------
(***************************************************************************)
(* The pay calculation as operators: PAYE bands, concessions, the deduction *)
(* policy and the three engines built on them (models.StatutoryRate,        *)
(* statutory.py, money.py, payroll_calculations/, raw_engine/calc,          *)
(* raw_engine/compute.py, raw_engine/run.py).                               *)
(*                                                                          *)
(* Amounts are integers.  What the engines compute is in pesewas: they      *)
(* round it to two places.  What goes in is in thousandths of a pesewa, for *)
(* a sheet may say more than two places (coerce_rate rounds nothing) and    *)
(* the engines round their inputs in different places.  Rates are in        *)
(* thousandths.                                                             *)
(*                                                                          *)
(* Of the item's columns those that are treated alike are one: allowances   *)
(* stands for transport, housing, medical, meal and other allowances,       *)
(* difference for arrears, other for IOU, donations and other deductions.   *)
(***************************************************************************)
EXTENDS Integers, Sequences, FiniteSets, FiniteSetsExt

Thousand == 1000
Million == 1000000

AtLeast(x, y) == IF x >= y THEN x ELSE y
AtMost(x, y) == IF x <= y THEN x ELSE y
Distance(x, y) == AtLeast(x - y, y - x)

(* f[1] + ... + f[n] *)
Total(n, f) == LET upto[k \in 0..n] == IF k = 0 THEN 0 ELSE upto[k - 1] + f[k] IN upto[n]

(* money(): n thousandths, rounded to the unit, halves away from zero. *)
Money(n) == IF n >= 0 THEN (2 * n + Thousand) \div (2 * Thousand)
                      ELSE -((2 * (-n) + Thousand) \div (2 * Thousand))

(* round(x, 2): a half goes to the even neighbour. *)
RoundEven(n) ==
    LET down == n \div Thousand
        rest == n % Thousand IN
    IF 2 * rest > Thousand \/ (2 * rest = Thousand /\ down % 2 = 1) THEN down + 1 ELSE down

-----------------------------------------------------------------------------
(* The columns of a rate version, of an item (what goes in, as typed or     *)
(* rounded, and what comes out) and of a worker's evidence.                 *)

Band == [over : Nat, rate : Int, base : Int]
Columns ==
    [bands : SUBSET Band, policy : 0..1, ssfEmployee : Int, ssfEmployer : Int, overtimeLow : Int,
     overtimeHigh : Int, overtimeThreshold : Int, bonusRate : Int, bonusThreshold : Int,
     icuRate : Int, limitsThisYear : BOOLEAN, ssnitMin : Int, ssnitMax : Int,
     minRemittance : Int, pfLimit : Int, overtimeLimit : Int]
Items ==
    [basic : Int, allowances : Int, difference : Int, bonus : Int, overtime : Int, pf : Int,
     pfEmployer : Int, relief : Int, loan : Int, welfare : Int, other : Int, advance : Int,
     member : BOOLEAN]
Computed ==
    [by : Nat, gross : Int, taxable : Int, excess : Int, paye : Int, ssnit : Int,
     deductions : Int, net : Int]
Award == [from : Int, to : Int, amount : Int, reference : BOOLEAN]
Evidence ==
    [junior : BOOLEAN, annualIncome : Int, incomeYear : BOOLEAN, pfScheme : BOOLEAN,
     awards : Seq(Award), roster : Award]

-----------------------------------------------------------------------------
(* PAYE bands.  rows is a sequence of <<threshold, rate>> in any order.     *)

Overs(rows) == {rows[i][1] : i \in DOMAIN rows}

RowsAccepted(rows) ==
    /\ rows # <<>>
    /\ \A i \in DOMAIN rows : rows[i][1] >= 0 /\ rows[i][2] \in 0..Thousand
    /\ \A i, j \in DOMAIN rows : rows[i][1] = rows[j][1] => i = j

(* The width of the band that starts at over, below the income `upto`. *)
WidthBelow(rows, over, upto) ==
    Min({o \in Overs(rows) : o > over} \cup {upto}) - over

TaxBelow(rows, upto) ==
    Total(Len(rows), [i \in DOMAIN rows |->
                        IF rows[i][1] < upto THEN WidthBelow(rows, rows[i][1], upto) * rows[i][2]
                        ELSE 0])

(* Mutant: the base of a band is taxed at the band's own rate. *)
BandsAtOwnRate(rows) ==
    {[over |-> rows[i][1], rate |-> rows[i][2], base |-> RoundEven(rows[i][1] * rows[i][2])]
        : i \in DOMAIN rows}

(* bands_from_rows: the base of a band is the tax on all income below it.  It *)
(* rounds a rate to six places, which leaves thousandths as they are.        *)
BandsFromRows(rows) ==
    {[over |-> rows[i][1], rate |-> rows[i][2], base |-> RoundEven(TaxBelow(rows, rows[i][1]))]
        : i \in DOMAIN rows}

(* compute_paye: the highest band that has been reached. *)
ComputePaye(bands, taxable) ==
    LET reached == {b \in bands : taxable >= b.over} IN
    IF reached = {} THEN 0
    ELSE LET b == CHOOSE x \in reached : \A y \in reached : x.over >= y.over IN
         Money((taxable - b.over) * b.rate + b.base * Thousand)

(* compute_overtime_tax: the concession, in two steps of the basic salary. *)
ComputeOvertimeTax(rate, overtime, basic) ==
    LET cap == basic * rate.overtimeThreshold
        low == AtMost(overtime * Thousand, cap)
        high == AtLeast(overtime * Thousand - cap, 0) IN
    IF overtime <= 0 THEN 0
    ELSE Money((low * rate.overtimeLow + high * rate.overtimeHigh) \div Million)

AnnualCap(rate, basic) == basic * 12 * rate.bonusThreshold

(* split_bonus: <<tax on the concession, excess over the annual cap>>.  What *)
(* is used of it is in pesewas, the sum of stored figures.                   *)
SplitBonus(rate, bonus, basic, used) ==
    LET left == AtLeast(AnnualCap(rate, basic) - used * Million, 0)
        concession == AtMost(bonus * Thousand, left)
        excess == AtLeast(bonus * Thousand - left, 0) IN
    IF bonus <= 0 THEN <<0, 0>>
    ELSE <<Money((concession * rate.bonusRate) \div Million), Money(excess \div Thousand)>>

IcuDues(rate, basic, member) ==
    IF member THEN Money((basic * rate.icuRate) \div Thousand) ELSE 0

(* StatutoryRate.active_for: the latest version that is in force; 0: none. *)
ActiveFor(effective, month) ==
    LET current == {v \in DOMAIN effective : effective[v] # 0 /\ effective[v] <= month} IN
    IF current = {} THEN 0
    ELSE CHOOSE v \in current : \A w \in current : effective[v] >= effective[w]

-----------------------------------------------------------------------------
(* The deduction policy (deductions.py).                                    *)

(* context_for_employee: the latest recorded award that covers the month; a *)
(* worker without any award falls back on the dated roster fields, which    *)
(* have the form of an award.                                               *)
AwardFor(evidence, month) ==
    LET valid == {i \in DOMAIN evidence.awards :
                    evidence.awards[i].from <= month /\ month <= evidence.awards[i].to} IN
    IF valid # {} THEN evidence.awards[Max(valid)]
    ELSE IF evidence.awards = <<>> THEN evidence.roster
    ELSE [from |-> 0, to |-> 0, amount |-> 0, reference |-> FALSE]

ValidAward(award, month) ==
    /\ award.reference
    /\ award.from <= month
    /\ month <= award.to

Junior(rate, evidence) ==
    /\ evidence.junior
    /\ evidence.incomeYear
    /\ evidence.annualIncome >= 0
    /\ evidence.annualIncome <= rate.overtimeLimit

(* Where the policy raises DeductionPolicyError. *)
PolicyRefuses(rate, t, evidence) ==
    LET scheme == evidence.pfScheme
        cap == t.basic * rate.pfLimit IN
    \/ t.basic < 0 \/ t.overtime < 0 \/ t.pf < 0 \/ t.pfEmployer < 0 \/ t.relief < 0
    \/ /\ rate.policy >= 1
       /\ \/ t.basic > 0 /\ ~rate.limitsThisYear
          \/ t.basic > 0 /\ ~(t.basic \in rate.ssnitMin * Thousand .. rate.ssnitMax * Thousand)
          \/ t.basic > 0 /\ <<rate.ssfEmployee, rate.ssfEmployer>> # <<55, 130>>
          \/ t.basic > 0 /\ Money((t.basic * 135) \div Thousand) < rate.minRemittance
          \/ ~scheme /\ t.pfEmployer > 0
          \/ scheme /\ t.pfEmployer > 0 /\ (t.pf + t.pfEmployer) * Thousand > cap

(* deduction_adjustments, where it does not raise: every figure is rounded. *)
Adjustments(rate, t, evidence, month) ==
    LET strict == rate.policy >= 1
        award == AwardFor(evidence, month)
        qualifies == ~strict \/ Junior(rate, evidence)
        pfCap == AtLeast(t.basic * rate.pfLimit - t.pfEmployer * Thousand, 0) IN
    [ssnit |-> Money((t.basic * rate.ssfEmployee) \div Thousand),
     pf |-> IF ~strict THEN Money(t.pf)
            ELSE IF evidence.pfScheme THEN Money(AtMost(t.pf * Thousand, pfCap) \div Thousand)
            ELSE 0,
     relief |-> IF ~strict THEN Money(t.relief)
                ELSE IF ValidAward(award, month) THEN award.amount ELSE 0,
     overtimeTax |-> IF qualifies THEN ComputeOvertimeTax(rate, t.overtime, t.basic) ELSE 0,
     overtimeOrdinary |-> IF qualifies THEN 0 ELSE Money(t.overtime)]

-----------------------------------------------------------------------------
(* The engines.  Each returns the stored figures of one item.               *)

(* taxable_income: below zero only under the historical policy. *)
TaxableAfter(rate, before, relief) ==
    IF rate.policy >= 1
      THEN AtLeast(0, before - AtMost(relief, AtLeast(0, before)))
      ELSE before - relief

Figures(v, gross, taxable, excess, paye, ssnit, deductions, net) ==
    [by |-> v, gross |-> gross, taxable |-> taxable, excess |-> excess, paye |-> paye,
     ssnit |-> ssnit, deductions |-> deductions, net |-> net]

(* Whole pesewas as thousandths, and thousandths as whole pesewas.           *)
Exact(i) == [c \in DOMAIN i |-> IF c = "member" THEN i[c] ELSE i[c] * Thousand]

(* Mutant: what is finer than a pesewa is cut off. *)
CutOff(t) == [c \in DOMAIN t |-> IF c = "member" THEN t[c] ELSE t[c] \div Thousand]

Rounded(t) == [c \in DOMAIN t |-> IF c = "member" THEN t[c] ELSE Money(t[c])]

(* SalariedCalculator.calculate rounds every column before anything else,    *)
(* and hands the rounded ones back to the item.                              *)
Salaried(v, rate, t, used, evidence, month) ==
    LET i == Rounded(t)
        a == Adjustments(rate, Exact(i), evidence, month)
        split == SplitBonus(rate, i.bonus * Thousand, i.basic * Thousand, used)
        before == i.basic - a.ssnit + i.allowances + i.difference + split[2]
                    + a.overtimeOrdinary - a.pf
        taxable == TaxableAfter(rate, before, a.relief)
        paye == ComputePaye(rate.bands, taxable) + a.overtimeTax + split[1]
        gross == i.basic + i.allowances + i.bonus + i.overtime + i.difference
        deductions == a.ssnit + paye + i.pf + i.loan + i.welfare + i.other IN
    Figures(v, gross, taxable, split[2], paye, a.ssnit, deductions,
            gross - deductions + i.advance)

(* HourlyShiftCalculator: lines of hours at a rate, each rounded, summed by  *)
(* category, then _apply_statutory.  The provident fund and the relief are   *)
(* used as they were typed, post-tax deductions and advances not at all.     *)
Hourly(v, rate, t, used, evidence, month) ==
    LET i == Rounded(t)
        lines == [t EXCEPT !.basic = i.basic * Thousand, !.overtime = i.overtime * Thousand]
        a == Adjustments(rate, lines, evidence, month)
        split == SplitBonus(rate, i.bonus * Thousand, i.basic * Thousand, used)
        before == i.basic - a.ssnit + i.allowances + i.difference + split[2]
                    + a.overtimeOrdinary - a.pf
        taxable == TaxableAfter(rate, before, a.relief)
        paye == ComputePaye(rate.bands, taxable) + a.overtimeTax + split[1]
        gross == i.basic + i.overtime + i.bonus + i.allowances + i.difference
        deductions == Money((a.ssnit + paye) * Thousand + t.pf) IN
    Figures(v, gross, taxable, split[2], paye, a.ssnit, deductions, gross - deductions)

(* compute_payslip with net_pay: union dues, and no advance.  Nothing that   *)
(* goes in is rounded but the overtime, a sum of rounded lines.              *)
RawPayslip(v, rate, t, used, evidence, month) ==
    LET overtime == Money(t.overtime)
        costed == [t EXCEPT !.overtime = overtime * Thousand]
        a == Adjustments(rate, costed, evidence, month)
        split == SplitBonus(rate, t.bonus, t.basic, used)
        netBasic == Money(t.basic - a.ssnit * Thousand)
        before == Money((netBasic - a.pf + split[2] + a.overtimeOrdinary) * Thousand
                          + t.allowances + t.difference)
        taxable == TaxableAfter(rate, before, a.relief)
        paye == ComputePaye(rate.bands, taxable) + a.overtimeTax + split[1]
        gross == Money(t.basic + overtime * Thousand + t.allowances + t.bonus + t.difference)
        deductions == Money((paye + a.ssnit + IcuDues(rate, t.basic, t.member)) * Thousand
                              + t.pf + t.loan + t.welfare + t.other) IN
    Figures(v, gross, taxable, split[2], paye, a.ssnit, deductions, gross - deductions)

(* verify_statutory_invariants, for one item. *)
InvariantsHold(rate, i, f) ==
    /\ f.net <= f.gross + i.advance + 1
    /\ Distance(f.ssnit, Money(i.basic * rate.ssfEmployee)) <= 1
=============================================================================
