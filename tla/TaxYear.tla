------------------------------ MODULE TaxYear ------------------------------
(***************************************************************************)
(* The payroll runs of one client in one tax year and what is calculated    *)
(* into them: statutory rate versions (statutory.new, active_for,           *)
(* statutory_rate_for_run), the calculation of a whole run                  *)
(* (recalculate_salaried_items, auto_calculate_on_confirm, calculate), grid *)
(* edits, and the annual bonus concession that the runs of a worker share   *)
(* (bonus_concession_used_ytd_bulk).                                        *)
(*                                                                          *)
(* Requests are taken one at a time here; crossing requests on one run are  *)
(* the subject of PayrollRuns.  What is hard is the order of whole          *)
(* requests: runs calculated before and after others are closed, versions   *)
(* added behind runs that are already closed, a row that stops a            *)
(* calculation half-way.                                                    *)
(*                                                                          *)
(* Input columns are kept in whole pesewas here, as a calculation hands     *)
(* them back to the item; what finer figures come to in each engine is      *)
(* asked of every calculated item by EnginesAgree.                          *)
(***************************************************************************)
EXTENDS Statutory

CONSTANTS
    MaxWorkers,     \* roster employees, each with one item in every run
    MaxRuns,        \* runs of the year
    MonthOf,        \* the month of each run, 1..12
    Sheets,         \* uploaded sheets: the inputs of each worker
    Edits,          \* what the grid may be made to hold for a worker
    Typed,          \* inputs finer than a pesewa, in thousandths of one
    Unproven,       \* a roster record without any evidence
    Evidences,      \* the evidence that may be recorded
    MaxVersions,    \* bound: statutory rate versions
    Offers,         \* versions an administrator may enter: rows, rates, month
    PolicyMonth,    \* versions effective from this month on are policy 1
    MaxRequests     \* bound: requests that write

Workers == 1..MaxWorkers
Runs == 1..MaxRuns
Versions == 1..MaxVersions

ASSUME BoundsAssumption ==
    /\ MaxWorkers \in Nat /\ MaxRuns \in Nat /\ MaxVersions \in Nat /\ MaxRequests \in Nat
    /\ PolicyMonth \in Nat
ASSUME MonthsAssumption == MonthOf \in [Runs -> 1..12]
ASSUME InputsAssumption ==
    Sheets \subseteq [Workers -> Items] /\ Edits \cup Typed \subseteq Items
ASSUME EvidenceAssumption == Evidences \cup {Unproven} \subseteq Evidence
ASSUME OffersAssumption ==
    Offers \subseteq [month : 1..12, rows : Seq(Int \X Int), columns : Columns, incomes : Nat]

VARIABLES
    effective,  \* StatutoryRate.effective_from as a month; 0: no such version
    rates,      \* ... and its columns
    status,     \* PayrollRun.status; "none" before the import
    stamp,      \* PayrollRun.statutory_rate_id; 0: NULL
    totalNet,   \* PayrollRun.total_net_pay
    items,      \* PayrollItem input columns, per run and worker
    figures,    \* PayrollItem computed columns, per run and worker
    evidence,   \* Employee columns and relief awards
    seen,       \* history: runs that were closed when this one was calculated
    sound,      \* history: runs whose figures follow from their inputs, and were
                \* calculated when no closed run had used less than nothing
    requests    \* how much of MaxRequests is used

rateVars == <<effective, rates>>
runVars == <<status, stamp, totalNet, items, figures>>
history == <<seen, sound>>
vars == <<rateVars, runVars, evidence, history, requests>>

Statuses == {"none", "Draft", "Pending Approval", "Auto-Accepted", "Approved", "Rejected",
             "Processed"}
PENDING_STATUSES == {"Draft", "Pending Approval"}
CLOSED_STATUSES == {"Approved", "Processed"}

Closed == {r \in Runs : status[r] \in CLOSED_STATUSES}
NoItem == [basic |-> 0, allowances |-> 0, difference |-> 0, bonus |-> 0, overtime |-> 0, pf |-> 0,
           pfEmployer |-> 0, relief |-> 0, loan |-> 0, welfare |-> 0, other |-> 0, advance |-> 0,
           member |-> FALSE]
Blank == Figures(0, 0, 0, 0, 0, 0, 0, 0)

TypeOK ==
    /\ effective \in [Versions -> 0..12]
    /\ DOMAIN rates = Versions
    /\ \A v \in Versions : effective[v] # 0 => rates[v] \in Columns
    /\ status \in [Runs -> Statuses]
    /\ stamp \in [Runs -> Versions \cup {0}]
    /\ totalNet \in [Runs -> Int]
    /\ items \in [Runs -> [Workers -> Items]]
    /\ figures \in [Runs -> [Workers -> Computed]]
    /\ \A r \in Runs, w \in Workers :
          figures[r][w].by # 0 => /\ figures[r][w].by \in Versions
                                  /\ effective[figures[r][w].by] # 0
    /\ evidence \in [Workers -> Evidence]
    /\ seen \in [Runs -> SUBSET Runs]
    /\ sound \subseteq Runs
    /\ requests \in 0..MaxRequests

Init ==
    /\ effective = [v \in Versions |-> 0]
    /\ rates = [v \in Versions |-> <<>>]
    /\ status = [r \in Runs |-> "none"]
    /\ stamp = [r \in Runs |-> 0]
    /\ totalNet = [r \in Runs |-> 0]
    /\ items = [r \in Runs |-> [w \in Workers |-> NoItem]]
    /\ figures = [r \in Runs |-> [w \in Workers |-> Blank]]
    /\ evidence = [w \in Workers |-> Unproven]
    /\ seen = [r \in Runs |-> {}]
    /\ sound = {}
    /\ requests = 0

Request ==
    /\ requests < MaxRequests
    /\ requests' = requests + 1

SumNet(f) == Total(MaxWorkers, [w \in Workers |-> f[w].net])

-----------------------------------------------------------------------------
(* statutory.new: a version is only ever added, one per date. *)
NewVersion(v, offer) ==
    /\ v = 1 + Cardinality({w \in Versions : effective[w] # 0})
    /\ RowsAccepted(offer.rows)
    /\ \A w \in Versions : effective[w] # offer.month
    /\ Request
    /\ effective' = [effective EXCEPT ![v] = offer.month]
    /\ rates' = [rates EXCEPT ![v] =
                    [offer.columns EXCEPT !.bands = BandsFromRows(offer.rows),
                                          !.policy = IF offer.month >= PolicyMonth THEN 1 ELSE 0]]
    /\ UNCHANGED <<runVars, evidence, history>>

(* bonus_concession_used_ytd_bulk: what a worker's other closed runs of the *)
(* year have used.                                                          *)
Used(r, w) == items[r][w].bonus - figures[r][w].excess
UsedIn(S, w) == Total(MaxRuns, [r \in Runs |-> IF r \in S THEN Used(r, w) ELSE 0])
UsedYtd(w, r) == UsedIn(Closed \ {r}, w)

(* Mutant: the cap is one run's, not the year's. *)
ItemOnItsOwn(r, v, w, i) == Salaried(v, rates[v], Exact(i), 0, evidence[w], MonthOf[r])

(* _calculate_item *)
CalculateItem(r, v, w, i) ==
    Salaried(v, rates[v], Exact(i), UsedYtd(w, r), evidence[w], MonthOf[r])

Refused(v, its) == \E w \in Workers : PolicyRefuses(rates[v], Exact(its[w]), evidence[w])

(* recalculate_salaried_items: the results are staged, so that a worker the *)
(* policy cannot cost stops the run before anything is written.             *)
Recalculated(r, v, its, old) ==
    IF Refused(v, its) THEN old ELSE [w \in Workers |-> CalculateItem(r, v, w, its[w])]

Verified(v, its, f) == \A w \in Workers : InvariantsHold(rates[v], its[w], f[w])

(* The history of a calculation of run r with figures f. *)
Remember(r, f) ==
    /\ seen' = [s \in Runs |-> IF s = r THEN Closed \ {r} ELSE seen[s] \ {r}]
    /\ sound' = IF \A w \in Workers :
                     f[w].by # 0 /\ \A s \in Closed \ {r} : Used(s, w) >= 0
                  THEN sound \cup {r} ELSE sound \ {r}

(* A sheet's own figures, kept when the calculation fails. *)
Uploaded(its) ==
    [w \in Workers |->
        [Blank EXCEPT !.gross = its[w].basic + its[w].allowances,
                      !.net = its[w].basic + its[w].allowances
                                - its[w].loan - its[w].welfare - its[w].other]]

(* create_payroll_run_from_payload with auto_calculate_on_confirm: whatever *)
(* stops the calculation, the import stands.  Without a version nothing is  *)
(* stamped; a refusal leaves the uploaded figures; a failed verification    *)
(* comes after the figures were written and before the totals are.          *)
Import(r, its, plane) ==
    LET v == ActiveFor(effective, MonthOf[r])
        f == IF v = 0 THEN Uploaded(its) ELSE Recalculated(r, v, its, Uploaded(its))
        failed == v = 0 \/ Refused(v, its) \/ ~Verified(v, its, f) IN
    /\ status[r] = "none"
    /\ \A w \in Workers : its[w].basic > 0 /\ its[w].pfEmployer >= 0
    /\ Request
    /\ status' = [status EXCEPT ![r] = IF plane = "client" THEN "Auto-Accepted" ELSE "Draft"]
    /\ stamp' = [stamp EXCEPT ![r] = v]
    /\ items' = [items EXCEPT ![r] = its]
    /\ figures' = [figures EXCEPT ![r] = f]
    /\ totalNet' = [totalNet EXCEPT ![r] = SumNet(IF failed THEN Uploaded(its) ELSE f)]
    /\ Remember(r, f)
    /\ UNCHANGED <<rateVars, evidence>>

(* calculate: an open run; a refusal or a failed verification rolls back. *)
Calculate(r) ==
    LET v == ActiveFor(effective, MonthOf[r])
        f == Recalculated(r, v, items[r], figures[r]) IN
    /\ status[r] \in PENDING_STATUSES
    /\ v # 0
    /\ ~Refused(v, items[r])
    /\ Verified(v, items[r], f)
    /\ Request
    /\ stamp' = [stamp EXCEPT ![r] = v]
    /\ figures' = [figures EXCEPT ![r] = f]
    /\ totalNet' = [totalNet EXCEPT ![r] = SumNet(f)]
    /\ Remember(r, f)
    /\ UNCHANGED <<rateVars, status, items, evidence>>

(* edit_items: inputs only, and only in Draft; negative values are ignored. *)
EditItem(r, w, i) ==
    /\ status[r] = "Draft"
    /\ i # items[r][w]
    /\ \A field \in DOMAIN i \ {"member"} : i[field] >= 0
    /\ Request
    /\ items' = [items EXCEPT ![r][w] = i]
    /\ sound' = sound \ {r}
    /\ UNCHANGED <<rateVars, status, stamp, totalNet, figures, evidence, seen>>

(* submit_for_approval, approve, reject, mark_paid: no status is checked. *)
Move(r, to) ==
    /\ status[r] \notin {"none", to}
    /\ Request
    /\ status' = [status EXCEPT ![r] = to]
    /\ UNCHANGED <<rateVars, stamp, totalNet, items, figures, evidence, history>>

(* The roster form: eligibility and relief evidence of a worker changes. *)
RecordEvidence(w, e) ==
    /\ e # evidence[w]
    /\ Request
    /\ evidence' = [evidence EXCEPT ![w] = e]
    /\ UNCHANGED <<rateVars, runVars, history>>

Next ==
    \/ \E v \in Versions, o \in Offers : NewVersion(v, o)
    \/ \E r \in Runs, its \in Sheets, p \in {"operator", "client"} : Import(r, its, p)
    \/ \E r \in Runs : Calculate(r)
    \/ \E r \in Runs, w \in Workers, i \in Edits : EditItem(r, w, i)
    \/ \E r \in Runs, to \in {"Pending Approval", "Approved", "Rejected", "Processed"} : Move(r, to)
    \/ \E w \in Workers, e \in Evidences : RecordEvidence(w, e)

Spec == Init /\ [][Next]_vars

-----------------------------------------------------------------------------
(* Every version taxes any income as its bands say, band by band, within    *)
(* the pesewa of the two roundings, in whatever order the bands were typed: *)
(* stored bases and thresholds cannot drift apart.                          *)
PayeIsMarginal ==
    \A v \in Versions : effective[v] # 0 =>
        \E o \in Offers :
            /\ o.month = effective[v]
            /\ \A t \in 0..o.incomes :
                 Distance(ComputePaye(rates[v].bands, t) * Thousand, TaxBelow(o.rows, t)) <= Thousand

(* What the engines make of the same inputs, under the rates, the evidence   *)
(* and the history of a calculated item ("identical inputs always produce    *)
(* identical figures" of README.md, test_engine_parity.py).  Inputs in whole *)
(* pesewas give identical figures, but for the union dues, which only the    *)
(* raw engine takes, and for what only salaried sheets hold.  Of inputs typed *)
(* finer the raw engine rounds sums where the salaried one sums roundings:   *)
(* their gross and their cash deductions still lie no more than two pesewas  *)
(* apart, the hourly engine's no more than the one of its provident fund.    *)
CashDeductions(f) == f.deductions - f.paye - f.ssnit

SheetOnly(t) == [t EXCEPT !.advance = 0]
HoursOnly(t) == [t EXCEPT !.advance = 0, !.loan = 0, !.welfare = 0, !.other = 0]
WithDues(f, dues) ==
    Figures(f.by, f.gross, f.taxable, f.excess, f.paye, f.ssnit, f.deductions + dues, f.net - dues)

EnginesAgreeOn(v, t, used, e, month) ==
    LET raw == RawPayslip(v, rates[v], t, used, e, month)
        hourly == Hourly(v, rates[v], t, used, e, month)
        sheet == Salaried(v, rates[v], SheetOnly(t), used, e, month)
        hours == Salaried(v, rates[v], HoursOnly(t), used, e, month)
        dues == IcuDues(rates[v], t.basic, t.member) IN
    /\ t = Exact(Rounded(t)) =>
         /\ raw = WithDues(sheet, dues)
         /\ hourly = hours
    /\ Distance(raw.gross, sheet.gross) <= 2
    /\ Distance(CashDeductions(raw), CashDeductions(sheet) + dues) <= 2
    /\ hourly.gross = hours.gross
    /\ Distance(CashDeductions(hourly), CashDeductions(hours)) <= 1

EnginesAgree ==
    \A r \in Runs, w \in Workers : figures[r][w].by # 0 =>
        LET v == figures[r][w].by IN
        \A t \in Typed \cup {Exact(items[r][w])} :
            (\A x \in {t, Exact(Rounded(t))} : ~PolicyRefuses(rates[v], x, evidence[w])) =>
                EnginesAgreeOn(v, t, UsedYtd(w, r), evidence[w], MonthOf[r])

(* The annual cap among runs that knew of each other: closed runs of which, *)
(* pairwise, one was calculated when the other was closed, use the          *)
(* concession of a worker's year once, that of the basic salary of one of   *)
(* them, and however many they are within half a pesewa.                    *)
KnownTo(S) == \A r, s \in S : r = s \/ r \in seen[s] \/ s \in seen[r]

UsedOnce(S, w) ==
    \E r \in S :
        LET cap == AtLeast(AnnualCap(rates[figures[r][w].by], items[r][w].basic), 0) IN
        2 * UsedIn(S, w) * Thousand <= 2 * cap + Thousand

CapAmongKnown ==
    \A S \in (SUBSET (Closed \cap sound)) \ {{}}, w \in Workers : KnownTo(S) => UsedOnce(S, w)
=============================================================================
