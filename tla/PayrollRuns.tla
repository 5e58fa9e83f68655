---------------------------- MODULE PayrollRuns ----------------------------
(***************************************************************************)
(* The PayrollRun rows of one client: how they are imported, replaced,      *)
(* edited, risk-checked, approved, closed, distributed and deleted          *)
(* (payroll.py, client/__init__.py, client/raw.py, raw_engine/web.py,       *)
(* oversight/__init__.py, risk.py).                                         *)
(*                                                                          *)
(* A route reads its rows, checks its guard, and commits later; gunicorn    *)
(* runs four such threads at once.  So a route is a "Loads" action, which   *)
(* checks and remembers what was read, and a "Commits" action.  The ORM     *)
(* writes a column only if its new value differs from the one that was      *)
(* read; updating a row someone deleted raises StaleDataError, deleting it  *)
(* again does not.  The database is PostgreSQL, which enforces foreign      *)
(* keys.  Money is abstracted to one fact per run: whether the stored       *)
(* figures were computed from the stored inputs.                            *)
(***************************************************************************)
EXTENDS Integers, FiniteSets, FiniteSetsExt

CONSTANTS
    Requests,       \* web request threads
    Imports,        \* uploaded drafts (ImportBatch)
    PeriodOf,       \* the month each draft is for
    PlaneOf,        \* who uploaded it: "operator" or "client"
    RawPeriods,     \* months raw-hours workbooks are confirmed for
    FirstRunsHeld,  \* FIRST_N_RUNS_HELD
    MaxRuns,        \* bound: runs ever created
    MaxRequests     \* bound: requests that get past their guard

ASSUME ImportsAssumption == PlaneOf \in [Imports -> {"operator", "client"}]
ASSUME LimitsAssumption == FirstRunsHeld \in Nat
ASSUME BoundsAssumption == MaxRuns \in Nat /\ MaxRequests \in Nat

Runs == 1..MaxRuns
Periods == {PeriodOf[i] : i \in Imports} \cup RawPeriods

ASSUME PeriodsAssumption == "none" \notin Periods

VARIABLES
    status,     \* PayrollRun.status; "none" before it exists, "deleted" after
    risk,       \* PayrollRun.risk_status
    period,     \* (month, year)
    raw,        \* upload_type = "raw"
    staffed,    \* total_workers > 0
    stale,      \* the stored figures do not follow from the stored inputs
    batched,    \* a DistributionBatch row refers to the run
    queued,     \* ... and one of them is unfinished
    sent,       \* a PayslipDelivery of the run is `sent`
    imported,   \* ImportBatch.payroll_run_id: 0 for NULL, Gone when deleted
    req,        \* what each request thread has read
    signedOff,  \* history: runs that were Approved or Processed at some time
    requests    \* how much of MaxRequests is used

runVars == <<status, risk, period, raw, staffed, stale>>
sendVars == <<batched, queued, sent>>
vars == <<runVars, sendVars, imported, req, signedOff, requests>>

Gone == -1

RunStatuses == {"Draft", "Pending Approval", "Approved", "Rejected", "Processed", "Held",
                "Auto-Accepted"}
RISK_GATED_STATUSES == {"Draft", "Pending Approval", "Held", "Auto-Accepted"}
PENDING_STATUSES == {"Draft", "Pending Approval"}
SENDABLE_STATUSES == {"Approved", "Processed"}
CLOSED_STATUSES == {"Approved", "Processed"}
DELETABLE_STATUSES == {"Draft", "Rejected"}
RiskStatuses == {"unscored", "held", "accepted", "released"}

(* The status a route writes, for the routes that write one; mark_paid and   *)
(* export both "process" a run.                                              *)
Target == [submit |-> "Pending Approval", approve |-> "Approved", reject |-> "Rejected",
           process |-> "Processed", risk_held |-> "Held", risk_accepted |-> "Auto-Accepted",
           release |-> "Pending Approval"]
Ops == DOMAIN Target \cup {"idle", "calculate", "edit", "distribute", "delete", "confirm"}

Idle == [op |-> "idle", runs |-> {}, moved |-> {}, scored |-> {}, import |-> "none"]

Live == {r \in Runs : status[r] \in RunStatuses}

(* Well-typed; and an import draft never points to a deleted run, so that      *)
(* reopening it never redirects to a page that does not exist.                 *)
TypeOK ==
    /\ status \in [Runs -> RunStatuses \cup {"none", "deleted"}]
    /\ risk \in [Runs -> RiskStatuses]
    /\ period \in [Runs -> Periods \cup {"none"}]
    /\ raw \in [Runs -> BOOLEAN]
    /\ staffed \in [Runs -> BOOLEAN]
    /\ stale \in [Runs -> BOOLEAN]
    /\ batched \in [Runs -> BOOLEAN]
    /\ queued \in [Runs -> BOOLEAN]
    /\ sent \in [Runs -> BOOLEAN]
    /\ imported \in [Imports -> Runs \cup {0, Gone}]
    /\ \A i \in Imports : imported[i] \in Runs => imported[i] \in Live
    /\ req \in [Requests -> [op : Ops, runs : SUBSET Runs, moved : SUBSET Runs,
                             scored : SUBSET Runs, import : Imports \cup {"none"}]]
    /\ \A q \in Requests : req[q].moved \cup req[q].scored \subseteq req[q].runs
    /\ signedOff \subseteq Runs
    /\ requests \in 0..MaxRequests
    /\ \A r \in Runs : period[r] = "none" <=> status[r] \in {"none", "deleted"}

Unused == {r \in Runs : status[r] = "none"}
Of(p) == {r \in Live : period[r] = p}

Init ==
    /\ status = [r \in Runs |-> "none"]
    /\ risk = [r \in Runs |-> "unscored"]
    /\ period = [r \in Runs |-> "none"]
    /\ raw = [r \in Runs |-> FALSE]
    /\ staffed = [r \in Runs |-> FALSE]
    /\ stale = [r \in Runs |-> FALSE]
    /\ batched = [r \in Runs |-> FALSE]
    /\ queued = [r \in Runs |-> FALSE]
    /\ sent = [r \in Runs |-> FALSE]
    /\ imported = [i \in Imports |-> 0]
    /\ req = [q \in Requests |-> Idle]
    /\ signedOff = {}
    /\ requests = 0

-----------------------------------------------------------------------------
(* Reading and finishing. *)

(* What the route makes of a run's risk_status. *)
RiskAfter(o, seen) ==
    CASE o = "risk_held" -> "held"
      [] o = "risk_accepted" -> "accepted"
      [] o = "release" /\ seen = "held" -> "released"
      [] OTHER -> seen

(* Thread q has read the runs of S and passed the guard of o.  `moved` and   *)
(* `scored` are the runs whose status and risk_status it will write.         *)
Begin(q, o, S, i) ==
    /\ req[q].op = "idle"
    /\ requests < MaxRequests
    /\ requests' = requests + 1
    /\ req' = [req EXCEPT ![q] =
                 [op |-> o, runs |-> S, import |-> i,
                  moved |-> {r \in S : o \in DOMAIN Target /\ status[r] # Target[o]},
                  scored |-> {r \in S : RiskAfter(o, risk[r]) # risk[r]}]]
    /\ UNCHANGED <<runVars, sendVars, imported, signedOff>>

Respond(q) == req' = [req EXCEPT ![q] = Idle] /\ UNCHANGED requests

(* The transaction raises and is rolled back. *)
Raise(q) == Respond(q) /\ UNCHANGED <<runVars, sendVars, imported, signedOff>>

RowsGone(q) == req[q].runs \ Live # {}

(* evaluate_run: the first runs of a client are held; a later one is held if *)
(* it strays from the last closed run, whose figures are not modelled.       *)
Verdicts(others) ==
    {v \in {"held", "accepted"} :
        IF v = "held" THEN \/ Cardinality(others) < FirstRunsHeld
                           \/ \E r \in others : status[r] \in CLOSED_STATUSES
                      ELSE Cardinality(others) >= FirstRunsHeld}

-----------------------------------------------------------------------------
(* Status changes. *)

(* submit_for_approval, approve, reject, mark_paid and export check the role *)
(* only, not the run.                                                        *)
StatusRouteLoads(q, r, o) ==
    /\ r \in Live
    /\ Begin(q, o, {r}, "none")

(* _bulk_apply keeps the selected runs that satisfy the predicate. *)
BulkLoads(q, S, o) ==
    LET eligible == {r \in S \cap Live : /\ status[r] \in PENDING_STATUSES
                                         /\ o = "approve" => staffed[r]} IN
    /\ eligible # {}
    /\ Begin(q, o, eligible, "none")

RiskCheckLoads(q, r) ==
    /\ status[r] \in RISK_GATED_STATUSES
    /\ \E v \in Verdicts(Live \ {r}) :
         Begin(q, IF v = "held" THEN "risk_held" ELSE "risk_accepted", {r}, "none")

ReleaseLoads(q, r) ==
    /\ status[r] = "Held"
    /\ Begin(q, "release", {r}, "none")

StatusCommits(q) ==
    LET o == req[q].op IN
    /\ o \in DOMAIN Target
    /\ IF RowsGone(q)
         THEN Raise(q)
         ELSE /\ status' = [r \in Runs |-> IF r \in req[q].moved THEN Target[o] ELSE status[r]]
              /\ risk' = [r \in Runs |-> IF r \in req[q].scored THEN RiskAfter(o, "held")
                                                                 ELSE risk[r]]
              /\ signedOff' = signedOff \cup
                                {r \in req[q].runs : status'[r] \in SENDABLE_STATUSES}
              /\ Respond(q)
              /\ UNCHANGED <<period, raw, staffed, stale, sendVars, imported>>

-----------------------------------------------------------------------------
(* Figures. *)

CalculateLoads(q, r) ==
    /\ status[r] \in PENDING_STATUSES
    /\ ~raw[r]
    /\ Begin(q, "calculate", {r}, "none")

(* recalculate_salaried_items and refresh_run_totals. *)
CalculateCommits(q) ==
    /\ req[q].op = "calculate"
    /\ IF RowsGone(q)
         THEN Raise(q)
         ELSE /\ stale' = [r \in Runs |-> stale[r] /\ r \notin req[q].runs]
              /\ Respond(q)
              /\ UNCHANGED <<status, risk, period, raw, staffed, sendVars, imported, signedOff>>

EditLoads(q, r) ==
    /\ status[r] = "Draft"
    /\ ~raw[r] /\ staffed[r]
    /\ Begin(q, "edit", {r}, "none")

EditCommits(q) ==
    /\ req[q].op = "edit"
    /\ IF RowsGone(q)
         THEN Raise(q)
         ELSE /\ stale' = [r \in Runs |-> stale[r] \/ r \in req[q].runs]
              /\ Respond(q)
              /\ UNCHANGED <<status, risk, period, raw, staffed, sendVars, imported, signedOff>>

-----------------------------------------------------------------------------
(* Distribution, as the runs see it. *)

(* Mutant of DistributeLoads: a run awaiting approval may be sent, too. *)
DistributeEarly(q, r) ==
    /\ status[r] \in SENDABLE_STATUSES \cup {"Pending Approval"}
    /\ Begin(q, "distribute", {r}, "none")

DistributeLoads(q, r) ==
    /\ status[r] \in SENDABLE_STATUSES
    /\ Begin(q, "distribute", {r}, "none")

DistributeCommits(q) ==
    /\ req[q].op = "distribute"
    /\ IF RowsGone(q)
         THEN Raise(q)
         ELSE /\ batched' = [r \in Runs |-> batched[r] \/ r \in req[q].runs]
              /\ queued' = [r \in Runs |-> queued[r] \/ r \in req[q].runs]
              /\ Respond(q)
              /\ UNCHANGED <<runVars, sent, imported, signedOff>>

(* process_batch: any part of the run's payslips may go out. *)
BatchEnds(r) ==
    /\ queued[r]
    /\ queued' = [queued EXCEPT ![r] = FALSE]
    /\ \E some \in BOOLEAN : sent' = [sent EXCEPT ![r] = @ \/ (some /\ staffed[r])]
    /\ UNCHANGED <<runVars, batched, imported, req, signedOff, requests>>

BatchCancelled(r) ==
    /\ queued[r]
    /\ queued' = [queued EXCEPT ![r] = FALSE]
    /\ UNCHANGED <<runVars, batched, sent, imported, req, signedOff, requests>>

-----------------------------------------------------------------------------
(* Deleting, importing and replacing. *)

DeleteLoads(q, r) ==
    /\ status[r] \in DELETABLE_STATUSES
    /\ ~sent[r]
    /\ Begin(q, "delete", {r}, "none")

PurgesBatches(S) == FALSE       \* mutant of PurgeRefused: the batches are purged as well
KeepsDrafts(S) == imported      \* mutant of DraftsAfter

(* purge_payroll_run: the run with its deliveries, items and drafts; not its *)
(* DistributionBatch rows, whose foreign key then refuses the DELETE.        *)
PurgeRefused(S) == \E r \in S \cap Live : batched[r]

Purged(S) == [r \in Runs |-> IF r \in S THEN "deleted" ELSE status[r]]
Without(f, S, default) == [r \in Runs |-> IF r \in S THEN default ELSE f[r]]
DraftsAfter(S) == [i \in Imports |-> IF imported[i] \in S THEN Gone ELSE imported[i]]

DeleteCommits(q) ==
    LET S == req[q].runs IN
    /\ req[q].op = "delete"
    /\ IF PurgeRefused(S)
         THEN Raise(q)
         ELSE /\ status' = Purged(S)
              /\ imported' = DraftsAfter(S)
              /\ risk' = Without(risk, S, "unscored")
              /\ period' = Without(period, S, "none")
              /\ raw' = Without(raw, S, FALSE)
              /\ staffed' = Without(staffed, S, FALSE)
              /\ stale' = Without(stale, S, FALSE)
              /\ sent' = Without(sent, S, FALSE)
              /\ Respond(q)
              /\ UNCHANGED <<batched, queued, signedOff>>

(* confirm (replacement ticked) and import_confirm: the runs of the month    *)
(* must all be replaceable, by each plane's own rule.                        *)
Replaceable(plane, r) ==
    /\ ~sent[r]
    /\ IF plane = "operator" THEN status[r] \in DELETABLE_STATUSES
                             ELSE status[r] # "Processed"

ConfirmLoads(q, i) ==
    /\ imported[i] # Gone
    /\ PlaneOf[i] = "client" => imported[i] = 0
    /\ Unused # {}
    /\ \A r \in Of(PeriodOf[i]) : Replaceable(PlaneOf[i], r)
    /\ Begin(q, "confirm", Of(PeriodOf[i]), i)

(* Run r is inserted and the runs of S purged: a Draft from an operator,     *)
(* scored at once from a client.                                             *)
Creates(r, p, plane, isRaw, S) ==
    \E v \in Verdicts(Live \ S), hasRows \in BOOLEAN, uncomputed \in BOOLEAN :
      /\ isRaw => ~uncomputed
      /\ status' = [Purged(S) EXCEPT ![r] = IF plane = "operator" THEN "Draft"
                                            ELSE IF v = "held" THEN "Held" ELSE "Auto-Accepted"]
      /\ risk' = [Without(risk, S, "unscored") EXCEPT ![r] =
                    IF plane = "operator" THEN "unscored" ELSE v]
      /\ period' = [Without(period, S, "none") EXCEPT ![r] = p]
      /\ raw' = [Without(raw, S, FALSE) EXCEPT ![r] = isRaw]
      /\ staffed' = [Without(staffed, S, FALSE) EXCEPT ![r] = hasRows]
      /\ stale' = [Without(stale, S, FALSE) EXCEPT ![r] = uncomputed]

(* create_payroll_run_from_payload in the transaction that purges. *)
ConfirmCommits(q) ==
    LET S == req[q].runs
        i == req[q].import
        new == Min(Unused)
    IN
    /\ req[q].op = "confirm"
    /\ Unused # {}
    /\ IF PurgeRefused(S) \/ imported[i] = Gone
         THEN Raise(q)
         ELSE /\ Creates(new, PeriodOf[i], PlaneOf[i], FALSE, S)
              /\ imported' = [DraftsAfter(S) EXCEPT ![i] = IF @ = Gone THEN Gone ELSE new]
              /\ sent' = Without(sent, S, FALSE)
              /\ Respond(q)
              /\ UNCHANGED <<batched, queued, signedOff>>

(* import_discard: only a draft that has not become a run. *)
Discard(i) ==
    /\ PlaneOf[i] = "client" /\ imported[i] = 0
    /\ imported' = [imported EXCEPT ![i] = Gone]
    /\ UNCHANGED <<runVars, sendVars, req, signedOff, requests>>

(* raw_confirm and the raw engine's confirm: one transaction, no look at the *)
(* runs of the month.                                                        *)
RawConfirm(p, plane) ==
    /\ Unused # {}
    /\ Creates(Min(Unused), p, plane, TRUE, {})
    /\ UNCHANGED <<sendVars, imported, req, signedOff, requests>>

-----------------------------------------------------------------------------
Next ==
    \/ \E q \in Requests, r \in Runs :
         \/ \E o \in {"submit", "approve", "reject", "process"} :
              StatusRouteLoads(q, r, o)
         \/ RiskCheckLoads(q, r)
         \/ ReleaseLoads(q, r)
         \/ CalculateLoads(q, r)
         \/ EditLoads(q, r)
         \/ DistributeLoads(q, r)
         \/ DeleteLoads(q, r)
    \/ \E q \in Requests, S \in SUBSET Runs, o \in {"approve", "reject"} :
         BulkLoads(q, S, o)
    \/ \E q \in Requests, i \in Imports : ConfirmLoads(q, i)
    \/ \E q \in Requests :
         \/ StatusCommits(q)
         \/ CalculateCommits(q)
         \/ EditCommits(q)
         \/ DistributeCommits(q)
         \/ DeleteCommits(q)
         \/ ConfirmCommits(q)
    \/ \E r \in Runs : BatchEnds(r) \/ BatchCancelled(r)
    \/ \E i \in Imports : Discard(i)
    \/ \E p \in RawPeriods, plane \in {"operator", "client"} : RawConfirm(p, plane)

Spec == Init /\ [][Next]_vars

-----------------------------------------------------------------------------
(* Properties. *)

(* No payslip goes out for a run that nobody ever approved or closed: the    *)
(* gate of _do_send, schedule and bulk_distribute holds up to the worker,    *)
(* whatever the other threads do to the run in between.                      *)
NoUnsignedPayslip == \A r \in Runs : sent[r] => r \in signedOff

(* A run with a sent payslip is never deleted, by any path and in any race:  *)
(* payroll_run_record_blockers is checked at load, and for a payslip sent    *)
(* after that the foreign key of the batch that sent it refuses the purge.   *)
SentSurvives == [][\A r \in Runs : sent[r] => status'[r] # "deleted"]_vars
=============================================================================
