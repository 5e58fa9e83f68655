----------------------------- MODULE AuditPages -----------------------------
(***************************************************************************)
(* The operator's audit page (audit.py, paging.py): recorded actions and    *)
(* expenses, two tables, merged newest first and cut into pages.  Each page  *)
(* fetches from either table only as many rows as it can reach.             *)
(*                                                                          *)
(* Time is counted in half days: an instant has a day and a time of day.    *)
(***************************************************************************)
EXTENDS Integers, FiniteSets, Sequences

CONSTANTS
    AUDIT_PER_PAGE, \* rows on a page
    MaxSpend,       \* bound: expenses ever recorded
    MaxTime         \* bound: half days

ASSUME PerPageAssumption == AUDIT_PER_PAGE \in Nat \ {0}

VARIABLES
    spend,      \* Expense rows, by id: [date, created]
    recorded,   \* expenses ever recorded
    trail,      \* AuditTrail rows, by the instant they were written
    now         \* the clock

trailVars == <<spend, recorded, trail, now>>

DayOf(time) == time \div 2
TimeOfDay(time) == time % 2

(* record_audit, in the transaction it tells of; no two commit at one instant.*)
RecordAudit == now \notin trail /\ trail' = trail \cup {now}

-----------------------------------------------------------------------------
(* What is written *)

(* A tenant's expense is not in the future; an operator's may be.             *)
Record(operator, date) ==
    /\ recorded < MaxSpend
    /\ operator \/ date <= DayOf(now)
    /\ recorded' = recorded + 1
    /\ spend' = [e \in DOMAIN spend \cup {recorded + 1} |->
                   IF e = recorded + 1 THEN [date |-> date, created |-> now] ELSE spend[e]]
    /\ RecordAudit
    /\ UNCHANGED now

Redate(e, date) ==
    /\ date <= DayOf(now)
    /\ spend' = [spend EXCEPT ![e].date = date]
    /\ RecordAudit
    /\ UNCHANGED <<recorded, now>>

Withdraw(e) ==
    /\ spend' = [d \in DOMAIN spend \ {e} |-> spend[d]]
    /\ RecordAudit
    /\ UNCHANGED <<recorded, now>>

Elsewhere == RecordAudit /\ UNCHANGED <<spend, recorded, now>>

Pass == now < MaxTime /\ now' = now + 1 /\ UNCHANGED <<spend, recorded, trail>>

-----------------------------------------------------------------------------
(* What is shown *)

(* Rows sorted by R, a set of pairs <<earlier, later>> of the list.           *)
Ahead(S, R, x) == {y \in S : <<y, x>> \in R}
Ordered(S, R) ==
    [n \in 1 .. Cardinality(S) |-> CHOOSE x \in S : Cardinality(Ahead(S, R, x)) = n - 1]

(* ORDER BY ... LIMIT n                                                      *)
FirstOf(S, R, n) == {x \in S : Cardinality(Ahead(S, R, x)) < n}

Entries == {x \in trail \X trail : x[1] > x[2]}
ByDate ==
    {x \in (DOMAIN spend) \X (DOMAIN spend) :
        \/ spend[x[1]].date > spend[x[2]].date
        \/ spend[x[1]].date = spend[x[2]].date /\ spend[x[1]].created > spend[x[2]].created}

(* The trail's rows: [kind, id, at], at what they are sorted by.  An expense   *)
(* takes the day it was incurred and the time of day it was entered.          *)
Entry(time) == [kind |-> "action", id |-> time, at |-> time]
ExpenseRow(e) ==
    [kind |-> "expense", id |-> e, at |-> (2 * spend[e].date) + TimeOfDay(spend[e].created)]

(* sorted is stable: rows at one time stay as they came, actions first and     *)
(* expenses as they were fetched.                                             *)
NewestFirst(rows) ==
    {x \in rows \X rows :
        \/ x[1].at > x[2].at
        \/ /\ x[1].at = x[2].at /\ x[2].kind = "expense"
           /\ x[1].kind = "action" \/ <<x[1].id, x[2].id>> \in ByDate}

BuildAuditRows(entries, list) ==
    LET rows == {Entry(time) : time \in entries} \cup {ExpenseRow(e) : e \in list}
    IN Ordered(rows, NewestFirst(rows))

FetchedEntries(kind, n) == IF kind = "expenses" THEN {} ELSE FirstOf(trail, Entries, n)
FetchedSpend(kind, n) == IF kind = "actions" THEN {} ELSE FirstOf(DOMAIN spend, ByDate, n)

(* Mutant: a page fetches one page of either table.                           *)
AuditPageShallow(kind, page) ==
    LET rows == BuildAuditRows(FetchedEntries(kind, AUDIT_PER_PAGE), FetchedSpend(kind, AUDIT_PER_PAGE))
        depth == page * AUDIT_PER_PAGE
    IN SubSeq(rows, depth - AUDIT_PER_PAGE + 1, IF depth < Len(rows) THEN depth ELSE Len(rows))

AuditPage(kind, page) ==
    LET depth == page * AUDIT_PER_PAGE
        rows == BuildAuditRows(FetchedEntries(kind, depth), FetchedSpend(kind, depth))
        start == (page - 1) * AUDIT_PER_PAGE
    IN SubSeq(rows, start + 1, IF depth < Len(rows) THEN depth ELSE Len(rows))

TrailTotal(kind) ==
    (IF kind = "expenses" THEN 0 ELSE Cardinality(trail))
    + (IF kind = "actions" THEN 0 ELSE Cardinality(DOMAIN spend))
TrailPages(kind) == (TrailTotal(kind) + AUDIT_PER_PAGE - 1) \div AUDIT_PER_PAGE

-----------------------------------------------------------------------------
TrailInit == spend = <<>> /\ recorded = 0 /\ trail = {} /\ now = 0

Days == 0 .. DayOf(MaxTime)

TrailNext ==
    \/ \E date \in Days :
          \/ \E operator \in BOOLEAN : Record(operator, date)
          \/ \E e \in DOMAIN spend : Redate(e, date)
    \/ \E e \in DOMAIN spend : Withdraw(e)
    \/ Elsewhere
    \/ Pass

TrailSpec == TrailInit /\ [][TrailNext]_trailVars

-----------------------------------------------------------------------------
(* What there is to show.                                                     *)
TrailRows(kind) ==
    (IF kind = "expenses" THEN {} ELSE {Entry(time) : time \in trail})
      \cup (IF kind = "actions" THEN {} ELSE {ExpenseRow(e) : e \in DOMAIN spend})

(* The pages together show every row, once, and newest first                  *)
(* (audit.audit_trail, "Recorded actions and expenses merged newest first,    *)
(* paged exactly"), as long as expenses incurred on one day were entered in    *)
(* the order of their times of day: the database orders them by when they     *)
(* were entered, the page by the time of day alone.                           *)
PagedExactly ==
    (\A d, e \in DOMAIN spend :
        spend[d].date = spend[e].date /\ spend[d].created < spend[e].created
        => TimeOfDay(spend[d].created) <= TimeOfDay(spend[e].created))
    => \A kind \in {"all", "actions", "expenses"} :
          LET pages == [page \in 1 .. TrailPages(kind) |-> AuditPage(kind, page)]
          IN /\ \A row \in TrailRows(kind) :
                   \E p \in DOMAIN pages : \E i \in DOMAIN pages[p] : pages[p][i] = row
             /\ \A p, q \in DOMAIN pages : \A i \in DOMAIN pages[p], j \in DOMAIN pages[q] :
                   p < q \/ (p = q /\ i < j) =>
                      pages[p][i] # pages[q][j] /\ pages[p][i].at >= pages[q][j].at
=============================================================================
