------------------------------- MODULE Roster -------------------------------
(***************************************************************************)
(* The roster of one client company: the operator's screens (employees.py), *)
(* the company's own (client/__init__.py), the bulk import, the workers a   *)
(* payroll upload creates (payroll.py), and the raw engine's seed           *)
(* (raw_engine/seed.py, store.py), which writes wage rates too.             *)
(*                                                                          *)
(* A handler reads the rows it needs and commits later; SQLAlchemy writes   *)
(* only the columns that differ from what it loaded.  No constraint keeps   *)
(* staff ids apart.  PostgreSQL enforces the foreign keys; SQLite, which    *)
(* the desktop edition uses, is opened without them and gives the highest   *)
(* id again once its row is gone.                                           *)
(***************************************************************************)
EXTENDS Integers, FiniteSets, Sequences, SequencesExt

CONSTANTS
    Reps,           \* request threads of operators and of the company's users
    Engines,        \* databases: a subset of {"postgresql", "sqlite"}
    TypedIds,       \* staff ids as they are typed into forms
    FirstRow,       \* the worker on file at the start, as Row builds it
    FirstRates,     \* the categories of that worker's rates
    ReliefForms,     \* [relief, doc, sound]: the evidence fields of a form
    SeedFiles,      \* rich workbooks: sequences of [raw, basic, hourly, relief, rates]
    BulkFiles,      \* roster workbooks: sequences of [raw, named, email]
    PayrollRows,    \* rows of a payroll upload: [raw, basic, email, status], status "" if blank
    MaxRows,        \* bound: employee rows ever inserted
    MaxRequests     \* bound: requests ever begun

ASSUME FilesAssumption ==
    /\ Engines \subseteq {"postgresql", "sqlite"}
    /\ \A file \in BulkFiles \cup SeedFiles : DOMAIN file = 1 .. Len(file) /\ Len(file) \in Nat

(* A staff id as typed or read from a file: letters, and how they are spelt.  *)
IsRaw(raw) == raw = [id |-> raw.id, spelt |-> raw.spelt]
ASSUME RawIdsAssumption ==
    /\ \A raw \in TypedIds : IsRaw(raw)
    /\ \A x \in PayrollRows : IsRaw(x.raw)
    /\ \A file \in BulkFiles \cup SeedFiles : \A i \in DOMAIN file : IsRaw(file[i].raw)

VARIABLES
    engine,     \* the database
    roster,     \* Employee rows of the company, by id
    awards,     \* EmployeeTaxReliefApproval rows, by employee and in the order of their ids
    rates,      \* WageRateProfile rows: [emp, category, of], of: the worker they were written for
    items,      \* PayrollItem rows: [emp, of]
    made,       \* employee rows ever inserted
    doing,      \* per thread: the request it is in, as a sequence of at most one
    shown,      \* per thread: the confirmation page of a pay type change, or <<>>
    staged,     \* per session: the import file staged for confirmation, or <<>>
    requests,   \* requests begun
    crossed,    \* history: a commit met rows that were not as its request had read them
    repeated    \* history: a seed named a new worker twice

dataVars == <<roster, awards, rates, items, made>>
rosterVars == <<engine, dataVars, doing, shown, staged, requests, crossed, repeated>>

Db == [roster |-> roster, awards |-> awards, rates |-> rates, items |-> items, made |-> made]
Store(d) ==
    /\ roster' = d.roster /\ awards' = d.awards /\ rates' = d.rates
    /\ items' = d.items /\ made' = d.made

-----------------------------------------------------------------------------
(* Rows *)

With(f, id, v) == [e \in DOMAIN f \cup {id} |-> IF e = id THEN v ELSE f[e]]
Without(f, id) == [e \in DOMAIN f \ {id} |-> f[e]]

(* The last of some ids.                                                     *)
LatestOf(ids) == CHOOSE e \in ids : \A f \in ids : f <= e

(* A staff id as typed: its letters and how they are spaced and cased.       *)
NormaliseEmpId(raw) == [raw EXCEPT !.spelt = "plain"]

Row(staff, basic) ==
    [staff |-> staff, status |-> "Active", pay |-> "", basic |-> basic,
     relief |-> 0, doc |-> "none", email |-> FALSE]

FreshId(d) ==
    IF engine = "sqlite" THEN LatestOf(DOMAIN d.roster \cup {0}) + 1 ELSE d.made + 1

Insert(d, row) ==
    LET id == FreshId(d)
    IN [d EXCEPT !.roster = With(@, id, [row |-> row, uid |-> d.made + 1]),
                 !.awards = With(@, id, <<>>), !.made = @ + 1]

(* An UPDATE names the columns that differ from the loaded row.              *)
Merged(row, loaded, current) ==
    [f \in DOMAIN row |-> IF row[f] # loaded[f] THEN row[f] ELSE current[f]]
Update(d, id, loaded, row) == [d EXCEPT !.roster[id].row = Merged(row, loaded, @)]

(* {e.staff_id: e}: of two rows with one staff id, the later read wins.      *)
Existing(rows, staff) == {e \in DOMAIN rows : rows[e].row.staff = staff}

(* The rows of some staff ids are not those the request read.                *)
Held(rows, staff) == {<<e, rows[e].uid>> : e \in Existing(rows, staff)}
Crosses(q, ids) == \E staff \in ids : Held(roster, staff) # Held(q.seen, staff)

HasBasicRate(d, id) == \E x \in d.rates : x.emp = id /\ x.category = "basic"

(* Whether the raw engine's next computation finds a basic for the worker.   *)
PaidBasic(d, id) ==
    LET row == d.roster[id].row
        hourly == row.pay = "hourly" \/ (row.pay = "" /\ HasBasicRate(d, id))
    IN IF hourly THEN HasBasicRate(d, id) ELSE row.basic > 0

(* Mutant: any rate on file passes for a basic.                               *)
ProjectedFromAnyRate(d, id, pay) ==
    IF pay = "hourly" THEN \E x \in d.rates : x.emp = id ELSE d.roster[id].row.basic > 0

(* What the confirmation page says a pay type comes to.                      *)
ProjectedBasic(d, id, pay) ==
    IF pay = "hourly" THEN HasBasicRate(d, id) ELSE d.roster[id].row.basic > 0

PayTypeChangeGuard(d, id, pay) ==
    [emp |-> id, pay |-> pay, basic |-> d.roster[id].row.basic, rated |-> HasBasicRate(d, id),
     projected |-> ProjectedBasic(d, id, pay)]

-----------------------------------------------------------------------------
(* Evidence for deductions *)

Periods == {1, 2}
Covers(doc) ==
    CASE doc = "january" -> {1} [] doc = "february" -> {2} [] doc = "both" -> {1, 2}
      [] OTHER -> {}
Complete(doc) == Covers(doc) # {}

(* The papers' columns and the table of awards came in one revision           *)
(* (9d2026c1020): a worker on file before has neither.                       *)
ASSUME FirstRowAssumption ==
    /\ FirstRow = [c \in DOMAIN Row(FirstRow.staff, 0) |-> FirstRow[c]]
    /\ FirstRow.staff = [id |-> FirstRow.staff.id, spelt |-> "plain"]
    /\ ~Complete(FirstRow.doc)

(* A form's evidence against the loaded row: dates the wrong way round and    *)
(* unsound overtime or provident fund fields always fail; an amount, or the   *)
(* withdrawal of an award, needs its papers.                                 *)
ParseDeductionMetadata(form, row, awarded) ==
    LET existing == awarded # <<>> \/ Complete(row.doc)
        revoking == existing /\ row.relief > 0 /\ form.relief = 0
    IN /\ form.sound
       /\ form.doc # "reversed"
       /\ form.relief > 0 \/ revoking => Complete(form.doc)

(* Mutant: the new award replaces the history.                                *)
SaveOverHistory(d, id, form) ==
    IF Complete(form.doc)
    THEN [d EXCEPT !.awards[id] = <<[amount |-> form.relief, doc |-> form.doc]>>]
    ELSE d

SaveDeductionMetadata(d, id, form) ==
    LET award == [amount |-> form.relief, doc |-> form.doc]
        latest == d.awards[id]
    IN IF Complete(form.doc) /\ (latest = <<>> \/ latest[Len(latest)] # award)
       THEN [d EXCEPT !.awards[id] = Append(@, award)]
       ELSE d

(* The relief context_for_employee grants the worker for a period.           *)
ReliefFor(d, id, p) ==
    LET granted == {i \in DOMAIN d.awards[id] : p \in Covers(d.awards[id][i].doc)}
        row == d.roster[id].row
    IN IF granted # {} THEN d.awards[id][LatestOf(granted)].amount
       ELSE IF d.awards[id] = <<>> /\ p \in Covers(row.doc) THEN row.relief
       ELSE 0

-----------------------------------------------------------------------------
(* Requests *)

Begin(r, what) ==
    /\ doing[r] = <<>>
    /\ requests < MaxRequests
    /\ requests' = requests + 1
    /\ doing' = [doing EXCEPT ![r] = <<what>>]
    /\ UNCHANGED <<engine, dataVars, staged, crossed, repeated>>

(* A page that is shown again, or a flash: nothing was written.              *)
Ends(r) == doing' = [doing EXCEPT ![r] = <<>>]

Saves(do, emp, row, form) ==
    [do |-> do, emp |-> emp, row |-> row, form |-> form, seen |-> roster]
Evidence(row, form) == [row EXCEPT !.relief = form.relief, !.doc = form.doc]

Add(r, raw, form) ==
    LET staff == NormaliseEmpId(raw)
    IN /\ staff.id # ""
       /\ ParseDeductionMetadata(form, Row(staff, 0), <<>>)
       /\ Existing(roster, staff) = {}
       /\ Begin(r, Saves("add", 0, Evidence(Row(staff, 0), form), form))
       /\ UNCHANGED shown

(* Edit: a changed pay type is shown first and taken once confirmed.         *)
Changing(id, pay) == pay \in {"hourly", "salaried"} /\ pay # roster[id].row.pay
Edited(id, pay, form) ==
    [Evidence(roster[id].row, form) EXCEPT !.pay = IF pay = "" THEN @ ELSE pay]

ShowGuard(r, id, pay, form) ==
    /\ ParseDeductionMetadata(form, roster[id].row, awards[id])
    /\ Changing(id, pay)
    /\ doing[r] = <<>>
    /\ shown' = [shown EXCEPT ![r] =
                    <<[form |-> form, guard |-> PayTypeChangeGuard(Db, id, pay)]>>]
    /\ requests < MaxRequests /\ requests' = requests + 1
    /\ UNCHANGED <<engine, dataVars, doing, staged, crossed, repeated>>

Edit(r, id, pay, form) ==
    /\ ParseDeductionMetadata(form, roster[id].row, awards[id])
    /\ Changing(id, pay) =>
          /\ shown[r] # <<>>
          /\ shown[r][1].guard.emp = id /\ shown[r][1].guard.pay = pay
          /\ shown[r][1].form = form
    /\ Begin(r, Saves("edit", id, Edited(id, pay, form), form))
    /\ UNCHANGED shown

(* The company's own form: staff id and basic too, status as the form has it.*)
ClientSaves(r, id, raw, basic, form) ==
    LET staff == NormaliseEmpId(raw)
        old == IF id = 0 THEN Row(staff, 0) ELSE roster[id].row
        new == [Evidence(old, form) EXCEPT !.staff = staff, !.basic = basic, !.status = "Active"]
    IN /\ staff.id # ""
       /\ Existing(roster, staff) \subseteq {id}
       /\ ParseDeductionMetadata(form, old, IF id = 0 THEN <<>> ELSE awards[id])
       /\ Begin(r, Saves("save", id, new, form))
       /\ UNCHANGED shown

SetStatus(r, id, status) ==
    /\ Begin(r, Saves("status", id, [roster[id].row EXCEPT !.status = status],
                      [relief |-> 0, doc |-> "none", sound |-> TRUE]))
    /\ UNCHANGED shown

(* An UPDATE that finds no row raises, and the transaction is rolled back.   *)
SaveCommits(r) ==
    /\ doing[r] # <<>>
    /\ doing[r][1].do \in {"add", "edit", "save", "status"}
    /\ LET q == doing[r][1]
           id == IF q.emp = 0 THEN FreshId(Db) ELSE q.emp
           written == IF q.emp = 0 THEN Insert(Db, q.row)
                      ELSE Update(Db, id, q.seen[id].row, q.row)
           lost == q.emp # 0 /\ id \notin DOMAIN roster
       IN /\ made < MaxRows \/ q.emp # 0
          /\ crossed' = (crossed \/ Crosses(q, {q.row.staff}))
          /\ Store(IF lost THEN Db
                   ELSE IF q.do = "status" THEN written
                   ELSE SaveDeductionMetadata(written, id, q.form))
    /\ Ends(r)
    /\ shown' = [shown EXCEPT ![r] = <<>>]
    /\ UNCHANGED <<engine, staged, requests, repeated>>

(* Mutant: nothing blocks a deletion.                                         *)
NoBlockers(d, id) == {}

(* Delete: refused for a worker with payroll history, and for no one else.   *)
EmployeeDeleteBlockers(d, id) == {i \in d.items : i.emp = id}

Delete(r, id) ==
    /\ EmployeeDeleteBlockers(Db, id) = {}
    /\ Begin(r, [do |-> "delete", emp |-> id, seen |-> roster])
    /\ UNCHANGED shown

Referenced(d, id) == \E x \in d.items \cup d.rates : x.emp = id

DeleteCommits(r) ==
    /\ doing[r] # <<>> /\ doing[r][1].do = "delete"
    /\ LET id == doing[r][1].emp
           refused == engine = "postgresql" /\ Referenced(Db, id)
       IN /\ Store(IF refused \/ id \notin DOMAIN roster THEN Db
                   ELSE [Db EXCEPT !.roster = Without(@, id), !.awards = Without(@, id)])
          /\ crossed' = (crossed \/ EmployeeDeleteBlockers(Db, id) # {})
    /\ Ends(r)
    /\ UNCHANGED <<engine, shown, staged, requests, repeated>>

-----------------------------------------------------------------------------
(* Files *)

(* The preview of a roster workbook, staged: rows without an id are skipped,  *)
(* rows without a name and repeated ids are errors.                          *)
Kept(file, i) ==
    /\ file[i].raw.id # "" /\ file[i].named
    /\ \A j \in 1 .. i - 1 :
          file[j].named => NormaliseEmpId(file[j].raw) # NormaliseEmpId(file[i].raw)
Records(file, known) ==
    {[staff |-> NormaliseEmpId(file[i].raw), email |-> file[i].email] :
        i \in {j \in DOMAIN file : Kept(file, j) /\ known = (Existing(roster, NormaliseEmpId(file[j].raw)) # {})}}

BulkImport(r, file) ==
    /\ doing[r] = <<>>
    /\ staged' = [staged EXCEPT ![r] = <<[create |-> Records(file, FALSE), update |-> Records(file, TRUE)]>>]
    /\ requests < MaxRequests /\ requests' = requests + 1
    /\ UNCHANGED <<engine, dataVars, doing, shown, crossed, repeated>>

BulkImportConfirm(r) ==
    /\ staged[r] # <<>>
    /\ Begin(r, [do |-> "bulk", seen |-> roster])
    /\ UNCHANGED shown

(* The records to create that nobody created since, then those to update      *)
(* that are still there.                                                     *)
BulkLines(q, file) ==
    SetToSeq({x \in file.create : Existing(q.seen, x.staff) = {}})
      \o SetToSeq({x \in file.update : Existing(q.seen, x.staff) # {}})

BulkSave(q, d, x) ==
    LET id == LatestOf(Existing(q.seen, x.staff))
        old == q.seen[id].row
    IN IF Existing(q.seen, x.staff) = {}
       THEN Insert(d, [Row(x.staff, 0) EXCEPT !.email = x.email])
       ELSE Update(d, id, old, [old EXCEPT !.email = x.email \/ @])

BulkSaved(q, d, lines) ==
    LET after[i \in 0 .. Len(lines)] ==
          IF i = 0 THEN d ELSE BulkSave(q, after[i - 1], lines[i])
    IN after[Len(lines)]

BulkImportCommits(r) ==
    /\ doing[r] # <<>> /\ doing[r][1].do = "bulk"
    /\ LET q == doing[r][1]
           file == staged[r][1]
           lost == \E x \in file.update : Existing(q.seen, x.staff) \ DOMAIN roster # {}
       IN /\ made + Cardinality(file.create) <= MaxRows
          /\ crossed' = (crossed \/ Crosses(q, {x.staff : x \in file.create \cup file.update}))
          /\ Store(IF lost THEN Db ELSE BulkSaved(q, Db, BulkLines(q, file)))
          /\ staged' = [staged EXCEPT ![r] = IF lost THEN @ ELSE <<>>]
    /\ Ends(r)
    /\ UNCHANGED <<engine, shown, requests, repeated>>

(* A payroll upload confirmed for one worker: the worker is found or made,    *)
(* written from the row, and gets the item.                                  *)
ImportRun(r, x) ==
    /\ Begin(r, [do |-> "run", line |-> x, seen |-> roster])
    /\ UNCHANGED shown

(* A row without a staff id gets one made from its run and row.               *)
ImportKey(d) == [id |-> ToString(d.made + 1), spelt |-> "plain"]
ImportStaff(x, d) == IF x.raw.id = "" THEN ImportKey(d) ELSE NormaliseEmpId(x.raw)

(* Mutant: every uploaded row makes a worker.                                 *)
CreateAlways(q, d) ==
    [db |-> Insert(d, Row(ImportStaff(q.line, d), q.line.basic)),
     emp |-> FreshId(d), of |-> d.made + 1, lost |-> FALSE]

CreateOrUpdateEmployee(q, d) ==
    LET x == q.line
        staff == ImportStaff(x, d)
        found == Existing(q.seen, staff)
        From(old) == [old EXCEPT !.email = x.email \/ @,
                                 !.basic = IF x.basic > 0 THEN x.basic ELSE @,
                                 !.status = IF x.status # "" THEN x.status ELSE @]
        old == q.seen[LatestOf(found)].row
        row == From(old)
    IN IF found = {}
       THEN [db |-> Insert(d, From(Row(staff, 0))),
             emp |-> FreshId(d), of |-> d.made + 1, lost |-> FALSE]
       ELSE LET id == LatestOf(found)
                gone == id \notin DOMAIN d.roster
            IN [db |-> IF gone THEN d ELSE Update(d, id, old, row), emp |-> id,
                of |-> q.seen[id].uid, lost |-> gone /\ (row # old \/ engine = "postgresql")]

ImportRunCommits(r) ==
    /\ doing[r] # <<>> /\ doing[r][1].do = "run"
    /\ LET q == doing[r][1]
           saved == CreateOrUpdateEmployee(q, Db)
       IN /\ saved.db.made <= MaxRows
          /\ crossed' = (crossed \/ Crosses(q, {ImportStaff(q.line, Db)}))
          /\ Store(IF saved.lost THEN Db
                   ELSE [saved.db EXCEPT !.items = @ \cup {[emp |-> saved.emp, of |-> saved.of]}])
    /\ Ends(r)
    /\ UNCHANGED <<engine, shown, staged, requests, repeated>>

(* The seed takes the rows that have a name and a key; a repeated key is only *)
(* warned of.                                                                *)
ParseRichWorkbook(file) == {i \in DOMAIN file : file[i].raw.id # ""}

SeedConfirm(r, file) ==
    /\ Begin(r, [do |-> "seed", file |-> file, seen |-> roster])
    /\ UNCHANGED shown

SeededRow(x, old, awarded) ==
    [old EXCEPT !.basic = x.basic, !.pay = IF x.hourly THEN "hourly" ELSE "salaried",
                !.relief = IF old.doc = "none" /\ awarded = <<>> THEN x.relief ELSE @]

Awarded(d, id) == IF id \in DOMAIN d.awards THEN d.awards[id] ELSE <<>>
SeedStaff(q, i) == NormaliseEmpId(q.file[i].raw)

(* One object a worker: a line finds it as read, or as the last line of its   *)
(* staff id left it.                                                         *)
Loaded(q, d, i) ==
    LET id == LatestOf(Existing(q.seen, SeedStaff(q, i)))
        row == q.seen[id].row
        earlier == {j \in ParseRichWorkbook(q.file) : j < i /\ SeedStaff(q, j) = SeedStaff(q, i)}
    IN IF earlier = {} THEN row ELSE SeededRow(q.file[LatestOf(earlier)], row, Awarded(d, id))

(* existing is read once and not added to: a second row for a new id inserts  *)
(* a second worker.  A row that is gone is not missed while no column of its  *)
(* object changed.                                                           *)
UpsertEmployee(q, d, i) ==
    LET x == q.file[i]
        staff == SeedStaff(q, i)
        found == Existing(q.seen, staff)
        id == IF found = {} THEN FreshId(d) ELSE LatestOf(found)
        old == IF found = {} THEN Row(staff, 0) ELSE Loaded(q, d, i)
        row == SeededRow(x, old, Awarded(d, id))
        saved == IF found = {} THEN Insert(d, row)
                 ELSE IF id \in DOMAIN d.roster THEN Update(d, id, old, row) ELSE d
        uid == IF found = {} THEN saved.roster[id].uid ELSE q.seen[id].uid
        own == {[emp |-> id, category |-> c, of |-> uid] : c \in x.rates}
    IN [saved EXCEPT !.rates = {y \in @ : y.emp # id} \cup own]

(* An UPDATE that meets no row, and on PostgreSQL a rate without its worker,   *)
(* raise and take the whole seed back.                                       *)
SeedLost(q, d, i) ==
    LET found == Existing(q.seen, SeedStaff(q, i))
        old == Loaded(q, d, i)
    IN /\ found # {} /\ LatestOf(found) \notin DOMAIN d.roster
       /\ \/ SeededRow(q.file[i], old, <<>>) # old
          \/ engine = "postgresql" /\ q.file[i].rates # {}

Seeded(q, d) ==
    LET after[i \in 0 .. Len(q.file)] ==
          IF i = 0 THEN d
          ELSE IF i \in ParseRichWorkbook(q.file) THEN UpsertEmployee(q, after[i - 1], i)
          ELSE after[i - 1]
    IN after[Len(q.file)]

PersistSeed(r) ==
    /\ doing[r] # <<>> /\ doing[r][1].do = "seed"
    /\ LET q == doing[r][1]
           lines == ParseRichWorkbook(q.file)
           fresh == {i \in lines : Existing(q.seen, SeedStaff(q, i)) = {}}
           lost == \E i \in lines : SeedLost(q, Db, i)
       IN /\ made + Cardinality(fresh) <= MaxRows
          /\ crossed' = (crossed \/ Crosses(q, {SeedStaff(q, i) : i \in lines}))
          /\ repeated' = (repeated \/ \E i, j \in fresh : i # j /\ SeedStaff(q, i) = SeedStaff(q, j))
          /\ Store(IF lost THEN Db ELSE Seeded(q, Db))
    /\ Ends(r)
    /\ UNCHANGED <<engine, shown, staged, requests>>

-----------------------------------------------------------------------------
RosterInit ==
    /\ engine \in Engines
    /\ roster = [e \in {1} |-> [row |-> FirstRow, uid |-> 1]]
    /\ awards = [e \in {1} |-> <<>>]
    /\ rates = {[emp |-> 1, category |-> c, of |-> 1] : c \in FirstRates}
    /\ items = {}
    /\ made = 1
    /\ doing = [r \in Reps |-> <<>>]
    /\ shown = [r \in Reps |-> <<>>]
    /\ staged = [r \in Reps |-> <<>>]
    /\ requests = 0
    /\ crossed = FALSE
    /\ repeated = FALSE

RosterNext == \E r \in Reps :
    \/ \E form \in ReliefForms :
          \/ \E raw \in TypedIds : Add(r, raw, form)
          \/ \E id \in DOMAIN roster, pay \in {"", "hourly", "salaried"} :
                ShowGuard(r, id, pay, form) \/ Edit(r, id, pay, form)
          \/ \E id \in DOMAIN roster \cup {0}, raw \in TypedIds, basic \in 0 .. 1 :
                ClientSaves(r, id, raw, basic, form)
    \/ \E id \in DOMAIN roster : Delete(r, id)
    \/ \E id \in DOMAIN roster, status \in {"Active", "Inactive"} : SetStatus(r, id, status)
    \/ SaveCommits(r)
    \/ DeleteCommits(r)
    \/ \E file \in BulkFiles : BulkImport(r, file)
    \/ BulkImportConfirm(r)
    \/ BulkImportCommits(r)
    \/ \E x \in PayrollRows : ImportRun(r, x)
    \/ ImportRunCommits(r)
    \/ \E file \in SeedFiles : SeedConfirm(r, file)
    \/ PersistSeed(r)

RosterSpec == RosterInit /\ [][RosterNext]_rosterVars

-----------------------------------------------------------------------------
(* Properties *)

(* The keys of the roster as the handlers rely on them: a staff id is stored  *)
(* in its one spelling, whichever screen or file wrote it, and an award       *)
(* always carries its papers (normalise_emp_id, save_deduction_metadata).     *)
RosterTypeOK ==
    /\ engine \in {"postgresql", "sqlite"}
    /\ DOMAIN roster \subseteq 1 .. made
    /\ \A e \in DOMAIN roster : roster[e].row.staff.spelt = "plain"
    /\ DOMAIN awards = DOMAIN roster
    /\ \A e \in DOMAIN awards : \A i \in DOMAIN awards[e] : Complete(awards[e][i].doc)

(* One worker, one record: no sequence of forms, imports, uploads and seeds   *)
(* leaves two records with one staff id, unless two of them crossed (nothing   *)
(* but the handlers' own reads keeps ids apart) or a seed named a new worker   *)
(* twice (payroll.create_or_update_employee_from_import, employees.add,       *)
(* client._save_employee, raw_engine.store._upsert_employee).                 *)
OneRecordPerStaffId ==
    crossed \/ repeated
    \/ \A d, e \in DOMAIN roster : roster[d].row.staff.id = roster[e].row.staff.id => d = e

(* Payslips and rates stay with the worker they were written for: a hard       *)
(* delete never leaves one pointing at nobody or at somebody else             *)
(* (employees.employee_delete_blockers, the foreign keys).  SQLite has no     *)
(* keys to help: there a crossing may, and rates may (see the README).        *)
HistoryKeepsItsWorker ==
    /\ \A i \in items :
          \/ i.emp \in DOMAIN roster /\ roster[i.emp].uid = i.of
          \/ engine = "sqlite" /\ crossed
    /\ engine = "postgresql" =>
          \A x \in rates : x.emp \in DOMAIN roster /\ roster[x.emp].uid = x.of

(* What models.py says of WageRateProfile, "a row with an employee_id          *)
(* overrides the default for that worker only", on every database.            *)
OverridesThatWorkerOnly ==
    \A x \in rates : x.emp \in DOMAIN roster => roster[x.emp].uid = x.of

(* Past periods stay reproducible: the relief of a period changes only by a    *)
(* step that records an award for that period; no seed, upload, import or      *)
(* edit of something else touches it (employees.save_deduction_metadata,      *)
(* deductions.context_for_employee).                                          *)
PastReliefStands ==
    [][\A e \in DOMAIN roster \cap DOMAIN roster' : roster[e].uid = roster'[e].uid =>
          \A p \in Periods :
             ReliefFor(Db, e, p) # ReliefFor(Db', e, p) =>
                /\ Len(awards'[e]) > Len(awards[e])
                /\ p \in Covers(awards'[e][Len(awards'[e])].doc)]_rosterVars

(* A worker's basic is not zeroed silently: an edit that takes a worker from   *)
(* a basic to none by its pay type was confirmed on a page that said so, as   *)
(* long as the figures that page was made from still stand                    *)
(* (employees.pay_type_change_guard).                                         *)
ZeroingWasShown ==
    [][\A r \in Reps :
          (/\ doing[r] # <<>> /\ doing'[r] = <<>> /\ doing[r][1].do = "edit"
           /\ doing[r][1].emp \in DOMAIN roster \cap DOMAIN roster'
           /\ PaidBasic(Db, doing[r][1].emp) /\ ~PaidBasic(Db', doing[r][1].emp))
          => LET page == shown[r][1].guard
             IN \/ ~page.projected
                \/ page.rated # HasBasicRate(Db, page.emp)
                \/ page.basic # roster[page.emp].row.basic]_rosterVars
=============================================================================
