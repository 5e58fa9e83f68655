------------------------------- MODULE Schema -------------------------------
(***************************************************************************)
(* The database schema under `flask db upgrade` and `flask db downgrade`:  *)
(* migrations/env.py walks the chain of Revisions, on PostgreSQL in one    *)
(* transaction, on SQLite one transaction a revision, and then switches    *)
(* row level security on where it is off (app/rls_guard.py).  Between the  *)
(* commands the application writes rows, and people change the database by *)
(* hand.  The schema reached at the head of the chain is compared with the *)
(* one that app/models.py declares.                                        *)
(***************************************************************************)
EXTENDS Revisions, FiniteSets

CONSTANTS ByHand,   \* tables in use: the site may lock them, somebody may switch their RLS off
          Written   \* tables the application writes rows into between migrations

Engines == {"supabase", "postgresql", "sqlite"}

VARIABLES engine,   \* dialect and hosting of the database
          at,       \* alembic_version, as a position in Chain; 0 is an empty database
          db,       \* the schema and what matters of the rows
          rls,      \* tables with row level security enabled
          known     \* tables somebody was told are open: a warning, or their own hand

vars == <<engine, at, db, rls, known>>

Empty == [tables |-> {}, cols |-> {}, fks |-> {}, idx |-> {}, notnull |-> {},
          rows |-> {}, nulls |-> {}, dup |-> FALSE, brand |-> "chrisnat",
          rates |-> {}, policy |-> {}]

Of(o) == {<<o.table, n>> : n \in o.names}

(* Columns that some revision tightens to NOT NULL; NULLs matter in these. *)
Tightened == ({"statutory_rates"} \X (ConcessionColumns \cup JuniorThreshold))
               \cup {<<"wage_rate_profiles", "category">>, <<"payroll_item", "payslip_token_version">>}

HasRows(d, t) == IF t = "statutory_rates" THEN d.rates # {} ELSE t \in d.rows

(* What the database refuses.  SQLite takes a foreign key to a missing     *)
(* table, and drops a table that others refer to.                          *)
Applies(e, d, o) ==
  CASE o.kind = "create"   -> /\ o.table \notin d.tables
                              /\ e # "sqlite" => o.refs \subseteq d.tables
    [] o.kind = "drop"     -> /\ o.table \in d.tables
                              /\ e # "sqlite" =>
                                   \A k \in d.fks : k[4] = o.table => k[1] = o.table
    [] o.kind \in {"add", "default"} -> o.table \in d.tables /\ Of(o) \cap d.cols = {}
    [] o.kind \in {"ensure", "discard"} -> o.table \in d.tables
    [] o.kind \in {"remove", "fill", "nullable"} -> Of(o) \subseteq d.cols
    [] o.kind = "notnull"  -> Of(o) \subseteq d.cols /\ Of(o) \cap d.nulls = {}
    [] o.kind = "index"    -> o.table \in d.tables /\ Of(o) \cap d.idx = {}
    [] o.kind = "unique"   -> o.table \in d.tables /\ ~d.dup
    [] o.kind = "unindex"  -> Of(o) \subseteq d.idx
    [] o.kind = "fk"       -> o.table \in d.tables /\ o.refs \subseteq d.tables
    [] o.kind = "unfk"     -> \A n \in o.names : \E k \in d.fks : k[1] = o.table /\ k[3] = n
    [] o.kind = "forget"   -> o.table \in d.tables
    [] o.kind = "refuse"   -> FALSE
    [] OTHER               -> TRUE

Created(d, o) == [d EXCEPT !.tables = @ \cup {o.table}, !.idx = @ \cup Of(o),
                           !.fks = @ \cup {<<o.table, "", "", r>> : r \in o.refs}]

Without(d, t) ==
  LET Others(s) == {x \in s : x[1] # t}
  IN  [d EXCEPT !.tables = @ \ {t}, !.rows = @ \ {t}, !.cols = Others(@), !.idx = Others(@),
                !.fks = Others(@), !.notnull = Others(@), !.nulls = Others(@),
                !.dup = @ /\ t # "payslip_delivery",
                !.rates = IF t = "statutory_rates" THEN {} ELSE @]

WithoutColumns(d, o) ==
  [d EXCEPT !.cols = @ \ Of(o), !.notnull = @ \ Of(o), !.nulls = @ \ Of(o),
            !.fks = {k \in @ : <<k[1], k[2]>> \notin Of(o)}]

Applied(d, o) ==
  CASE o.kind = "create"   -> Created(d, o)
    [] o.kind = "ensure_table" -> IF o.table \in d.tables THEN d ELSE Created(d, o)
    [] o.kind \in {"drop", "discard_table"} -> Without(d, o.table)
    [] o.kind = "add"      -> [d EXCEPT !.cols = @ \cup Of(o),
                                 !.nulls = IF HasRows(d, o.table) THEN @ \cup (Of(o) \cap Tightened)
                                                                  ELSE @]
    [] o.kind \in {"default", "ensure"} -> [d EXCEPT !.cols = @ \cup Of(o)]
    [] o.kind \in {"remove", "discard"} -> WithoutColumns(d, o)
    [] o.kind \in {"index", "unique"}   -> [d EXCEPT !.idx = @ \cup Of(o)]
    [] o.kind = "unindex"  -> [d EXCEPT !.idx = @ \ Of(o)]
    [] o.kind = "fk"       -> [d EXCEPT !.fks = @ \cup o.names]
    [] o.kind = "unfk"     -> [d EXCEPT !.fks = {k \in @ : ~(k[1] = o.table /\ k[3] \in o.names)}]
    [] o.kind = "fill"     -> [d EXCEPT !.nulls = @ \ Of(o)]
    [] o.kind = "notnull"  -> [d EXCEPT !.notnull = @ \cup Of(o)]
    [] o.kind = "nullable" -> [d EXCEPT !.notnull = @ \ Of(o)]
    [] o.kind = "forget"   -> [d EXCEPT !.rows = @ \ {o.table}]
    [] o.kind \in {"payrolla", "chrisnat"} -> [d EXCEPT !.brand = o.kind]
    [] o.kind = "september" -> [d EXCEPT !.rates = IF "early" \in @ THEN @ \cup {"september"} ELSE @]
    [] o.kind = "policy"   -> [d EXCEPT !.policy = d.rates \cap {"september"}]

(* One revision: all of its operations, or the database as it was.         *)
Ran(e, d, ops) ==
  FoldLeft(LAMBDA r, o : IF r.ok /\ Applies(e, r.d, o) THEN [r EXCEPT !.d = Applied(r.d, o)]
                                                       ELSE [ok |-> FALSE, d |-> d],
           [ok |-> TRUE, d |-> d], ops)

(* context.run_migrations() up to target: where it stops, and if it got there. *)
Walked(e, d, from, target) ==
  FoldLeft(LAMBDA r, i : LET s == Ran(e, r.d, Chain[i][1])
                         IN  IF r.ok /\ s.ok THEN [ok |-> TRUE, d |-> s.d, at |-> i]
                                             ELSE [r EXCEPT !.ok = FALSE],
           [ok |-> TRUE, d |-> d, at |-> from], [i \in 1..(target - from) |-> from + i])

BuiltTo == [e \in {"postgresql", "sqlite"} |->
              [n \in 0..HeadRev |-> Walked(e, Empty, 0, n).d]]

(* Production's constraints carry names that its server made up in 2026.   *)
ServerNamed(d) == [d EXCEPT !.fks = {<<k[1], k[2], IF k[3] = "" THEN "" ELSE "server", k[4]>> :
                                       k \in @}]

Init ==
  /\ engine \in Engines
  /\ \/ at = 0 /\ db = Empty
     \/ engine = "supabase" /\ at = 3 /\ db = ServerNamed(BuiltTo["postgresql"][3])
  /\ rls = IF engine = "supabase" THEN db.tables ELSE {}
  /\ known = {}

(* Mutant: a table that could not be changed is skipped without a warning. *)
GuardedSilently(tables) ==
  LET open == tables \ rls
  IN  IF engine # "supabase" THEN UNCHANGED <<rls, known>>
      ELSE \E skipped \in SUBSET (open \cap db.tables \cap ByHand) :
             rls' = tables \ skipped /\ known' = {}

(* enable_rls_on_unprotected_tables, in the migration's own transaction.   *)
(* A table that existed before may be locked by the running site and is    *)
(* skipped with a warning, and when the list of tables cannot be read      *)
(* nothing is done, with a warning too.                                    *)
Guarded(tables) ==
  LET open == tables \ rls
  IN  IF engine # "supabase" THEN UNCHANGED <<rls, known>>
      ELSE \/ rls' = rls \cap tables /\ known' = open
           \/ \E skipped \in SUBSET (open \cap db.tables \cap ByHand) :
                rls' = tables \ skipped /\ known' = skipped

(* flask db upgrade: to the next revision, or to the head as a deploy does. *)
Upgrade ==
  \E target \in {at + 1, HeadRev} :
    /\ at < HeadRev
    /\ LET r == Walked(engine, db, at, target)
       IN  /\ r.ok \/ engine = "sqlite"
           /\ r.at > at
           /\ at' = r.at /\ db' = r.d
           /\ Guarded(r.d.tables)
    /\ UNCHANGED engine

(* flask db downgrade, one revision.                                       *)
Downgrade ==
  /\ at > 0
  /\ LET r == Ran(engine, db, Chain[at][2])
     IN  r.ok /\ at' = at - 1 /\ db' = r.d /\ Guarded(r.d.tables)
  /\ UNCHANGED engine

(* The application, of the revision at hand, writes rows; a default fills  *)
(* each column that a later revision tightens.                             *)
Write(t) ==
  /\ t \in db.tables \ db.rows
  /\ db' = [db EXCEPT !.rows = @ \cup {t}]
  /\ UNCHANGED <<engine, at, rls, known>>

(* A rate version is entered; from the revision that added it, a version   *)
(* from September on follows the corrected deduction policy.               *)
NewRate(v) ==
  /\ "statutory_rates" \in db.tables /\ v \notin db.rates
  /\ db' = [db EXCEPT !.rates = @ \cup {v},
                      !.policy = IF <<"statutory_rates", "deductions_policy_version">> \in db.cols
                                 THEN @ \cup ({v} \cap {"september"}) ELSE @]
  /\ UNCHANGED <<engine, at, rls, known>>

(* Before the unique constraint two workers could each insert a delivery.  *)
Duplicate ==
  /\ "payslip_delivery" \in db.tables
  /\ <<"payslip_delivery", "uq_item_channel">> \notin db.idx
  /\ ~db.dup /\ db' = [db EXCEPT !.dup = TRUE]
  /\ UNCHANGED <<engine, at, rls, known>>

(* The column that was added by hand to break the boot deadlock.           *)
AddByHand ==
  /\ "statutory_rates" \in db.tables
  /\ ({"statutory_rates"} \X JuniorThreshold) \cap db.cols = {}
  /\ db' = Applied(db, Add("statutory_rates", JuniorThreshold)[1])
  /\ UNCHANGED <<engine, at, rls, known>>

SwitchOff(t) ==
  /\ t \in rls
  /\ rls' = rls \ {t} /\ known' = known \cup {t}
  /\ UNCHANGED <<engine, at, db>>

Next == \/ Upgrade \/ Downgrade \/ Duplicate \/ AddByHand
        \/ \E t \in Written : Write(t)
        \/ \E v \in {"early", "september"} : NewRate(v)
        \/ \E t \in ByHand : SwitchOff(t)

Spec == Init /\ [][Next]_vars
-----------------------------------------------------------------------------
(* What app/models.py declares: each table with the tables it refers to.   *)
CompanyModels == [user |-> {"client_company"}, client_company |-> {}]

EmployeeModels ==
  [employee |-> {"client_company"}, employee_tax_relief_approval |-> {"employee"},
   employee_deployment |-> {"client_company", "employee"}]

RunModels == [payroll_run |-> {"client_company", "statutory_rates", "user"}]

ItemModels ==
  [payroll_item |-> {"employee", "payroll_run"}, payment_voucher |-> {"payroll_run", "user"},
   remittance |-> {"payroll_run"}]

ExpenseModels ==
  [expense |-> {"client_company", "payroll_run", "user"},
   expense_receipt |-> {"client_company", "expense", "user"},
   proposal |-> {"client_company", "user"},
   import_batch |-> {"client_company", "payroll_run", "user"}]

EventModels ==
  [audit_trail |-> {"user"}, domain_event |-> {"client_company", "user"},
   notification |-> {"client_company", "domain_event", "user"}]

DeliveryModels ==
  [payslip_delivery |-> {"distribution_batch", "payroll_item", "payroll_run"},
   distribution_batch |-> {"client_company", "payroll_run", "user"},
   distribution_worker_heartbeat |-> {}, idempotency_key |-> {}]

RateModels == [statutory_rates |-> {"user"}]

RawModels ==
  [wage_rate_profiles |-> {"client_company", "employee"},
   raw_pay_entries |-> {"payroll_run"}, raw_upload_archives |-> {"payroll_run"}]

AccessModels == [access_request |-> {"client_company", "user"},
                 desktop_licence |-> {"access_request", "user"}]

PayslipLink == [payslip_link |-> {"payroll_item", "payslip_delivery"}]

Models == CompanyModels @@ EmployeeModels @@ RunModels @@ ItemModels @@ ExpenseModels
            @@ EventModels @@ DeliveryModels @@ RateModels @@ RawModels @@ AccessModels @@ PayslipLink
-----------------------------------------------------------------------------
(* The column added by hand is compared from the revision that owns it.    *)
Columns(d) == IF at < 12 THEN d.cols \ ({"statutory_rates"} \X JuniorThreshold)
              ELSE d.cols

(* What of the schema two databases at one revision must share.            *)
Shape(d) == [tables |-> d.tables, cols |-> Columns(d), idx |-> d.idx, notnull |-> d.notnull,
             fks |-> {<<k[1], k[2], k[4]>> : k \in d.fks}, brand |-> d.brand]

(* Types; and nothing outlives its table: no column, index, constraint or  *)
(* row belongs to a table that is gone, and no foreign key dangles.        *)
TypeOK ==
  /\ engine \in Engines /\ at \in 0..HeadRev
  /\ rls \subseteq db.tables
  /\ {x[1] : x \in db.cols \cup db.idx \cup db.notnull \cup db.nulls \cup db.fks}
        \subseteq db.tables
  /\ {k[4] : k \in db.fks} \subseteq db.tables
  /\ db.rows \subseteq db.tables
  /\ db.policy \subseteq {"september"}
  /\ db.rates # {} => "statutory_rates" \in db.tables

(* The rest of the chain always applies: whatever mix of upgrades,         *)
(* downgrades, rows and hand-made columns led here, no later upgrade()     *)
(* fails, unless deliveries were duplicated before the constraint.         *)
ChainApplies == db.dup \/ Walked(engine, db, at, HeadRev).ok

(* A revision names one schema: each downgrade() undoes its upgrade(), on  *)
(* either engine, for the live database and for one built from nothing.    *)
(* And the head names the models: its tables and references are those the  *)
(* models declare, and every September rate follows the corrected policy.  *)
RevisionIsSchema ==
  /\ Shape(db) = Shape(BuiltTo[IF engine = "sqlite" THEN "sqlite" ELSE "postgresql"][at])
  /\ at = HeadRev =>
       /\ db.tables = DOMAIN Models
       /\ \A t \in db.tables : {k[4] : k \in {f \in db.fks : f[1] = t}} = Models[t]
       /\ db.rates \cap {"september"} \subseteq db.policy

(* On Supabase a table is open to the public interface only if somebody    *)
(* was told so: by a warning of the migration, or by switching it off.     *)
OpenTablesAreKnown == engine = "supabase" => db.tables \ rls \subseteq known
=============================================================================
