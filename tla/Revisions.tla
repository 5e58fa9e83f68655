------------------------------ MODULE Revisions ------------------------------
(***************************************************************************)
(* The Alembic chain of migrations/versions, revision by revision: what    *)
(* each upgrade() and downgrade() does, in its order.  A revision is a     *)
(* pair of sequences of operations.  Column types and the columns a table  *)
(* is created with are abstracted away; tables, foreign keys, indexes, the *)
(* columns added later, nullability and the rewriting of rows are kept.    *)
(* An index is named by the columns it covers, ix_<table>_ left out.       *)
(***************************************************************************)
EXTENDS Naturals, Sequences, SequencesExt

Op(kind, t, names, refs) == <<[kind |-> kind, table |-> t, names |-> names, refs |-> refs]>>

(* create_table with its foreign keys, and the create_index calls that     *)
(* follow it; drop_table takes a table's own indexes with it.              *)
Table(t, refs, ix)   == Op("create", t, ix, refs)
Drop(t)              == Op("drop", t, {}, {})
EnsureTable(t, refs, ix) == Op("ensure_table", t, ix, refs)
DiscardTable(t)      == Op("discard_table", t, {}, {})
Add(t, cols)         == Op("add", t, cols, {})
AddDefault(t, cols)  == Op("default", t, cols, {})
Ensure(t, cols)      == Op("ensure", t, cols, {})
DropColumns(t, cols) == Op("remove", t, cols, {})
Discard(t, cols)     == Op("discard", t, cols, {})
Index(t, ix)         == Op("index", t, ix, {})
Unindex(t, ix)       == Op("unindex", t, ix, {})
Unique(t, ix)        == Op("unique", t, ix, {})
(* A foreign key added by itself has a name and a column: <<table, column, *)
(* name, referred table>>.                                                 *)
Fk(t, col, name, to) == Op("fk", t, {<<t, col, name, to>>}, {to})
Unfk(t, names)       == Op("unfk", t, names, {})
Fill(t, cols)        == Op("fill", t, cols, {})
NotNull(t, cols)     == Op("notnull", t, cols, {})
Nullable(t, cols)    == Op("nullable", t, cols, {})
Data(kind)           == Op(kind, "", {}, {})

Drops(tables) == FlattenSeq([i \in DOMAIN tables |-> Drop(tables[i])])

(* f0e1d2c3b4a5, the real baseline: 29 tables, the archived ones included. *)
BaselineParties ==
  Table("client_company", {}, {}) \o Table("idempotency_key", {}, {"key"}) \o
  Table("supplier", {}, {}) \o Table("employee", {"client_company"}, {"staff_id"}) \o
  Table("product", {"supplier"}, {}) \o Table("user", {}, {"email"}) \o
  Table("audit_trail", {"user"}, {})

BaselineOrders ==
  Table("cleaning_job", {"client_company", "user"}, {"client_company_id", "scheduled_date"}) \o
  Table("client_service_request", {"client_company", "user"}, {"client_company_id"}) \o
  Table("employee_deployment", {"client_company", "employee"},
        {"client_company_id", "employee_id"}) \o
  Table("inventory_movement", {"product", "user"}, {"product_id"}) \o
  Table("invoice", {"client_company", "user"}, {"client_company_id"})

BaselineRuns ==
  Table("payroll_run", {"client_company", "user"}, {}) \o
  Table("proposal", {"client_company", "user"}, {}) \o
  Table("worker_assignment", {"client_company", "employee", "user"},
        {"client_company_id", "employee_id"}) \o
  Table("attendance_record", {"client_company", "employee", "user", "worker_assignment"},
        {"client_company_id", "employee_id", "work_date"}) \o
  Table("cleaning_job_worker", {"cleaning_job", "employee"}, {"cleaning_job_id", "employee_id"}) \o
  Table("expense", {"user"}, {})

BaselineBilling ==
  Table("goods_supply_order", {"client_company", "client_service_request", "user"},
        {"client_company_id"}) \o
  Table("import_batch", {"client_company", "payroll_run", "user"}, {}) \o
  Table("invoice_item", {"invoice"}, {"invoice_id"}) \o
  Table("invoice_payment", {"invoice", "user"}, {"invoice_id"}) \o
  Table("job_completion_report", {"cleaning_job", "user"}, {}) \o
  Table("payment_voucher", {"payroll_run", "user"}, {})

BaselineItems ==
  Table("payroll_item", {"employee", "payroll_run"}, {}) \o
  Table("raw_pay_entries", {"payroll_run"}, {}) \o Table("remittance", {"payroll_run"}, {}) \o
  Table("goods_supply_order_item", {"goods_supply_order", "product"}, {"goods_supply_order_id"}) \o
  Table("payslip_delivery", {"payroll_item", "payroll_run"}, {"payroll_item_id", "payroll_run_id"})

BaselineDown ==
  Drops(<<"payslip_delivery", "goods_supply_order_item", "remittance", "raw_pay_entries",
          "payroll_item", "payment_voucher", "job_completion_report", "invoice_payment",
          "invoice_item", "import_batch", "goods_supply_order", "expense",
          "cleaning_job_worker", "attendance_record", "worker_assignment", "proposal",
          "payroll_run", "invoice", "inventory_movement", "employee_deployment",
          "client_service_request", "cleaning_job", "audit_trail", "user", "product",
          "employee", "supplier", "idempotency_key", "client_company">>)

F0e1d2c3b4a5 == <<BaselineParties \o BaselineOrders \o BaselineRuns \o BaselineBilling
                    \o BaselineItems, BaselineDown>>

(* d450b1a3317e: the seven foreign keys the live database lacked.          *)
D450b1a3317e ==
  << Fk("expense", "client_company_id", "fk_expense_client_company_id", "client_company") \o
     Fk("expense", "paid_by", "fk_expense_paid_by", "user") \o
     Fk("expense", "approved_by", "fk_expense_approved_by", "user") \o
     Fk("expense", "payroll_run_id", "fk_expense_payroll_run_id", "payroll_run") \o
     Fk("payment_voucher", "reviewed_by", "fk_payment_voucher_reviewed_by", "user") \o
     Fk("payroll_run", "reviewed_by", "fk_payroll_run_reviewed_by", "user") \o
     Fk("user", "client_company_id", "fk_user_client_company_id", "client_company"),
     Unfk("user", {"fk_user_client_company_id"}) \o
     Unfk("payroll_run", {"fk_payroll_run_reviewed_by"}) \o
     Unfk("payment_voucher", {"fk_payment_voucher_reviewed_by"}) \o
     Unfk("expense", {"fk_expense_client_company_id", "fk_expense_paid_by",
                      "fk_expense_approved_by", "fk_expense_payroll_run_id"}) >>

(* f969702561b6: drop the archived operations tables, children first; its  *)
(* downgrade creates them in the order autogenerate left.                  *)
DropInOrder ==
  Drops(<<"goods_supply_order_item", "job_completion_report", "invoice_payment",
          "invoice_item", "goods_supply_order", "cleaning_job_worker", "attendance_record",
          "worker_assignment", "invoice", "inventory_movement", "client_service_request",
          "cleaning_job", "product", "supplier">>)

RecreateFirst ==
  Table("supplier", {}, {}) \o Table("job_completion_report", {"cleaning_job", "user"}, {}) \o
  Table("invoice_payment", {"invoice", "user"}, {"invoice_id"}) \o
  Table("cleaning_job_worker", {"cleaning_job", "employee"}, {"cleaning_job_id", "employee_id"}) \o
  Table("goods_supply_order_item", {"goods_supply_order", "product"}, {"goods_supply_order_id"}) \o
  Table("invoice", {"client_company", "user"}, {"client_company_id"}) \o
  Table("invoice_item", {"invoice"}, {"invoice_id"}) \o
  Table("inventory_movement", {"product", "user"}, {"product_id"})

RecreateLast ==
  Table("attendance_record", {"client_company", "employee", "user", "worker_assignment"},
        {"client_company_id", "employee_id", "work_date"}) \o
  Table("product", {"supplier"}, {}) \o
  Table("worker_assignment", {"client_company", "employee", "user"},
        {"client_company_id", "employee_id"}) \o
  Table("goods_supply_order", {"client_company", "client_service_request", "user"},
        {"client_company_id"}) \o
  Table("cleaning_job", {"client_company", "user"}, {"client_company_id", "scheduled_date"}) \o
  Table("client_service_request", {"client_company", "user"}, {"client_company_id"})

F969702561b6 == <<DropInOrder, RecreateFirst \o RecreateLast>>

(* Statutory and wage rates.                                               *)
Ec50a1d9972b ==
  << Table("statutory_rates", {"user"}, {"effective_from"}) \o
     Table("wage_rate_profiles", {"client_company", "employee"},
           {"client_company_id", "employee_id"}),
     Drop("wage_rate_profiles") \o Drop("statutory_rates") >>

A1708da6fa0f == LET cols == {"medical_allowance", "productivity_bonus", "pf_fund_employee"}
                IN  <<Add("payroll_item", cols), DropColumns("payroll_item", cols)>>

ConcessionColumns == {"overtime_rate_low", "overtime_rate_high", "overtime_basic_threshold",
                      "bonus_rate", "bonus_annual_basic_threshold"}

C802396b35b8 == <<Add("statutory_rates", ConcessionColumns) \o
                  Fill("statutory_rates", ConcessionColumns),
                  DropColumns("statutory_rates", ConcessionColumns)>>

A2e069c9765d ==
  << NotNull("statutory_rates", ConcessionColumns) \o Add("wage_rate_profiles", {"category"}) \o
     Fill("wage_rate_profiles", {"category"}),
     DropColumns("wage_rate_profiles", {"category"}) \o
     Nullable("statutory_rates", ConcessionColumns) >>

R912a1bf13693 ==
  << Add("employee", {"tax_relief_monthly"}) \o NotNull("wage_rate_profiles", {"category"}) \o
     Fill("employee", {"tax_relief_monthly"}),
     Nullable("wage_rate_profiles", {"category"}) \o DropColumns("employee", {"tax_relief_monthly"}) >>

B7e4c1d0a9f2 ==
  LET cols == {"end_of_year_bonus", "pay_difference", "ssf_employer", "overtime_tax", "bonus_tax",
               "bonus_excess", "taxable_income", "net_basic_wage", "annual_salary",
               "annual_salary_15pct", "loan_advance"}
  IN  << AddDefault("payroll_run", {"total_ssnit_employer"}) \o AddDefault("payroll_item", cols) \o
         Add("employee", {"tin"}),
         DropColumns("employee", {"tin"}) \o DropColumns("payroll_item", cols) \o
         DropColumns("payroll_run", {"total_ssnit_employer"}) >>

E3b9c7a41f52 ==
  << Add("employee", {"bank_branch"}) \o Add("payroll_item", {"bank_branch"}),
     DropColumns("payroll_item", {"bank_branch"}) \o DropColumns("employee", {"bank_branch"}) >>

C4d8e1a09f57 ==
  LET cols == {"meal_allowance", "welfare_deduction", "iou_deduction", "overtime_source"}
  IN  <<AddDefault("payroll_item", cols), DropColumns("payroll_item", cols)>>

(* Added by hand in production first, hence the idempotent revision.       *)
JuniorThreshold == {"overtime_junior_monthly_threshold"}
F1a9d3c07b62 ==
  <<Ensure("statutory_rates", JuniorThreshold), Discard("statutory_rates", JuniorThreshold)>>

A7c2f4e18b90 == <<Ensure("employee", {"icu_member"}), Discard("employee", {"icu_member"})>>
B8d3a6f29c14 ==
  <<Ensure("statutory_rates", {"icu_member_rate"}), Discard("statutory_rates", {"icu_member_rate"})>>
C9e5b2d478a1 == <<Ensure("payroll_item", {"icu_dues"}), Discard("payroll_item", {"icu_dues"})>>

D2a4f6108e35 ==
  << Ensure("employee", {"pay_type"}) \o
     EnsureTable("raw_upload_archives", {"payroll_run"}, {"payroll_run_id"}),
     DiscardTable("raw_upload_archives") \o Discard("employee", {"pay_type"}) >>

F4c2a1b9d7e3 == <<Add("employee", {"job_title"}), DropColumns("employee", {"job_title"})>>
A5f1c2e8b4d0 == LET cols == {"risk_status", "risk_reasons", "risk_checked_at"}
                IN  <<Add("payroll_run", cols), DropColumns("payroll_run", cols)>>

(* Events, the distribution queue and the delivery state.                  *)
B6c3d9e1f207 ==
  << Table("domain_event", {"user", "client_company"},
           {"event_type", "client_company_id", "created_at"}) \o
     Table("notification", {"user", "client_company", "domain_event"}, {"user_id", "created_at"}),
     Drop("notification") \o Drop("domain_event") >>

C1a9e5f7b3d2 ==
  << Table("distribution_batch", {"payroll_run", "client_company", "user"},
           {"payroll_run_id", "client_company_id", "status", "created_at"}),
     Drop("distribution_batch") >>

D2b8f6a3c1e4 ==
  <<Add("payslip_delivery", {"next_retry_at"}), DropColumns("payslip_delivery", {"next_retry_at"})>>

(* Dropping the column takes its foreign key with it.                      *)
E3c1a7b9d5f6 ==
  << Add("payslip_delivery", {"distribution_batch_id"}) \o
     Index("payslip_delivery", {"distribution_batch_id"}) \o
     Fk("payslip_delivery", "distribution_batch_id", "fk_payslip_delivery_distribution_batch",
        "distribution_batch"),
     Unindex("payslip_delivery", {"distribution_batch_id"}) \o
     DropColumns("payslip_delivery", {"distribution_batch_id"}) >>

F4d2b8c6a1e7 ==
  << Add("distribution_batch", {"scheduled_for"}) \o Index("distribution_batch", {"scheduled_for"}),
     Unindex("distribution_batch", {"scheduled_for"}) \o
     DropColumns("distribution_batch", {"scheduled_for"}) >>

A7e3c9f21b48 ==
  << Table("distribution_worker_heartbeat", {}, {"worker_name", "last_poll_at"}),
     Drop("distribution_worker_heartbeat") >>

B8f4d1e6c920 ==
  LET cols == {"provider_message_id", "provider_status", "delivered_at"}
  IN  << Add("payslip_delivery", cols) \o Index("payslip_delivery", {"provider_message_id"}),
         Unindex("payslip_delivery", {"provider_message_id"}) \o DropColumns("payslip_delivery", cols) >>

C9a1e7b4f832 == LET cols == {"brand_name", "brand_color", "email_from_name", "email_reply_to"}
                IN  <<Add("client_company", cols), DropColumns("client_company", cols)>>

A9f2c4e60d18 ==
  << Add("distribution_batch", {"claimed_by_worker"}) \o
     AddDefault("distribution_batch", {"reclaim_count"}),
     DropColumns("distribution_batch", {"reclaim_count", "claimed_by_worker"}) >>

B1c3e5f70a29 ==
  << Index("payroll_item", {"payroll_run_id"}) \o
     Index("payslip_delivery", {"status_next_retry", "item_channel"}) \o
     Index("distribution_batch", {"status_created"}),
     Unindex("distribution_batch", {"status_created"}) \o
     Unindex("payslip_delivery", {"status_next_retry", "item_channel"}) \o
     Unindex("payroll_item", {"payroll_run_id"}) >>

D7f1b2c5a934 ==
  LET cols == {"company_code", "address", "notes"}
  IN  << Add("client_company", cols) \o Index("client_company", {"company_code"}),
         Unindex("client_company", {"company_code"}) \o DropColumns("client_company", cols) >>

E5a2c8d13f60 == <<Add("expense", {"notes"}), DropColumns("expense", {"notes"})>>

(* Role strings, receipts, heartbeats, token versions.                     *)
A4e7c2b81d95 == <<Data("payrolla"), Data("chrisnat")>>

B2f6a9c04e71 ==
  << Table("expense_receipt", {"client_company", "expense", "user"},
           {"expense_id", "client_company_id"}),
     Drop("expense_receipt") >>

C3f7a2d81e64 == <<Op("forget", "distribution_worker_heartbeat", {}, {}), <<>> >>

(* Mutant: the downgrade forgets to make the column nullable again.        *)
StaysNotNull ==
  << Fill("statutory_rates", JuniorThreshold) \o NotNull("statutory_rates", JuniorThreshold),
     <<>> >>

D7b4e2a09c31 ==
  LET col == {"payslip_token_version"}
  IN  << Add("payroll_item", col) \o Fill("payroll_item", col) \o NotNull("payroll_item", col),
         DropColumns("payroll_item", col) >>

(* Mutant: tightens without the defensive backfill.                        *)
TightensAtOnce ==
  << NotNull("statutory_rates", JuniorThreshold), Nullable("statutory_rates", JuniorThreshold) >>

A1c5e9b73f40 ==
  << Fill("statutory_rates", JuniorThreshold) \o NotNull("statutory_rates", JuniorThreshold),
     Nullable("statutory_rates", JuniorThreshold) >>

(* The retry index becomes a unique constraint: it fails on duplicates.    *)
R3f2984c70c03 ==
  LET cols == {"units", "claimed_at", "template_version"}
  IN  << Add("payslip_delivery", cols) \o Unindex("payslip_delivery", {"item_channel"}) \o
         Unique("payslip_delivery", {"uq_item_channel"}) \o
         Add("distribution_batch", {"unknown_count"}) \o
         Table("payslip_link", {"payroll_item", "payslip_delivery"},
               {"code_hash", "payroll_item_id", "payslip_delivery_id"}),
         Drop("payslip_link") \o DropColumns("distribution_batch", {"unknown_count"}) \o
         Unindex("payslip_delivery", {"uq_item_channel"}) \o
         Index("payslip_delivery", {"item_channel"}) \o DropColumns("payslip_delivery", cols) >>

R8b62026a0901 == <<Data("september"), <<>> >>

(* Payroll evidence: never dropped again by a downgrade.                   *)
R9d2026c1020 ==
  << Add("employee", {"overtime_is_junior", "overtime_qualifying_annual_income",
                      "overtime_income_year", "pf_scheme_reference", "tax_relief_approval_ref",
                      "tax_relief_category", "tax_relief_valid_from", "tax_relief_valid_to"}) \o
     AddDefault("employee", {"pf_scheme_approved"}) \o
     Table("employee_tax_relief_approval", {"employee"}, {"employee_id"}) \o
     AddDefault("payroll_item", {"pf_fund_employer", "pf_allowable_employee",
        "pf_employer_taxable", "tax_relief_applied", "overtime_ordinary_pay",
        "pensionable_salary", "ssnit_remittance", "tier_2_remittance",
        "deductions_policy_version"}) \o
     AddDefault("statutory_rates", {"deductions_policy_version", "ssnit_min_insurable",
        "ssnit_max_insurable", "ssnit_limits_year", "ssnit_min_monthly_remittance",
        "provident_fund_tax_limit", "overtime_qualifying_annual_limit"}) \o
     Data("policy"),
     Data("refuse") >>

A1c2026b1101 ==
  << Add("user", {"invited_at", "activated_at"}) \o
     Table("access_request", {"client_company", "user"}, {"status", "created_at"}),
     Drop("access_request") \o DropColumns("user", {"activated_at", "invited_at"}) >>

B3d2026b1102 ==
  << Add("payroll_run", {"statutory_rate_id"}) \o
     Fk("payroll_run", "statutory_rate_id", "fk_payroll_run_statutory_rate", "statutory_rates"),
     Unfk("payroll_run", {"fk_payroll_run_statutory_rate"}) \o
     DropColumns("payroll_run", {"statutory_rate_id"}) >>

C5e2026b1106 ==
  << Table("desktop_licence", {"access_request", "user"}, {"access_request_id", "issued_at"}),
     Drop("desktop_licence") >>

(* The chain of down_revision links, root first.                           *)
Chain ==
  << F0e1d2c3b4a5, D450b1a3317e, F969702561b6, Ec50a1d9972b, A1708da6fa0f, C802396b35b8,
     A2e069c9765d, R912a1bf13693, B7e4c1d0a9f2, E3b9c7a41f52, C4d8e1a09f57, F1a9d3c07b62,
     A7c2f4e18b90, B8d3a6f29c14, C9e5b2d478a1, D2a4f6108e35, F4c2a1b9d7e3, A5f1c2e8b4d0,
     B6c3d9e1f207, C1a9e5f7b3d2, D2b8f6a3c1e4, E3c1a7b9d5f6, F4d2b8c6a1e7, A7e3c9f21b48,
     B8f4d1e6c920, C9a1e7b4f832, A9f2c4e60d18, B1c3e5f70a29, D7f1b2c5a934, E5a2c8d13f60,
     A4e7c2b81d95, B2f6a9c04e71, C3f7a2d81e64, D7b4e2a09c31, A1c5e9b73f40, R3f2984c70c03,
     R8b62026a0901, R9d2026c1020, A1c2026b1101, B3d2026b1102, C5e2026b1106 >>

HeadRev == Len(Chain)
=============================================================================
