------------------------------ MODULE Expenses ------------------------------
(***************************************************************************)
(* A company's expenses and their receipts: the tenant's screens            *)
(* (client/expenses.py), the attachment of a file (receipts.py), the object *)
(* store (storage.py), and the operator's form (audit.py).                  *)
(*                                                                          *)
(* A receipt is a row in the database and an object in the store, and no     *)
(* transaction spans the two: an upload stores the new object, deletes the  *)
(* row and the object of the old one, and commits; another request, a       *)
(* storage error or a lost connection may come at any point between.        *)
(* A deleted but uncommitted row is locked, and the next to delete it waits. *)
(* The database is PostgreSQL, which enforces the foreign keys.             *)
(***************************************************************************)
EXTENDS Integers, FiniteSets, Sequences, SequencesExt

CONSTANTS
    Threads,        \* request threads
    Companies,      \* tenants
    Forms,          \* expense forms: [date, listed, described, amount]
    Uploads,        \* files offered: [ext, declared, size, content]
    MAX_BYTES,      \* RECEIPT_MAX_BYTES
    MaxExpenses,    \* bound: expenses ever recorded
    MaxKeys         \* bound: objects ever stored

ASSUME LedgerBoundsAssumption == MaxExpenses \in Nat \ {0} /\ MaxKeys \in Nat \ {0}

VARIABLES
    expenses,   \* Expense rows, by id: their company, as a set of at most one
    receipts,   \* ExpenseReceipt rows, by expense id: [key, type]
    objects,    \* stored objects, by key: [content, company, exp]
    serving,    \* per thread: the request it is in, as a sequence of at most one
    ids,        \* expense ids given
    keys,       \* storage keys made
    undone,     \* history: keys whose object was deleted by a transaction that failed
    stray       \* history: keys left behind by a failure

ledgerVars == <<expenses, receipts, objects, serving, ids, keys, undone, stray>>
rowVars == <<expenses, receipts>>

NoOne == {}

(* A row or an object written under x, new or in the place of another.        *)
Put(f, x, y) == [z \in DOMAIN f \cup {x} |-> IF z = x THEN y ELSE f[z]]

-----------------------------------------------------------------------------
(* receipts.py: what may be stored, and as what *)

ALLOWED_EXTENSIONS == [pdf |-> "pdf", png |-> "png", jpg |-> "jpeg", jpeg |-> "jpeg"]
Declarable == {"", "pdf", "png", "jpeg"}

(* The leading bytes name the content; a script has none of the three.        *)
Sniff(content) == IF content \in {"pdf", "png", "jpeg"} THEN content ELSE "none"

(* Mutant: the extension is believed.                                         *)
BelieveExtension(file) ==
    /\ file.ext \in DOMAIN ALLOWED_EXTENSIONS
    /\ file.size > 0 /\ file.size <= MAX_BYTES

ValidateUpload(file) ==
    /\ file.ext \in DOMAIN ALLOWED_EXTENSIONS
    /\ file.declared \in Declarable
    /\ file.size > 0 /\ file.size <= MAX_BYTES
    /\ Sniff(file.content) = ALLOWED_EXTENSIONS[file.ext]

(* One thread at a time works on the deleted row of a receipt.               *)
Holds(u, key) ==
    serving[u] # <<>> /\ serving[u][1].step = "replaced" /\ serving[u][1].previous = <<key>>
Locked(t, key) == \E u \in Threads \ {t} : Holds(u, key)

Serve(t, what) == serving' = [serving EXCEPT ![t] = <<what>>]
Answer(t) == serving' = [serving EXCEPT ![t] = <<>>]

-----------------------------------------------------------------------------
(* client/expenses.py *)

(* tenant_get_or_404: the expense, if it is this company's.                   *)
Opens(c, e) == e \in DOMAIN expenses /\ expenses[e] = {c}

(* storage.save: the object is there, or, when it fails, part of it may be.   *)
SaveObject(file, c, e) ==
    /\ keys < MaxKeys
    /\ keys' = keys + 1
    /\ objects' = Put(objects, keys + 1, [content |-> file.content, company |-> c, exp |-> e])

(* A form is [date, listed, described, amount]: the amount is rounded before   *)
(* it is compared with zero, and infinity passes.                             *)
ValidateExpenseForm(form) ==
    /\ form.date = "past" /\ form.listed /\ form.described
    /\ form.amount \notin {"none", "tiny"}

Request(do, e, c, key, type) ==
    [do |-> do, exp |-> e, company |-> c, key |-> key, type |-> type,
     previous |-> <<>>, step |-> "stored"]
HasReceipt(e) == IF e \in DOMAIN receipts THEN <<receipts[e].key>> ELSE <<>>
Reading(q) == [q EXCEPT !.previous = HasReceipt(q.exp), !.step = "read"]

(* A form without a file: nothing to store, one transaction (an edit then      *)
(* changes nothing that is modelled).                                         *)
ExpenseAdd(t, c, form) ==
    /\ serving[t] = <<>> /\ ids < MaxExpenses
    /\ ValidateExpenseForm(form)
    /\ ids' = ids + 1
    /\ expenses' = Put(expenses, ids + 1, {c})
    /\ UNCHANGED <<receipts, objects, serving, keys, undone, stray>>

(* A form with a file: attach_receipt up to the lazy load of the old receipt. *)
AddWithReceipt(t, c, form, file) ==
    /\ serving[t] = <<>> /\ ids < MaxExpenses
    /\ ValidateExpenseForm(form) /\ ValidateUpload(file)
    /\ ids' = ids + 1
    /\ SaveObject(file, c, ids + 1)
    /\ Serve(t, Reading(Request("add", ids + 1, c, <<keys + 1>>, Sniff(file.content))))
    /\ UNCHANGED <<rowVars, undone, stray>>

EditWithReceipt(t, c, e, form, file) ==
    /\ serving[t] = <<>> /\ Opens(c, e)
    /\ ValidateExpenseForm(form) /\ ValidateUpload(file)
    /\ SaveObject(file, c, e)
    /\ Serve(t, Request("edit", e, c, <<keys + 1>>, Sniff(file.content)))
    /\ UNCHANGED <<rowVars, ids, undone, stray>>

ReceiptDelete(t, c, e) ==
    /\ serving[t] = <<>> /\ Opens(c, e)
    /\ e \in DOMAIN receipts
    /\ Serve(t, Reading(Request("detach", e, c, <<>>, "")))
    /\ UNCHANGED <<rowVars, objects, ids, keys, undone, stray>>

ExpenseDelete(t, c, e) ==
    /\ serving[t] = <<>> /\ Opens(c, e)
    /\ Serve(t, Reading(Request("delete", e, c, <<>>, "")))
    /\ UNCHANGED <<rowVars, objects, ids, keys, undone, stray>>

(* expense.receipt, loaded.                                                  *)
LoadPrevious(t) ==
    /\ serving[t] # <<>> /\ serving[t][1].step = "stored"
    /\ Serve(t, Reading(serving[t][1]))
    /\ UNCHANGED <<rowVars, objects, ids, keys, undone, stray>>

(* Mutant: the row goes, its file stays.                                      *)
ReplaceRowOnly(t, fails) ==
    /\ serving[t] # <<>> /\ serving[t][1].step = "read"
    /\ serving' = [serving EXCEPT ![t][1].step = "replaced"]
    /\ UNCHANGED <<rowVars, objects, ids, keys, undone, stray>>

(* Flush the old row's DELETE, then remove its object, which may fail.        *)
ReplacePrevious(t, fails) ==
    /\ serving[t] # <<>> /\ serving[t][1].step = "read"
    /\ LET old == serving[t][1].previous
       IN /\ old # <<>> => ~Locked(t, old[1])
          /\ objects' = IF old = <<>> \/ fails THEN objects
                        ELSE [k \in DOMAIN objects \ ToSet(old) |-> objects[k]]
          /\ stray' = IF fails THEN stray \cup (ToSet(old) \cap DOMAIN objects) ELSE stray
    /\ serving' = [serving EXCEPT ![t][1].step = "replaced"]
    /\ UNCHANGED <<rowVars, ids, keys, undone>>

(* Rows the transaction leaves: the unique key on expense_id and the foreign  *)
(* key on the expense refuse a receipt that came in between.                 *)
NewReceiptBetween(q) ==
    q.exp \in DOMAIN receipts /\ <<receipts[q.exp].key>> # q.previous

Refused(q) ==
    \/ q.do \in {"add", "edit"} /\ NewReceiptBetween(q)
    \/ q.do = "edit" /\ q.exp \notin DOMAIN expenses
    \/ q.do = "delete" /\ NewReceiptBetween(q)

Written(q) ==
    CASE q.do = "add" -> Put(expenses, q.exp, {q.company})
      [] q.do \in {"edit", "detach"} -> expenses
      [] q.do = "delete" -> [e \in DOMAIN expenses \ {q.exp} |-> expenses[e]]

Attached(q) ==
    IF q.key # <<>>
    THEN Put(receipts, q.exp, [key |-> q.key[1], type |-> q.type])
    ELSE IF NewReceiptBetween(q) THEN receipts
    ELSE [e \in DOMAIN receipts \ {q.exp} |-> receipts[e]]

Commit(t) ==
    /\ serving[t] # <<>> /\ serving[t][1].step = "replaced"
    /\ ~Refused(serving[t][1])
    /\ expenses' = Written(serving[t][1])
    /\ receipts' = Attached(serving[t][1])
    /\ Answer(t)
    /\ UNCHANGED <<objects, ids, keys, undone, stray>>

(* The transaction is rolled back, by a refused row or a lost connection or   *)
(* process, at any point: what was stored stays, what was removed is gone.    *)
Fail(t) ==
    /\ serving[t] # <<>>
    /\ LET q == serving[t][1]
       IN /\ stray' = stray \cup ToSet(q.key)
          /\ undone' = IF q.step = "replaced" THEN undone \cup ToSet(q.previous) ELSE undone
    /\ Answer(t)
    /\ UNCHANGED <<rowVars, objects, ids, keys>>

(* _send_receipt: what company c gets for expense e, and as what.             *)
SendReceipt(c, e) ==
    IF Opens(c, e) /\ e \in DOMAIN receipts /\ receipts[e].key \in DOMAIN objects
    THEN <<[object |-> objects[receipts[e].key], type |-> receipts[e].type]>>
    ELSE <<>>

-----------------------------------------------------------------------------
(* audit.py: the operator's side *)

(* The company and the payroll run of the form may both be blank; a run of    *)
(* another company is refused.  Any date and category will do, and the amount *)
(* is compared with zero before it is rounded.                                *)
AddExpense(t, company, run, form) ==
    /\ serving[t] = <<>> /\ ids < MaxExpenses
    /\ form.date # "none" /\ form.described
    /\ form.amount \notin {"none", "infinite"}
    /\ run # NoOne /\ company # NoOne => run = company
    /\ ids' = ids + 1
    /\ expenses' = Put(expenses, ids + 1, company)
    /\ UNCHANGED <<receipts, objects, serving, keys, undone, stray>>

-----------------------------------------------------------------------------
(* One expense is on file, with its receipt.                                  *)
LedgerInit ==
    /\ \E c \in Companies :
          /\ expenses = <<{c}>>
          /\ receipts = <<[key |-> 1, type |-> "pdf"]>>
          /\ objects = <<[content |-> "pdf", company |-> c, exp |-> 1]>>
    /\ serving = [t \in Threads |-> <<>>]
    /\ ids = 1 /\ keys = 1
    /\ undone = {} /\ stray = {}

LedgerNext ==
    \/ \E t \in Threads :
          \/ \E c \in Companies, form \in Forms :
                \/ ExpenseAdd(t, c, form)
                \/ \E file \in Uploads : AddWithReceipt(t, c, form, file)
                \/ \E e \in DOMAIN expenses, file \in Uploads : EditWithReceipt(t, c, e, form, file)
          \/ \E c \in Companies, e \in DOMAIN expenses : ReceiptDelete(t, c, e) \/ ExpenseDelete(t, c, e)
          \/ LoadPrevious(t)
          \/ \E fails \in BOOLEAN : ReplacePrevious(t, fails)
          \/ Commit(t)
          \/ Fail(t)
          \/ \E company, run \in {NoOne} \cup {{c} : c \in Companies}, form \in Forms :
                AddExpense(t, company, run, form)

LedgerSpec == LedgerInit /\ [][LedgerNext]_ledgerVars

-----------------------------------------------------------------------------
(* Properties *)

(* Rows and objects are what the code stores: a receipt only hangs off an     *)
(* expense that exists and has a company, and two rows never name one object  *)
(* (ExpenseReceipt.expense_id, build_storage_key).                            *)
LedgerTypeOK ==
    /\ DOMAIN expenses \subseteq 1 .. ids /\ DOMAIN objects \subseteq 1 .. keys
    /\ \A e \in DOMAIN receipts : e \in DOMAIN expenses /\ expenses[e] # NoOne
    /\ \A d, e \in DOMAIN receipts : receipts[d].key = receipts[e].key => d = e
    /\ ids <= MaxExpenses /\ keys <= MaxKeys

(* Rows and files match, whichever requests cross (two uploads, an upload     *)
(* and a deletion).  A row without its file belongs to a transaction that has *)
(* not ended, or that failed after it removed the old file; an object that no *)
(* row and no running request names was left by a failed commit or a failed   *)
(* removal (receipts.attach_receipt, detach_receipt,                          *)
(* client.expenses.expense_delete).                                           *)
RowsMatchFiles ==
    /\ \A e \in DOMAIN receipts :
         \/ receipts[e].key \in DOMAIN objects
         \/ receipts[e].key \in undone
         \/ \E t \in Threads : Holds(t, receipts[e].key)
    /\ \A k \in DOMAIN objects :
         \/ \E e \in DOMAIN receipts : receipts[e].key = k
         \/ \E t \in Threads : serving[t] # <<>> /\ serving[t][1].key = <<k>>
         \/ k \in stray

(* What a company downloads for an expense is the file its own people          *)
(* uploaded to it, served as what its bytes are, after any sequence of         *)
(* replacements, deletions and failures (client.expenses._send_receipt).      *)
ServedIsOwnFile ==
    \A c \in Companies, e \in DOMAIN expenses :
       LET file == SendReceipt(c, e)
       IN file # <<>> =>
             /\ file[1].object.company = c /\ file[1].object.exp = e
             /\ file[1].type = file[1].object.content
=============================================================================
