---------------------------- MODULE BooksProofs -----------------------------
(***************************************************************************)
(* Proofs about the books of a company.                                     *)
(*                                                                         *)
(* Roster: for any database, threads, workers, files and forms, a staff id  *)
(* has one record unless two requests crossed or a seed named a new worker  *)
(* twice, a payslip stays its worker's, what a past period was relieved     *)
(* with stands, and no basic pay becomes zero unseen.                       *)
(*                                                                         *)
(* Expenses: whichever requests cross and wherever they fail, receipt rows  *)
(* and stored files match, and a company is served its own file.            *)
(*                                                                         *)
(* AuditPages: the pages show every row once and newest first, although     *)
(* each is cut from no more rows than it can reach.                         *)
(***************************************************************************)
EXTENDS Roster, Expenses, AuditPages, Least, FiniteSetTheorems, SequenceTheorems, TLAPS

-----------------------------------------------------------------------------
(* The roster *)

Columns == {"staff", "status", "pay", "basic", "relief", "doc", "email"}

(* A staff id in its one spelling.                                           *)
PlainId(staff) == staff = [id |-> staff.id, spelt |-> "plain"]

RowShape(row) == row = [c \in Columns |-> row[c]] /\ PlainId(row.staff)

(* Rows by ids up to n.  PostgreSQL numbers them as they come.               *)
RowsOK(rows, n) ==
    /\ rows = [e \in DOMAIN rows |-> [row |-> rows[e].row, uid |-> rows[e].uid]]
    /\ DOMAIN rows \subseteq 1 .. n
    /\ \A e \in DOMAIN rows : RowShape(rows[e].row)
    /\ engine = "postgresql" => \A e \in DOMAIN rows : rows[e].uid = e

DbOK(d) ==
    /\ d = [roster |-> d.roster, awards |-> d.awards, rates |-> d.rates, items |-> d.items,
            made |-> d.made]
    /\ d.made \in Nat
    /\ RowsOK(d.roster, d.made)
    /\ DOMAIN d.awards = DOMAIN d.roster

(* Later rows: no worker is gone or taken for another.                       *)
Extends(d, later) ==
    /\ DOMAIN d.roster \subseteq DOMAIN later.roster
    /\ \A e \in DOMAIN d.roster : later.roster[e].uid = d.roster[e].uid
    /\ later.items = d.items /\ d.made <= later.made

EngineOK == engine \in {"postgresql", "sqlite"}

(* The last of some ids is one of them.                                      *)
LEMMA LatestIs ==
    ASSUME NEW n \in Nat, NEW rowIds \in SUBSET (0 .. n), rowIds # {}
    PROVE  LatestOf(rowIds) \in rowIds /\ \A f \in rowIds : f <= LatestOf(rowIds)
<1> DEFINE gaps == {n - e : e \in rowIds}
<1>1. gaps \in SUBSET Nat /\ gaps # {}
  <2>1. \A e \in rowIds : n - e \in Nat
    OBVIOUS
  <2>2. PICK e \in rowIds : TRUE
    OBVIOUS
  <2>3. n - e \in gaps
    BY <2>2
  <2> QED BY <2>1, <2>3
<1>2. PICK g \in gaps : \A h \in gaps : g <= h
  <2> HIDE DEF gaps
  <2> QED BY <1>1, LeastExists
<1>3. PICK e \in rowIds : g = n - e
  BY <1>2
<1>4. \A f \in rowIds : f <= e
  <2> SUFFICES ASSUME NEW f \in rowIds PROVE f <= e
    OBVIOUS
  <2>1. n - f \in gaps /\ g <= n - f
    BY <1>2
  <2> QED BY <1>3, <2>1
<1> QED BY <1>4 DEF LatestOf

(* The id of a new row is no row's.                                          *)
LEMMA FreshIdIs ==
    ASSUME EngineOK, NEW d, DbOK(d)
    PROVE  /\ FreshId(d) \in 1 .. d.made + 1 /\ FreshId(d) \notin DOMAIN d.roster
           /\ engine = "postgresql" => FreshId(d) = d.made + 1
<1>0. d.made \in Nat /\ DOMAIN d.roster \subseteq 1 .. d.made
  BY DEF DbOK, RowsOK
<1>1. CASE engine = "sqlite"
  <2> DEFINE rowIds == DOMAIN d.roster \cup {0}
  <2>1. rowIds \in SUBSET (0 .. d.made) /\ rowIds # {}
    BY <1>0
  <2>2. LatestOf(rowIds) \in rowIds /\ \A f \in rowIds : f <= LatestOf(rowIds)
    <3> HIDE DEF rowIds
    <3> QED BY <1>0, <2>1, LatestIs
  <2>3. FreshId(d) = LatestOf(rowIds) + 1
    BY <1>1 DEF FreshId
  <2> DEFINE top == LatestOf(rowIds)
  <2>4. top \in 0 .. d.made /\ \A f \in DOMAIN d.roster : f <= top
    BY <2>1, <2>2
  <2> HIDE DEF top
  <2>5. FreshId(d) = top + 1
    BY <2>3 DEF top
  <2> QED BY <1>0, <1>1, <2>4, <2>5
<1>2. CASE engine = "postgresql"
  BY <1>0, <1>2 DEF FreshId
<1> QED BY <1>1, <1>2 DEF EngineOK

(* An INSERT adds the row, under an id no row has.                           *)
LEMMA InsertIs ==
    ASSUME EngineOK, NEW d, DbOK(d), NEW row, RowShape(row)
    PROVE  LET later == Insert(d, row)
               id == FreshId(d)
           IN  /\ DbOK(later) /\ Extends(d, later) /\ later.rates = d.rates
               /\ DOMAIN later.roster = DOMAIN d.roster \cup {id}
               /\ later.roster[id] = [row |-> row, uid |-> d.made + 1]
               /\ \A e \in DOMAIN d.roster : later.roster[e] = d.roster[e]
               /\ later.awards = With(d.awards, id, <<>>) /\ later.made = d.made + 1
<1> DEFINE later == Insert(d, row)
           id == FreshId(d)
<1>0. /\ d = [roster |-> d.roster, awards |-> d.awards, rates |-> d.rates, items |-> d.items, made |-> d.made]
      /\ d.made \in Nat /\ DOMAIN d.roster \subseteq 1 .. d.made
      /\ d.roster = [e \in DOMAIN d.roster |-> [row |-> d.roster[e].row, uid |-> d.roster[e].uid]]
      /\ \A e \in DOMAIN d.roster : RowShape(d.roster[e].row)
      /\ engine = "postgresql" => \A e \in DOMAIN d.roster : d.roster[e].uid = e
  BY DEF DbOK, RowsOK
<1>00. DOMAIN d.awards = DOMAIN d.roster
  BY DEF DbOK
<1>1. id \in 1 .. d.made + 1 /\ id \notin DOMAIN d.roster /\ (engine = "postgresql" => id = d.made + 1)
  BY FreshIdIs
<1> HIDE DEF id
<1> DEFINE new == [row |-> row, uid |-> d.made + 1]
<1>2. later = [roster |-> With(d.roster, id, new), awards |-> With(d.awards, id, <<>>),
               rates |-> d.rates, items |-> d.items, made |-> d.made + 1]
  <2> DEFINE a == With(d.roster, id, new)
             b == With(d.awards, id, <<>>)
  <2>1. later = [d EXCEPT !.roster = a, !.awards = b, !.made = d.made + 1]
    BY DEF Insert, id
  <2> HIDE DEF later, a, b
  <2>2. later = [roster |-> a, awards |-> b, rates |-> d.rates, items |-> d.items, made |-> d.made + 1]
    BY <1>0, <2>1
  <2> QED BY <2>2 DEF a, b
<1> HIDE DEF later
<1>3. /\ later.roster = With(d.roster, id, new) /\ later.awards = With(d.awards, id, <<>>)
      /\ later.rates = d.rates /\ later.items = d.items /\ later.made = d.made + 1
  BY <1>2
<1>4. /\ DOMAIN later.roster = DOMAIN d.roster \cup {id} /\ later.roster[id] = new
      /\ \A e \in DOMAIN d.roster : later.roster[e] = d.roster[e]
      /\ later.roster = [e \in DOMAIN later.roster |-> later.roster[e]]
  BY <1>1, <1>3 DEF With
<1>5. RowsOK(later.roster, later.made)
  <2>1. \A e \in DOMAIN later.roster : later.roster[e] = [row |-> later.roster[e].row, uid |-> later.roster[e].uid]
    BY <1>0, <1>4
  <2>2. \A e \in DOMAIN later.roster : RowShape(later.roster[e].row)
    BY <1>0, <1>4
  <2>3. engine = "postgresql" => \A e \in DOMAIN later.roster : later.roster[e].uid = e
    BY <1>0, <1>1, <1>4
  <2>4. DOMAIN later.roster \subseteq 1 .. later.made
    BY <1>0, <1>1, <1>3, <1>4
  <2> QED BY <1>4, <2>1, <2>2, <2>3, <2>4 DEF RowsOK
<1>51. DOMAIN later.awards = DOMAIN later.roster
  BY <1>00, <1>3, <1>4 DEF With
<1>6. DbOK(later)
  BY <1>0, <1>2, <1>3, <1>5, <1>51 DEF DbOK
<1>7. Extends(d, later)
  BY <1>0, <1>3, <1>4 DEF Extends
<1> QED BY <1>3, <1>4, <1>6, <1>7 DEF later, id

(* An UPDATE writes columns of a row there is, and touches nothing else.     *)
LEMMA UpdateIs ==
    ASSUME NEW d, DbOK(d), NEW id \in DOMAIN d.roster, NEW loaded, NEW row, RowShape(row)
    PROVE  LET later == Update(d, id, loaded, row)
           IN  /\ DbOK(later) /\ Extends(d, later) /\ later.rates = d.rates
               /\ later.awards = d.awards /\ later.made = d.made
               /\ DOMAIN later.roster = DOMAIN d.roster
               /\ later.roster[id].row = Merged(row, loaded, d.roster[id].row)
               /\ \A e \in DOMAIN d.roster : e # id => later.roster[e] = d.roster[e]
<1> DEFINE later == Update(d, id, loaded, row)
           mix == Merged(row, loaded, d.roster[id].row)
<1>0. /\ d = [roster |-> d.roster, awards |-> d.awards, rates |-> d.rates, items |-> d.items, made |-> d.made]
      /\ d.made \in Nat /\ DOMAIN d.roster \subseteq 1 .. d.made
      /\ d.roster = [e \in DOMAIN d.roster |-> [row |-> d.roster[e].row, uid |-> d.roster[e].uid]]
      /\ \A e \in DOMAIN d.roster : RowShape(d.roster[e].row)
      /\ engine = "postgresql" => \A e \in DOMAIN d.roster : d.roster[e].uid = e
  BY DEF DbOK, RowsOK
<1> DEFINE one == [d.roster[id] EXCEPT !.row = mix]
           all == [d.roster EXCEPT ![id] = one]
<1>1. one = [row |-> mix, uid |-> d.roster[id].uid]
  <2> HIDE DEF mix
  <2>1. d.roster[id] = [row |-> d.roster[id].row, uid |-> d.roster[id].uid]
    BY <1>0
  <2> QED BY <2>1
<1>2. later = [d EXCEPT !.roster = all]
  BY DEF Update
<1> HIDE DEF one, mix
<1>3. /\ DOMAIN all = DOMAIN d.roster /\ all[id] = one
      /\ \A e \in DOMAIN d.roster : e # id => all[e] = d.roster[e]
      /\ all = [e \in DOMAIN all |-> all[e]]
  BY <1>0
<1> HIDE DEF all, later
<1>4. later = [roster |-> all, awards |-> d.awards, rates |-> d.rates, items |-> d.items, made |-> d.made]
  BY <1>0, <1>2
<1>5. /\ later.roster = all /\ later.awards = d.awards /\ later.rates = d.rates
      /\ later.items = d.items /\ later.made = d.made
  BY <1>4
<1>6. RowShape(mix)
  <2>1. RowShape(d.roster[id].row) /\ DOMAIN row = Columns
    BY <1>0 DEF RowShape
  <2>2. mix = [c \in Columns |-> mix[c]]
    BY <2>1 DEF mix, Merged
  <2>3. mix.staff = row.staff \/ mix.staff = d.roster[id].row.staff
    BY <2>1 DEF mix, Merged, Columns
  <2>4. PlainId(mix.staff)
    BY <2>1, <2>3 DEF RowShape
  <2> QED BY <2>2, <2>4 DEF RowShape
<1>7. /\ all[id].row = mix /\ all[id].uid = d.roster[id].uid
      /\ \A e \in DOMAIN all : all[e] = [row |-> all[e].row, uid |-> all[e].uid]
      /\ \A e \in DOMAIN all : RowShape(all[e].row) /\ all[e].uid = d.roster[e].uid
  BY <1>0, <1>1, <1>3, <1>6
<1>8. RowsOK(later.roster, later.made)
  BY <1>0, <1>3, <1>5, <1>7 DEF RowsOK
<1>81. DOMAIN later.awards = DOMAIN later.roster
  BY <1>3, <1>5 DEF DbOK
<1>9. DbOK(later)
  BY <1>0, <1>4, <1>5, <1>8, <1>81 DEF DbOK
<1>10. Extends(d, later)
  BY <1>0, <1>3, <1>5, <1>7 DEF Extends
<1> QED BY <1>3, <1>5, <1>7, <1>9, <1>10 DEF later, mix

(* The papers of an award go to the awards alone.                            *)
LEMMA SaveMetadataIs ==
    ASSUME NEW d, DbOK(d), NEW id, NEW form
    PROVE  LET later == SaveDeductionMetadata(d, id, form)
           IN  /\ DbOK(later) /\ Extends(d, later)
               /\ later.roster = d.roster /\ later.rates = d.rates /\ later.made = d.made
<1> DEFINE later == SaveDeductionMetadata(d, id, form)
<1>0. /\ d = [roster |-> d.roster, awards |-> d.awards, rates |-> d.rates, items |-> d.items, made |-> d.made]
      /\ d.made \in Nat /\ RowsOK(d.roster, d.made)
  BY DEF DbOK
<1>00. DOMAIN d.awards = DOMAIN d.roster
  BY DEF DbOK
<1> DEFINE more == [d.awards EXCEPT ![id] = Append(@, [amount |-> form.relief, doc |-> form.doc])]
<1>1. later = d \/ later = [d EXCEPT !.awards = more]
  BY DEF SaveDeductionMetadata
<1>11. DOMAIN more = DOMAIN d.awards
  OBVIOUS
<1> HIDE DEF more, later
<1>2. later = d \/ later = [roster |-> d.roster, awards |-> more, rates |-> d.rates, items |-> d.items, made |-> d.made]
  BY <1>0, <1>1
<1>3. /\ later.roster = d.roster /\ later.rates = d.rates /\ later.made = d.made /\ later.items = d.items
      /\ later = [roster |-> later.roster, awards |-> later.awards, rates |-> later.rates, items |-> later.items, made |-> later.made]
  BY <1>0, <1>2
<1>31. DOMAIN later.awards = DOMAIN later.roster
  BY <1>00, <1>11, <1>2, <1>3
<1>4. DbOK(later)
  BY <1>0, <1>3, <1>31 DEF DbOK
<1>5. Extends(d, later)
  BY <1>0, <1>3 DEF Extends
<1> QED BY <1>3, <1>4, <1>5 DEF later

(* Later than later is later.                                                *)
LEMMA ExtendsOn ==
    ASSUME NEW a, NEW b, NEW c, Extends(a, b), Extends(b, c), a.made \in Nat, b.made \in Nat, c.made \in Nat
    PROVE  Extends(a, c)
BY DEF Extends

(* Rows read once are rows as more are made.                                 *)
LEMMA RowsStay ==
    ASSUME NEW rows, NEW m \in Nat, NEW n \in Nat, m <= n, RowsOK(rows, m)
    PROVE  RowsOK(rows, n)
BY DEF RowsOK

-----------------------------------------------------------------------------
(* What one line of a file does *)

(* On PostgreSQL rates belong to the worker they were written for.           *)
RatesHeld(d) ==
    engine = "postgresql" =>
       \A x \in d.rates : x.emp \in DOMAIN d.roster /\ d.roster[x.emp].uid = x.of

(* What a line may do to the rows: staff ids, papers and awards stay; at     *)
(* most one row is added, without papers and with the given staff id, if it  *)
(* is new.                                                                   *)
LineStep(d, later, staff, new) ==
    /\ \A e \in DOMAIN d.roster :
          later.roster[e].row.doc = d.roster[e].row.doc /\ later.awards[e] = d.awards[e]
    /\ \A e \in DOMAIN later.roster \ DOMAIN d.roster :
          later.roster[e].row.doc = "none" /\ later.awards[e] = <<>>
    /\ \A e \in DOMAIN d.roster : later.roster[e].row.staff = d.roster[e].row.staff
    /\ \A e \in DOMAIN later.roster \ DOMAIN d.roster : new /\ later.roster[e].row.staff = staff
    /\ \A e, f \in DOMAIN later.roster \ DOMAIN d.roster : e = f

LEMMA RowIs ==
    ASSUME NEW staff, PlainId(staff), NEW basic
    PROVE  RowShape(Row(staff, basic)) /\ Row(staff, basic).staff = staff /\ Row(staff, basic).doc = "none"
BY DEF RowShape, Row, Columns

LEMMA InsertLine ==
    ASSUME EngineOK, NEW d, DbOK(d), NEW row, RowShape(row), row.doc = "none"
    PROVE  LineStep(d, Insert(d, row), row.staff, TRUE)
<1> DEFINE later == Insert(d, row)
           id == FreshId(d)
<1>1. /\ DOMAIN later.roster = DOMAIN d.roster \cup {id}
      /\ later.roster[id] = [row |-> row, uid |-> d.made + 1]
      /\ \A e \in DOMAIN d.roster : later.roster[e] = d.roster[e]
      /\ later.awards = With(d.awards, id, <<>>)
  BY InsertIs
<1>11. id \notin DOMAIN d.roster /\ DOMAIN d.awards = DOMAIN d.roster
  BY FreshIdIs DEF DbOK
<1> HIDE DEF later, id
<1>12. later.awards[id] = <<>> /\ \A e \in DOMAIN d.roster : later.awards[e] = d.awards[e]
  BY <1>1, <1>11 DEF With
<1>2. LineStep(d, later, row.staff, TRUE)
  BY <1>1, <1>12 DEF LineStep
<1> QED BY <1>2 DEF later

LEMMA UpdateLine ==
    ASSUME NEW d, DbOK(d), NEW id \in DOMAIN d.roster, NEW loaded, NEW row, RowShape(row),
           row.staff = loaded.staff, row.doc = loaded.doc, NEW staff, NEW new
    PROVE  LineStep(d, Update(d, id, loaded, row), staff, new)
<1> DEFINE later == Update(d, id, loaded, row)
<1>1. /\ DOMAIN later.roster = DOMAIN d.roster
      /\ later.roster[id].row = Merged(row, loaded, d.roster[id].row)
      /\ \A e \in DOMAIN d.roster : e # id => later.roster[e] = d.roster[e]
      /\ later.awards = d.awards
  BY UpdateIs
<1>2. LET mix == Merged(row, loaded, d.roster[id].row)
      IN  mix.staff = d.roster[id].row.staff /\ mix.doc = d.roster[id].row.doc
  BY DEF Merged, RowShape, Columns
<1> HIDE DEF later
<1>3. LineStep(d, later, staff, new)
  BY <1>1, <1>2 DEF LineStep
<1> QED BY <1>3 DEF later

(* The rows a request found are some of those it read.                       *)
LEMMA FoundIs ==
    ASSUME NEW n \in Nat, NEW rows, RowsOK(rows, n), NEW staff, Existing(rows, staff) # {}
    PROVE  /\ LatestOf(Existing(rows, staff)) \in Existing(rows, staff)
           /\ LatestOf(Existing(rows, staff)) \in DOMAIN rows
           /\ rows[LatestOf(Existing(rows, staff))].row.staff = staff
           /\ RowShape(rows[LatestOf(Existing(rows, staff))].row)
<1>1. Existing(rows, staff) \in SUBSET (0 .. n)
  BY DEF RowsOK, Existing
<1>2. LatestOf(Existing(rows, staff)) \in Existing(rows, staff)
  BY <1>1, LatestIs
<1>3. LatestOf(Existing(rows, staff)) \in DOMAIN rows /\ rows[LatestOf(Existing(rows, staff))].row.staff = staff
  BY <1>2 DEF Existing
<1> QED BY <1>2, <1>3 DEF RowsOK

LEMMA SeededRowIs ==
    ASSUME NEW x, NEW old, RowShape(old), NEW awarded
    PROVE  RowShape(SeededRow(x, old, awarded)) /\ SeededRow(x, old, awarded).staff = old.staff
           /\ SeededRow(x, old, awarded).doc = old.doc
<1>1. DOMAIN old = Columns
  BY DEF RowShape
<1> DEFINE a == x.basic
           b == IF x.hourly THEN "hourly" ELSE "salaried"
           c == IF old.doc = "none" /\ awarded = <<>> THEN x.relief ELSE old.relief
           new == [old EXCEPT !.basic = a, !.pay = b, !.relief = c]
<1>2. SeededRow(x, old, awarded) = new
  BY DEF SeededRow
<1> HIDE DEF a, b, c
<1>3. new = [k \in Columns |-> new[k]] /\ new.staff = old.staff /\ new.doc = old.doc
  BY <1>1 DEF RowShape, Columns
<1> HIDE DEF new
<1>4. RowShape(new)
  BY <1>3 DEF RowShape
<1> QED BY <1>2, <1>3, <1>4

(* The object a line finds has the shape, the staff id and the papers of the  *)
(* row as read.                                                              *)
LEMMA LoadedIs ==
    ASSUME NEW n \in Nat, NEW q, RowsOK(q.seen, n), NEW d, NEW i,
           Existing(q.seen, SeedStaff(q, i)) # {}
    PROVE  LET id == LatestOf(Existing(q.seen, SeedStaff(q, i)))
               old == Loaded(q, d, i)
           IN  RowShape(old) /\ old.staff = SeedStaff(q, i) /\ old.doc = q.seen[id].row.doc
<1> DEFINE id == LatestOf(Existing(q.seen, SeedStaff(q, i)))
           row == q.seen[id].row
           earlier == {j \in ParseRichWorkbook(q.file) : j < i /\ SeedStaff(q, j) = SeedStaff(q, i)}
           again == SeededRow(q.file[LatestOf(earlier)], row, Awarded(d, id))
<1>1. RowShape(row) /\ row.staff = SeedStaff(q, i)
  BY FoundIs
<1>2. Loaded(q, d, i) = IF earlier = {} THEN row ELSE again
  BY DEF Loaded
<1> HIDE DEF row, earlier
<1>3. RowShape(again) /\ again.staff = row.staff /\ again.doc = row.doc
  BY <1>1, SeededRowIs
<1> HIDE DEF again
<1> QED BY <1>1, <1>2, <1>3 DEF row

(* A line of a seed: the worker is found or made, and gets the line's rates. *)
LEMMA UpsertIs ==
    ASSUME EngineOK, NEW d, DbOK(d), NEW n \in Nat, NEW q, RowsOK(q.seen, n), NEW i,
           PlainId(SeedStaff(q, i)),
           LET found == Existing(q.seen, SeedStaff(q, i))
           IN  engine = "postgresql" /\ found # {} /\ q.file[i].rates # {}
                  => LatestOf(found) \in DOMAIN d.roster
    PROVE  LET later == UpsertEmployee(q, d, i)
               staff == SeedStaff(q, i)
           IN  /\ DbOK(later) /\ Extends(d, later) /\ (RatesHeld(d) => RatesHeld(later))
               /\ LineStep(d, later, staff, Existing(q.seen, staff) = {})
<1> DEFINE x == q.file[i]
           staff == SeedStaff(q, i)
           found == Existing(q.seen, staff)
           id == IF found = {} THEN FreshId(d) ELSE LatestOf(found)
           old == IF found = {} THEN Row(staff, 0) ELSE Loaded(q, d, i)
           row == SeededRow(x, old, Awarded(d, id))
           saved == IF found = {} THEN Insert(d, row)
                    ELSE IF id \in DOMAIN d.roster THEN Update(d, id, old, row) ELSE d
           uid == IF found = {} THEN saved.roster[id].uid ELSE q.seen[id].uid
           own == {[emp |-> id, category |-> c, of |-> uid] : c \in x.rates}
           kept == {y \in saved.rates : y.emp # id} \cup own
           later == UpsertEmployee(q, d, i)
<1>1. later = [saved EXCEPT !.rates = kept]
  BY DEF UpsertEmployee
<1>2. /\ DbOK(saved) /\ Extends(d, saved) /\ saved.rates = d.rates
      /\ LineStep(d, saved, staff, found = {})
      /\ engine = "postgresql" /\ x.rates # {} =>
            id \in DOMAIN saved.roster /\ saved.roster[id].uid = uid
  <2>1. CASE found = {}
    <3>1. RowShape(row) /\ row.staff = staff /\ row.doc = "none"
      <4>1. old = Row(staff, 0) /\ PlainId(staff)
        BY <2>1
      <4>2. RowShape(old) /\ old.staff = staff /\ old.doc = "none"
        <5> HIDE DEF old, staff
        <5> QED BY <4>1, RowIs
      <4> HIDE DEF old, x, id, staff
      <4> QED BY <4>2, SeededRowIs
    <3>2. saved = Insert(d, row) /\ id = FreshId(d) /\ uid = saved.roster[id].uid
      BY <2>1
    <3> HIDE DEF row, saved, id, found, staff, uid, old
    <3>3. /\ DbOK(saved) /\ Extends(d, saved) /\ saved.rates = d.rates
          /\ DOMAIN saved.roster = DOMAIN d.roster \cup {id}
      BY <3>1, <3>2, InsertIs
    <3>4. LineStep(d, saved, row.staff, TRUE)
      BY <3>1, <3>2, InsertLine
    <3> QED BY <2>1, <3>1, <3>2, <3>3, <3>4
  <2>2. CASE found # {}
    <3>1. id = LatestOf(found) /\ id \in DOMAIN q.seen /\ uid = q.seen[id].uid
      BY <2>2, FoundIs
    <3>2. RowShape(old) /\ old.staff = staff
      BY <2>2, LoadedIs
    <3>3. RowShape(row) /\ row.staff = old.staff /\ row.doc = old.doc
      <4> HIDE DEF old, x, id
      <4> QED BY <3>2, SeededRowIs
    <3>4. engine = "postgresql" /\ x.rates # {} => id \in DOMAIN d.roster
      BY <2>2, <3>1
    <3>5. saved = IF id \in DOMAIN d.roster THEN Update(d, id, old, row) ELSE d
      BY <2>2
    <3> HIDE DEF row, saved, id, found, staff, uid, old, x
    <3>6. CASE id \in DOMAIN d.roster
      <4>1. /\ DbOK(saved) /\ Extends(d, saved) /\ saved.rates = d.rates
            /\ DOMAIN saved.roster = DOMAIN d.roster
        BY <3>3, <3>5, <3>6, UpdateIs
      <4>2. LineStep(d, saved, staff, found = {})
        BY <3>3, <3>5, <3>6, UpdateLine
      <4>3. engine = "postgresql" => saved.roster[id].uid = id /\ q.seen[id].uid = id
        BY <3>1, <3>6, <4>1 DEF DbOK, RowsOK
      <4> QED BY <3>1, <3>6, <4>1, <4>2, <4>3
    <3>7. CASE id \notin DOMAIN d.roster
      <4>1. saved = d
        BY <3>5, <3>7
      <4>2. Extends(d, d) /\ LineStep(d, d, staff, found = {})
        BY DEF Extends, LineStep, DbOK
      <4> QED BY <3>4, <3>7, <4>1, <4>2
    <3> QED BY <3>6, <3>7
  <2> QED BY <2>1, <2>2
<1> HIDE DEF saved, later, row, found, staff, id, kept, uid, old
<1>3. saved = [roster |-> saved.roster, awards |-> saved.awards, rates |-> saved.rates, items |-> saved.items, made |-> saved.made]
      /\ saved.made \in Nat /\ RowsOK(saved.roster, saved.made) /\ DOMAIN saved.awards = DOMAIN saved.roster
  BY <1>2 DEF DbOK
<1>4. later = [roster |-> saved.roster, awards |-> saved.awards, rates |-> kept, items |-> saved.items, made |-> saved.made]
  BY <1>1, <1>3
<1>5. /\ later.roster = saved.roster /\ later.awards = saved.awards /\ later.rates = kept
      /\ later.items = saved.items /\ later.made = saved.made
  BY <1>4
<1>6. DbOK(later)
  BY <1>3, <1>4, <1>5 DEF DbOK
<1>7. Extends(d, later)
  BY <1>2, <1>5 DEF Extends
<1>8. LineStep(d, later, staff, found = {})
  BY <1>2, <1>5 DEF LineStep
<1>9. ASSUME RatesHeld(d), engine = "postgresql", NEW y \in later.rates
      PROVE  y.emp \in DOMAIN later.roster /\ later.roster[y.emp].uid = y.of
  <2>1. CASE y \in saved.rates
    <3>1. y.emp \in DOMAIN d.roster /\ d.roster[y.emp].uid = y.of
      BY <1>2, <1>9, <2>1 DEF RatesHeld
    <3> QED BY <1>7, <3>1 DEF Extends
  <2>2. CASE y \in own
    <3>1. PICK c \in x.rates : y = [emp |-> id, category |-> c, of |-> uid]
      BY <2>2
    <3>2. y.emp = id /\ y.of = uid /\ x.rates # {}
      BY <3>1
    <3> QED BY <1>2, <1>5, <1>9, <3>2
  <2> QED BY <1>5, <1>9, <2>1, <2>2 DEF kept
<1>10. RatesHeld(d) => RatesHeld(later)
  BY <1>9 DEF RatesHeld
<1> QED BY <1>6, <1>7, <1>8, <1>10 DEF later, staff, found

-----------------------------------------------------------------------------
(* A file, line by line *)

(* The loop of persist_seed runs through its lines.                          *)
LEMMA SeededIs ==
    ASSUME NEW q, NEW d, Len(q.file) \in Nat
    PROVE  \E f : /\ f[0] = d /\ Seeded(q, d) = f[Len(q.file)]
                  /\ \A i \in 1 .. Len(q.file) :
                        f[i] = IF i \in ParseRichWorkbook(q.file)
                               THEN UpsertEmployee(q, f[i - 1], i) ELSE f[i - 1]
<1> DEFINE n == Len(q.file)
           St(i, g) == IF i \in ParseRichWorkbook(q.file) THEN UpsertEmployee(q, g, i) ELSE g
           Is(f, m) == f = [i \in 0 .. m |-> IF i = 0 THEN d ELSE St(i, f[i - 1])]
           good == {m \in 0 .. n : \E f : Is(f, m)}
<1>1. n \in Nat
  OBVIOUS
<1>2. Seeded(q, d) = (CHOOSE f : Is(f, n))[n]
  BY DEF Seeded
<1> HIDE DEF n, St
<1>3. 0 \in good
  <2> DEFINE f == [i \in 0 .. 0 |-> d]
  <2>1. Is(f, 0)
    OBVIOUS
  <2> HIDE DEF f, Is
  <2> QED BY <1>1, <2>1
<1>4. ASSUME NEW m \in 1 .. n, m - 1 \in good PROVE m \in good
  <2>1. PICK f : Is(f, m - 1)
    BY <1>4
  <2> DEFINE g == [i \in 0 .. m |-> IF i = m THEN St(m, f[m - 1]) ELSE f[i]]
  <2>2. \A i \in 0 .. m - 1 : f[i] = IF i = 0 THEN d ELSE St(i, f[i - 1])
    BY <2>1
  <2>3. \A i \in 0 .. m - 1 : g[i] = f[i]
    BY <1>1
  <2>4. g[m] = St(m, g[m - 1]) /\ m # 0
    BY <1>1, <2>3
  <2>5. \A i \in 0 .. m : g[i] = IF i = 0 THEN d ELSE St(i, g[i - 1])
    <3> HIDE DEF g
    <3> QED BY <1>1, <2>2, <2>3, <2>4
  <2>6. Is(g, m)
    <3>1. g = [i \in 0 .. m |-> g[i]]
      OBVIOUS
    <3> HIDE DEF g
    <3> QED BY <2>5, <3>1
  <2> HIDE DEF g, Is
  <2> QED BY <1>1, <2>6
<1>5. n \in good
  <2> HIDE DEF good
  <2>1. \A i \in 0 .. n : i \in good
    BY <1>1, <1>3, <1>4, HoldsUpTo
  <2> QED BY <1>1, <2>1
<1> DEFINE after == CHOOSE f : Is(f, n)
<1>6. Is(after, n)
  BY <1>5
<1> HIDE DEF after
<1>7. \A i \in 0 .. n : after[i] = IF i = 0 THEN d ELSE St(i, after[i - 1])
  BY <1>6
<1>8. after[0] = d /\ (\A i \in 1 .. n : after[i] = St(i, after[i - 1])) /\ Seeded(q, d) = after[n]
  BY <1>1, <1>2, <1>7 DEF after
<1> QED BY <1>8 DEF n, St

(* What k lines did: as LineStep, with a new row for each of some new staff  *)
(* ids.                                                                      *)
LinesDone(d, later, k, staff, new) ==
    /\ \A e \in DOMAIN d.roster :
          /\ later.roster[e].row.doc = d.roster[e].row.doc /\ later.awards[e] = d.awards[e]
          /\ later.roster[e].row.staff = d.roster[e].row.staff
    /\ \A e \in DOMAIN later.roster \ DOMAIN d.roster :
          /\ later.roster[e].row.doc = "none" /\ later.awards[e] = <<>>
          /\ \E i \in 1 .. k : new[i] /\ later.roster[e].row.staff = staff[i]

OneRowEach(d, later) ==
    \A e, g \in DOMAIN later.roster \ DOMAIN d.roster :
       later.roster[e].row.staff = later.roster[g].row.staff => e = g

(* Whatever each line keeps, all of them keep.                               *)
LEMMA LinesKeep ==
    ASSUME NEW n \in Nat, NEW f, NEW d, NEW staff, NEW new, f[0] = d, DbOK(d),
           \A i \in 1 .. n : DbOK(f[i - 1]) /\ Extends(d, f[i - 1]) =>
              /\ DbOK(f[i]) /\ Extends(f[i - 1], f[i]) /\ (RatesHeld(f[i - 1]) => RatesHeld(f[i]))
              /\ LineStep(f[i - 1], f[i], staff[i], new[i])
    PROVE  /\ DbOK(f[n]) /\ Extends(d, f[n]) /\ (RatesHeld(d) => RatesHeld(f[n]))
           /\ LinesDone(d, f[n], n, staff, new)
           /\ (\A i, j \in 1 .. n : new[i] /\ new[j] /\ staff[i] = staff[j] => i = j)
                 => OneRowEach(d, f[n])
<1> DEFINE Distinct == \A i, j \in 1 .. n : new[i] /\ new[j] /\ staff[i] = staff[j] => i = j
           Good(i) == /\ DbOK(f[i]) /\ Extends(d, f[i]) /\ (RatesHeld(d) => RatesHeld(f[i]))
                      /\ LinesDone(d, f[i], i, staff, new) /\ (Distinct => OneRowEach(d, f[i]))
           good == {i \in 0 .. n : Good(i)}
<1>1. 0 \in good
  <2>1. Extends(d, d) /\ LinesDone(d, d, 0, staff, new) /\ OneRowEach(d, d)
    BY DEF Extends, LinesDone, OneRowEach, DbOK
  <2>2. Good(0)
    BY <2>1
  <2> HIDE DEF Good
  <2> QED BY <2>2
<1>2. ASSUME NEW i \in 1 .. n, i - 1 \in good PROVE i \in good
  <2>1. Good(i - 1)
    BY <1>2
  <2> DEFINE a == f[i - 1]
             b == f[i]
  <2>2. /\ DbOK(a) /\ Extends(d, a) /\ LinesDone(d, a, i - 1, staff, new)
        /\ (RatesHeld(d) => RatesHeld(a)) /\ (Distinct => OneRowEach(d, a))
    BY <2>1
  <2>3. DbOK(b) /\ Extends(a, b) /\ (RatesHeld(a) => RatesHeld(b)) /\ LineStep(a, b, staff[i], new[i])
    BY <2>2
  <2> HIDE DEF a, b
  <2>4. Extends(d, b)
    <3>1. d.made \in Nat /\ a.made \in Nat /\ b.made \in Nat
      BY <2>2, <2>3 DEF DbOK
    <3> QED BY <2>2, <2>3, <3>1, ExtendsOn
  <2>5. DOMAIN d.roster \subseteq DOMAIN a.roster /\ DOMAIN a.roster \subseteq DOMAIN b.roster
    BY <2>2, <2>3 DEF Extends
  <2>6. ASSUME NEW e \in DOMAIN b.roster \ DOMAIN d.roster, e \in DOMAIN a.roster
        PROVE  /\ b.roster[e].row.staff = a.roster[e].row.staff /\ b.roster[e].row.doc = "none"
               /\ b.awards[e] = <<>>
               /\ \E j \in 1 .. i - 1 : new[j] /\ b.roster[e].row.staff = staff[j]
    BY <2>2, <2>3, <2>6 DEF LinesDone, LineStep
  <2>7. ASSUME NEW e \in DOMAIN b.roster \ DOMAIN d.roster, e \notin DOMAIN a.roster
        PROVE  /\ b.roster[e].row.doc = "none" /\ b.awards[e] = <<>>
               /\ new[i] /\ b.roster[e].row.staff = staff[i]
    BY <2>3, <2>7 DEF LineStep
  <2>8. LinesDone(d, b, i, staff, new)
    <3>1. ASSUME NEW e \in DOMAIN d.roster
          PROVE  /\ b.roster[e].row.doc = d.roster[e].row.doc /\ b.awards[e] = d.awards[e]
                 /\ b.roster[e].row.staff = d.roster[e].row.staff
      BY <2>2, <2>3, <2>5 DEF LinesDone, LineStep
    <3>2. ASSUME NEW e \in DOMAIN b.roster \ DOMAIN d.roster
          PROVE  /\ b.roster[e].row.doc = "none" /\ b.awards[e] = <<>>
                 /\ \E j \in 1 .. i : new[j] /\ b.roster[e].row.staff = staff[j]
      BY <2>6, <2>7
    <3> QED BY <3>1, <3>2 DEF LinesDone
  <2>9. ASSUME Distinct, NEW e \in DOMAIN b.roster \ DOMAIN d.roster,
               NEW g \in DOMAIN b.roster \ DOMAIN d.roster, b.roster[e].row.staff = b.roster[g].row.staff
        PROVE  e = g
    <3>1. CASE e \in DOMAIN a.roster /\ g \in DOMAIN a.roster
      <4>1. OneRowEach(d, a)
        BY <2>2, <2>9
      <4> QED BY <2>6, <2>9, <3>1, <4>1 DEF OneRowEach
    <3>2. CASE e \notin DOMAIN a.roster /\ g \notin DOMAIN a.roster
      BY <2>3, <3>2 DEF LineStep
    <3>3. CASE e \in DOMAIN a.roster /\ g \notin DOMAIN a.roster
      <4>1. PICK j \in 1 .. i - 1 : new[j] /\ b.roster[e].row.staff = staff[j]
        BY <2>6, <3>3
      <4>2. new[i] /\ b.roster[g].row.staff = staff[i]
        BY <2>7, <3>3
      <4>3. j \in 1 .. n /\ j # i
        OBVIOUS
      <4> QED BY <2>9, <4>1, <4>2, <4>3
    <3>4. CASE e \notin DOMAIN a.roster /\ g \in DOMAIN a.roster
      <4>1. PICK j \in 1 .. i - 1 : new[j] /\ b.roster[g].row.staff = staff[j]
        BY <2>6, <3>4
      <4>2. new[i] /\ b.roster[e].row.staff = staff[i]
        BY <2>7, <3>4
      <4>3. j \in 1 .. n /\ j # i
        OBVIOUS
      <4> QED BY <2>9, <4>1, <4>2, <4>3
    <3> QED BY <3>1, <3>2, <3>3, <3>4
  <2>10. Distinct => OneRowEach(d, b)
    BY <2>9 DEF OneRowEach
  <2>11. Good(i)
    BY <2>2, <2>3, <2>4, <2>8, <2>10 DEF b
  <2> HIDE DEF Good
  <2> QED BY <2>11
<1>3. n \in good
  <2> HIDE DEF good
  <2>1. \A i \in 0 .. n : i \in good
    BY <1>1, <1>2, HoldsUpTo
  <2> QED BY <2>1
<1> QED BY <1>3

(* What a file may do: nobody is lost, staff ids, papers and awards stay, and *)
(* the new rows have some of the given ids and no papers.                    *)
FileStep(d, later, staffIds) ==
    /\ DbOK(later) /\ Extends(d, later) /\ (RatesHeld(d) => RatesHeld(later))
    /\ \A e \in DOMAIN d.roster :
          /\ later.roster[e].row.doc = d.roster[e].row.doc /\ later.awards[e] = d.awards[e]
          /\ later.roster[e].row.staff = d.roster[e].row.staff
    /\ \A e \in DOMAIN later.roster \ DOMAIN d.roster :
          /\ later.roster[e].row.doc = "none" /\ later.awards[e] = <<>>
          /\ later.roster[e].row.staff \in staffIds

LEMMA NormaliseIs == ASSUME NEW raw, IsRaw(raw) PROVE PlainId(NormaliseEmpId(raw))
BY DEF IsRaw, PlainId, NormaliseEmpId

(* A seed as a whole.                                                        *)
LEMMA SeedIs ==
    ASSUME EngineOK, NEW d, DbOK(d), NEW m \in Nat, NEW q, RowsOK(q.seen, m), q.file \in SeedFiles,
           \A i \in ParseRichWorkbook(q.file) : ~SeedLost(q, d, i)
    PROVE  LET later == Seeded(q, d)
               fresh == {i \in ParseRichWorkbook(q.file) : Existing(q.seen, SeedStaff(q, i)) = {}}
           IN  /\ FileStep(d, later, {SeedStaff(q, i) : i \in fresh})
               /\ (\A i, j \in fresh : SeedStaff(q, i) = SeedStaff(q, j) => i = j)
                     => OneRowEach(d, later)
<1> DEFINE n == Len(q.file)
           lines == ParseRichWorkbook(q.file)
           Staff(i) == SeedStaff(q, i)
           fresh == {i \in lines : Existing(q.seen, Staff(i)) = {}}
           staff == [i \in 1 .. n |-> Staff(i)]
           new == [i \in 1 .. n |-> i \in fresh]
<1>1. n \in Nat /\ DOMAIN q.file = 1 .. n /\ lines \subseteq 1 .. n
  BY FilesAssumption DEF ParseRichWorkbook
<1>2. ASSUME NEW i \in lines
      PROVE  /\ PlainId(Staff(i))
             /\ LET found == Existing(q.seen, Staff(i))
                IN  engine = "postgresql" /\ found # {} /\ q.file[i].rates # {}
                       => LatestOf(found) \in DOMAIN d.roster
  <2>1. PlainId(Staff(i))
    BY RawIdsAssumption, NormaliseIs DEF ParseRichWorkbook, SeedStaff
  <2> QED BY <2>1 DEF SeedLost
<1>3. PICK f : /\ f[0] = d /\ Seeded(q, d) = f[n]
               /\ \A i \in 1 .. n :
                     f[i] = IF i \in lines THEN UpsertEmployee(q, f[i - 1], i) ELSE f[i - 1]
  BY <1>1, SeededIs
<1>4. ASSUME NEW i \in 1 .. n, DbOK(f[i - 1]), Extends(d, f[i - 1])
      PROVE  /\ DbOK(f[i]) /\ Extends(f[i - 1], f[i]) /\ (RatesHeld(f[i - 1]) => RatesHeld(f[i]))
             /\ LineStep(f[i - 1], f[i], staff[i], new[i])
  <2> DEFINE a == f[i - 1]
             b == f[i]
  <2>1. CASE i \in lines
    <3>1. b = UpsertEmployee(q, a, i)
      BY <1>3, <2>1
    <3>2. /\ PlainId(Staff(i))
          /\ LET found == Existing(q.seen, Staff(i))
             IN  engine = "postgresql" /\ found # {} /\ q.file[i].rates # {}
                    => LatestOf(found) \in DOMAIN a.roster
      BY <1>2, <1>4, <2>1 DEF Extends
    <3>3. staff[i] = Staff(i) /\ (new[i] <=> Existing(q.seen, Staff(i)) = {})
      BY <2>1
    <3>4. DbOK(a)
      BY <1>4
    <3> HIDE DEF a, b, staff, new, lines
    <3>5. /\ DbOK(b) /\ Extends(a, b) /\ (RatesHeld(a) => RatesHeld(b))
          /\ LineStep(a, b, Staff(i), Existing(q.seen, Staff(i)) = {})
      BY <3>1, <3>2, <3>4, UpsertIs
    <3>6. LineStep(a, b, staff[i], new[i])
      BY <3>3, <3>5 DEF LineStep
    <3> QED BY <3>5, <3>6 DEF a, b
  <2>2. CASE i \notin lines
    <3>1. b = a /\ DbOK(a)
      BY <1>3, <1>4, <2>2
    <3> HIDE DEF a, b, staff, new, lines
    <3>2. DbOK(b) /\ Extends(a, b) /\ (RatesHeld(a) => RatesHeld(b)) /\ LineStep(a, b, staff[i], new[i])
      BY <3>1 DEF DbOK, Extends, LineStep
    <3> QED BY <3>2 DEF a, b
  <2> QED BY <2>1, <2>2
<1> DEFINE later == f[n]
<1>5. /\ DbOK(later) /\ Extends(d, later) /\ (RatesHeld(d) => RatesHeld(later))
      /\ LinesDone(d, later, n, staff, new)
      /\ (\A i, j \in 1 .. n : new[i] /\ new[j] /\ staff[i] = staff[j] => i = j) => OneRowEach(d, later)
  <2> HIDE DEF staff, new, n
  <2> QED BY <1>1, <1>3, <1>4, LinesKeep
<1>6. FileStep(d, later, {Staff(i) : i \in fresh})
  <2>1. ASSUME NEW e \in DOMAIN later.roster \ DOMAIN d.roster
        PROVE  later.roster[e].row.staff \in {Staff(i) : i \in fresh}
    <3>1. PICK i \in 1 .. n : new[i] /\ later.roster[e].row.staff = staff[i]
      BY <1>5 DEF LinesDone
    <3> QED BY <3>1
  <2> HIDE DEF later
  <2> QED BY <1>5, <2>1 DEF FileStep, LinesDone
<1>7. ASSUME \A i, j \in fresh : Staff(i) = Staff(j) => i = j
      PROVE  OneRowEach(d, later)
  <2>1. \A i, j \in 1 .. n : new[i] /\ new[j] /\ staff[i] = staff[j] => i = j
    BY <1>7
  <2> QED BY <1>5, <2>1
<1> QED BY <1>3, <1>6, <1>7

(* A line of a roster workbook.                                              *)
LEMMA BulkSaveIs ==
    ASSUME EngineOK, NEW d, DbOK(d), NEW n \in Nat, NEW q, RowsOK(q.seen, n), NEW x,
           PlainId(x.staff), Existing(q.seen, x.staff) \subseteq DOMAIN d.roster
    PROVE  LET later == BulkSave(q, d, x)
           IN  /\ DbOK(later) /\ Extends(d, later) /\ (RatesHeld(d) => RatesHeld(later))
               /\ LineStep(d, later, x.staff, Existing(q.seen, x.staff) = {})
<1> DEFINE later == BulkSave(q, d, x)
           found == Existing(q.seen, x.staff)
<1>1. CASE found = {}
  <2> DEFINE row == [Row(x.staff, 0) EXCEPT !.email = x.email]
  <2>1. RowShape(row) /\ row.staff = x.staff /\ row.doc = "none"
    BY DEF RowShape, Row, Columns
  <2>2. later = Insert(d, row)
    BY <1>1 DEF BulkSave
  <2> HIDE DEF row, later, found
  <2>3. DbOK(later) /\ Extends(d, later) /\ later.rates = d.rates
    BY <2>1, <2>2, InsertIs
  <2>4. LineStep(d, later, x.staff, TRUE)
    BY <2>1, <2>2, InsertLine
  <2>5. RatesHeld(d) => RatesHeld(later)
    BY <2>3 DEF RatesHeld, Extends
  <2>6. LineStep(d, later, x.staff, found = {})
    BY <1>1, <2>4 DEF LineStep
  <2> QED BY <2>3, <2>5, <2>6 DEF later, found
<1>2. CASE found # {}
  <2> DEFINE id == LatestOf(found)
             old == q.seen[id].row
             new == x.email \/ old.email
             row == [old EXCEPT !.email = new]
  <2>1. id \in found /\ RowShape(old)
    BY <1>2, FoundIs
  <2>2. later = Update(d, id, old, row) /\ id \in DOMAIN d.roster
    BY <1>2, <2>1 DEF BulkSave
  <2> HIDE DEF old, new, later, found, id
  <2>3. row = [c \in Columns |-> row[c]] /\ row.staff = old.staff /\ row.doc = old.doc
    BY <2>1 DEF RowShape, Columns
  <2> HIDE DEF row
  <2>4. RowShape(row)
    BY <2>1, <2>3 DEF RowShape
  <2>5. DbOK(later) /\ Extends(d, later) /\ later.rates = d.rates
    BY <2>2, <2>4, UpdateIs
  <2>6. LineStep(d, later, x.staff, found = {})
    BY <2>2, <2>3, <2>4, UpdateLine
  <2>7. RatesHeld(d) => RatesHeld(later)
    BY <2>5 DEF RatesHeld, Extends
  <2> QED BY <2>5, <2>6, <2>7 DEF later, found
<1> QED BY <1>1, <1>2

(* The loop of bulk_import_confirm runs through its lines.                   *)
LEMMA BulkSavedIs ==
    ASSUME NEW q, NEW d, NEW lines, Len(lines) \in Nat
    PROVE  \E f : /\ f[0] = d /\ BulkSaved(q, d, lines) = f[Len(lines)]
                  /\ \A i \in 1 .. Len(lines) : f[i] = BulkSave(q, f[i - 1], lines[i])
<1> DEFINE n == Len(lines)
           St(i, g) == BulkSave(q, g, lines[i])
           Is(f, m) == f = [i \in 0 .. m |-> IF i = 0 THEN d ELSE St(i, f[i - 1])]
           good == {m \in 0 .. n : \E f : Is(f, m)}
<1>1. n \in Nat
  OBVIOUS
<1>2. BulkSaved(q, d, lines) = (CHOOSE f : Is(f, n))[n]
  BY DEF BulkSaved
<1> HIDE DEF n, St
<1>3. 0 \in good
  <2> DEFINE f == [i \in 0 .. 0 |-> d]
  <2>1. Is(f, 0)
    OBVIOUS
  <2> HIDE DEF f, Is
  <2> QED BY <1>1, <2>1
<1>4. ASSUME NEW m \in 1 .. n, m - 1 \in good PROVE m \in good
  <2>1. PICK f : Is(f, m - 1)
    BY <1>4
  <2> DEFINE g == [i \in 0 .. m |-> IF i = m THEN St(m, f[m - 1]) ELSE f[i]]
  <2>2. \A i \in 0 .. m - 1 : f[i] = IF i = 0 THEN d ELSE St(i, f[i - 1])
    BY <2>1
  <2>3. \A i \in 0 .. m - 1 : g[i] = f[i]
    BY <1>1
  <2>4. g[m] = St(m, g[m - 1]) /\ m # 0
    BY <1>1, <2>3
  <2>5. \A i \in 0 .. m : g[i] = IF i = 0 THEN d ELSE St(i, g[i - 1])
    <3> HIDE DEF g
    <3> QED BY <1>1, <2>2, <2>3, <2>4
  <2>6. Is(g, m)
    <3>1. g = [i \in 0 .. m |-> g[i]]
      OBVIOUS
    <3> HIDE DEF g
    <3> QED BY <2>5, <3>1
  <2> HIDE DEF g, Is
  <2> QED BY <1>1, <2>6
<1>5. n \in good
  <2> HIDE DEF good
  <2>1. \A i \in 0 .. n : i \in good
    BY <1>1, <1>3, <1>4, HoldsUpTo
  <2> QED BY <1>1, <2>1
<1> DEFINE after == CHOOSE f : Is(f, n)
<1>6. Is(after, n)
  BY <1>5
<1> HIDE DEF after
<1>7. \A i \in 0 .. n : after[i] = IF i = 0 THEN d ELSE St(i, after[i - 1])
  BY <1>6
<1>8. after[0] = d /\ (\A i \in 1 .. n : after[i] = St(i, after[i - 1])) /\ BulkSaved(q, d, lines) = after[n]
  BY <1>1, <1>2, <1>7 DEF after
<1> QED BY <1>8 DEF n, St

(* A finite set in some order.                                               *)
LEMMA SetToSeqIs ==
    ASSUME NEW S, IsFiniteSet(S)
    PROVE  /\ SetToSeq(S) \in Seq(S) /\ Len(SetToSeq(S)) \in Nat
           /\ DOMAIN SetToSeq(S) = 1 .. Len(SetToSeq(S))
           /\ \A i, j \in 1 .. Len(SetToSeq(S)) : SetToSeq(S)[i] = SetToSeq(S)[j] => i = j
<1> DEFINE n == Cardinality(S)
           s == SetToSeq(S)
<1>1. n \in Nat /\ ExistsBijection(1 .. n, S)
  BY FS_CardinalityType
<1>2. PICK f \in [1 .. n -> S] : IsInjective(f)
  BY <1>1, Zenon DEF ExistsBijection, Bijection, Injection
<1>3. s \in [1 .. n -> S] /\ IsInjective(s)
  BY <1>2, Zenon DEF SetToSeq
<1> HIDE DEF s, n
<1>4. s \in Seq(S) /\ Len(s) = n
  BY <1>1, <1>3, LenProperties, SeqDef
<1> QED BY <1>1, <1>3, <1>4 DEF s, IsInjective

(* The lines of a confirmed import are of the staged file, each once.        *)
LEMMA BulkLinesAre ==
    ASSUME NEW q, NEW file, IsFiniteSet(file.create), IsFiniteSet(file.update)
    PROVE  LET lines == BulkLines(q, file)
               created == {x \in file.create : Existing(q.seen, x.staff) = {}}
               updated == {x \in file.update : Existing(q.seen, x.staff) # {}}
           IN  /\ Len(lines) \in Nat
               /\ \A i \in 1 .. Len(lines) : lines[i] \in created \cup updated
               /\ \A i, j \in 1 .. Len(lines) : lines[i] = lines[j] /\ lines[i] \in created => i = j
<1> DEFINE created == {x \in file.create : Existing(q.seen, x.staff) = {}}
           updated == {x \in file.update : Existing(q.seen, x.staff) # {}}
           a == SetToSeq(created)
           b == SetToSeq(updated)
           lines == BulkLines(q, file)
<1>1. IsFiniteSet(created) /\ IsFiniteSet(updated)
  BY FS_Subset
<1>2. \A x \in created : x \notin updated
  OBVIOUS
<1>3. lines = a \o b
  BY DEF BulkLines
<1> HIDE DEF created, updated, lines
<1>4. /\ a \in Seq(created) /\ Len(a) \in Nat /\ DOMAIN a = 1 .. Len(a)
      /\ \A i, j \in 1 .. Len(a) : a[i] = a[j] => i = j
  BY <1>1, SetToSeqIs
<1>5. b \in Seq(updated) /\ Len(b) \in Nat /\ DOMAIN b = 1 .. Len(b)
  BY <1>1, SetToSeqIs
<1> HIDE DEF a, b
<1>6. /\ a \in Seq(created \cup updated) /\ b \in Seq(created \cup updated)
      /\ \A i \in 1 .. Len(a) : a[i] \in created
      /\ \A i \in 1 .. Len(b) : b[i] \in updated
  BY <1>4, <1>5, SeqDef
<1>7. Len(lines) = Len(a) + Len(b)
      /\ \A i \in 1 .. Len(a) + Len(b) : lines[i] = IF i <= Len(a) THEN a[i] ELSE b[i - Len(a)]
  BY <1>3, <1>6, ConcatProperties
<1>8. ASSUME NEW i \in 1 .. Len(lines)
      PROVE  (i \in 1 .. Len(a) /\ lines[i] = a[i] /\ lines[i] \in created) \/ lines[i] \in updated
  <2>1. CASE i <= Len(a)
    BY <1>4, <1>5, <1>6, <1>7, <2>1
  <2>2. CASE ~(i <= Len(a))
    <3>1. i - Len(a) \in 1 .. Len(b)
      BY <1>4, <1>5, <1>7, <2>2
    <3> QED BY <1>6, <1>7, <2>2, <3>1
  <2> QED BY <2>1, <2>2
<1>9. \A i, j \in 1 .. Len(lines) : lines[i] = lines[j] /\ lines[i] \in created => i = j
  BY <1>2, <1>4, <1>8
<1>10. Len(lines) \in Nat
  BY <1>4, <1>5, <1>7
<1> QED BY <1>8, <1>9, <1>10 DEF created, updated, lines

(* A staged file: records by staff id, each id once.                         *)
StagedShape(file) ==
    /\ IsFiniteSet(file.create) /\ IsFiniteSet(file.update)
    /\ \A x \in file.create \cup file.update : PlainId(x.staff)
    /\ \A x, y \in file.create : x.staff = y.staff => x = y

(* A bulk import as a whole.                                                 *)
LEMMA BulkIs ==
    ASSUME EngineOK, NEW d, DbOK(d), NEW m \in Nat, NEW q, RowsOK(q.seen, m), NEW file, StagedShape(file),
           \A x \in file.update : Existing(q.seen, x.staff) \subseteq DOMAIN d.roster
    PROVE  LET later == BulkSaved(q, d, BulkLines(q, file))
           IN  /\ FileStep(d, later, {x.staff : x \in {y \in file.create : Existing(q.seen, y.staff) = {}}})
               /\ OneRowEach(d, later)
<1> DEFINE lines == BulkLines(q, file)
           n == Len(lines)
           created == {x \in file.create : Existing(q.seen, x.staff) = {}}
           updated == {x \in file.update : Existing(q.seen, x.staff) # {}}
           staff == [i \in 1 .. n |-> lines[i].staff]
           new == [i \in 1 .. n |-> Existing(q.seen, lines[i].staff) = {}]
<1>1. /\ n \in Nat /\ \A i \in 1 .. n : lines[i] \in created \cup updated
      /\ \A i, j \in 1 .. n : lines[i] = lines[j] /\ lines[i] \in created => i = j
  BY BulkLinesAre DEF StagedShape
<1>2. \A i \in 1 .. n : PlainId(lines[i].staff) /\ Existing(q.seen, lines[i].staff) \subseteq DOMAIN d.roster
  BY <1>1 DEF StagedShape
<1>21. \A i \in 1 .. n : new[i] => lines[i] \in created
  BY <1>1
<1> HIDE DEF lines
<1>3. PICK f : /\ f[0] = d /\ BulkSaved(q, d, lines) = f[n]
               /\ \A i \in 1 .. n : f[i] = BulkSave(q, f[i - 1], lines[i])
  BY <1>1, BulkSavedIs
<1>4. ASSUME NEW i \in 1 .. n, DbOK(f[i - 1]), Extends(d, f[i - 1])
      PROVE  /\ DbOK(f[i]) /\ Extends(f[i - 1], f[i]) /\ (RatesHeld(f[i - 1]) => RatesHeld(f[i]))
             /\ LineStep(f[i - 1], f[i], staff[i], new[i])
  <2> DEFINE a == f[i - 1]
             b == f[i]
             x == lines[i]
  <2>1. b = BulkSave(q, a, x) /\ DbOK(a)
    BY <1>3, <1>4
  <2>2. PlainId(x.staff) /\ Existing(q.seen, x.staff) \subseteq DOMAIN a.roster
    BY <1>2, <1>4 DEF Extends
  <2>3. staff[i] = x.staff /\ (new[i] <=> Existing(q.seen, x.staff) = {})
    OBVIOUS
  <2> HIDE DEF a, b, x, staff, new
  <2>4. /\ DbOK(b) /\ Extends(a, b) /\ (RatesHeld(a) => RatesHeld(b))
        /\ LineStep(a, b, x.staff, Existing(q.seen, x.staff) = {})
    BY <2>1, <2>2, BulkSaveIs
  <2>5. LineStep(a, b, staff[i], new[i])
    BY <2>3, <2>4 DEF LineStep
  <2> QED BY <2>4, <2>5 DEF a, b
<1> DEFINE later == f[n]
<1>5. /\ DbOK(later) /\ Extends(d, later) /\ (RatesHeld(d) => RatesHeld(later))
      /\ LinesDone(d, later, n, staff, new)
      /\ (\A i, j \in 1 .. n : new[i] /\ new[j] /\ staff[i] = staff[j] => i = j) => OneRowEach(d, later)
  <2> HIDE DEF staff, new, n
  <2> QED BY <1>1, <1>3, <1>4, LinesKeep
<1>6. FileStep(d, later, {x.staff : x \in created})
  <2>1. ASSUME NEW e \in DOMAIN later.roster \ DOMAIN d.roster
        PROVE  later.roster[e].row.staff \in {x.staff : x \in created}
    <3>1. PICK i \in 1 .. n : new[i] /\ later.roster[e].row.staff = staff[i]
      BY <1>5 DEF LinesDone
    <3>2. lines[i] \in created /\ staff[i] = lines[i].staff
      BY <1>21, <3>1
    <3> HIDE DEF created
    <3> QED BY <3>1, <3>2
  <2> HIDE DEF later
  <2> QED BY <1>5, <2>1 DEF FileStep, LinesDone
<1>7. OneRowEach(d, later)
  <2>1. ASSUME NEW i \in 1 .. n, NEW j \in 1 .. n, new[i], new[j], staff[i] = staff[j] PROVE i = j
    <3>1. lines[i] \in created /\ lines[j] \in created /\ lines[i].staff = lines[j].staff
      BY <1>21, <2>1
    <3>2. lines[i] = lines[j]
      BY <3>1 DEF StagedShape
    <3> HIDE DEF created
    <3> QED BY <1>1, <3>1, <3>2
  <2> QED BY <1>5, <2>1
<1> QED BY <1>3, <1>6, <1>7 DEF lines

(* The worker of a row of a payroll upload.                                  *)
LEMMA ImportIs ==
    ASSUME EngineOK, NEW d, DbOK(d), NEW m \in Nat, NEW q, RowsOK(q.seen, m),
           PlainId(ImportStaff(q.line, d))
    PROVE  LET saved == CreateOrUpdateEmployee(q, d)
               staff == ImportStaff(q.line, d)
               found == Existing(q.seen, staff)
           IN  /\ FileStep(d, saved.db, IF found = {} THEN {staff} ELSE {}) /\ OneRowEach(d, saved.db)
               /\ found = {} => /\ saved.emp \in DOMAIN saved.db.roster
                                /\ saved.db.roster[saved.emp].uid = saved.of
               /\ found # {} => /\ saved.emp \in found /\ saved.of = q.seen[saved.emp].uid
                                /\ engine = "postgresql" /\ saved.emp \notin DOMAIN d.roster => saved.lost
<1> DEFINE x == q.line
           staff == ImportStaff(x, d)
           found == Existing(q.seen, staff)
           From(old) == [old EXCEPT !.email = x.email \/ @,
                                    !.basic = IF x.basic > 0 THEN x.basic ELSE @,
                                    !.status = IF x.status # "" THEN x.status ELSE @]
           saved == CreateOrUpdateEmployee(q, d)
<1>0. ASSUME NEW old, RowShape(old)
      PROVE  RowShape(From(old)) /\ From(old).staff = old.staff /\ From(old).doc = old.doc
  <2> DEFINE a == x.email \/ old.email
             b == IF x.basic > 0 THEN x.basic ELSE old.basic
             c == IF x.status # "" THEN x.status ELSE old.status
             row == [old EXCEPT !.email = a, !.basic = b, !.status = c]
  <2>1. From(old) = row
    OBVIOUS
  <2> HIDE DEF a, b, c
  <2>2. row = [k \in Columns |-> row[k]] /\ row.staff = old.staff /\ row.doc = old.doc
    BY <1>0 DEF RowShape, Columns
  <2> HIDE DEF row
  <2>3. RowShape(row)
    BY <1>0, <2>2 DEF RowShape
  <2> QED BY <2>1, <2>2, <2>3
<1>1. CASE found = {}
  <2> DEFINE row == From(Row(staff, 0))
             later == Insert(d, row)
  <2>1. RowShape(row) /\ row.staff = staff /\ row.doc = "none"
    <3> DEFINE base == Row(staff, 0)
    <3>1. RowShape(base) /\ base.staff = staff /\ base.doc = "none"
      BY RowIs
    <3> HIDE DEF From, base, staff
    <3>2. RowShape(From(base)) /\ From(base).staff = base.staff /\ From(base).doc = base.doc
      BY <1>0, <3>1
    <3> QED BY <3>1, <3>2 DEF base
  <2>2. saved = [db |-> later, emp |-> FreshId(d), of |-> d.made + 1, lost |-> FALSE]
    BY <1>1 DEF CreateOrUpdateEmployee
  <2> HIDE DEF row
  <2>3. /\ DbOK(later) /\ Extends(d, later) /\ later.rates = d.rates
        /\ DOMAIN later.roster = DOMAIN d.roster \cup {FreshId(d)}
        /\ later.roster[FreshId(d)] = [row |-> row, uid |-> d.made + 1]
    BY <2>1, InsertIs
  <2>4. LineStep(d, later, row.staff, TRUE)
    BY <2>1, InsertLine
  <2> HIDE DEF later, staff, found, saved
  <2>5. RatesHeld(d) => RatesHeld(later)
    BY <2>3 DEF RatesHeld, Extends
  <2>6. FileStep(d, later, {staff})
    BY <2>1, <2>3, <2>4, <2>5 DEF FileStep, LineStep
  <2>7. OneRowEach(d, later)
    BY <2>4 DEF OneRowEach, LineStep
  <2>8. saved.db = later /\ saved.emp = FreshId(d) /\ saved.of = d.made + 1
    BY <2>2
  <2> QED BY <1>1, <2>3, <2>6, <2>7, <2>8 DEF saved, staff, found
<1>2. CASE found # {}
  <2> DEFINE id == LatestOf(found)
             old == q.seen[id].row
             row == From(old)
             gone == id \notin DOMAIN d.roster
             later == IF gone THEN d ELSE Update(d, id, old, row)
  <2>1. id \in found /\ RowShape(old)
    BY <1>2, FoundIs
  <2>2. RowShape(row) /\ row.staff = old.staff /\ row.doc = old.doc
    BY <1>0, <2>1
  <2>3. saved = [db |-> later, emp |-> id, of |-> q.seen[id].uid,
                 lost |-> gone /\ (row # old \/ engine = "postgresql")]
    BY <1>2 DEF CreateOrUpdateEmployee
  <2> HIDE DEF row, old, id, staff, found, saved
  <2>4. DbOK(later) /\ Extends(d, later) /\ later.rates = d.rates /\ LineStep(d, later, staff, FALSE)
    <3>1. CASE gone
      <4>1. later = d
        BY <3>1
      <4> HIDE DEF later
      <4> QED BY <4>1 DEF DbOK, Extends, LineStep
    <3>2. CASE ~gone
      <4>1. later = Update(d, id, old, row) /\ id \in DOMAIN d.roster
        BY <3>2
      <4> HIDE DEF later
      <4>2. DbOK(later) /\ Extends(d, later) /\ later.rates = d.rates
        BY <2>2, <4>1, UpdateIs
      <4>3. LineStep(d, later, staff, FALSE)
        BY <2>2, <4>1, UpdateLine
      <4> QED BY <4>2, <4>3
    <3> QED BY <3>1, <3>2
  <2>5. /\ saved.db = later /\ saved.emp = id /\ saved.of = q.seen[id].uid
        /\ (gone /\ engine = "postgresql") => saved.lost
    BY <2>3
  <2> HIDE DEF later, gone
  <2>6. RatesHeld(d) => RatesHeld(later)
    BY <2>4 DEF RatesHeld, Extends
  <2>7. FileStep(d, later, {}) /\ OneRowEach(d, later)
    BY <2>4, <2>6 DEF FileStep, LineStep, OneRowEach
  <2> QED BY <1>2, <2>1, <2>5, <2>7 DEF saved, staff, found, gone
<1> QED BY <1>1, <1>2

-----------------------------------------------------------------------------
(* A form *)

Awards == {[amount |-> f.relief, doc |-> f.doc] : f \in {g \in ReliefForms : Complete(g.doc)}}

(* Only an award gives relief: a row with papers has one.                    *)
Papers(d) == \A e \in DOMAIN d.roster :
    d.awards[e] \in Seq(Awards) /\ (d.awards[e] = <<>> => ~Complete(d.roster[e].row.doc))

Unique(d) == \A e, g \in DOMAIN d.roster : d.roster[e].row.staff = d.roster[g].row.staff => e = g

(* Awards are only added to.                                                 *)
AwardStep(d, later) == \A e \in DOMAIN d.roster \cap DOMAIN later.roster :
    later.awards[e] = d.awards[e] \/ \E a \in Awards : later.awards[e] = Append(d.awards[e], a)

(* A form that was checked against the rows it read.                         *)
SaveShape(q) ==
    /\ RowShape(q.row)
    /\ q.emp # 0 => /\ q.emp \in DOMAIN q.seen
                    /\ \/ q.row.staff = q.seen[q.emp].row.staff
                       \/ Existing(q.seen, q.row.staff) \subseteq {q.emp}
    /\ q.emp = 0 => Existing(q.seen, q.row.staff) = {}
    /\ q.do # "status" => q.form \in ReliefForms /\ q.row.doc = q.form.doc
    /\ q.do = "status" => q.emp # 0 /\ q.row.doc = q.seen[q.emp].row.doc

(* The same rows hold a staff id as were read.                               *)
LEMMA HeldIs ==
    ASSUME NEW rows, NEW seen, NEW staff, Held(rows, staff) = Held(seen, staff)
    PROVE  /\ Existing(rows, staff) = Existing(seen, staff)
           /\ \A e \in Existing(seen, staff) : rows[e].uid = seen[e].uid
<1>1. ASSUME NEW a, NEW b, Held(a, staff) = Held(b, staff), NEW e \in Existing(b, staff)
      PROVE  e \in Existing(a, staff) /\ a[e].uid = b[e].uid
  <2>1. <<e, b[e].uid>> \in Held(a, staff)
    BY <1>1 DEF Held
  <2>2. PICK g \in Existing(a, staff) : <<e, b[e].uid>> = <<g, a[g].uid>>
    BY <2>1 DEF Held
  <2> QED BY <2>2
<1>2. \A e \in Existing(seen, staff) : e \in Existing(rows, staff) /\ rows[e].uid = seen[e].uid
  BY <1>1
<1>3. \A e \in Existing(rows, staff) : e \in Existing(seen, staff)
  BY <1>1
<1> QED BY <1>2, <1>3

(* The papers of a form make an award, unless it is the latest already.      *)
LEMMA MetadataIs ==
    ASSUME NEW d, DbOK(d), NEW id \in DOMAIN d.roster, NEW form \in ReliefForms,
           \A e \in DOMAIN d.roster : d.awards[e] \in Seq(Awards)
    PROVE  LET later == SaveDeductionMetadata(d, id, form)
           IN  /\ \A e \in DOMAIN d.roster : e # id => later.awards[e] = d.awards[e]
               /\ \/ later.awards[id] = d.awards[id]
                  \/ \E a \in Awards : later.awards[id] = Append(d.awards[id], a)
               /\ Complete(form.doc) => later.awards[id] # <<>>
               /\ \A e \in DOMAIN d.roster : later.awards[e] \in Seq(Awards)
<1> DEFINE later == SaveDeductionMetadata(d, id, form)
           a == [amount |-> form.relief, doc |-> form.doc]
           old == d.awards[id]
           more == [d.awards EXCEPT ![id] = Append(old, a)]
           adds == Complete(form.doc) /\ (old = <<>> \/ old[Len(old)] # a)
<1>0. d = [roster |-> d.roster, awards |-> d.awards, rates |-> d.rates, items |-> d.items, made |-> d.made]
      /\ DOMAIN d.awards = DOMAIN d.roster
  BY DEF DbOK
<1>1. (adds => a \in Awards) /\ old \in Seq(Awards)
  BY DEF Awards
<1>2. later = IF adds THEN [d EXCEPT !.awards = more] ELSE d
  BY DEF SaveDeductionMetadata
<1>3. DOMAIN more = DOMAIN d.awards /\ more[id] = Append(old, a)
      /\ \A e \in DOMAIN d.roster : e # id => more[e] = d.awards[e]
  <2> HIDE DEF a
  <2> QED BY <1>0
<1>31. adds => Append(old, a) \in Seq(Awards) /\ Append(old, a) # <<>>
  <2> HIDE DEF a, old, adds
  <2> QED BY <1>1, AppendProperties, EmptySeq
<1> HIDE DEF more, a, old, later, adds
<1>4. CASE adds
  <2>1. later.awards = more
    BY <1>0, <1>2, <1>4
  <2> QED BY <1>1, <1>3, <1>31, <1>4, <2>1 DEF later, old
<1>5. CASE ~adds
  <2>1. later = d
    BY <1>2, <1>5
  <2>2. Complete(form.doc) => old # <<>>
    BY <1>5 DEF adds
  <2> QED BY <2>1, <2>2 DEF later, old
<1> QED BY <1>4, <1>5

(* What a form's INSERT or UPDATE writes.                                     *)
SaveTarget(q, d) == IF q.emp = 0 THEN FreshId(d) ELSE q.emp
RowWritten(q, d) == IF q.emp = 0 THEN Insert(d, q.row)
                 ELSE Update(d, q.emp, q.seen[q.emp].row, q.row)

LEMMA WrittenIs ==
    ASSUME EngineOK, NEW d, DbOK(d), NEW q, SaveShape(q), q.emp = 0 \/ q.emp \in DOMAIN d.roster
    PROVE  LET later == RowWritten(q, d)
               id == SaveTarget(q, d)
           IN  /\ DbOK(later) /\ Extends(d, later) /\ later.rates = d.rates
               /\ DOMAIN later.roster = DOMAIN d.roster \cup {id}
               /\ \A e \in DOMAIN d.roster : later.awards[e] = d.awards[e]
               /\ \A e \in DOMAIN d.roster : e # id => later.roster[e] = d.roster[e]
               /\ q.emp = 0 => /\ id \notin DOMAIN d.roster /\ later.roster[id].row = q.row
                               /\ later.awards[id] = <<>>
               /\ q.emp # 0 => /\ later.roster[id].row = Merged(q.row, q.seen[q.emp].row, d.roster[id].row)
                               /\ DOMAIN later.roster = DOMAIN d.roster
<1> DEFINE later == RowWritten(q, d)
           id == SaveTarget(q, d)
<1>0. RowShape(q.row) /\ DOMAIN d.awards = DOMAIN d.roster
  BY DEF SaveShape, DbOK
<1>1. CASE q.emp = 0
  <2>1. later = Insert(d, q.row) /\ id = FreshId(d)
    BY <1>1 DEF RowWritten, SaveTarget
  <2>2. id \notin DOMAIN d.roster
    BY <2>1, FreshIdIs
  <2> HIDE DEF later, id
  <2>3. /\ DbOK(later) /\ Extends(d, later) /\ later.rates = d.rates
        /\ DOMAIN later.roster = DOMAIN d.roster \cup {id}
        /\ later.roster[id] = [row |-> q.row, uid |-> d.made + 1]
        /\ \A e \in DOMAIN d.roster : later.roster[e] = d.roster[e]
        /\ later.awards = With(d.awards, id, <<>>)
    BY <1>0, <2>1, InsertIs
  <2>4. later.awards[id] = <<>> /\ \A e \in DOMAIN d.roster : later.awards[e] = d.awards[e]
    BY <1>0, <2>2, <2>3 DEF With
  <2> QED BY <1>1, <2>2, <2>3, <2>4 DEF later, id
<1>2. CASE q.emp # 0
  <2>1. later = Update(d, id, q.seen[q.emp].row, q.row) /\ id = q.emp /\ id \in DOMAIN d.roster
    BY <1>2 DEF RowWritten, SaveTarget
  <2> HIDE DEF later, id
  <2>2. /\ DbOK(later) /\ Extends(d, later) /\ later.rates = d.rates
        /\ later.awards = d.awards /\ DOMAIN later.roster = DOMAIN d.roster
        /\ later.roster[id].row = Merged(q.row, q.seen[q.emp].row, d.roster[id].row)
        /\ \A e \in DOMAIN d.roster : e # id => later.roster[e] = d.roster[e]
    BY <1>0, <2>1, UpdateIs
  <2> QED BY <1>2, <2>1, <2>2 DEF later, id
<1> QED BY <1>1, <1>2

(* It leaves no two rows with one staff id, if the rows of that id are those  *)
(* the form was checked against.                                             *)
LEMMA WrittenIsUnique ==
    ASSUME EngineOK, NEW d, DbOK(d), Unique(d), NEW q, SaveShape(q),
           q.emp = 0 \/ q.emp \in DOMAIN d.roster, Held(d.roster, q.row.staff) = Held(q.seen, q.row.staff)
    PROVE  Unique(RowWritten(q, d))
<1> DEFINE later == RowWritten(q, d)
           id == SaveTarget(q, d)
<1>1. /\ DOMAIN later.roster = DOMAIN d.roster \cup {id}
      /\ \A e \in DOMAIN d.roster : e # id => later.roster[e] = d.roster[e]
      /\ q.emp = 0 => id \notin DOMAIN d.roster /\ later.roster[id].row = q.row
      /\ q.emp # 0 => later.roster[id].row = Merged(q.row, q.seen[q.emp].row, d.roster[id].row)
  BY WrittenIs
<1>2. Existing(d.roster, q.row.staff) = Existing(q.seen, q.row.staff)
  BY HeldIs
<1>3. id = q.emp \/ q.emp = 0
  BY DEF SaveTarget
<1> HIDE DEF later, id
<1>4. ASSUME NEW e \in DOMAIN d.roster, e # id PROVE later.roster[e].row.staff # later.roster[id].row.staff
  <2>1. CASE q.emp = 0
    <3>1. Existing(d.roster, q.row.staff) = {}
      BY <1>2, <2>1 DEF SaveShape
    <3>2. d.roster[e].row.staff # q.row.staff
      BY <3>1 DEF Existing
    <3> QED BY <1>1, <1>4, <2>1, <3>2
  <2>2. CASE q.emp # 0 /\ q.row.staff = q.seen[q.emp].row.staff
    <3>1. later.roster[id].row.staff = d.roster[id].row.staff
      BY <1>1, <2>2 DEF Merged, SaveShape, RowShape, Columns
    <3> QED BY <1>1, <1>3, <1>4, <2>2, <3>1 DEF Unique
  <2>3. CASE q.emp # 0 /\ q.row.staff # q.seen[q.emp].row.staff
    <3>1. later.roster[id].row.staff = q.row.staff
      BY <1>1, <2>3 DEF Merged, SaveShape, RowShape, Columns
    <3>2. Existing(d.roster, q.row.staff) \subseteq {id}
      BY <1>2, <1>3, <2>3 DEF SaveShape
    <3>3. d.roster[e].row.staff # q.row.staff
      BY <1>4, <3>2 DEF Existing
    <3> QED BY <1>1, <1>4, <3>1, <3>3
  <2> QED BY <2>1, <2>2, <2>3
<1>5. Unique(later)
  BY <1>1, <1>4 DEF Unique
<1> QED BY <1>5 DEF later

(* A form as a whole.                                                        *)
Saved(q, d) == IF q.do = "status" THEN RowWritten(q, d)
               ELSE SaveDeductionMetadata(RowWritten(q, d), SaveTarget(q, d), q.form)

LEMMA SaveIs ==
    ASSUME EngineOK, NEW d, DbOK(d), Papers(d), NEW q, SaveShape(q),
           q.emp = 0 \/ q.emp \in DOMAIN d.roster
    PROVE  LET later == Saved(q, d)
           IN  /\ DbOK(later) /\ Extends(d, later) /\ later.rates = d.rates
               /\ Papers(later) /\ AwardStep(d, later) /\ later.roster = RowWritten(q, d).roster
<1> DEFINE mid == RowWritten(q, d)
           later == Saved(q, d)
           id == SaveTarget(q, d)
<1>1. /\ DbOK(mid) /\ Extends(d, mid) /\ mid.rates = d.rates
      /\ DOMAIN mid.roster = DOMAIN d.roster \cup {id}
      /\ \A e \in DOMAIN d.roster : mid.awards[e] = d.awards[e]
      /\ \A e \in DOMAIN d.roster : e # id => mid.roster[e] = d.roster[e]
      /\ q.emp = 0 => id \notin DOMAIN d.roster /\ mid.roster[id].row = q.row /\ mid.awards[id] = <<>>
      /\ q.emp # 0 => /\ mid.roster[id].row = Merged(q.row, q.seen[q.emp].row, d.roster[id].row)
                      /\ DOMAIN mid.roster = DOMAIN d.roster
  BY WrittenIs
<1>2. q.emp # 0 => \/ mid.roster[id].row.doc = d.roster[id].row.doc
                   \/ q.row.doc # q.seen[q.emp].row.doc /\ mid.roster[id].row.doc = q.row.doc
  BY <1>1 DEF Merged, SaveShape, RowShape, Columns
<1>3. <<>> \in Seq(Awards)
  OBVIOUS
<1>4. \A e \in DOMAIN mid.roster : mid.awards[e] \in Seq(Awards)
  BY <1>1, <1>3 DEF Papers
<1>5. CASE q.do = "status"
  <2>1. later = mid
    BY <1>5 DEF Saved
  <2>2. q.emp # 0 /\ q.row.doc = q.seen[q.emp].row.doc
    BY <1>5 DEF SaveShape
  <2> HIDE DEF mid, later, id
  <2>3. \A e \in DOMAIN d.roster : mid.roster[e].row.doc = d.roster[e].row.doc
    BY <1>1, <1>2, <2>2
  <2>4. Papers(later)
    BY <1>1, <1>4, <2>1, <2>2, <2>3 DEF Papers
  <2>5. AwardStep(d, later)
    BY <1>1, <2>1 DEF AwardStep
  <2> QED BY <1>1, <2>1, <2>4, <2>5 DEF later, mid
<1>6. CASE q.do # "status"
  <2>1. later = SaveDeductionMetadata(mid, id, q.form) /\ q.form \in ReliefForms /\ q.row.doc = q.form.doc
    BY <1>6 DEF Saved, SaveShape
  <2> HIDE DEF mid, later, id
  <2>2. DbOK(later) /\ Extends(mid, later) /\ later.roster = mid.roster /\ later.rates = mid.rates
    BY <1>1, <2>1, SaveMetadataIs
  <2>3. /\ \A e \in DOMAIN mid.roster : e # id => later.awards[e] = mid.awards[e]
        /\ \/ later.awards[id] = mid.awards[id]
           \/ \E a \in Awards : later.awards[id] = Append(mid.awards[id], a)
        /\ Complete(q.form.doc) => later.awards[id] # <<>>
        /\ \A e \in DOMAIN mid.roster : later.awards[e] \in Seq(Awards)
    <3>1. id \in DOMAIN mid.roster
      BY <1>1
    <3> QED BY <1>1, <1>4, <2>1, <3>1, MetadataIs
  <2>4. Extends(d, later)
    <3>1. d.made \in Nat /\ mid.made \in Nat /\ later.made \in Nat
      BY <1>1, <2>2 DEF DbOK
    <3> QED BY <1>1, <2>2, <3>1, ExtendsOn
  <2>5. ASSUME NEW e \in DOMAIN later.roster, later.awards[e] = <<>> PROVE ~Complete(later.roster[e].row.doc)
    <3>1. CASE e # id
      <4>1. e \in DOMAIN d.roster /\ later.awards[e] = d.awards[e] /\ later.roster[e] = d.roster[e]
        BY <1>1, <2>2, <2>3, <3>1
      <4> QED BY <2>5, <4>1 DEF Papers
    <3>2. CASE e = id
      <4>1. ~Complete(q.row.doc)
        BY <2>1, <2>3, <2>5, <3>2
      <4>2. mid.awards[id] = <<>>
        <5>1. \A a \in Awards : Append(mid.awards[id], a) # <<>>
          BY <1>1, <1>4, AppendProperties, EmptySeq
        <5> QED BY <2>3, <2>5, <3>2, <5>1
      <4>3. CASE q.emp = 0
        BY <1>1, <2>2, <3>2, <4>1, <4>3
      <4>4. CASE q.emp # 0
        <5>1. id \in DOMAIN d.roster /\ d.awards[id] = <<>>
          BY <1>1, <4>2, <4>4
        <5>2. ~Complete(d.roster[id].row.doc)
          BY <5>1 DEF Papers
        <5> QED BY <1>2, <2>2, <3>2, <4>1, <4>4, <5>2
      <4> QED BY <4>3, <4>4
    <3> QED BY <3>1, <3>2
  <2>6. Papers(later)
    BY <2>2, <2>3, <2>5 DEF Papers
  <2>7. AwardStep(d, later)
    BY <1>1, <2>2, <2>3 DEF AwardStep
  <2> QED BY <1>1, <2>2, <2>4, <2>6, <2>7 DEF later, mid
<1> QED BY <1>5, <1>6

-----------------------------------------------------------------------------
(* What the commits keep *)

(* A file keeps the papers; and the staff ids apart, if those of its new rows *)
(* were nobody's.                                                            *)
LEMMA FileKeeps ==
    ASSUME NEW d, Papers(d), NEW later, NEW staffIds, FileStep(d, later, staffIds)
    PROVE  /\ Papers(later) /\ AwardStep(d, later)
           /\ Unique(d) /\ OneRowEach(d, later) /\ (\A staff \in staffIds : Existing(d.roster, staff) = {})
                => Unique(later)
<1>1. /\ DOMAIN d.roster \subseteq DOMAIN later.roster
      /\ \A e \in DOMAIN d.roster :
            /\ later.roster[e].row.doc = d.roster[e].row.doc /\ later.awards[e] = d.awards[e]
            /\ later.roster[e].row.staff = d.roster[e].row.staff
      /\ \A e \in DOMAIN later.roster \ DOMAIN d.roster :
            /\ later.roster[e].row.doc = "none" /\ later.awards[e] = <<>>
            /\ later.roster[e].row.staff \in staffIds
  BY DEF FileStep, Extends
<1>2. ~Complete("none") /\ <<>> \in Seq(Awards)
  BY DEF Complete, Covers
<1>3. Papers(later)
  BY <1>1, <1>2 DEF Papers
<1>4. AwardStep(d, later)
  BY <1>1 DEF AwardStep
<1>5. ASSUME Unique(d), OneRowEach(d, later), \A staff \in staffIds : Existing(d.roster, staff) = {}
      PROVE  Unique(later)
  <2>1. ASSUME NEW e \in DOMAIN d.roster, NEW g \in DOMAIN later.roster \ DOMAIN d.roster
        PROVE  later.roster[e].row.staff # later.roster[g].row.staff
    <3>1. Existing(d.roster, later.roster[g].row.staff) = {}
      BY <1>1, <1>5
    <3> QED BY <1>1, <3>1 DEF Existing
  <2> QED BY <1>1, <1>5, <2>1 DEF Unique, OneRowEach
<1> QED BY <1>3, <1>4, <1>5

(* A deletion takes a row and its awards.                                    *)
Deleted(d, id) == [d EXCEPT !.roster = Without(@, id), !.awards = Without(@, id)]

LEMMA DeleteIs ==
    ASSUME NEW d, DbOK(d), Papers(d), NEW id
    PROVE  LET later == Deleted(d, id)
           IN  /\ DbOK(later) /\ Papers(later) /\ AwardStep(d, later) /\ (Unique(d) => Unique(later))
               /\ later.made = d.made /\ later.items = d.items /\ later.rates = d.rates
               /\ DOMAIN later.roster = DOMAIN d.roster \ {id}
               /\ \A e \in DOMAIN later.roster : later.roster[e] = d.roster[e]
<1> DEFINE later == Deleted(d, id)
           a == Without(d.roster, id)
           b == Without(d.awards, id)
<1>0. /\ d = [roster |-> d.roster, awards |-> d.awards, rates |-> d.rates, items |-> d.items, made |-> d.made]
      /\ d.made \in Nat /\ DOMAIN d.roster \subseteq 1 .. d.made /\ DOMAIN d.awards = DOMAIN d.roster
      /\ \A e \in DOMAIN d.roster : d.roster[e] = [row |-> d.roster[e].row, uid |-> d.roster[e].uid]
      /\ \A e \in DOMAIN d.roster : RowShape(d.roster[e].row)
      /\ engine = "postgresql" => \A e \in DOMAIN d.roster : d.roster[e].uid = e
  BY DEF DbOK, RowsOK
<1>1. /\ DOMAIN a = DOMAIN d.roster \ {id} /\ \A e \in DOMAIN a : a[e] = d.roster[e]
      /\ a = [e \in DOMAIN a |-> a[e]]
      /\ DOMAIN b = DOMAIN a /\ \A e \in DOMAIN a : b[e] = d.awards[e]
  BY <1>0 DEF Without
<1>2. later = [d EXCEPT !.roster = a, !.awards = b]
  BY DEF Deleted
<1> HIDE DEF a, b, later
<1>3. later = [roster |-> a, awards |-> b, rates |-> d.rates, items |-> d.items, made |-> d.made]
  BY <1>0, <1>2
<1>4. later.roster = a /\ later.awards = b /\ later.rates = d.rates /\ later.items = d.items /\ later.made = d.made
  BY <1>3
<1>5. RowsOK(a, d.made)
  BY <1>0, <1>1 DEF RowsOK
<1>6. DbOK(later)
  BY <1>0, <1>1, <1>3, <1>4, <1>5 DEF DbOK
<1>7. Papers(later) /\ AwardStep(d, later) /\ (Unique(d) => Unique(later))
  BY <1>1, <1>4 DEF Papers, AwardStep, Unique
<1> QED BY <1>1, <1>4, <1>6, <1>7 DEF later

(* The relief of a period, by the awards alone.                              *)
LEMMA ReliefIs ==
    ASSUME NEW d, Papers(d), NEW e \in DOMAIN d.roster, NEW p
    PROVE  LET granted == {i \in DOMAIN d.awards[e] : p \in Covers(d.awards[e][i].doc)}
           IN  ReliefFor(d, e, p) = IF granted # {} THEN d.awards[e][LatestOf(granted)].amount ELSE 0
<1>1. d.awards[e] = <<>> => p \notin Covers(d.roster[e].row.doc)
  BY DEF Papers, Complete
<1> QED BY <1>1 DEF ReliefFor

(* It changes by an award for the period.                                    *)
LEMMA ReliefStands ==
    ASSUME NEW d, Papers(d), NEW later, Papers(later), AwardStep(d, later),
           NEW e \in DOMAIN d.roster, e \in DOMAIN later.roster, NEW p,
           ReliefFor(d, e, p) # ReliefFor(later, e, p)
    PROVE  /\ Len(later.awards[e]) > Len(d.awards[e])
           /\ p \in Covers(later.awards[e][Len(later.awards[e])].doc)
<1> DEFINE s == d.awards[e]
           t == later.awards[e]
           old == {i \in DOMAIN s : p \in Covers(s[i].doc)}
           new == {i \in DOMAIN t : p \in Covers(t[i].doc)}
<1>1. ReliefFor(d, e, p) = IF old # {} THEN s[LatestOf(old)].amount ELSE 0
  BY ReliefIs
<1>2. ReliefFor(later, e, p) = IF new # {} THEN t[LatestOf(new)].amount ELSE 0
  BY ReliefIs
<1>3. s \in Seq(Awards) /\ t \in Seq(Awards)
  BY DEF Papers
<1>4. t = s \/ \E a \in Awards : t = Append(s, a)
  BY DEF AwardStep
<1> HIDE DEF s, t
<1>5. t # s
  <2> SUFFICES ASSUME t = s PROVE FALSE
    OBVIOUS
  <2>1. new = old
    OBVIOUS
  <2> HIDE DEF old, new
  <2> QED BY <1>1, <1>2, <2>1
<1>6. PICK a \in Awards : t = Append(s, a)
  BY <1>4, <1>5
<1>7. /\ Len(s) \in Nat /\ DOMAIN s = 1 .. Len(s) /\ Len(t) = Len(s) + 1 /\ DOMAIN t = 1 .. Len(t)
      /\ t[Len(s) + 1] = a /\ \A i \in 1 .. Len(s) : t[i] = s[i]
  BY <1>3, <1>6, AppendProperties, LenProperties
<1>8. p \in Covers(a.doc)
  <2> SUFFICES ASSUME p \notin Covers(a.doc) PROVE FALSE
    OBVIOUS
  <2>1. new = old
    <3>1. \A i \in DOMAIN t : i \in DOMAIN s \/ i = Len(s) + 1
      BY <1>7
    <3> QED BY <1>7, <3>1
  <2>2. old # {}
    BY <1>1, <1>2, <2>1
  <2>3. old \in SUBSET (0 .. Len(s))
    BY <1>7
  <2> HIDE DEF old, new
  <2>4. LatestOf(old) \in old
    BY <1>7, <2>2, <2>3, LatestIs
  <2>5. LatestOf(old) \in 1 .. Len(s)
    BY <1>7, <2>4 DEF old
  <2>6. t[LatestOf(old)] = s[LatestOf(old)]
    BY <1>7, <2>5
  <2> QED BY <1>1, <1>2, <2>1, <2>2, <2>6
<1> QED BY <1>7, <1>8 DEF s, t

-----------------------------------------------------------------------------
(* The invariant *)

(* The rows: staff ids apart unless requests crossed or a seed repeated one;  *)
(* payslips and rates with their worker.                                     *)
DataOK(d, x, y) ==
    /\ DbOK(d) /\ Papers(d)
    /\ x \/ y \/ Unique(d)
    /\ \A i \in d.items : \/ i.emp \in DOMAIN d.roster /\ d.roster[i.emp].uid = i.of
                          \/ engine = "sqlite" /\ x
    /\ RatesHeld(d)

(* An edit leaves the basic alone; one that changes the pay type follows the  *)
(* page that was shown for it.                                               *)
EditShape(q, page) ==
    /\ q.emp # 0
    /\ q.row.basic = q.seen[q.emp].row.basic
    /\ q.row.pay # q.seen[q.emp].row.pay =>
          /\ page # <<>> /\ page[1].guard.emp = q.emp /\ page[1].guard.pay = q.row.pay
          /\ q.row.pay \in {"hourly", "salaried"}

(* A request: what it read were rows, and what it will write was checked      *)
(* against them.                                                             *)
RequestOK(q, n, page, file) ==
    /\ RowsOK(q.seen, n)
    /\ q.do \in {"add", "edit", "save", "status"} => SaveShape(q)
    /\ q.do = "edit" => EditShape(q, page)
    /\ q.do = "seed" => q.file \in SeedFiles
    /\ q.do = "run" => q.line \in PayrollRows
    /\ q.do = "bulk" => file # <<>>

(* The page says what the figures it shows come to.                          *)
PageOK(page) ==
    page[1].guard.projected = IF page[1].guard.pay = "hourly" THEN page[1].guard.rated ELSE page[1].guard.basic > 0

RosterInv ==
    /\ EngineOK /\ crossed \in BOOLEAN /\ repeated \in BOOLEAN
    /\ DOMAIN doing = Reps /\ DOMAIN shown = Reps /\ staged = [r \in Reps |-> staged[r]]
    /\ DataOK(Db, crossed, repeated)
    /\ \A r \in Reps :
          /\ doing[r] # <<>> => RequestOK(doing[r][1], made, shown[r], staged[r])
          /\ shown[r] # <<>> => PageOK(shown[r])
          /\ staged[r] # <<>> => StagedShape(staged[r][1])

LEMMA DbIs ==
    /\ Db.roster = roster /\ Db.awards = awards /\ Db.rates = rates /\ Db.items = items /\ Db.made = made
BY DEF Db

LEMMA StoredIs == ASSUME NEW d, DbOK(d), Store(d) PROVE Db' = d
BY DEF DbOK, Store, Db

(* What a commit leaves.                                                     *)
Committed(r, d) ==
    /\ doing[r] # <<>>
    /\ Store(d) /\ DataOK(d, crossed', repeated') /\ made <= d.made /\ AwardStep(Db, d)
    /\ engine' = engine /\ crossed' \in BOOLEAN /\ repeated' \in BOOLEAN
    /\ Ends(r)
    /\ shown' = shown \/ shown' = [shown EXCEPT ![r] = <<>>]
    /\ staged' = staged \/ staged' = [staged EXCEPT ![r] = <<>>]

LEMMA CommitKeeps ==
    ASSUME RosterInv, NEW r \in Reps, NEW d, Committed(r, d)
    PROVE  RosterInv'
<1>0. /\ Store(d) /\ DataOK(d, crossed', repeated') /\ made <= d.made
      /\ engine' = engine /\ crossed' \in BOOLEAN /\ repeated' \in BOOLEAN
      /\ doing' = [doing EXCEPT ![r] = <<>>]
      /\ shown' = shown \/ shown' = [shown EXCEPT ![r] = <<>>]
      /\ staged' = staged \/ staged' = [staged EXCEPT ![r] = <<>>]
      /\ made' = d.made
  BY DEF Committed, Ends, Store
<1>1. DbOK(d) /\ Db' = d
  BY <1>0, StoredIs DEF DataOK
<1>2. DataOK(Db, crossed, repeated)'
  <2>1. RatesHeld(Db)'
    BY <1>0, <1>1 DEF DataOK, RatesHeld
  <2>2. \A rows, n : RowsOK(rows, n) <=> RowsOK(rows, n)'
    BY <1>0 DEF RowsOK, RowShape, PlainId, Columns
  <2>3. DbOK(d)'
    BY <1>1, <2>2 DEF DbOK
  <2> QED BY <1>0, <1>1, <2>1, <2>3 DEF DataOK
<1>3. ASSUME NEW t \in Reps PROVE (doing[t] # <<>> => RequestOK(doing[t][1], made, shown[t], staged[t]))'
  <2> SUFFICES ASSUME doing'[t] # <<>> PROVE RequestOK(doing[t][1], made, shown[t], staged[t])'
    OBVIOUS
  <2>1. /\ t # r /\ doing'[t] = doing[t] /\ shown'[t] = shown[t] /\ staged'[t] = staged[t]
        /\ doing[t] # <<>>
    BY <1>0 DEF RosterInv
  <2> DEFINE q == doing[t][1]
  <2>2. RequestOK(q, made, shown[t], staged[t])
    BY <2>1 DEF RosterInv
  <2>3. RowsOK(q.seen, d.made)
    <3>1. made \in Nat /\ d.made \in Nat
      BY <1>1, DbIs DEF RosterInv, DataOK, DbOK
    <3>2. RowsOK(q.seen, made)
      BY <2>2 DEF RequestOK
    <3> QED BY <1>0, <3>1, <3>2, RowsStay
  <2>4. RequestOK(q, d.made, shown[t], staged[t])
    BY <2>2, <2>3 DEF RequestOK
  <2>5. q' = q
    BY <2>1
  <2> HIDE DEF q
  <2>6. RequestOK(q, made, shown[t], staged[t])'
    BY <1>0, <2>1, <2>4, <2>5 DEF RequestOK, RowsOK, RowShape, PlainId, Columns, SaveShape, EditShape, Existing
  <2> QED BY <2>6 DEF q
<1>4. ASSUME NEW t \in Reps
      PROVE  (shown[t] # <<>> => PageOK(shown[t]))' /\ (staged[t] # <<>> => StagedShape(staged[t][1]))'
  <2>1. shown'[t] = shown[t] \/ shown'[t] = <<>>
    BY <1>0 DEF RosterInv
  <2>2. staged'[t] = staged[t] \/ staged'[t] = <<>>
    BY <1>0 DEF RosterInv
  <2>3. (shown[t] # <<>> => PageOK(shown[t])) /\ (staged[t] # <<>> => StagedShape(staged[t][1]))
    BY DEF RosterInv
  <2>4. (shown[t] # <<>> => PageOK(shown[t]))'
    BY <2>1, <2>3 DEF PageOK
  <2>5. (staged[t] # <<>> => StagedShape(staged[t][1]))'
    BY <2>2, <2>3 DEF StagedShape, PlainId
  <2> QED BY <2>4, <2>5
<1>5. EngineOK' /\ DOMAIN doing' = Reps /\ DOMAIN shown' = Reps
  BY <1>0 DEF RosterInv, EngineOK
<1>6. staged' = [t \in Reps |-> staged'[t]]
  BY <1>0 DEF RosterInv
<1> QED BY <1>0, <1>2, <1>3, <1>4, <1>5, <1>6 DEF RosterInv

-----------------------------------------------------------------------------
(* The commits *)

LEMMA DataStays ==
    ASSUME NEW d, NEW x \in BOOLEAN, NEW y \in BOOLEAN, DataOK(d, x, y),
           NEW v \in BOOLEAN, NEW w \in BOOLEAN, x => v, y => w
    PROVE  DataOK(d, v, w)
BY DEF DataOK

LEMMA SameAwards == ASSUME NEW d PROVE AwardStep(d, d)
BY DEF AwardStep

(* A form's commit, add, edit, save or status.                               *)
LEMMA SaveCommitted ==
    ASSUME RosterInv, NEW r \in Reps, SaveCommits(r)
    PROVE  \E d : Committed(r, d)
<1> DEFINE q == doing[r][1]
           id == IF q.emp = 0 THEN FreshId(Db) ELSE q.emp
           written == IF q.emp = 0 THEN Insert(Db, q.row) ELSE Update(Db, id, q.seen[id].row, q.row)
           lost == q.emp # 0 /\ id \notin DOMAIN roster
           d == IF lost THEN Db
                ELSE IF q.do = "status" THEN written ELSE SaveDeductionMetadata(written, id, q.form)
<1>1. /\ doing[r] # <<>> /\ q.do \in {"add", "edit", "save", "status"}
      /\ crossed' = (crossed \/ Crosses(q, {q.row.staff})) /\ Store(d) /\ Ends(r)
      /\ shown' = [shown EXCEPT ![r] = <<>>] /\ staged' = staged /\ engine' = engine /\ repeated' = repeated
  BY DEF SaveCommits
<1>2. /\ EngineOK /\ DataOK(Db, crossed, repeated) /\ crossed \in BOOLEAN /\ repeated \in BOOLEAN
      /\ DbOK(Db) /\ Papers(Db) /\ made \in Nat
  BY DbIs DEF RosterInv, DataOK, DbOK
<1>3. SaveShape(q)
  BY <1>1 DEF RosterInv, RequestOK
<1>4. crossed' \in BOOLEAN /\ (crossed => crossed')
  BY <1>1, <1>2, Zenon DEF Crosses
<1>5. DataOK(d, crossed', repeated') /\ made <= d.made /\ AwardStep(Db, d)
  <2>1. CASE lost
    <3>1. d = Db
      BY <2>1
    <3>2. DataOK(Db, crossed', repeated')
      BY <1>1, <1>2, <1>4, DataStays
    <3> HIDE DEF d
    <3> QED BY <1>2, <3>1, <3>2, SameAwards, DbIs
  <2>2. CASE ~lost
    <3>1. q.emp = 0 \/ q.emp \in DOMAIN Db.roster
      BY <2>2, DbIs
    <3>2. d = Saved(q, Db)
      BY <2>2 DEF Saved, RowWritten, SaveTarget
    <3> HIDE DEF d, q
    <3>3. /\ DbOK(d) /\ Extends(Db, d) /\ d.rates = Db.rates
          /\ Papers(d) /\ AwardStep(Db, d) /\ d.roster = RowWritten(q, Db).roster
      BY <1>2, <1>3, <3>1, <3>2, SaveIs
    <3>4. ASSUME ~crossed', ~repeated' PROVE Unique(d)
      <4>1. Held(Db.roster, q.row.staff) = Held(q.seen, q.row.staff)
        BY <1>1, <3>4, DbIs DEF Crosses
      <4>2. Unique(Db)
        BY <1>1, <1>2, <1>4, <3>4 DEF DataOK
      <4>3. Unique(RowWritten(q, Db))
        BY <1>2, <1>3, <3>1, <4>1, <4>2, WrittenIsUnique
      <4> QED BY <3>3, <4>3 DEF Unique
    <3>5. \A i \in d.items : \/ i.emp \in DOMAIN d.roster /\ d.roster[i.emp].uid = i.of
                             \/ engine = "sqlite" /\ crossed'
      BY <1>2, <1>4, <3>3 DEF DataOK, Extends
    <3>6. RatesHeld(d)
      BY <1>2, <3>3 DEF DataOK, Extends, RatesHeld
    <3>7. made <= d.made
      BY <3>3, DbIs DEF Extends
    <3>8. crossed' \/ repeated' \/ Unique(d)
      BY <3>4
    <3>9. DataOK(d, crossed', repeated')
      BY <3>3, <3>5, <3>6, <3>8 DEF DataOK
    <3> QED BY <3>3, <3>7, <3>9
  <2> QED BY <2>1, <2>2
<1> HIDE DEF d
<1>6. Committed(r, d)
  BY <1>1, <1>2, <1>4, <1>5 DEF Committed
<1> QED BY <1>6

(* A deletion's.                                                             *)
LEMMA DeleteCommitted ==
    ASSUME RosterInv, NEW r \in Reps, DeleteCommits(r)
    PROVE  \E d : Committed(r, d)
<1> DEFINE id == doing[r][1].emp
           refused == engine = "postgresql" /\ Referenced(Db, id)
           d == IF refused \/ id \notin DOMAIN roster THEN Db ELSE Deleted(Db, id)
<1>1. /\ doing[r] # <<>>
      /\ crossed' = (crossed \/ EmployeeDeleteBlockers(Db, id) # {}) /\ Store(d) /\ Ends(r)
      /\ shown' = shown /\ staged' = staged /\ engine' = engine /\ repeated' = repeated
  BY DEF DeleteCommits, Deleted
<1>2. /\ EngineOK /\ DataOK(Db, crossed, repeated) /\ crossed \in BOOLEAN /\ repeated \in BOOLEAN
      /\ DbOK(Db) /\ Papers(Db) /\ made \in Nat
  BY DbIs DEF RosterInv, DataOK, DbOK
<1>4. crossed' \in BOOLEAN /\ (crossed => crossed')
  BY <1>1, <1>2, Zenon
<1>5. DataOK(d, crossed', repeated') /\ made <= d.made /\ AwardStep(Db, d)
  <2>1. CASE refused \/ id \notin DOMAIN roster
    <3>1. d = Db
      BY <2>1
    <3>2. DataOK(Db, crossed', repeated')
      BY <1>1, <1>2, <1>4, DataStays
    <3> HIDE DEF d
    <3> QED BY <1>2, <3>1, <3>2, SameAwards, DbIs
  <2>2. CASE ~(refused \/ id \notin DOMAIN roster)
    <3>1. d = Deleted(Db, id)
      BY <2>2
    <3> HIDE DEF d, id
    <3>2. /\ DbOK(d) /\ Papers(d) /\ AwardStep(Db, d) /\ (Unique(Db) => Unique(d))
          /\ d.made = Db.made /\ d.items = Db.items /\ d.rates = Db.rates
          /\ DOMAIN d.roster = DOMAIN Db.roster \ {id}
          /\ \A e \in DOMAIN d.roster : d.roster[e] = Db.roster[e]
      BY <1>2, <3>1, DeleteIs
    <3>3. engine = "postgresql" => \A x \in Db.items \cup Db.rates : x.emp # id
      BY <2>2 DEF Referenced
    <3>4. crossed' \/ \A i \in Db.items : i.emp # id
      BY <1>1 DEF EmployeeDeleteBlockers
    <3>5. ASSUME NEW i \in d.items
          PROVE  \/ i.emp \in DOMAIN d.roster /\ d.roster[i.emp].uid = i.of
                 \/ engine = "sqlite" /\ crossed'
      <4>1. \/ i.emp \in DOMAIN Db.roster /\ Db.roster[i.emp].uid = i.of
            \/ engine = "sqlite" /\ crossed
        BY <1>2, <3>2 DEF DataOK
      <4>2. i.emp # id \/ (engine = "sqlite" /\ crossed')
        BY <1>2, <3>2, <3>3, <3>4 DEF EngineOK
      <4> QED BY <1>4, <3>2, <4>1, <4>2
    <3>6. RatesHeld(d)
      BY <1>2, <3>2, <3>3 DEF DataOK, RatesHeld
    <3>7. crossed' \/ repeated' \/ Unique(d)
      BY <1>1, <1>2, <1>4, <3>2 DEF DataOK
    <3>8. DataOK(d, crossed', repeated')
      BY <3>2, <3>5, <3>6, <3>7 DEF DataOK
    <3> QED BY <1>2, <3>2, <3>8, DbIs
  <2> QED BY <2>1, <2>2
<1> HIDE DEF d
<1>6. Committed(r, d)
  BY <1>1, <1>2, <1>4, <1>5 DEF Committed
<1> QED BY <1>6

LEMMA FileKeepsData ==
    ASSUME NEW d, NEW x \in BOOLEAN, NEW y \in BOOLEAN, DataOK(d, x, y), NEW v \in BOOLEAN, NEW w \in BOOLEAN,
           x => v, y => w, NEW later, NEW staffIds, FileStep(d, later, staffIds),
           v \/ w \/ (OneRowEach(d, later) /\ \A staff \in staffIds : Existing(d.roster, staff) = {})
    PROVE  DataOK(later, v, w) /\ d.made <= later.made /\ AwardStep(d, later)
<1>1. DbOK(d) /\ Papers(d) /\ (x \/ y \/ Unique(d))
  BY DEF DataOK
<1>2. Papers(later) /\ AwardStep(d, later)
      /\ (Unique(d) /\ OneRowEach(d, later) /\ (\A staff \in staffIds : Existing(d.roster, staff) = {})
             => Unique(later))
  BY <1>1, FileKeeps
<1>3. DbOK(later) /\ Extends(d, later) /\ (RatesHeld(d) => RatesHeld(later))
  BY DEF FileStep
<1>4. v \/ w \/ Unique(later)
  BY <1>1, <1>2
<1>5. \A i \in later.items : \/ i.emp \in DOMAIN later.roster /\ later.roster[i.emp].uid = i.of
                             \/ engine = "sqlite" /\ v
  BY <1>3 DEF DataOK, Extends
<1>6. RatesHeld(later)
  BY <1>3 DEF DataOK
<1>7. DataOK(later, v, w)
  BY <1>2, <1>3, <1>4, <1>5, <1>6 DEF DataOK
<1> QED BY <1>2, <1>3, <1>7 DEF Extends

(* A bulk import's.                                                          *)
LEMMA BulkCommitted ==
    ASSUME RosterInv, NEW r \in Reps, BulkImportCommits(r)
    PROVE  \E d : Committed(r, d)
<1> DEFINE q == doing[r][1]
           file == staged[r][1]
           lost == \E x \in file.update : Existing(q.seen, x.staff) \ DOMAIN roster # {}
           d == IF lost THEN Db ELSE BulkSaved(q, Db, BulkLines(q, file))
           staffIds == {x.staff : x \in {y \in file.create : Existing(q.seen, y.staff) = {}}}
<1>1. /\ doing[r] # <<>> /\ q.do = "bulk"
      /\ crossed' = (crossed \/ Crosses(q, {x.staff : x \in file.create \cup file.update})) /\ Store(d) /\ Ends(r)
      /\ staged' = [staged EXCEPT ![r] = IF lost THEN @ ELSE <<>>]
      /\ shown' = shown /\ engine' = engine /\ repeated' = repeated
  BY DEF BulkImportCommits
<1>2. /\ EngineOK /\ DataOK(Db, crossed, repeated) /\ crossed \in BOOLEAN /\ repeated \in BOOLEAN
      /\ DbOK(Db) /\ Papers(Db) /\ made \in Nat
  BY DbIs DEF RosterInv, DataOK, DbOK
<1>3. RowsOK(q.seen, made) /\ StagedShape(file)
  BY <1>1 DEF RosterInv, RequestOK
<1>4. crossed' \in BOOLEAN /\ (crossed => crossed')
  BY <1>1, <1>2, Zenon DEF Crosses
<1>41. staged' = staged \/ staged' = [staged EXCEPT ![r] = <<>>]
  <2> HIDE DEF lost
  <2>1. CASE lost
    BY <1>1, <2>1 DEF RosterInv
  <2> QED BY <1>1, <2>1
<1>5. DataOK(d, crossed', repeated') /\ made <= d.made /\ AwardStep(Db, d)
  <2>1. CASE lost
    <3>1. d = Db
      BY <2>1
    <3>2. DataOK(Db, crossed', repeated')
      BY <1>1, <1>2, <1>4, DataStays
    <3> HIDE DEF d
    <3> QED BY <1>2, <3>1, <3>2, SameAwards, DbIs
  <2>2. CASE ~lost
    <3>1. d = BulkSaved(q, Db, BulkLines(q, file))
      BY <2>2
    <3>2. \A x \in file.update : Existing(q.seen, x.staff) \subseteq DOMAIN Db.roster
      BY <2>2, DbIs
    <3>3. ASSUME ~crossed', NEW staff \in staffIds PROVE Existing(Db.roster, staff) = {}
      <4>1. PICK x \in file.create : Existing(q.seen, x.staff) = {} /\ staff = x.staff
        OBVIOUS
      <4>2. Held(roster, staff) = Held(q.seen, staff)
        BY <1>1, <3>3, <4>1 DEF Crosses
      <4> QED BY <4>1, <4>2, HeldIs, DbIs
    <3> HIDE DEF d, q, file
    <3>4. FileStep(Db, d, staffIds) /\ OneRowEach(Db, d)
      BY <1>2, <1>3, <3>1, <3>2, BulkIs
    <3> HIDE DEF staffIds
    <3>5. DataOK(d, crossed', repeated') /\ Db.made <= d.made /\ AwardStep(Db, d)
      BY <1>1, <1>2, <1>4, <3>3, <3>4, FileKeepsData
    <3> QED BY <3>5, DbIs
  <2> QED BY <2>1, <2>2
<1> HIDE DEF d
<1>6. Committed(r, d)
  BY <1>1, <1>2, <1>4, <1>41, <1>5 DEF Committed
<1> QED BY <1>6

(* A seed's.                                                                 *)
LEMMA SeedCommitted ==
    ASSUME RosterInv, NEW r \in Reps, PersistSeed(r)
    PROVE  \E d : Committed(r, d)
<1> DEFINE q == doing[r][1]
           lines == ParseRichWorkbook(q.file)
           Staff(i) == SeedStaff(q, i)
           fresh == {i \in lines : Existing(q.seen, Staff(i)) = {}}
           lost == \E i \in lines : SeedLost(q, Db, i)
           d == IF lost THEN Db ELSE Seeded(q, Db)
           staffIds == {Staff(i) : i \in fresh}
<1>1. /\ doing[r] # <<>> /\ q.do = "seed"
      /\ crossed' = (crossed \/ Crosses(q, {Staff(i) : i \in lines})) /\ Store(d) /\ Ends(r)
      /\ repeated' = (repeated \/ \E i, j \in fresh : i # j /\ Staff(i) = Staff(j))
      /\ shown' = shown /\ engine' = engine /\ staged' = staged
  BY DEF PersistSeed
<1>2. /\ EngineOK /\ DataOK(Db, crossed, repeated) /\ crossed \in BOOLEAN /\ repeated \in BOOLEAN
      /\ DbOK(Db) /\ Papers(Db) /\ made \in Nat
  BY DbIs DEF RosterInv, DataOK, DbOK
<1>3. RowsOK(q.seen, made) /\ q.file \in SeedFiles
  BY <1>1 DEF RosterInv, RequestOK
<1>4. crossed' \in BOOLEAN /\ (crossed => crossed') /\ repeated' \in BOOLEAN /\ (repeated => repeated')
  <2>1. crossed' \in BOOLEAN /\ (crossed => crossed')
    BY <1>1, <1>2, Zenon DEF Crosses
  <2>2. repeated' \in BOOLEAN /\ (repeated => repeated')
    BY <1>1, <1>2, Zenon
  <2> QED BY <2>1, <2>2
<1>5. DataOK(d, crossed', repeated') /\ made <= d.made /\ AwardStep(Db, d)
  <2>1. CASE lost
    <3>1. d = Db
      BY <2>1
    <3>2. DataOK(Db, crossed', repeated')
      BY <1>2, <1>4, DataStays
    <3> HIDE DEF d
    <3> QED BY <1>2, <3>1, <3>2, SameAwards, DbIs
  <2>2. CASE ~lost
    <3>1. d = Seeded(q, Db)
      BY <2>2
    <3>2. \A i \in lines : ~SeedLost(q, Db, i)
      BY <2>2
    <3>3. ASSUME ~crossed', NEW staff \in staffIds PROVE Existing(Db.roster, staff) = {}
      <4>1. PICK i \in fresh : staff = Staff(i)
        OBVIOUS
      <4>2. Held(roster, staff) = Held(q.seen, staff) /\ Existing(q.seen, staff) = {}
        BY <1>1, <3>3, <4>1 DEF Crosses
      <4> QED BY <4>2, HeldIs, DbIs
    <3>4. FileStep(Db, d, staffIds) /\ ((\A i, j \in fresh : Staff(i) = Staff(j) => i = j) => OneRowEach(Db, d))
      <4> HIDE DEF d, q
      <4> QED BY <1>2, <1>3, <3>1, <3>2, SeedIs
    <3>41. repeated' \/ OneRowEach(Db, d)
      BY <1>1, <3>4
    <3> HIDE DEF d, q, staffIds
    <3>5. DataOK(d, crossed', repeated') /\ Db.made <= d.made /\ AwardStep(Db, d)
      BY <1>2, <1>4, <3>3, <3>4, <3>41, FileKeepsData
    <3> QED BY <3>5, DbIs
  <2> QED BY <2>1, <2>2
<1> HIDE DEF d
<1>6. Committed(r, d)
  BY <1>1, <1>2, <1>4, <1>5 DEF Committed
<1> QED BY <1>6

(* A payroll upload's: the item is its worker's.                             *)
LEMMA ImportCommitted ==
    ASSUME RosterInv, NEW r \in Reps, ImportRunCommits(r)
    PROVE  \E d : Committed(r, d)
<1> DEFINE q == doing[r][1]
           staff == ImportStaff(q.line, Db)
           found == Existing(q.seen, staff)
           staffIds == IF found = {} THEN {staff} ELSE {}
           saved == CreateOrUpdateEmployee(q, Db)
           mid == saved.db
           item == [emp |-> saved.emp, of |-> saved.of]
           d == IF saved.lost THEN Db ELSE [mid EXCEPT !.items = @ \cup {item}]
<1>1. /\ doing[r] # <<>> /\ q.do = "run"
      /\ crossed' = (crossed \/ Crosses(q, {staff})) /\ Store(d) /\ Ends(r)
      /\ shown' = shown /\ engine' = engine /\ staged' = staged /\ repeated' = repeated
  BY DEF ImportRunCommits
<1>2. /\ EngineOK /\ DataOK(Db, crossed, repeated) /\ crossed \in BOOLEAN /\ repeated \in BOOLEAN
      /\ DbOK(Db) /\ Papers(Db) /\ made \in Nat /\ RowsOK(roster, made)
  BY DbIs DEF RosterInv, DataOK, DbOK
<1>3. RowsOK(q.seen, made) /\ PlainId(staff)
  <2>1. RowsOK(q.seen, made) /\ q.line \in PayrollRows
    BY <1>1 DEF RosterInv, RequestOK
  <2>2. PlainId(NormaliseEmpId(q.line.raw))
    BY <2>1, RawIdsAssumption, NormaliseIs
  <2>3. PlainId(ImportKey(Db))
    BY DEF ImportKey, PlainId
  <2> QED BY <2>1, <2>2, <2>3 DEF ImportStaff
<1>4. crossed' \in BOOLEAN /\ (crossed => crossed')
  BY <1>1, <1>2, Zenon DEF Crosses
<1>41. ASSUME ~crossed'
       PROVE  Existing(roster, staff) = found /\ \A e \in found : roster[e].uid = q.seen[e].uid
  <2>1. Held(roster, staff) = Held(q.seen, staff)
    BY <1>1, <1>41 DEF Crosses
  <2> HIDE DEF staff, q
  <2> QED BY <2>1, HeldIs
<1>5. DataOK(d, crossed', repeated') /\ made <= d.made /\ AwardStep(Db, d)
  <2>1. CASE saved.lost
    <3>1. d = Db
      BY <2>1
    <3>2. DataOK(Db, crossed', repeated')
      BY <1>1, <1>2, <1>4, DataStays
    <3> HIDE DEF d
    <3> QED BY <1>2, <3>1, <3>2, SameAwards, DbIs
  <2>2. CASE ~saved.lost
    <3>1. d = [mid EXCEPT !.items = mid.items \cup {item}]
      BY <2>2
    <3>2. /\ FileStep(Db, mid, staffIds) /\ OneRowEach(Db, mid)
          /\ found = {} => saved.emp \in DOMAIN mid.roster /\ mid.roster[saved.emp].uid = saved.of
          /\ found # {} => /\ saved.emp \in found /\ saved.of = q.seen[saved.emp].uid
                           /\ engine = "postgresql" /\ saved.emp \notin DOMAIN Db.roster => saved.lost
      <4> HIDE DEF q, d
      <4> QED BY <1>2, <1>3, ImportIs
    <3>3. crossed' \/ \A s \in staffIds : Existing(Db.roster, s) = {}
      <4>1. ASSUME ~crossed', NEW s \in staffIds PROVE Existing(Db.roster, s) = {}
        <5>1. found = {} /\ s = staff
          OBVIOUS
        <5> QED BY <1>41, <4>1, <5>1, DbIs
      <4> QED BY <4>1
    <3> HIDE DEF d, q, staffIds, saved, mid, staff
    <3>4. DataOK(mid, crossed', repeated') /\ Db.made <= mid.made /\ AwardStep(Db, mid)
      BY <1>1, <1>2, <1>4, <3>2, <3>3, FileKeepsData
    <3>5. DbOK(mid) /\ Extends(Db, mid)
      BY <3>2 DEF FileStep
    <3> DEFINE emp == saved.emp
    <3>6. \/ emp \in DOMAIN mid.roster /\ mid.roster[emp].uid = saved.of
          \/ engine = "sqlite" /\ crossed'
      <4>1. CASE found = {}
        BY <3>2, <4>1
      <4>2. CASE found # {} /\ engine = "postgresql"
        <5>1. emp \in DOMAIN roster /\ emp \in DOMAIN q.seen /\ saved.of = q.seen[emp].uid
          BY <2>2, <3>2, <4>2, DbIs DEF Existing
        <5>2. roster[emp].uid = emp /\ q.seen[emp].uid = emp
          BY <1>2, <1>3, <4>2, <5>1 DEF RowsOK
        <5> QED BY <3>5, <5>1, <5>2, DbIs DEF Extends
      <4>3. CASE found # {} /\ engine = "sqlite" /\ ~crossed'
        <5>1. emp \in DOMAIN roster /\ roster[emp].uid = saved.of
          BY <1>41, <3>2, <4>3 DEF Existing
        <5> QED BY <3>5, <5>1, DbIs DEF Extends
      <4> QED BY <1>2, <4>1, <4>2, <4>3 DEF EngineOK
    <3> HIDE DEF item, emp
    <3>7. d = [roster |-> mid.roster, awards |-> mid.awards, rates |-> mid.rates,
               items |-> mid.items \cup {item}, made |-> mid.made]
      BY <3>1, <3>5 DEF DbOK
    <3>8. /\ d.roster = mid.roster /\ d.awards = mid.awards /\ d.rates = mid.rates /\ d.made = mid.made
          /\ d.items = mid.items \cup {item}
          /\ d = [roster |-> d.roster, awards |-> d.awards, rates |-> d.rates, items |-> d.items, made |-> d.made]
      BY <3>7
    <3>9. DbOK(d)
      BY <3>5, <3>8 DEF DbOK
    <3>10. Papers(d) /\ (crossed' \/ repeated' \/ Unique(d)) /\ RatesHeld(d)
      BY <3>4, <3>8 DEF DataOK, Papers, Unique, RatesHeld
    <3>11. item.emp = emp /\ item.of = saved.of
      BY DEF item, emp
    <3>12. \A i \in d.items : \/ i.emp \in DOMAIN d.roster /\ d.roster[i.emp].uid = i.of
                              \/ engine = "sqlite" /\ crossed'
      BY <3>4, <3>6, <3>8, <3>11 DEF DataOK
    <3>13. DataOK(d, crossed', repeated')
      BY <3>9, <3>10, <3>12 DEF DataOK
    <3>14. AwardStep(Db, d) /\ made <= d.made
      BY <3>4, <3>8, DbIs DEF AwardStep
    <3> QED BY <3>13, <3>14
  <2> QED BY <2>1, <2>2
<1> HIDE DEF d
<1>6. Committed(r, d)
  BY <1>1, <1>2, <1>4, <1>5 DEF Committed
<1> QED BY <1>6

-----------------------------------------------------------------------------
(* The requests *)

(* The rows a request reads, and what stays while it only reads.             *)
LEMMA ReadIs ==
    ASSUME RosterInv
    PROVE  /\ made \in Nat /\ RowsOK(roster, made) /\ 0 \notin DOMAIN roster
           /\ \A e \in DOMAIN roster : RowShape(roster[e].row)
BY DbIs DEF RosterInv, DataOK, DbOK, RowsOK

LEMMA DataUnchanged ==
    ASSUME RosterInv, UNCHANGED <<engine, dataVars, crossed, repeated>>
    PROVE  /\ EngineOK' /\ crossed' \in BOOLEAN /\ repeated' \in BOOLEAN
           /\ DataOK(Db, crossed, repeated)'
           /\ \A q, n, page, file : RequestOK(q, n, page, file)' <=> RequestOK(q, n, page, file)
<1>1. /\ engine' = engine /\ crossed' = crossed /\ repeated' = repeated /\ roster' = roster
      /\ awards' = awards /\ rates' = rates /\ items' = items /\ made' = made
  BY DEF dataVars
<1>2. Db' = Db
  BY <1>1 DEF Db
<1>3. \A rows, n : RowsOK(rows, n) <=> RowsOK(rows, n)'
  BY <1>1 DEF RowsOK
<1>4. \A q, n, page, file : RequestOK(q, n, page, file)' <=> RequestOK(q, n, page, file)
  BY <1>3 DEF RequestOK
<1>5. DataOK(Db, crossed, repeated)
  BY DEF RosterInv
<1>6. DataOK(Db, crossed, repeated)'
  <2>1. RatesHeld(Db)'
    BY <1>1, <1>2, <1>5 DEF DataOK, RatesHeld
  <2> QED BY <1>1, <1>2, <1>3, <1>5, <2>1 DEF DataOK, DbOK
<1> QED BY <1>1, <1>4, <1>6 DEF RosterInv, EngineOK

LEMMA BeginKeeps ==
    ASSUME RosterInv, NEW r \in Reps, NEW q, Begin(r, q), UNCHANGED shown,
           RequestOK(q, made, shown[r], staged[r])
    PROVE  RosterInv'
<1>1. /\ doing' = [doing EXCEPT ![r] = <<q>>] /\ staged' = staged /\ shown' = shown
      /\ UNCHANGED <<engine, dataVars, crossed, repeated>> /\ made' = made
  BY DEF Begin, dataVars
<1>2. /\ EngineOK' /\ crossed' \in BOOLEAN /\ repeated' \in BOOLEAN
      /\ DataOK(Db, crossed, repeated)'
      /\ \A x, n, page, file : RequestOK(x, n, page, file)' <=> RequestOK(x, n, page, file)
  BY <1>1, DataUnchanged
<1>3. ASSUME NEW t \in Reps PROVE (doing[t] # <<>> => RequestOK(doing[t][1], made, shown[t], staged[t]))'
  <2>1. CASE t = r
    <3>1. doing'[t] = <<q>> /\ doing'[t][1] = q
      BY <1>1, <2>1 DEF RosterInv
    <3> QED BY <1>1, <1>2, <2>1, <3>1
  <2>2. CASE t # r
    <3>1. doing'[t] = doing[t]
      BY <1>1, <2>2 DEF RosterInv
    <3>2. doing[t] # <<>> => RequestOK(doing[t][1], made, shown[t], staged[t])
      BY DEF RosterInv
    <3> QED BY <1>1, <1>2, <3>1, <3>2
  <2> QED BY <2>1, <2>2
<1>4. ASSUME NEW t \in Reps
      PROVE  (shown[t] # <<>> => PageOK(shown[t]))' /\ (staged[t] # <<>> => StagedShape(staged[t][1]))'
  <2>1. (shown[t] # <<>> => PageOK(shown[t])) /\ (staged[t] # <<>> => StagedShape(staged[t][1]))
    BY DEF RosterInv
  <2> QED BY <1>1, <2>1 DEF PageOK, StagedShape, PlainId
<1>5. DOMAIN doing' = Reps /\ DOMAIN shown' = Reps /\ staged' = [t \in Reps |-> staged'[t]]
  BY <1>1 DEF RosterInv
<1> QED BY <1>2, <1>3, <1>4, <1>5 DEF RosterInv

LEMMA EvidenceIs ==
    ASSUME NEW row, RowShape(row), NEW form
    PROVE  LET new == Evidence(row, form)
           IN  /\ RowShape(new) /\ new.staff = row.staff /\ new.basic = row.basic /\ new.pay = row.pay
               /\ new.doc = form.doc
<1> DEFINE new == Evidence(row, form)
           a == form.relief
           b == form.doc
<1>1. new = [row EXCEPT !.relief = a, !.doc = b]
  BY DEF Evidence
<1> HIDE DEF a, b, new
<1>2. /\ new = [c \in Columns |-> new[c]] /\ new.staff = row.staff /\ new.basic = row.basic
      /\ new.pay = row.pay /\ new.doc = b
  BY <1>1 DEF RowShape, Columns
<1> QED BY <1>2 DEF RowShape, new, b

LEMMA AddKeeps ==
    ASSUME RosterInv, NEW r \in Reps, NEW raw \in TypedIds, NEW form \in ReliefForms, Add(r, raw, form)
    PROVE  RosterInv'
<1> DEFINE staff == NormaliseEmpId(raw)
           row == Evidence(Row(staff, 0), form)
           q == Saves("add", 0, row, form)
<1>1. Existing(roster, staff) = {} /\ Begin(r, q) /\ UNCHANGED shown
  BY DEF Add
<1>2. RowShape(row) /\ row.staff = staff /\ row.doc = form.doc
  BY RawIdsAssumption, NormaliseIs, RowIs, EvidenceIs
<1> HIDE DEF row, staff
<1>3. q.do = "add" /\ q.emp = 0 /\ q.row = row /\ q.form = form /\ q.seen = roster
  BY DEF Saves
<1> HIDE DEF q
<1>4. SaveShape(q)
  BY <1>1, <1>2, <1>3 DEF SaveShape
<1>5. RequestOK(q, made, shown[r], staged[r])
  BY <1>3, <1>4, ReadIs DEF RequestOK
<1> QED BY <1>1, <1>5, BeginKeeps

LEMMA EditKeeps ==
    ASSUME RosterInv, NEW r \in Reps, NEW id \in DOMAIN roster, NEW pay \in {"", "hourly", "salaried"},
           NEW form \in ReliefForms, Edit(r, id, pay, form)
    PROVE  RosterInv'
<1> DEFINE old == roster[id].row
           mid == Evidence(old, form)
           p == IF pay = "" THEN mid.pay ELSE pay
           row == [mid EXCEPT !.pay = p]
           q == Saves("edit", id, row, form)
<1>1. /\ Changing(id, pay) => shown[r] # <<>> /\ shown[r][1].guard.emp = id /\ shown[r][1].guard.pay = pay
      /\ Begin(r, q) /\ UNCHANGED shown
  BY DEF Edit, Edited
<1>2. RowShape(old) /\ id # 0
  BY ReadIs
<1>3. RowShape(mid) /\ mid.staff = old.staff /\ mid.basic = old.basic /\ mid.pay = old.pay /\ mid.doc = form.doc
  BY <1>2, EvidenceIs
<1>31. p # old.pay => Changing(id, pay) /\ p = pay /\ pay \in {"hourly", "salaried"}
  BY <1>3 DEF Changing
<1> HIDE DEF mid, p
<1>4. /\ row = [c \in Columns |-> row[c]] /\ row.staff = mid.staff /\ row.basic = mid.basic
      /\ row.pay = p /\ row.doc = mid.doc
  BY <1>3 DEF RowShape, Columns
<1>5. RowShape(row)
  BY <1>3, <1>4 DEF RowShape
<1> HIDE DEF row
<1>6. q.do = "edit" /\ q.emp = id /\ q.row = row /\ q.form = form /\ q.seen = roster
  BY DEF Saves
<1> HIDE DEF q
<1>7. SaveShape(q)
  BY <1>2, <1>3, <1>4, <1>5, <1>6 DEF SaveShape
<1>8. EditShape(q, shown[r])
  BY <1>1, <1>2, <1>3, <1>31, <1>4, <1>6 DEF EditShape
<1>9. RequestOK(q, made, shown[r], staged[r])
  BY <1>6, <1>7, <1>8, ReadIs DEF RequestOK
<1> QED BY <1>1, <1>9, BeginKeeps

LEMMA ClientSavesKeeps ==
    ASSUME RosterInv, NEW r \in Reps, NEW id \in DOMAIN roster \cup {0}, NEW raw \in TypedIds, NEW basic,
           NEW form \in ReliefForms, ClientSaves(r, id, raw, basic, form)
    PROVE  RosterInv'
<1> DEFINE staff == NormaliseEmpId(raw)
           old == IF id = 0 THEN Row(staff, 0) ELSE roster[id].row
           mid == Evidence(old, form)
           new == [mid EXCEPT !.staff = staff, !.basic = basic, !.status = "Active"]
           q == Saves("save", id, new, form)
<1>1. Existing(roster, staff) \subseteq {id} /\ Begin(r, q) /\ UNCHANGED shown
  BY DEF ClientSaves
<1>2. PlainId(staff)
  BY RawIdsAssumption, NormaliseIs
<1>3. RowShape(old)
  BY <1>2, ReadIs, RowIs
<1>4. RowShape(mid) /\ mid.doc = form.doc
  BY <1>3, EvidenceIs
<1> HIDE DEF mid, staff
<1>5. new = [c \in Columns |-> new[c]] /\ new.staff = staff /\ new.doc = mid.doc
  BY <1>4 DEF RowShape, Columns
<1> HIDE DEF new
<1>6. RowShape(new)
  BY <1>2, <1>5 DEF RowShape
<1>7. q.do = "save" /\ q.emp = id /\ q.row = new /\ q.form = form /\ q.seen = roster
  BY DEF Saves
<1> HIDE DEF q
<1>8. id = 0 => Existing(roster, staff) = {}
  BY <1>1, ReadIs DEF Existing
<1>9. SaveShape(q)
  BY <1>1, <1>4, <1>5, <1>6, <1>7, <1>8 DEF SaveShape
<1>10. RequestOK(q, made, shown[r], staged[r])
  BY <1>7, <1>9, ReadIs DEF RequestOK
<1> QED BY <1>1, <1>10, BeginKeeps

LEMMA SetStatusKeeps ==
    ASSUME RosterInv, NEW r \in Reps, NEW id \in DOMAIN roster, NEW status, SetStatus(r, id, status)
    PROVE  RosterInv'
<1> DEFINE old == roster[id].row
           new == [old EXCEPT !.status = status]
           q == Saves("status", id, new, [relief |-> 0, doc |-> "none", sound |-> TRUE])
<1>1. Begin(r, q) /\ UNCHANGED shown
  BY DEF SetStatus
<1>2. RowShape(old) /\ id # 0
  BY ReadIs
<1>3. new = [c \in Columns |-> new[c]] /\ new.staff = old.staff /\ new.doc = old.doc
  BY <1>2 DEF RowShape, Columns
<1> HIDE DEF new
<1>4. RowShape(new)
  BY <1>2, <1>3 DEF RowShape
<1>5. q.do = "status" /\ q.emp = id /\ q.row = new /\ q.seen = roster
  BY DEF Saves
<1> HIDE DEF q
<1>6. SaveShape(q)
  BY <1>2, <1>3, <1>4, <1>5 DEF SaveShape
<1>7. RequestOK(q, made, shown[r], staged[r])
  BY <1>5, <1>6, ReadIs DEF RequestOK
<1> QED BY <1>1, <1>7, BeginKeeps

(* A deletion, an upload, a seed, and the confirmation of an import.         *)
LEMMA OthersKeep ==
    ASSUME RosterInv, NEW r \in Reps,
           \/ \E id \in DOMAIN roster : Delete(r, id)
           \/ \E x \in PayrollRows : ImportRun(r, x)
           \/ \E file \in SeedFiles : SeedConfirm(r, file)
           \/ BulkImportConfirm(r)
    PROVE  RosterInv'
<1>1. ASSUME NEW id \in DOMAIN roster, Delete(r, id) PROVE RosterInv'
  <2> DEFINE q == [do |-> "delete", emp |-> id, seen |-> roster]
  <2>1. Begin(r, q) /\ UNCHANGED shown /\ q.do = "delete" /\ q.seen = roster
    BY <1>1 DEF Delete
  <2> HIDE DEF q
  <2>2. RequestOK(q, made, shown[r], staged[r])
    BY <2>1, ReadIs DEF RequestOK
  <2> QED BY <2>1, <2>2, BeginKeeps
<1>2. ASSUME NEW x \in PayrollRows, ImportRun(r, x) PROVE RosterInv'
  <2> DEFINE q == [do |-> "run", line |-> x, seen |-> roster]
  <2>1. Begin(r, q) /\ UNCHANGED shown /\ q.do = "run" /\ q.line = x /\ q.seen = roster
    BY <1>2 DEF ImportRun
  <2> HIDE DEF q
  <2>2. RequestOK(q, made, shown[r], staged[r])
    BY <2>1, ReadIs DEF RequestOK
  <2> QED BY <2>1, <2>2, BeginKeeps
<1>3. ASSUME NEW file \in SeedFiles, SeedConfirm(r, file) PROVE RosterInv'
  <2> DEFINE q == [do |-> "seed", file |-> file, seen |-> roster]
  <2>1. Begin(r, q) /\ UNCHANGED shown /\ q.do = "seed" /\ q.file = file /\ q.seen = roster
    BY <1>3 DEF SeedConfirm
  <2> HIDE DEF q
  <2>2. RequestOK(q, made, shown[r], staged[r])
    BY <2>1, ReadIs DEF RequestOK
  <2> QED BY <2>1, <2>2, BeginKeeps
<1>4. ASSUME BulkImportConfirm(r) PROVE RosterInv'
  <2> DEFINE q == [do |-> "bulk", seen |-> roster]
  <2>1. Begin(r, q) /\ UNCHANGED shown /\ q.do = "bulk" /\ q.seen = roster /\ staged[r] # <<>>
    BY <1>4 DEF BulkImportConfirm
  <2> HIDE DEF q
  <2>2. RequestOK(q, made, shown[r], staged[r])
    BY <2>1, ReadIs DEF RequestOK
  <2> QED BY <2>1, <2>2, BeginKeeps
<1> QED BY <1>1, <1>2, <1>3, <1>4

(* The page of a pay type change says what its figures come to.              *)
LEMMA ShowGuardKeeps ==
    ASSUME RosterInv, NEW r \in Reps, NEW id \in DOMAIN roster, NEW pay, NEW form, ShowGuard(r, id, pay, form)
    PROVE  RosterInv'
<1> DEFINE guard == PayTypeChangeGuard(Db, id, pay)
           page == <<[form |-> form, guard |-> guard]>>
<1>1. /\ doing[r] = <<>> /\ doing' = doing /\ staged' = staged /\ shown' = [shown EXCEPT ![r] = page]
      /\ UNCHANGED <<engine, dataVars, crossed, repeated>> /\ made' = made
  BY DEF ShowGuard, dataVars
<1>2. /\ EngineOK' /\ crossed' \in BOOLEAN /\ repeated' \in BOOLEAN
      /\ DataOK(Db, crossed, repeated)'
      /\ \A x, n, s, file : RequestOK(x, n, s, file)' <=> RequestOK(x, n, s, file)
  BY <1>1, DataUnchanged
<1>3. guard.projected = IF guard.pay = "hourly" THEN guard.rated ELSE guard.basic > 0
  BY DEF PayTypeChangeGuard, ProjectedBasic
<1> HIDE DEF guard
<1>4. page[1].guard = guard
  OBVIOUS
<1> HIDE DEF page
<1>5. PageOK(page)
  BY <1>3, <1>4 DEF PageOK
<1>6. ASSUME NEW t \in Reps PROVE (doing[t] # <<>> => RequestOK(doing[t][1], made, shown[t], staged[t]))'
  <2>1. doing[t] # <<>> => t # r /\ shown'[t] = shown[t] /\ RequestOK(doing[t][1], made, shown[t], staged[t])
    BY <1>1 DEF RosterInv
  <2> QED BY <1>1, <1>2, <2>1
<1>7. ASSUME NEW t \in Reps
      PROVE  (shown[t] # <<>> => PageOK(shown[t]))' /\ (staged[t] # <<>> => StagedShape(staged[t][1]))'
  <2>1. (shown[t] # <<>> => PageOK(shown[t])) /\ (staged[t] # <<>> => StagedShape(staged[t][1]))
    BY DEF RosterInv
  <2>2. shown'[t] = page \/ shown'[t] = shown[t]
    BY <1>1 DEF RosterInv
  <2>3. (shown[t] # <<>> => PageOK(shown[t]))'
    BY <1>5, <2>1, <2>2 DEF PageOK
  <2> QED BY <1>1, <2>1, <2>3 DEF StagedShape, PlainId
<1>8. DOMAIN doing' = Reps /\ DOMAIN shown' = Reps /\ staged' = [t \in Reps |-> staged'[t]]
  BY <1>1 DEF RosterInv
<1> QED BY <1>2, <1>6, <1>7, <1>8 DEF RosterInv

(* The preview keeps one record of a staff id.                               *)
LEMMA PreviewIs ==
    ASSUME NEW file \in BulkFiles
    PROVE  StagedShape([create |-> Records(file, FALSE), update |-> Records(file, TRUE)])
<1> DEFINE n == Len(file)
           Of(i) == [staff |-> NormaliseEmpId(file[i].raw), email |-> file[i].email]
           Taken(known) == {j \in DOMAIN file : Kept(file, j) /\ known = (Existing(roster, NormaliseEmpId(file[j].raw)) # {})}
<1>1. n \in Nat /\ DOMAIN file = 1 .. n /\ IsFiniteSet(DOMAIN file)
  BY FilesAssumption, FS_Interval
<1>2. ASSUME NEW known
      PROVE  /\ IsFiniteSet(Records(file, known))
             /\ \A x \in Records(file, known) : PlainId(x.staff)
             /\ \A x, y \in Records(file, known) : x.staff = y.staff => x = y
  <2>1. Records(file, known) = {Of(i) : i \in Taken(known)}
    BY DEF Records
  <2>2. Taken(known) \subseteq 1 .. n /\ IsFiniteSet(Taken(known)) /\ \A i \in Taken(known) : Kept(file, i)
    BY <1>1, FS_Subset
  <2> HIDE DEF Taken
  <2>3. IsFiniteSet({Of(i) : i \in Taken(known)})
    <3> DEFINE f == [i \in Taken(known) |-> Of(i)]
               T == {Of(i) : i \in Taken(known)}
    <3> HIDE DEF Of
    <3>1. f \in Surjection(Taken(known), T)
      BY DEF Surjection
    <3> HIDE DEF f, T
    <3>2. IsFiniteSet(T)
      BY <2>2, <3>1, FS_Surjection
    <3> QED BY <3>2 DEF T
  <2>4. \A i \in Taken(known) : Of(i).staff = NormaliseEmpId(file[i].raw) /\ PlainId(Of(i).staff)
    BY <1>1, <2>2, RawIdsAssumption, NormaliseIs
  <2>5. ASSUME NEW i \in Taken(known), NEW j \in Taken(known), Of(i).staff = Of(j).staff PROVE i = j
    <3>1. i \in 1 .. n /\ j \in 1 .. n /\ n \in Nat
      BY <1>1, <2>2
    <3>2. NormaliseEmpId(file[i].raw) = NormaliseEmpId(file[j].raw)
      BY <2>4, <2>5
    <3>3. Kept(file, i) /\ Kept(file, j)
      BY <2>2
    <3>4. ASSUME NEW k \in 1 .. n, NEW l \in 1 .. n, Kept(file, k), Kept(file, l), k < l
          PROVE  NormaliseEmpId(file[k].raw) # NormaliseEmpId(file[l].raw)
      <4>1. k \in 1 .. l - 1
        BY <3>1, <3>4
      <4>2. file[k].named
        BY <3>4 DEF Kept
      <4>3. \A h \in 1 .. l - 1 : file[h].named => NormaliseEmpId(file[h].raw) # NormaliseEmpId(file[l].raw)
        BY <3>4 DEF Kept
      <4> QED BY <4>1, <4>2, <4>3
    <3>5. ~(i < j) /\ ~(j < i)
      BY <3>1, <3>2, <3>3, <3>4
    <3> QED BY <3>1, <3>5
  <2>6. \A x \in Records(file, known) : PlainId(x.staff)
    BY <2>1, <2>4
  <2>7. \A x, y \in Records(file, known) : x.staff = y.staff => x = y
    <3> HIDE DEF Of
    <3> QED BY <2>1, <2>5
  <2> QED BY <2>1, <2>3, <2>6, <2>7
<1> DEFINE a == Records(file, FALSE)
           b == Records(file, TRUE)
           s == [create |-> a, update |-> b]
<1>3. /\ IsFiniteSet(a) /\ (\A x \in a : PlainId(x.staff)) /\ (\A x, y \in a : x.staff = y.staff => x = y)
      /\ IsFiniteSet(b) /\ (\A x \in b : PlainId(x.staff))
  BY <1>2
<1> HIDE DEF a, b
<1>4. s.create = a /\ s.update = b
  OBVIOUS
<1> HIDE DEF s
<1>5. StagedShape(s)
  BY <1>3, <1>4 DEF StagedShape
<1> QED BY <1>5 DEF s, a, b

LEMMA BulkImportKeeps ==
    ASSUME RosterInv, NEW r \in Reps, NEW file \in BulkFiles, BulkImport(r, file)
    PROVE  RosterInv'
<1> DEFINE new == [create |-> Records(file, FALSE), update |-> Records(file, TRUE)]
<1>1. /\ doing[r] = <<>> /\ doing' = doing /\ shown' = shown /\ staged' = [staged EXCEPT ![r] = <<new>>]
      /\ UNCHANGED <<engine, dataVars, crossed, repeated>> /\ made' = made
  BY DEF BulkImport, dataVars
<1>2. /\ EngineOK' /\ crossed' \in BOOLEAN /\ repeated' \in BOOLEAN
      /\ DataOK(Db, crossed, repeated)'
      /\ \A x, n, s, f : RequestOK(x, n, s, f)' <=> RequestOK(x, n, s, f)
  BY <1>1, DataUnchanged
<1>3. StagedShape(new)
  BY PreviewIs
<1> HIDE DEF new
<1>4. <<new>>[1] = new
  OBVIOUS
<1>6. ASSUME NEW t \in Reps PROVE (doing[t] # <<>> => RequestOK(doing[t][1], made, shown[t], staged[t]))'
  <2>1. doing[t] # <<>> => t # r /\ staged'[t] = staged[t] /\ RequestOK(doing[t][1], made, shown[t], staged[t])
    BY <1>1 DEF RosterInv
  <2> QED BY <1>1, <1>2, <2>1
<1>7. ASSUME NEW t \in Reps
      PROVE  (shown[t] # <<>> => PageOK(shown[t]))' /\ (staged[t] # <<>> => StagedShape(staged[t][1]))'
  <2>1. (shown[t] # <<>> => PageOK(shown[t])) /\ (staged[t] # <<>> => StagedShape(staged[t][1]))
    BY DEF RosterInv
  <2>2. staged'[t] = <<new>> \/ staged'[t] = staged[t]
    BY <1>1 DEF RosterInv
  <2>3. (staged[t] # <<>> => StagedShape(staged[t][1]))'
    BY <1>3, <1>4, <2>1, <2>2 DEF StagedShape, PlainId
  <2> QED BY <1>1, <2>1, <2>3 DEF PageOK
<1>8. DOMAIN doing' = Reps /\ DOMAIN shown' = Reps /\ staged' = [t \in Reps |-> staged'[t]]
  BY <1>1 DEF RosterInv
<1> QED BY <1>2, <1>6, <1>7, <1>8 DEF RosterInv

-----------------------------------------------------------------------------
(* The theorems *)

LEMMA RosterStarts == RosterInit => RosterInv
<1> SUFFICES ASSUME RosterInit PROVE RosterInv
  OBVIOUS
<1>1. /\ engine \in Engines /\ roster = [e \in {1} |-> [row |-> FirstRow, uid |-> 1]]
      /\ awards = [e \in {1} |-> <<>>] /\ rates = {[emp |-> 1, category |-> c, of |-> 1] : c \in FirstRates}
      /\ items = {} /\ made = 1 /\ crossed = FALSE /\ repeated = FALSE
      /\ doing = [r \in Reps |-> <<>>] /\ shown = [r \in Reps |-> <<>>] /\ staged = [r \in Reps |-> <<>>]
  BY DEF RosterInit
<1>2. EngineOK
  BY <1>1, FilesAssumption DEF EngineOK
<1>3. RowShape(FirstRow)
  <2>1. DOMAIN Row(FirstRow.staff, 0) = Columns
    BY DEF Row, Columns
  <2> QED BY <2>1, FirstRowAssumption DEF RowShape, PlainId
<1>4. DOMAIN roster = {1} /\ roster[1] = [row |-> FirstRow, uid |-> 1]
      /\ roster[1].row = FirstRow /\ roster[1].uid = 1 /\ DOMAIN awards = {1} /\ awards[1] = <<>>
  BY <1>1
<1>5. RowsOK(roster, made)
  <2>1. roster = [e \in DOMAIN roster |-> [row |-> roster[e].row, uid |-> roster[e].uid]]
    BY <1>1, <1>4
  <2> QED BY <1>1, <1>3, <1>4, <2>1 DEF RowsOK
<1>6. DbOK(Db)
  BY <1>1, <1>4, <1>5 DEF DbOK, Db
<1>7. Papers(Db) /\ Unique(Db)
  <2>1. <<>> \in Seq(Awards)
    OBVIOUS
  <2> QED BY <1>4, <2>1, DbIs, FirstRowAssumption DEF Papers, Unique
<1>8. RatesHeld(Db)
  <2>1. ASSUME NEW x \in rates PROVE x.emp = 1 /\ x.of = 1
    BY <1>1
  <2> QED BY <1>4, <2>1, DbIs DEF RatesHeld
<1>9. DataOK(Db, crossed, repeated)
  BY <1>1, <1>6, <1>7, <1>8, DbIs DEF DataOK
<1> QED BY <1>1, <1>2, <1>9 DEF RosterInv

Commits(r) ==
    \/ SaveCommits(r) \/ DeleteCommits(r) \/ BulkImportCommits(r) \/ ImportRunCommits(r) \/ PersistSeed(r)

LEMMA CommitIs == ASSUME RosterInv, NEW r \in Reps, Commits(r) PROVE \E d : Committed(r, d)
BY SaveCommitted, DeleteCommitted, BulkCommitted, ImportCommitted, SeedCommitted DEF Commits

LEMMA RosterSteps == ASSUME RosterInv, [RosterNext]_rosterVars PROVE RosterInv'
<1>1. ASSUME UNCHANGED rosterVars PROVE RosterInv'
  <2>1. /\ UNCHANGED <<engine, dataVars, crossed, repeated>> /\ made' = made
        /\ doing' = doing /\ shown' = shown /\ staged' = staged
    BY <1>1 DEF rosterVars, dataVars
  <2>2. /\ EngineOK' /\ crossed' \in BOOLEAN /\ repeated' \in BOOLEAN
        /\ DataOK(Db, crossed, repeated)'
        /\ \A x, n, s, f : RequestOK(x, n, s, f)' <=> RequestOK(x, n, s, f)
    BY <2>1, DataUnchanged
  <2>3. ASSUME NEW t \in Reps
        PROVE  /\ (doing[t] # <<>> => RequestOK(doing[t][1], made, shown[t], staged[t]))'
               /\ (shown[t] # <<>> => PageOK(shown[t]))' /\ (staged[t] # <<>> => StagedShape(staged[t][1]))'
    <3>1. /\ doing[t] # <<>> => RequestOK(doing[t][1], made, shown[t], staged[t])
          /\ shown[t] # <<>> => PageOK(shown[t])
          /\ staged[t] # <<>> => StagedShape(staged[t][1])
      BY DEF RosterInv
    <3>2. (doing[t] # <<>> => RequestOK(doing[t][1], made, shown[t], staged[t]))'
      BY <2>1, <2>2, <3>1
    <3> QED BY <2>1, <3>1, <3>2 DEF PageOK, StagedShape, PlainId
  <2>4. DOMAIN doing' = Reps /\ DOMAIN shown' = Reps /\ staged' = [t \in Reps |-> staged'[t]]
    BY <2>1 DEF RosterInv
  <2> QED BY <2>2, <2>3, <2>4 DEF RosterInv
<1>2. ASSUME NEW r \in Reps, NEW form \in ReliefForms, NEW raw \in TypedIds, Add(r, raw, form) PROVE RosterInv'
  BY <1>2, AddKeeps
<1>3. ASSUME NEW r \in Reps, NEW form \in ReliefForms, NEW id \in DOMAIN roster,
             NEW pay \in {"", "hourly", "salaried"}, ShowGuard(r, id, pay, form) \/ Edit(r, id, pay, form)
      PROVE  RosterInv'
  BY <1>3, ShowGuardKeeps, EditKeeps
<1>4. ASSUME NEW r \in Reps, NEW form \in ReliefForms, NEW id \in DOMAIN roster \cup {0},
             NEW raw \in TypedIds, NEW basic \in 0 .. 1, ClientSaves(r, id, raw, basic, form)
      PROVE  RosterInv'
  BY <1>4, ClientSavesKeeps
<1>5. ASSUME NEW r \in Reps, NEW id \in DOMAIN roster, NEW status \in {"Active", "Inactive"}, SetStatus(r, id, status)
      PROVE  RosterInv'
  BY <1>5, SetStatusKeeps
<1>6. ASSUME NEW r \in Reps, NEW file \in BulkFiles, BulkImport(r, file) PROVE RosterInv'
  BY <1>6, BulkImportKeeps
<1>7. ASSUME NEW r \in Reps,
             \/ \E id \in DOMAIN roster : Delete(r, id)
             \/ \E x \in PayrollRows : ImportRun(r, x)
             \/ \E file \in SeedFiles : SeedConfirm(r, file)
             \/ BulkImportConfirm(r)
      PROVE  RosterInv'
  BY <1>7, OthersKeep
<1>8. ASSUME NEW r \in Reps, Commits(r) PROVE RosterInv'
  <2>1. PICK d : Committed(r, d)
    BY <1>8, CommitIs
  <2> QED BY <2>1, CommitKeeps
<1> QED BY <1>1, <1>2, <1>3, <1>4, <1>5, <1>6, <1>7, <1>8 DEF RosterNext, Commits

THEOREM RosterInvAlways == RosterSpec => []RosterInv
<1>1. RosterInit => RosterInv
  BY RosterStarts
<1>2. RosterInv /\ [RosterNext]_rosterVars => RosterInv'
  BY RosterSteps
<1> QED BY <1>1, <1>2, PTL DEF RosterSpec

(* A staff id is stored in its one spelling, whichever screen or file wrote   *)
(* it, and an award always carries its papers.                               *)
THEOREM RosterTypesAlways == RosterSpec => []RosterTypeOK
<1>1. RosterInv => RosterTypeOK
  <2> SUFFICES ASSUME RosterInv PROVE RosterTypeOK
    OBVIOUS
  <2>1. EngineOK /\ DbOK(Db) /\ Papers(Db)
    BY DEF RosterInv, DataOK
  <2>2. DOMAIN roster \subseteq 1 .. made /\ DOMAIN awards = DOMAIN roster
    BY <2>1, DbIs DEF DbOK, RowsOK
  <2>3. \A e \in DOMAIN roster : roster[e].row.staff.spelt = "plain"
    <3>1. ASSUME NEW staff, PlainId(staff) PROVE staff.spelt = "plain"
      BY <3>1 DEF PlainId
    <3> QED BY <3>1, ReadIs DEF RowShape
  <2>4. ASSUME NEW e \in DOMAIN awards, NEW i \in DOMAIN awards[e] PROVE Complete(awards[e][i].doc)
    <3>1. awards[e] \in Seq(Awards)
      BY <2>1, <2>2, DbIs DEF Papers
    <3>2. awards[e][i] \in Awards
      BY <3>1, ElementOfSeq, LenProperties
    <3> QED BY <3>2 DEF Awards
  <2> QED BY <2>1, <2>2, <2>3, <2>4 DEF RosterTypeOK, EngineOK
<1> QED BY <1>1, RosterInvAlways, PTL

(* One worker, one record, unless two requests crossed or a seed named a new  *)
(* worker twice: for any threads, files, forms and database.                 *)
THEOREM OneRecordPerStaffIdAlways == RosterSpec => []OneRecordPerStaffId
<1>1. RosterInv => OneRecordPerStaffId
  <2> SUFFICES ASSUME RosterInv, ~crossed, ~repeated, NEW d \in DOMAIN roster, NEW e \in DOMAIN roster,
                      roster[d].row.staff.id = roster[e].row.staff.id
               PROVE  d = e
    BY DEF OneRecordPerStaffId
  <2>1. Unique(Db)
    BY DEF RosterInv, DataOK
  <2>2. PlainId(roster[d].row.staff) /\ PlainId(roster[e].row.staff)
    BY ReadIs DEF RowShape
  <2>3. roster[d].row.staff = roster[e].row.staff
    BY <2>2 DEF PlainId
  <2> QED BY <2>1, <2>3, DbIs DEF Unique
<1> QED BY <1>1, RosterInvAlways, PTL

(* Payslips and rates stay with the worker they were written for: on          *)
(* PostgreSQL whatever crosses; on SQLite payslips do, unless something       *)
(* crossed.                                                                  *)
THEOREM HistoryKeepsItsWorkerAlways == RosterSpec => []HistoryKeepsItsWorker
<1>1. RosterInv => HistoryKeepsItsWorker
  BY DbIs DEF RosterInv, DataOK, HistoryKeepsItsWorker, RatesHeld
<1> QED BY <1>1, RosterInvAlways, PTL

(* A step begins a request, commits one, or shows a page.                    *)
LEMMA StepKinds ==
    ASSUME [RosterNext]_rosterVars
    PROVE  \/ UNCHANGED <<dataVars, doing>>
           \/ \E r \in Reps : \E q : Begin(r, q)
           \/ \E r \in Reps : Commits(r)
<1>1. CASE UNCHANGED rosterVars
  BY <1>1 DEF rosterVars, dataVars
<1>2. ASSUME NEW r \in Reps, NEW form, NEW raw, Add(r, raw, form) PROVE \E q : Begin(r, q)
  BY <1>2 DEF Add
<1>3. ASSUME NEW r \in Reps, NEW id, NEW pay, NEW form, ShowGuard(r, id, pay, form)
      PROVE  UNCHANGED <<dataVars, doing>>
  BY <1>3 DEF ShowGuard
<1>4. ASSUME NEW r \in Reps, NEW id, NEW pay, NEW form, Edit(r, id, pay, form) PROVE \E q : Begin(r, q)
  BY <1>4 DEF Edit
<1>5. ASSUME NEW r \in Reps, NEW id, NEW raw, NEW basic, NEW form, ClientSaves(r, id, raw, basic, form)
      PROVE  \E q : Begin(r, q)
  BY <1>5 DEF ClientSaves
<1>6. ASSUME NEW r \in Reps, NEW id, Delete(r, id) PROVE \E q : Begin(r, q)
  BY <1>6 DEF Delete
<1>7. ASSUME NEW r \in Reps, NEW id, NEW status, SetStatus(r, id, status) PROVE \E q : Begin(r, q)
  BY <1>7 DEF SetStatus
<1>8. ASSUME NEW r \in Reps, NEW file, BulkImport(r, file) PROVE UNCHANGED <<dataVars, doing>>
  BY <1>8 DEF BulkImport
<1>9. ASSUME NEW r \in Reps, BulkImportConfirm(r) PROVE \E q : Begin(r, q)
  BY <1>9 DEF BulkImportConfirm
<1>10. ASSUME NEW r \in Reps, NEW x, ImportRun(r, x) PROVE \E q : Begin(r, q)
  BY <1>10 DEF ImportRun
<1>11. ASSUME NEW r \in Reps, NEW file, SeedConfirm(r, file) PROVE \E q : Begin(r, q)
  BY <1>11 DEF SeedConfirm
<1> QED
  BY <1>1, <1>2, <1>3, <1>4, <1>5, <1>6, <1>7, <1>8, <1>9, <1>10, <1>11 DEF RosterNext, Commits

(* What a step writes, a commit writes.                                      *)
LEMMA WritesAreCommits ==
    ASSUME RosterInv, [RosterNext]_rosterVars, Db' # Db
    PROVE  \E r \in Reps : \E d : Committed(r, d)
<1>1. UNCHANGED dataVars => Db' = Db
  BY DEF dataVars, Db
<1>2. \A r \in Reps : \A q : Begin(r, q) => UNCHANGED dataVars
  BY DEF Begin
<1>3. PICK r \in Reps : Commits(r)
  BY <1>1, <1>2, StepKinds
<1>4. \E d : Committed(r, d)
  BY <1>3, CommitIs
<1> QED BY <1>4

(* The relief of a period changes only by an award for it.                   *)
THEOREM PastReliefStandsAlways == RosterSpec => PastReliefStands
<1> DEFINE A == \A e \in DOMAIN roster \cap DOMAIN roster' : roster[e].uid = roster'[e].uid =>
                   \A p \in Periods :
                      ReliefFor(Db, e, p) # ReliefFor(Db', e, p) =>
                         /\ Len(awards'[e]) > Len(awards[e])
                         /\ p \in Covers(awards'[e][Len(awards'[e])].doc)
<1>1. RosterInv /\ [RosterNext]_rosterVars => A
  <2> SUFFICES ASSUME RosterInv, [RosterNext]_rosterVars, NEW e \in DOMAIN roster \cap DOMAIN roster',
                      NEW p \in Periods, ReliefFor(Db, e, p) # ReliefFor(Db', e, p)
               PROVE  /\ Len(awards'[e]) > Len(awards[e])
                      /\ p \in Covers(awards'[e][Len(awards'[e])].doc)
    OBVIOUS
  <2>1. Db' # Db
    OBVIOUS
  <2>20. PICK r \in Reps : \E d : Committed(r, d)
    BY <2>1, WritesAreCommits
  <2>2. PICK d : Committed(r, d)
    BY <2>20
  <2>3. DbOK(d) /\ Papers(d) /\ AwardStep(Db, d) /\ Store(d)
    BY <2>2 DEF Committed, DataOK
  <2>4. Db' = d /\ d.awards = awards' /\ d.roster = roster'
    BY <2>3, StoredIs DEF Store
  <2>5. Papers(Db)
    BY DEF RosterInv, DataOK
  <2>6. ReliefFor(Db, e, p) # ReliefFor(d, e, p) /\ e \in DOMAIN Db.roster /\ e \in DOMAIN d.roster
    BY <2>4, DbIs
  <2>7. Len(d.awards[e]) > Len(Db.awards[e]) /\ p \in Covers(d.awards[e][Len(d.awards[e])].doc)
    BY <2>3, <2>5, <2>6, ReliefStands
  <2> QED BY <2>4, <2>7, DbIs
<1>2. RosterInv /\ [RosterNext]_rosterVars => [A]_rosterVars
  BY <1>1
<1> QED BY <1>2, RosterInvAlways, PTL DEF RosterSpec, PastReliefStands

(* An edit ends by its commit.                                               *)
LEMMA EditEnds ==
    ASSUME RosterInv, [RosterNext]_rosterVars, NEW r \in Reps,
           doing[r] # <<>>, doing'[r] = <<>>, doing[r][1].do = "edit"
    PROVE  SaveCommits(r)
<1>1. doing' # doing
  OBVIOUS
<1>2. ASSUME NEW t \in Reps, NEW q, Begin(t, q) PROVE FALSE
  <2>1. doing[t] = <<>> /\ doing' = [doing EXCEPT ![t] = <<q>>]
    BY <1>2 DEF Begin
  <2> QED BY <2>1 DEF RosterInv
<1>3. ASSUME NEW t \in Reps, Ends(t) PROVE t = r
  BY <1>3 DEF Ends, RosterInv
<1>4. PICK t \in Reps : Commits(t)
  <2>1. \A t \in Reps : \A q : ~Begin(t, q)
    BY <1>2
  <2> QED BY <1>1, <2>1, StepKinds
<1>5. Ends(t)
  BY <1>4 DEF Commits, SaveCommits, DeleteCommits, BulkImportCommits, ImportRunCommits, PersistSeed
<1>6. t = r
  BY <1>3, <1>5
<1> QED BY <1>4, <1>6 DEF Commits, DeleteCommits, BulkImportCommits, ImportRunCommits, PersistSeed

(* An edit that takes a worker's basic away was confirmed on a page that said *)
(* so, or whose figures no longer stand.                                     *)
THEOREM ZeroingWasShownAlways == RosterSpec => ZeroingWasShown
<1> DEFINE A == \A r \in Reps :
                   (/\ doing[r] # <<>> /\ doing'[r] = <<>> /\ doing[r][1].do = "edit"
                    /\ doing[r][1].emp \in DOMAIN roster \cap DOMAIN roster'
                    /\ PaidBasic(Db, doing[r][1].emp) /\ ~PaidBasic(Db', doing[r][1].emp))
                   => LET page == shown[r][1].guard
                      IN \/ ~page.projected
                         \/ page.rated # HasBasicRate(Db, page.emp)
                         \/ page.basic # roster[page.emp].row.basic
<1>1. RosterInv /\ [RosterNext]_rosterVars => A
  <2> SUFFICES ASSUME RosterInv, [RosterNext]_rosterVars, NEW r \in Reps,
                      doing[r] # <<>>, doing'[r] = <<>>, doing[r][1].do = "edit",
                      doing[r][1].emp \in DOMAIN roster \cap DOMAIN roster',
                      PaidBasic(Db, doing[r][1].emp), ~PaidBasic(Db', doing[r][1].emp)
               PROVE  LET page == shown[r][1].guard
                      IN \/ ~page.projected
                         \/ page.rated # HasBasicRate(Db, page.emp)
                         \/ page.basic # roster[page.emp].row.basic
    OBVIOUS
  <2> DEFINE q == doing[r][1]
             id == q.emp
             mid == RowWritten(q, Db)
             d == Saved(q, Db)
             old == roster[id].row
             new == d.roster[id].row
             page == shown[r][1].guard
  <2>1. SaveCommits(r)
    BY EditEnds
  <2>2. SaveShape(q) /\ EditShape(q, shown[r]) /\ EngineOK /\ DbOK(Db) /\ Papers(Db)
    BY DEF RosterInv, RequestOK, DataOK
  <2>3. id # 0 /\ id \in DOMAIN Db.roster
    BY <2>2, DbIs DEF EditShape
  <2>4. Store(d)
    <3>1. Store(IF id # 0 /\ id \notin DOMAIN roster THEN Db
                ELSE SaveDeductionMetadata(Update(Db, id, q.seen[id].row, q.row), id, q.form))
      BY <2>1, <2>3 DEF SaveCommits
    <3> QED BY <2>3, <3>1, DbIs DEF Saved, RowWritten, SaveTarget
  <2>5. DbOK(d) /\ d.rates = Db.rates /\ d.roster = mid.roster
    BY <2>2, <2>3, SaveIs
  <2>6. mid.roster[id].row = Merged(q.row, q.seen[id].row, Db.roster[id].row)
    <3>1. SaveTarget(q, Db) = id
      BY <2>3 DEF SaveTarget
    <3> HIDE DEF q, mid
    <3> QED BY <2>2, <2>3, <3>1, WrittenIs DEF mid
  <2>7. Db' = d
    BY <2>4, <2>5, StoredIs
  <2> HIDE DEF d, mid
  <2>8. new = Merged(q.row, q.seen[id].row, old)
    BY <2>5, <2>6, DbIs
  <2>9. DOMAIN q.row = Columns /\ q.row.basic = q.seen[id].row.basic
    BY <2>2 DEF SaveShape, RowShape, EditShape
  <2>10. new.basic = old.basic
    BY <2>8, <2>9 DEF Merged, Columns
  <2>11. HasBasicRate(d, id) = HasBasicRate(Db, id)
    BY <2>5 DEF HasBasicRate
  <2>12. q.row.pay # q.seen[id].row.pay
    <3> SUFFICES ASSUME q.row.pay = q.seen[id].row.pay PROVE FALSE
      OBVIOUS
    <3>1. new.pay = old.pay
      BY <2>8, <2>9 DEF Merged, Columns
    <3>2. PaidBasic(d, id) = PaidBasic(Db, id)
      BY <2>10, <2>11, <3>1, DbIs DEF PaidBasic
    <3> QED BY <2>7, <3>2
  <2>13. new.pay = q.row.pay
    BY <2>8, <2>9, <2>12 DEF Merged, Columns
  <2>14. shown[r] # <<>> /\ page.emp = id /\ page.pay = new.pay
    BY <2>2, <2>12, <2>13 DEF EditShape
  <2>15. page.projected = IF page.pay = "hourly" THEN page.rated ELSE page.basic > 0
    BY <2>14 DEF RosterInv, PageOK
  <2>16. new.pay \in {"hourly", "salaried"}
    BY <2>2, <2>12, <2>13 DEF EditShape
  <2> QED BY <2>7, <2>10, <2>11, <2>14, <2>15, <2>16 DEF PaidBasic
<1>2. RosterInv /\ [RosterNext]_rosterVars => [A]_rosterVars
  BY <1>1
<1> QED BY <1>2, RosterInvAlways, PTL DEF RosterSpec, ZeroingWasShown

-----------------------------------------------------------------------------
(* The expenses and their receipts *)

(* The request a thread is in.                                               *)
Busy(t) == serving[t] # <<>>
Now(t) == serving[t][1]

AtMostOne(S) == {<<>>} \cup {<<k>> : k \in S}
Kinds == {"pdf", "png", "jpeg"}
RequestsUpTo(n, m) ==
    [do : {"add", "edit", "detach", "delete"}, exp : 1 .. n, company : Companies,
     key : AtMostOne(1 .. m), type : Kinds \cup {""}, previous : AtMostOne(1 .. m),
     step : {"stored", "read", "replaced"}]

(* Rows, objects and requests name ids and keys that were given; a receipt   *)
(* hangs off an expense; an upload and only an upload has a key.             *)
LedgerShapes ==
    /\ ids \in Nat /\ keys \in Nat
    /\ serving = [t \in Threads |-> serving[t]]
    /\ DOMAIN expenses \subseteq 1 .. ids /\ DOMAIN objects \subseteq 1 .. keys
    /\ DOMAIN receipts \subseteq DOMAIN expenses
    /\ \A e \in DOMAIN receipts : receipts[e].key \in 1 .. keys
    /\ \A t \in Threads : Busy(t) =>
          /\ serving[t] = <<Now(t)>> /\ Now(t) \in RequestsUpTo(ids, keys)
          /\ Now(t).key = <<>> <=> Now(t).do \in {"detach", "delete"}

(* One key, one owner: a key in a row is that row's alone; a key a request    *)
(* has stored under is no row's and no other request's; the row a request     *)
(* read is still the row of its expense, if it is there.                      *)
KeysHaveOneOwner ==
    /\ \A d, e \in DOMAIN receipts : receipts[d].key = receipts[e].key => d = e
    /\ \A t \in Threads, e \in DOMAIN receipts : Busy(t) =>
          /\ Now(t).key # <<receipts[e].key>>
          /\ Now(t).previous = <<receipts[e].key>> => e = Now(t).exp
    /\ \A t, u \in Threads : Busy(t) /\ Busy(u) /\ Now(t).key # <<>> =>
          /\ Now(t).key # Now(u).previous
          /\ t # u => Now(t).key # Now(u).key

(* A request on a new expense is alone with it; an edit's expense is still    *)
(* its company's.                                                             *)
ExpensesKeepTheirCompany ==
    \A t \in Threads : Busy(t) =>
       /\ Now(t).do = "add" =>
             /\ Now(t).exp \notin DOMAIN expenses
             /\ \A u \in Threads \ {t} : Busy(u) => Now(u).exp # Now(t).exp
       /\ Now(t).do = "edit" /\ Now(t).exp \in DOMAIN expenses =>
             expenses[Now(t).exp] = {Now(t).company}

(* Files are as their rows and their requests have them.                      *)
FilesAreAsRecorded ==
    /\ \A e \in DOMAIN receipts : receipts[e].key \in DOMAIN objects =>
          /\ expenses[e] = {objects[receipts[e].key].company}
          /\ objects[receipts[e].key].exp = e
          /\ objects[receipts[e].key].content = receipts[e].type
    /\ \A t \in Threads, k \in DOMAIN objects : Busy(t) /\ Now(t).key = <<k>> =>
          /\ objects[k].company = Now(t).company
          /\ objects[k].exp = Now(t).exp
          /\ objects[k].content = Now(t).type

(* The file a request has stored is there until the request ends.             *)
StoredIsThere ==
    \A t \in Threads, k \in 1 .. keys : Busy(t) /\ Now(t).key = <<k>> => k \in DOMAIN objects

(* Once a request has replaced the old file, it is gone or known to be left.  *)
ReplacedIsGone ==
    \A t \in Threads : Busy(t) /\ Now(t).step = "replaced" =>
       \A k \in DOMAIN objects : Now(t).previous = <<k>> => k \in stray

LedgerInv ==
    LedgerShapes /\ KeysHaveOneOwner /\ ExpensesKeepTheirCompany /\ FilesAreAsRecorded
    /\ StoredIsThere /\ ReplacedIsGone /\ RowsMatchFiles

(* What a thread serves next is the only change to what is served.            *)
LEMMA ServeOf ==
    ASSUME LedgerShapes, NEW t \in Threads, NEW what,
           serving' = [serving EXCEPT ![t] = what]
    PROVE  /\ serving' = [u \in Threads |-> serving'[u]] /\ serving'[t] = what
           /\ \A u \in Threads \ {t} : serving'[u] = serving[u]
BY DEF LedgerShapes

(* The requests that were possible stay so.                                   *)
LEMMA RequestsGrow ==
    ASSUME NEW n \in Nat, NEW m \in Nat, NEW n2 \in Nat, NEW m2 \in Nat, n <= n2, m <= m2
    PROVE  RequestsUpTo(n, m) \subseteq RequestsUpTo(n2, m2)
<1>1. 1 .. n \subseteq 1 .. n2 /\ 1 .. m \subseteq 1 .. m2
  OBVIOUS
<1>2. AtMostOne(1 .. m) \subseteq AtMostOne(1 .. m2)
  BY <1>1 DEF AtMostOne
<1> QED BY <1>1, <1>2 DEF RequestsUpTo

(* The fields of a request.                                                   *)
LEMMA RequestOf ==
    ASSUME LedgerInv, NEW t \in Threads, Busy(t)
    PROVE  /\ Now(t).exp \in 1 .. ids /\ Now(t).company \in Companies
           /\ Now(t).key = <<>> \/ \E k \in 1 .. keys : Now(t).key = <<k>>
           /\ Now(t).previous = <<>> \/ \E k \in 1 .. keys : Now(t).previous = <<k>>
           /\ serving[t] = <<Now(t)>> /\ Now(t) \in RequestsUpTo(ids, keys)
           /\ Now(t).key = <<>> <=> Now(t).do \in {"detach", "delete"}
           /\ Now(t).do \in {"add", "edit", "detach", "delete"}
           /\ Now(t).step \in {"stored", "read", "replaced"}
<1>1. /\ serving[t] = <<Now(t)>> /\ Now(t) \in RequestsUpTo(ids, keys)
      /\ Now(t).key = <<>> <=> Now(t).do \in {"detach", "delete"}
  BY DEF LedgerInv, LedgerShapes
<1>2. Now(t).key \in AtMostOne(1 .. keys) /\ Now(t).previous \in AtMostOne(1 .. keys)
  BY <1>1 DEF RequestsUpTo
<1>3. /\ Now(t).exp \in 1 .. ids /\ Now(t).company \in Companies
      /\ Now(t).do \in {"add", "edit", "detach", "delete"}
      /\ Now(t).step \in {"stored", "read", "replaced"}
  BY <1>1 DEF RequestsUpTo
<1> QED BY <1>1, <1>2, <1>3 DEF AtMostOne

(* Initially the one receipt is on file.                                      *)
LEMMA LedgerInitHolds == LedgerInit => LedgerInv
<1> SUFFICES ASSUME LedgerInit PROVE LedgerInv
  OBVIOUS
<1>1. PICK c \in Companies :
        /\ expenses = <<{c}>> /\ receipts = <<[key |-> 1, type |-> "pdf"]>>
        /\ objects = <<[content |-> "pdf", company |-> c, exp |-> 1]>>
  BY DEF LedgerInit
<1>2. /\ \A t \in Threads : ~Busy(t)
      /\ serving = [t \in Threads |-> serving[t]] /\ ids = 1 /\ keys = 1
  BY DEF LedgerInit, Busy
<1>3. /\ expenses = [e \in {1} |-> {c}] /\ receipts = [e \in {1} |-> [key |-> 1, type |-> "pdf"]]
      /\ objects = [e \in {1} |-> [content |-> "pdf", company |-> c, exp |-> 1]]
  BY <1>1
<1> QED BY <1>2, <1>3 DEF LedgerInv, LedgerShapes, KeysHaveOneOwner, ExpensesKeepTheirCompany,
                          FilesAreAsRecorded, StoredIsThere, ReplacedIsGone, RowsMatchFiles

(* An expense recorded without a file is nobody's business but its company's. *)
LEMMA RecordStep ==
    ASSUME LedgerInv, NEW company, ids' = ids + 1,
           expenses' = Put(expenses, ids + 1, company),
           UNCHANGED <<receipts, objects, serving, keys, undone, stray>>
    PROVE  LedgerInv'
<1>1. ids + 1 \notin DOMAIN expenses
  BY DEF LedgerInv, LedgerShapes
<1>2. /\ DOMAIN expenses' = DOMAIN expenses \cup {ids + 1}
      /\ \A e \in DOMAIN expenses : expenses'[e] = expenses[e]
  BY <1>1 DEF Put
<1>3. LedgerShapes'
  <2>1. RequestsUpTo(ids, keys) \subseteq RequestsUpTo(ids', keys')
    <3>1. ids \in Nat /\ keys \in Nat /\ ids' \in Nat /\ ids <= ids' /\ keys' = keys /\ keys <= keys
      BY DEF LedgerInv, LedgerShapes
    <3> QED BY <3>1, RequestsGrow
  <2>2. ids \in Nat /\ DOMAIN expenses' \subseteq 1 .. ids'
    BY <1>2 DEF LedgerInv, LedgerShapes
  <2> QED BY <1>2, <2>1, <2>2 DEF LedgerInv, LedgerShapes, Busy, Now
<1>4. ExpensesKeepTheirCompany'
  <2>1. \A t \in Threads : Busy(t) => Now(t).exp # ids + 1
    BY RequestOf DEF LedgerInv, LedgerShapes
  <2> QED BY <1>2, <2>1 DEF LedgerInv, ExpensesKeepTheirCompany, Busy, Now
<1>5. FilesAreAsRecorded'
  BY <1>2 DEF LedgerInv, LedgerShapes, FilesAreAsRecorded, Busy, Now
<1>6. KeysHaveOneOwner' /\ StoredIsThere' /\ ReplacedIsGone' /\ RowsMatchFiles'
  BY DEF LedgerInv, KeysHaveOneOwner, StoredIsThere, ReplacedIsGone, RowsMatchFiles, Holds, Busy, Now
<1> QED BY <1>3, <1>4, <1>5, <1>6 DEF LedgerInv

(* A file is stored under a new key, for a new expense or one of the          *)
(* company's own.                                                             *)
LEMMA StoreStep ==
    ASSUME LedgerInv, NEW t \in Threads, NEW q, ~Busy(t),
           Serve(t, q), ids' \in Nat, ids <= ids', keys' = keys + 1,
           q \in RequestsUpTo(ids', keys'), q.key = <<keys + 1>>, q.previous = <<>>,
           q.do \in {"add", "edit"}, q.step # "replaced",
           q.do = "add" => q.exp = ids + 1,
           q.do = "edit" => q.exp \in DOMAIN expenses /\ expenses[q.exp] = {q.company},
           objects' = Put(objects, keys + 1, [content |-> q.type, company |-> q.company, exp |-> q.exp]),
           UNCHANGED <<rowVars, undone, stray>>
    PROVE  LedgerInv'
<1> USE DEF rowVars
<1>0. ids \in Nat /\ keys \in Nat /\ keys + 1 \in 1 .. keys' /\ keys + 1 \notin 1 .. keys
  BY DEF LedgerInv, LedgerShapes
<1>1. /\ serving' = [u \in Threads |-> serving'[u]] /\ serving'[t] = <<q>>
      /\ \A u \in Threads \ {t} : serving'[u] = serving[u]
  BY ServeOf DEF Serve, LedgerInv
<1>2. /\ Busy(t)' /\ Now(t)' = q
      /\ \A u \in Threads \ {t} : (Busy(u)' <=> Busy(u)) /\ Now(u)' = Now(u)
  BY <1>1 DEF Busy, Now
<1>3. /\ DOMAIN objects' = DOMAIN objects \cup {keys + 1} /\ keys + 1 \notin DOMAIN objects
      /\ objects'[keys + 1] = [content |-> q.type, company |-> q.company, exp |-> q.exp]
      /\ \A k \in DOMAIN objects : objects'[k] = objects[k]
  BY <1>0 DEF Put, LedgerInv, LedgerShapes
<1>4. \A u \in Threads \ {t} : Busy(u) =>
        /\ Now(u).exp \in 1 .. ids
        /\ Now(u).key # <<keys + 1>> /\ Now(u).previous # <<keys + 1>>
  <2> SUFFICES ASSUME NEW u \in Threads \ {t}, Busy(u)
               PROVE  /\ Now(u).exp \in 1 .. ids
                      /\ Now(u).key # <<keys + 1>> /\ Now(u).previous # <<keys + 1>>
    OBVIOUS
  <2>1. /\ Now(u).exp \in 1 .. ids
        /\ Now(u).key = <<>> \/ \E k \in 1 .. keys : Now(u).key = <<k>>
        /\ Now(u).previous = <<>> \/ \E k \in 1 .. keys : Now(u).previous = <<k>>
    BY RequestOf
  <2>2. <<>> # <<keys + 1>> /\ \A k \in 1 .. keys : <<k>> # <<keys + 1>>
    BY <1>0
  <2> QED BY <2>1, <2>2
<1>5. \A e \in DOMAIN receipts : receipts[e].key # keys + 1
  BY <1>0 DEF LedgerInv, LedgerShapes
<1>6. LedgerShapes'
  <2>1. RequestsUpTo(ids, keys) \subseteq RequestsUpTo(ids', keys')
    BY <1>0, RequestsGrow
  <2>2. 1 .. ids \subseteq 1 .. ids' /\ 1 .. keys \subseteq 1 .. keys' /\ keys' \in Nat
    BY <1>0
  <2>3. /\ serving'[t] = <<Now(t)'>> /\ Now(t)' \in RequestsUpTo(ids', keys')
        /\ Now(t)'.key = <<>> <=> Now(t)'.do \in {"detach", "delete"}
    BY <1>1, <1>2
  <2>4. \A u \in Threads : Busy(u)' =>
          /\ serving'[u] = <<Now(u)'>> /\ Now(u)' \in RequestsUpTo(ids', keys')
          /\ Now(u)'.key = <<>> <=> Now(u)'.do \in {"detach", "delete"}
    BY <1>1, <1>2, <2>1, <2>3 DEF LedgerInv, LedgerShapes
  <2>5. DOMAIN objects' \subseteq 1 .. keys' /\ DOMAIN expenses \subseteq 1 .. ids'
    BY <1>0, <1>3, <2>2 DEF LedgerInv, LedgerShapes
  <2>6. \A e \in DOMAIN receipts : receipts[e].key \in 1 .. keys'
    BY <2>2 DEF LedgerInv, LedgerShapes
  <2> QED BY <1>1, <1>3, <2>2, <2>4, <2>5, <2>6 DEF LedgerInv, LedgerShapes
<1>7. KeysHaveOneOwner'
  <2>1. \A u \in Threads, e \in DOMAIN receipts : Busy(u)' =>
          /\ Now(u)'.key # <<receipts[e].key>>
          /\ Now(u)'.previous = <<receipts[e].key>> => e = Now(u)'.exp
    BY <1>2, <1>5 DEF LedgerInv, KeysHaveOneOwner
  <2>2. \A u, v \in Threads : Busy(u)' /\ Busy(v)' /\ Now(u)'.key # <<>> =>
          /\ Now(u)'.key # Now(v)'.previous
          /\ u # v => Now(u)'.key # Now(v)'.key
    BY <1>2, <1>4 DEF LedgerInv, KeysHaveOneOwner
  <2> QED BY <2>1, <2>2 DEF LedgerInv, KeysHaveOneOwner
<1>8. ExpensesKeepTheirCompany'
  <2>1. q.do = "add" => q.exp \notin DOMAIN expenses
    BY <1>0 DEF LedgerInv, LedgerShapes
  <2>2. \A u \in Threads \ {t} : Busy(u) /\ (q.do = "add" \/ Now(u).do = "add") =>
          Now(u).exp # q.exp
    BY <1>0, <1>4 DEF LedgerInv, ExpensesKeepTheirCompany
  <2> QED BY <1>2, <2>1, <2>2 DEF LedgerInv, ExpensesKeepTheirCompany
<1>9. FilesAreAsRecorded'
  <2>1. \A e \in DOMAIN receipts : receipts[e].key \in DOMAIN objects' =>
          receipts[e].key \in DOMAIN objects /\ objects'[receipts[e].key] = objects[receipts[e].key]
    BY <1>3, <1>5
  <2>2. \A u \in Threads, k \in DOMAIN objects' : Busy(u)' /\ Now(u)'.key = <<k>> =>
          /\ objects'[k].company = Now(u)'.company
          /\ objects'[k].exp = Now(u)'.exp
          /\ objects'[k].content = Now(u)'.type
    BY <1>2, <1>3, <1>4 DEF LedgerInv, FilesAreAsRecorded
  <2> QED BY <2>1, <2>2 DEF LedgerInv, FilesAreAsRecorded
<1>10. ReplacedIsGone'
  BY <1>2, <1>3, <1>4 DEF LedgerInv, ReplacedIsGone
<1>a. StoredIsThere'
  <2>1. \A k \in 1 .. keys' : k \in 1 .. keys \/ k = keys + 1
    BY <1>0
  <2> QED BY <1>2, <1>3, <2>1 DEF LedgerInv, StoredIsThere
<1>11. RowsMatchFiles'
  <2>1. \A u \in Threads : \A k : Holds(u, k) => Holds(u, k)'
    BY <1>1 DEF Holds, Busy
  <2>2. \A u \in Threads : \A k : serving[u] # <<>> /\ serving[u][1].key = <<k>> =>
           serving'[u] # <<>> /\ serving'[u][1].key = <<k>>
    BY <1>1 DEF Busy
  <2>3. serving'[t] # <<>> /\ serving'[t][1].key = <<keys + 1>>
    BY <1>1
  <2>4. \A e \in DOMAIN receipts :
          \/ receipts[e].key \in DOMAIN objects' \/ receipts[e].key \in undone
          \/ \E u \in Threads : Holds(u, receipts[e].key)'
    BY <1>3, <2>1 DEF LedgerInv, RowsMatchFiles
  <2>5. ASSUME NEW k \in DOMAIN objects'
        PROVE  \/ \E e \in DOMAIN receipts : receipts[e].key = k
               \/ \E u \in Threads : serving'[u] # <<>> /\ serving'[u][1].key = <<k>>
               \/ k \in stray
    <3>1. CASE k \in DOMAIN objects
      <4>1. CASE \E u \in Threads : serving[u] # <<>> /\ serving[u][1].key = <<k>>
        BY <2>2, <4>1
      <4> QED BY <3>1, <4>1 DEF LedgerInv, RowsMatchFiles
    <3>2. CASE k = keys + 1
      BY <2>3, <3>2
    <3> QED BY <1>3, <2>5, <3>1, <3>2
  <2> QED BY <2>4, <2>5 DEF RowsMatchFiles, Holds
<1> QED BY <1>6, <1>7, <1>8, <1>9, <1>10, <1>11, <1>a DEF LedgerInv

(* The receipt of the request's expense is loaded, by a request that begins   *)
(* or by an edit that has stored its file.                                    *)
LEMMA ReadStep ==
    ASSUME LedgerInv, NEW t \in Threads, NEW q, Serve(t, q),
           q \in RequestsUpTo(ids, keys), q.key = <<>> <=> q.do \in {"detach", "delete"},
           q.previous = HasReceipt(q.exp), q.step = "read",
           \/ ~Busy(t) /\ q.key = <<>> /\ q.exp \in DOMAIN expenses
           \/ /\ Busy(t) /\ Now(t).step = "stored" /\ q.do = Now(t).do /\ q.exp = Now(t).exp
              /\ q.company = Now(t).company /\ q.key = Now(t).key /\ q.type = Now(t).type,
           UNCHANGED <<rowVars, objects, ids, keys, undone, stray>>
    PROVE  LedgerInv'
<1> USE DEF rowVars
<1>1. /\ serving' = [u \in Threads |-> serving'[u]] /\ serving'[t] = <<q>>
      /\ \A u \in Threads \ {t} : serving'[u] = serving[u]
  BY ServeOf DEF Serve, LedgerInv
<1>2. /\ Busy(t)' /\ Now(t)' = q
      /\ \A u \in Threads \ {t} : (Busy(u)' <=> Busy(u)) /\ Now(u)' = Now(u)
  BY <1>1 DEF Busy, Now
<1>3. /\ \A e \in DOMAIN receipts : q.previous = <<receipts[e].key>> => e = q.exp
      /\ \A u \in Threads : Busy(u) /\ Now(u).key # <<>> => q.previous # Now(u).key
  BY DEF HasReceipt, LedgerInv, KeysHaveOneOwner
<1>4. q.key # <<>> => Busy(t) /\ q.key = Now(t).key
  OBVIOUS
<1>5. LedgerShapes'
  <2>1. \A u \in Threads : Busy(u)' =>
          /\ serving'[u] = <<Now(u)'>> /\ Now(u)' \in RequestsUpTo(ids, keys)
          /\ Now(u)'.key = <<>> <=> Now(u)'.do \in {"detach", "delete"}
    BY <1>1, <1>2 DEF LedgerInv, LedgerShapes
  <2> QED BY <1>1, <2>1 DEF LedgerInv, LedgerShapes
<1>6. KeysHaveOneOwner'
  <2>1. \A u \in Threads, e \in DOMAIN receipts : Busy(u)' =>
          /\ Now(u)'.key # <<receipts[e].key>>
          /\ Now(u)'.previous = <<receipts[e].key>> => e = Now(u)'.exp
    <3>1. \A e \in DOMAIN receipts : q.key # <<receipts[e].key>>
      <4>1. \A k : <<k>> # <<>>
        OBVIOUS
      <4> QED BY <1>4, <4>1 DEF LedgerInv, KeysHaveOneOwner
    <3> QED BY <1>2, <1>3, <3>1 DEF LedgerInv, KeysHaveOneOwner
  <2>2. \A u, v \in Threads : Busy(u)' /\ Busy(v)' /\ Now(u)'.key # <<>> =>
          /\ Now(u)'.key # Now(v)'.previous
          /\ u # v => Now(u)'.key # Now(v)'.key
    <3>1. \A u \in Threads : Busy(u)' /\ Now(u)'.key # <<>> => Busy(u) /\ Now(u)'.key = Now(u).key
      BY <1>2, <1>4
    <3>2. \A v \in Threads : Busy(v)' =>
            \/ Now(v)'.previous = q.previous
            \/ Busy(v) /\ Now(v)'.previous = Now(v).previous
      BY <1>2
    <3> QED BY <1>3, <3>1, <3>2 DEF LedgerInv, KeysHaveOneOwner
  <2> QED BY <2>1, <2>2 DEF LedgerInv, KeysHaveOneOwner
<1>7. ExpensesKeepTheirCompany'
  <2>1. CASE ~Busy(t)
    <3>1. q.do \notin {"add", "edit"} /\ q.exp \in DOMAIN expenses
      BY <2>1
    <3> QED BY <1>2, <3>1 DEF LedgerInv, ExpensesKeepTheirCompany
  <2>2. CASE Busy(t)
    <3>1. q.do = Now(t).do /\ q.exp = Now(t).exp /\ q.company = Now(t).company
      BY <2>2
    <3> QED BY <1>2, <2>2, <3>1 DEF LedgerInv, ExpensesKeepTheirCompany
  <2> QED BY <2>1, <2>2
<1>8. FilesAreAsRecorded'
  <2>1. \A u \in Threads, k \in DOMAIN objects : Busy(u)' /\ Now(u)'.key = <<k>> =>
          /\ objects[k].company = Now(u)'.company
          /\ objects[k].exp = Now(u)'.exp
          /\ objects[k].content = Now(u)'.type
    <3>1. \A u \in Threads : Busy(u)' /\ Now(u)'.key # <<>> =>
            /\ Busy(u) /\ Now(u)'.key = Now(u).key /\ Now(u)'.company = Now(u).company
            /\ Now(u)'.exp = Now(u).exp /\ Now(u)'.type = Now(u).type
      BY <1>2
    <3> SUFFICES ASSUME NEW u \in Threads, NEW k \in DOMAIN objects, Busy(u)', Now(u)'.key = <<k>>
                 PROVE  /\ objects[k].company = Now(u)'.company
                        /\ objects[k].exp = Now(u)'.exp
                        /\ objects[k].content = Now(u)'.type
      OBVIOUS
    <3>2. Now(u)'.key # <<>>
      OBVIOUS
    <3> QED BY <3>1, <3>2 DEF LedgerInv, FilesAreAsRecorded
  <2> QED BY <2>1 DEF LedgerInv, FilesAreAsRecorded
<1>9. ReplacedIsGone'
  BY <1>2 DEF LedgerInv, ReplacedIsGone
<1>a. StoredIsThere'
  <2>1. \A k : <<k>> # <<>>
    OBVIOUS
  <2> QED BY <1>2, <1>4, <2>1 DEF LedgerInv, StoredIsThere
<1>10. RowsMatchFiles'
  <2>1. \A u \in Threads : \A k : Holds(u, k) => Holds(u, k)'
    BY <1>1 DEF Holds, Busy, Now
  <2>2. \A u \in Threads : \A k : serving[u] # <<>> /\ serving[u][1].key = <<k>> =>
           serving'[u] # <<>> /\ serving'[u][1].key = <<k>>
    BY <1>1 DEF Busy, Now
  <2> QED BY <2>1, <2>2 DEF LedgerInv, RowsMatchFiles
<1> QED BY <1>5, <1>6, <1>7, <1>8, <1>9, <1>10, <1>a DEF LedgerInv

(* The old file is removed: its row is held until the transaction ends, and   *)
(* a file that would not go is known to be left.                              *)
LEMMA ReplaceStep ==
    ASSUME LedgerInv, NEW t \in Threads, NEW fails \in BOOLEAN, ReplacePrevious(t, fails)
    PROVE  LedgerInv'
<1> DEFINE q == [Now(t) EXCEPT !.step = "replaced"]
<1> USE DEF rowVars
<1>0. /\ Busy(t) /\ Now(t).step = "read" /\ UNCHANGED <<rowVars, ids, keys, undone>>
      /\ serving' = [serving EXCEPT ![t][1].step = "replaced"]
  BY DEF ReplacePrevious, Busy, Now
<1>a. /\ serving[t] = <<Now(t)>> /\ Now(t) \in RequestsUpTo(ids, keys)
      /\ Now(t).previous = <<>> \/ \E k \in 1 .. keys : Now(t).previous = <<k>>
      /\ serving = [u \in Threads |-> serving[u]]
      /\ Now(t).key = <<>> <=> Now(t).do \in {"detach", "delete"}
  BY <1>0, RequestOf DEF LedgerInv, LedgerShapes
<1>b. /\ q \in RequestsUpTo(ids, keys) /\ q.step = "replaced" /\ q.do = Now(t).do
      /\ q.exp = Now(t).exp /\ q.company = Now(t).company /\ q.key = Now(t).key
      /\ q.type = Now(t).type /\ q.previous = Now(t).previous
  BY <1>a DEF RequestsUpTo
<1>1. /\ serving' = [u \in Threads |-> serving'[u]] /\ serving'[t] = <<q>>
      /\ \A u \in Threads \ {t} : serving'[u] = serving[u]
  <2>1. /\ serving' = [u \in Threads |-> serving'[u]]
        /\ serving'[t] = [serving[t] EXCEPT ![1].step = "replaced"]
        /\ \A u \in Threads \ {t} : serving'[u] = serving[u]
    BY <1>0, <1>a
  <2>2. \A x : [<<x>> EXCEPT ![1].step = "replaced"] = <<[x EXCEPT !.step = "replaced"]>>
    OBVIOUS
  <2> QED BY <1>a, <2>1, <2>2
<1> HIDE DEF q
<1>2. /\ Busy(t)' /\ Now(t)' = q
      /\ \A u \in Threads \ {t} : (Busy(u)' <=> Busy(u)) /\ Now(u)' = Now(u)
  BY <1>1 DEF Busy, Now
<1>3. /\ DOMAIN objects' \subseteq DOMAIN objects /\ stray \subseteq stray'
      /\ \A k \in DOMAIN objects' : objects'[k] = objects[k]
      /\ \A k \in DOMAIN objects \ DOMAIN objects' : Now(t).previous = <<k>>
      /\ \A k \in DOMAIN objects' : Now(t).previous = <<k>> => k \in stray'
  <2>1. CASE Now(t).previous = <<>>
    <3>1. objects' = objects /\ ToSet(Now(t).previous) = {}
      BY <2>1 DEF ReplacePrevious, Now, ToSet
    <3>2. stray' = stray
      BY <3>1 DEF ReplacePrevious, Now
    <3>3. \A k : Now(t).previous # <<k>>
      BY <2>1
    <3> QED BY <3>1, <3>2, <3>3 DEF LedgerInv, LedgerShapes
  <2>2. ASSUME NEW k \in 1 .. keys, Now(t).previous = <<k>>
        PROVE  <1>3!:
    <3>1. ToSet(Now(t).previous) = {k} /\ Now(t).previous # <<>>
          /\ \A j : Now(t).previous = <<j>> => j = k
      BY <2>2 DEF ToSet
    <3>2. CASE fails
      <4>1. objects' = objects /\ stray' = stray \cup ({k} \cap DOMAIN objects)
        BY <3>1, <3>2 DEF ReplacePrevious, Now
      <4> QED BY <3>1, <4>1 DEF LedgerInv, LedgerShapes
    <3>3. CASE ~fails
      <4>1. objects' = [j \in DOMAIN objects \ {k} |-> objects[j]] /\ stray' = stray
        BY <3>1, <3>3 DEF ReplacePrevious, Now
      <4> QED BY <2>2, <3>1, <4>1
    <3> QED BY <3>2, <3>3
  <2> QED BY <1>a, <2>1, <2>2
<1>4. LedgerShapes'
  <2>1. \A u \in Threads : Busy(u)' =>
          /\ serving'[u] = <<Now(u)'>> /\ Now(u)' \in RequestsUpTo(ids, keys)
          /\ Now(u)'.key = <<>> <=> Now(u)'.do \in {"detach", "delete"}
    BY <1>a, <1>b, <1>1, <1>2 DEF LedgerInv, LedgerShapes
  <2> QED BY <1>0, <1>1, <1>3, <2>1 DEF LedgerInv, LedgerShapes
<1>5. KeysHaveOneOwner'
  <2>1. \A u \in Threads : Busy(u)' => /\ Busy(u) /\ Now(u)'.key = Now(u).key
                                      /\ Now(u)'.previous = Now(u).previous /\ Now(u)'.exp = Now(u).exp
    BY <1>0, <1>b, <1>2
  <2> QED BY <1>0, <2>1 DEF LedgerInv, KeysHaveOneOwner
<1>6. ExpensesKeepTheirCompany'
  <2>1. \A u \in Threads : Busy(u)' => /\ Busy(u) /\ Now(u)'.do = Now(u).do
                                      /\ Now(u)'.company = Now(u).company /\ Now(u)'.exp = Now(u).exp
    BY <1>0, <1>b, <1>2
  <2> QED BY <1>0, <2>1 DEF LedgerInv, ExpensesKeepTheirCompany
<1>7. FilesAreAsRecorded'
  <2>1. \A u \in Threads : Busy(u)' =>
          /\ Busy(u) /\ Now(u)'.key = Now(u).key /\ Now(u)'.exp = Now(u).exp
          /\ Now(u)'.company = Now(u).company /\ Now(u)'.type = Now(u).type
    BY <1>0, <1>b, <1>2
  <2> QED BY <1>0, <1>3, <2>1 DEF LedgerInv, FilesAreAsRecorded
<1>8. ReplacedIsGone'
  BY <1>b, <1>2, <1>3 DEF LedgerInv, ReplacedIsGone
<1>c. StoredIsThere'
  <2>1. \A u \in Threads : Busy(u)' => Busy(u) /\ Now(u)'.key = Now(u).key
    BY <1>0, <1>b, <1>2
  <2>2. \A u \in Threads : \A k : Busy(u) /\ Now(u).key = <<k>> => Now(t).previous # <<k>>
    <3>1. \A k : <<k>> # <<>>
      OBVIOUS
    <3> QED BY <1>0, <3>1 DEF LedgerInv, KeysHaveOneOwner
  <2> QED BY <1>0, <1>3, <2>1, <2>2 DEF LedgerInv, StoredIsThere
<1>9. RowsMatchFiles'
  <2>1. \A u \in Threads : \A k : Holds(u, k) => Holds(u, k)'
    BY <1>0, <1>1 DEF Holds, Now
  <2>2. \A k : Now(t).previous = <<k>> => Holds(t, k)'
    BY <1>b, <1>1 DEF Holds
  <2>3. \A u \in Threads : \A k : serving[u] # <<>> /\ serving[u][1].key = <<k>> =>
           serving'[u] # <<>> /\ serving'[u][1].key = <<k>>
    BY <1>b, <1>1 DEF Now
  <2>4. \A e \in DOMAIN receipts :
          \/ receipts[e].key \in DOMAIN objects' \/ receipts[e].key \in undone
          \/ \E u \in Threads : Holds(u, receipts[e].key)'
    <3> SUFFICES ASSUME NEW e \in DOMAIN receipts, receipts[e].key \notin undone,
                        receipts[e].key \notin DOMAIN objects'
                 PROVE  \E u \in Threads : Holds(u, receipts[e].key)'
      OBVIOUS
    <3>1. CASE receipts[e].key \in DOMAIN objects
      BY <1>0, <1>3, <2>2, <3>1 DEF Holds
    <3>2. CASE \E u \in Threads : Holds(u, receipts[e].key)
      BY <1>0, <2>1, <3>2 DEF Holds
    <3> QED BY <3>1, <3>2 DEF LedgerInv, RowsMatchFiles
  <2>5. \A k \in DOMAIN objects' :
         \/ \E e \in DOMAIN receipts : receipts[e].key = k
         \/ \E u \in Threads : serving'[u] # <<>> /\ serving'[u][1].key = <<k>>
         \/ k \in stray'
    BY <1>3, <2>3 DEF LedgerInv, RowsMatchFiles
  <2> QED BY <1>0, <2>4, <2>5 DEF RowsMatchFiles
<1> QED BY <1>4, <1>5, <1>6, <1>7, <1>8, <1>9, <1>c DEF LedgerInv

(* What a commit leaves: the row of the request's expense is the new one, or  *)
(* gone, or one that came in between and stays; no other row is touched.      *)
LEMMA CommitOf ==
    ASSUME LedgerInv, NEW t \in Threads, Commit(t), NEW q, q = Now(t)
    PROVE  /\ DOMAIN receipts' \subseteq DOMAIN expenses'
           /\ DOMAIN expenses' \subseteq DOMAIN expenses \cup {q.exp}
           /\ \A e \in DOMAIN expenses' \ {q.exp} : expenses'[e] = expenses[e]
           /\ q.do # "add" /\ q.exp \in DOMAIN expenses' =>
                 q.exp \in DOMAIN expenses /\ expenses'[q.exp] = expenses[q.exp]
           /\ \A e : e # q.exp => (e \in DOMAIN receipts <=> e \in DOMAIN receipts')
           /\ \A e \in DOMAIN receipts \ {q.exp} : receipts'[e] = receipts[e]
           /\ \A k : q.key = <<k>> =>
                 /\ q.exp \in DOMAIN receipts' /\ expenses'[q.exp] = {q.company}
                 /\ receipts'[q.exp].key = k /\ receipts'[q.exp].type = q.type
           /\ q.exp \in DOMAIN receipts /\ q.previous # <<receipts[q.exp].key>> =>
                 q.key = <<>> /\ q.exp \in DOMAIN receipts'
           /\ q.exp \in DOMAIN receipts' /\ q.key = <<>> =>
                 /\ q.exp \in DOMAIN receipts /\ receipts'[q.exp] = receipts[q.exp]
                 /\ q.previous # <<receipts[q.exp].key>>
<1>1. Busy(t) /\ ~Refused(q) /\ expenses' = Written(q) /\ receipts' = Attached(q)
  BY DEF Commit, Busy, Now
<1>2. /\ q.do \in {"add", "edit", "detach", "delete"}
      /\ q.key = <<>> <=> q.do \in {"detach", "delete"}
  BY <1>1, RequestOf
<1>3. /\ DOMAIN receipts \subseteq DOMAIN expenses
      /\ q.do = "edit" /\ q.exp \in DOMAIN expenses => expenses[q.exp] = {q.company}
  BY <1>1 DEF LedgerInv, LedgerShapes, ExpensesKeepTheirCompany
<1>4. NewReceiptBetween(q) <=> q.exp \in DOMAIN receipts /\ q.previous # <<receipts[q.exp].key>>
  BY DEF NewReceiptBetween
<1>5. CASE q.key # <<>>
  <2>1. /\ ~NewReceiptBetween(q) /\ q.do \in {"add", "edit"}
        /\ receipts' = Put(receipts, q.exp, [key |-> q.key[1], type |-> q.type])
    BY <1>1, <1>2, <1>5 DEF Refused, Attached
  <2>2. \/ q.do = "add" /\ expenses' = Put(expenses, q.exp, {q.company})
        \/ q.do = "edit" /\ q.exp \in DOMAIN expenses /\ expenses' = expenses
    BY <1>1, <2>1 DEF Refused, Written
  <2>3. /\ \A e : e \in DOMAIN expenses' <=> e \in DOMAIN expenses \/ e = q.exp
        /\ \A e \in DOMAIN expenses' \ {q.exp} : expenses'[e] = expenses[e]
        /\ q.do # "add" => q.exp \in DOMAIN expenses /\ expenses'[q.exp] = expenses[q.exp]
        /\ expenses'[q.exp] = {q.company}
    <3>1. CASE q.do = "add" /\ expenses' = Put(expenses, q.exp, {q.company})
      BY <3>1 DEF Put
    <3>2. CASE q.do = "edit" /\ q.exp \in DOMAIN expenses /\ expenses' = expenses
      BY <1>3, <3>2
    <3> QED BY <2>2, <3>1, <3>2
  <2>4. /\ \A e : e \in DOMAIN receipts' <=> e \in DOMAIN receipts \/ e = q.exp
        /\ \A e \in DOMAIN receipts \ {q.exp} : receipts'[e] = receipts[e]
        /\ receipts'[q.exp].key = q.key[1] /\ receipts'[q.exp].type = q.type
    BY <2>1 DEF Put
  <2>5. \A k : q.key = <<k>> => q.key[1] = k
    OBVIOUS
  <2> QED BY <1>3, <1>4, <1>5, <2>1, <2>3, <2>4, <2>5
<1>6. CASE q.key = <<>> /\ NewReceiptBetween(q)
  <2>1. q.do = "detach" /\ expenses' = expenses /\ receipts' = receipts
    BY <1>1, <1>2, <1>6 DEF Refused, Attached, Written
  <2>2. \A k : q.key # <<k>>
    BY <1>6
  <2> QED BY <1>3, <1>4, <1>6, <2>1, <2>2
<1>7. CASE q.key = <<>> /\ ~NewReceiptBetween(q)
  <2>1. /\ receipts' = [e \in DOMAIN receipts \ {q.exp} |-> receipts[e]]
        /\ \/ expenses' = expenses
           \/ expenses' = [e \in DOMAIN expenses \ {q.exp} |-> expenses[e]]
    BY <1>1, <1>2, <1>7 DEF Attached, Written
  <2>2. \A k : q.key # <<k>>
    BY <1>7
  <2>3. /\ DOMAIN expenses' \subseteq DOMAIN expenses
        /\ DOMAIN expenses \ {q.exp} \subseteq DOMAIN expenses'
        /\ \A e \in DOMAIN expenses' : expenses'[e] = expenses[e]
    <3>1. CASE expenses' = expenses
      BY <1>3, <3>1
    <3>2. CASE expenses' = [e \in DOMAIN expenses \ {q.exp} |-> expenses[e]]
      BY <3>2
    <3> QED BY <2>1, <3>1, <3>2
  <2>4. /\ \A e : e \in DOMAIN receipts' <=> e \in DOMAIN receipts /\ e # q.exp
        /\ \A e \in DOMAIN receipts' : receipts'[e] = receipts[e]
    BY <2>1
  <2> QED BY <1>3, <1>4, <1>7, <2>2, <2>3, <2>4
<1> QED BY <1>5, <1>6, <1>7

(* An answered request leaves the others as they were.                        *)
LEMMA AnswerOf ==
    ASSUME LedgerInv, NEW t \in Threads, Answer(t)
    PROVE  /\ serving' = [u \in Threads |-> serving'[u]] /\ ~Busy(t)'
           /\ \A u \in Threads \ {t} :
                serving'[u] = serving[u] /\ (Busy(u)' <=> Busy(u)) /\ Now(u)' = Now(u)
<1>1. /\ serving' = [u \in Threads |-> serving'[u]] /\ serving'[t] = <<>>
      /\ \A u \in Threads \ {t} : serving'[u] = serving[u]
  BY ServeOf DEF Answer, LedgerInv
<1> QED BY <1>1 DEF Busy, Now

(* A transaction that fails leaves its new file behind, and the row of the    *)
(* file it removed.                                                           *)
LEMMA FailStep == ASSUME LedgerInv, NEW t \in Threads, Fail(t) PROVE LedgerInv'
<1> USE DEF rowVars
<1>0. /\ Busy(t) /\ Answer(t) /\ UNCHANGED <<rowVars, objects, ids, keys>>
      /\ stray' = stray \cup ToSet(Now(t).key)
      /\ undone' = IF Now(t).step = "replaced" THEN undone \cup ToSet(Now(t).previous) ELSE undone
  BY DEF Fail, Busy, Now
<1>1. /\ serving' = [u \in Threads |-> serving'[u]] /\ ~Busy(t)'
      /\ \A u \in Threads \ {t} :
           serving'[u] = serving[u] /\ (Busy(u)' <=> Busy(u)) /\ Now(u)' = Now(u)
  BY <1>0, AnswerOf
<1>2. stray \subseteq stray' /\ undone \subseteq undone'
  BY <1>0
<1>3. /\ \A k : Now(t).key = <<k>> => k \in stray'
      /\ \A k : Now(t).step = "replaced" /\ Now(t).previous = <<k>> => k \in undone'
  <2>1. \A k : ToSet(<<k>>) = {k}
    BY DEF ToSet
  <2> QED BY <1>0, <2>1
<1>4. LedgerShapes'
  BY <1>0, <1>1 DEF LedgerInv, LedgerShapes
<1>5. KeysHaveOneOwner' /\ ExpensesKeepTheirCompany'
  BY <1>0, <1>1 DEF LedgerInv, KeysHaveOneOwner, ExpensesKeepTheirCompany
<1>6. FilesAreAsRecorded' /\ StoredIsThere' /\ ReplacedIsGone'
  BY <1>0, <1>1, <1>2 DEF LedgerInv, FilesAreAsRecorded, StoredIsThere, ReplacedIsGone
<1>7. RowsMatchFiles'
  <2>1. \A u \in Threads : \A k : Holds(u, k) => k \in undone' \/ Holds(u, k)'
    BY <1>1, <1>3 DEF Holds, Now
  <2>2. \A u \in Threads : \A k : serving[u] # <<>> /\ serving[u][1].key = <<k>> =>
          k \in stray' \/ (serving'[u] # <<>> /\ serving'[u][1].key = <<k>>)
    BY <1>1, <1>3 DEF Now
  <2>3. \A e \in DOMAIN receipts :
          \/ receipts[e].key \in DOMAIN objects \/ receipts[e].key \in undone'
          \/ \E u \in Threads : Holds(u, receipts[e].key)'
    BY <1>0, <1>2, <2>1 DEF LedgerInv, RowsMatchFiles
  <2>4. \A k \in DOMAIN objects :
         \/ \E e \in DOMAIN receipts : receipts[e].key = k
         \/ \E u \in Threads : serving'[u] # <<>> /\ serving'[u][1].key = <<k>>
         \/ k \in stray'
    BY <1>2, <2>2 DEF LedgerInv, RowsMatchFiles
  <2> QED BY <1>0, <2>3, <2>4 DEF RowsMatchFiles
<1> QED BY <1>4, <1>5, <1>6, <1>7 DEF LedgerInv

(* A commit puts the new file in the row of its expense and nowhere else, and *)
(* drops only a row whose file is gone or known to be left.                   *)
LEMMA CommitStep == ASSUME LedgerInv, NEW t \in Threads, Commit(t) PROVE LedgerInv'
<1>q. PICK q : q = Now(t)
  OBVIOUS
<1>0. /\ Busy(t) /\ q.step = "replaced" /\ Answer(t)
      /\ UNCHANGED <<objects, ids, keys, undone, stray>>
  BY <1>q DEF Commit, Busy, Now
<1>1. /\ serving' = [u \in Threads |-> serving'[u]] /\ ~Busy(t)'
      /\ \A u \in Threads \ {t} :
           serving'[u] = serving[u] /\ (Busy(u)' <=> Busy(u)) /\ Now(u)' = Now(u)
  BY <1>0, AnswerOf
<1>2. /\ q.exp \in 1 .. ids /\ q.do \in {"add", "edit", "detach", "delete"}
      /\ q.key = <<>> \/ \E k \in 1 .. keys : q.key = <<k>>
      /\ q.key = <<>> <=> q.do \in {"detach", "delete"}
  BY <1>0, <1>q, RequestOf
<1>3. /\ DOMAIN receipts' \subseteq DOMAIN expenses'
      /\ DOMAIN expenses' \subseteq DOMAIN expenses \cup {q.exp}
      /\ \A e \in DOMAIN expenses' \ {q.exp} : expenses'[e] = expenses[e]
      /\ q.do # "add" /\ q.exp \in DOMAIN expenses' =>
            q.exp \in DOMAIN expenses /\ expenses'[q.exp] = expenses[q.exp]
      /\ \A e : e # q.exp => (e \in DOMAIN receipts <=> e \in DOMAIN receipts')
      /\ \A e \in DOMAIN receipts \ {q.exp} : receipts'[e] = receipts[e]
  BY <1>q, CommitOf
<1>4. /\ \A k : q.key = <<k>> =>
            /\ q.exp \in DOMAIN receipts' /\ expenses'[q.exp] = {q.company}
            /\ receipts'[q.exp].key = k /\ receipts'[q.exp].type = q.type
      /\ q.exp \in DOMAIN receipts /\ q.previous # <<receipts[q.exp].key>> =>
            q.key = <<>> /\ q.exp \in DOMAIN receipts'
      /\ q.exp \in DOMAIN receipts' /\ q.key = <<>> =>
            /\ q.exp \in DOMAIN receipts /\ receipts'[q.exp] = receipts[q.exp]
            /\ q.previous # <<receipts[q.exp].key>>
  BY <1>q, CommitOf
(* A row is one that stood, or the new one. *)
<1>5. ASSUME NEW e \in DOMAIN receipts'
      PROVE  \/ /\ e \in DOMAIN receipts /\ receipts'[e] = receipts[e]
                /\ q.previous # <<receipts[e].key>> /\ expenses'[e] = expenses[e]
             \/ /\ e = q.exp /\ q.key = <<receipts'[e].key>> /\ receipts'[e].key \in 1 .. keys
                /\ expenses'[e] = {q.company} /\ receipts'[e].type = q.type
  <2>1. CASE e # q.exp
    <3>1. e \in DOMAIN receipts /\ receipts'[e] = receipts[e] /\ expenses'[e] = expenses[e]
      BY <1>3, <1>5, <2>1
    <3> QED BY <1>0, <1>q, <2>1, <3>1 DEF LedgerInv, KeysHaveOneOwner
  <2>2. CASE e = q.exp /\ q.key = <<>>
    <3>1. q.do # "add" /\ q.exp \in DOMAIN expenses'
      BY <1>2, <1>3, <1>5, <2>2
    <3> QED BY <1>3, <1>4, <1>5, <2>2, <3>1
  <2>3. CASE e = q.exp /\ q.key # <<>>
    <3>1. PICK k \in 1 .. keys : q.key = <<k>>
      BY <1>2, <2>3
    <3> QED BY <1>4, <2>3, <3>1
  <2> QED BY <2>1, <2>2, <2>3
<1>6. \A e \in DOMAIN receipts : ~(e \in DOMAIN receipts' /\ receipts'[e] = receipts[e]) =>
        q.previous = <<receipts[e].key>>
  BY <1>3, <1>4
<1>7. LedgerShapes'
  <2>1. DOMAIN expenses' \subseteq 1 .. ids
    BY <1>2, <1>3 DEF LedgerInv, LedgerShapes
  <2>2. \A e \in DOMAIN receipts' : receipts'[e].key \in 1 .. keys
    BY <1>5 DEF LedgerInv, LedgerShapes
  <2> QED BY <1>0, <1>1, <1>3, <2>1, <2>2 DEF LedgerInv, LedgerShapes
<1>8. KeysHaveOneOwner'
  <2>1. \A e \in DOMAIN receipts : q.key # <<receipts[e].key>>
    BY <1>0, <1>q DEF LedgerInv, KeysHaveOneOwner
  <2>2. \A u \in Threads \ {t} : \A k : Busy(u) /\ q.key = <<k>> =>
          Now(u).key # <<k>> /\ Now(u).previous # <<k>>
    <3>1. \A k : <<k>> # <<>>
      OBVIOUS
    <3> QED BY <1>0, <1>q, <3>1 DEF LedgerInv, KeysHaveOneOwner
  <2>3. \A d, e \in DOMAIN receipts' : receipts'[d].key = receipts'[e].key => d = e
    BY <1>5, <2>1 DEF LedgerInv, KeysHaveOneOwner
  <2>4. \A u \in Threads, e \in DOMAIN receipts' : Busy(u)' =>
          /\ Now(u)'.key # <<receipts'[e].key>>
          /\ Now(u)'.previous = <<receipts'[e].key>> => e = Now(u)'.exp
    BY <1>1, <1>5, <2>2 DEF LedgerInv, KeysHaveOneOwner
  <2>5. \A u, v \in Threads : Busy(u)' /\ Busy(v)' /\ Now(u)'.key # <<>> =>
          /\ Now(u)'.key # Now(v)'.previous
          /\ u # v => Now(u)'.key # Now(v)'.key
    BY <1>1 DEF LedgerInv, KeysHaveOneOwner
  <2> QED BY <2>3, <2>4, <2>5 DEF KeysHaveOneOwner
<1>9. ExpensesKeepTheirCompany'
  <2>1. \A u \in Threads \ {t} : Busy(u) /\ (q.do = "add" \/ Now(u).do = "add") =>
          Now(u).exp # q.exp
    BY <1>0, <1>q DEF LedgerInv, ExpensesKeepTheirCompany
  <2>2. \A u \in Threads : Busy(u)' =>
          /\ Now(u)'.do = "add" => Now(u)'.exp \notin DOMAIN expenses'
          /\ Now(u)'.do = "edit" /\ Now(u)'.exp \in DOMAIN expenses' =>
                expenses'[Now(u)'.exp] = {Now(u)'.company}
    BY <1>1, <1>3, <2>1 DEF LedgerInv, ExpensesKeepTheirCompany
  <2>3. \A u \in Threads : Busy(u)' /\ Now(u)'.do = "add" =>
          \A v \in Threads \ {u} : Busy(v)' => Now(v)'.exp # Now(u)'.exp
    BY <1>1 DEF LedgerInv, ExpensesKeepTheirCompany
  <2> QED BY <2>2, <2>3 DEF ExpensesKeepTheirCompany
<1>10. FilesAreAsRecorded'
  <2>1. ASSUME NEW e \in DOMAIN receipts', receipts'[e].key \in DOMAIN objects
        PROVE  /\ expenses'[e] = {objects[receipts'[e].key].company}
               /\ objects[receipts'[e].key].exp = e
               /\ objects[receipts'[e].key].content = receipts'[e].type
    <3>1. CASE e \in DOMAIN receipts /\ receipts'[e] = receipts[e] /\ expenses'[e] = expenses[e]
      BY <2>1, <3>1 DEF LedgerInv, FilesAreAsRecorded
    <3>2. CASE /\ e = q.exp /\ q.key = <<receipts'[e].key>>
               /\ expenses'[e] = {q.company} /\ receipts'[e].type = q.type
      BY <1>0, <1>q, <2>1, <3>2 DEF LedgerInv, FilesAreAsRecorded
    <3> QED BY <1>5, <3>1, <3>2
  <2>2. \A u \in Threads, k \in DOMAIN objects : Busy(u)' /\ Now(u)'.key = <<k>> =>
          /\ objects[k].company = Now(u)'.company
          /\ objects[k].exp = Now(u)'.exp
          /\ objects[k].content = Now(u)'.type
    BY <1>1 DEF LedgerInv, FilesAreAsRecorded
  <2> QED BY <1>0, <2>1, <2>2 DEF FilesAreAsRecorded
<1>11. StoredIsThere' /\ ReplacedIsGone'
  BY <1>0, <1>1 DEF LedgerInv, StoredIsThere, ReplacedIsGone
<1>12. RowsMatchFiles'
  <2>1. \A u \in Threads \ {t} : \A k : Holds(u, k) => Holds(u, k)'
    BY <1>1 DEF Holds
  <2>2. \A k : Holds(t, k) => q.previous = <<k>>
    BY <1>q DEF Holds, Now
  <2>3. ASSUME NEW e \in DOMAIN receipts', receipts'[e].key \notin DOMAIN objects,
               receipts'[e].key \notin undone
        PROVE  \E u \in Threads : Holds(u, receipts[e].key)' /\ receipts'[e].key = receipts[e].key
    <3>1. e \in DOMAIN receipts /\ receipts'[e] = receipts[e] /\ q.previous # <<receipts[e].key>>
      BY <1>0, <1>5, <1>q, <2>3 DEF LedgerInv, StoredIsThere
    <3>2. PICK u \in Threads : Holds(u, receipts[e].key)
      BY <2>3, <3>1 DEF LedgerInv, RowsMatchFiles
    <3>3. u # t
      BY <2>2, <3>1, <3>2
    <3> QED BY <2>1, <3>1, <3>2, <3>3 DEF Holds
  <2>4. ASSUME NEW k \in DOMAIN objects, k \notin stray
        PROVE  \/ \E e \in DOMAIN receipts' : receipts'[e].key = k
               \/ \E u \in Threads : serving'[u] # <<>> /\ serving'[u][1].key = <<k>>
    <3>1. CASE \E e \in DOMAIN receipts : receipts[e].key = k
      <4>1. PICK e \in DOMAIN receipts : receipts[e].key = k
        BY <3>1
      <4>2. q.previous # <<k>>
        BY <1>0, <1>q, <2>4 DEF LedgerInv, ReplacedIsGone
      <4> QED BY <1>6, <4>1, <4>2
    <3>2. CASE Busy(t) /\ q.key = <<k>>
      BY <1>4, <3>2
    <3>3. CASE \E u \in Threads \ {t} : serving[u] # <<>> /\ serving[u][1].key = <<k>>
      BY <1>1, <3>3
    <3> QED BY <1>q, <2>4, <3>1, <3>2, <3>3 DEF LedgerInv, RowsMatchFiles, Busy, Now
  <2> QED BY <1>0, <2>3, <2>4 DEF RowsMatchFiles, Holds
<1> QED BY <1>7, <1>8, <1>9, <1>10, <1>11, <1>12 DEF LedgerInv

(* An upload that passed validation is what its extension says.               *)
LEMMA ValidIsSniffed ==
    ASSUME NEW file, ValidateUpload(file)
    PROVE  Sniff(file.content) = file.content /\ file.content \in Kinds
BY DEF ValidateUpload, Sniff, ALLOWED_EXTENSIONS, Kinds

(* Every step keeps the invariant.                                            *)
LEMMA LedgerStep == LedgerInv /\ [LedgerNext]_ledgerVars => LedgerInv'
<1> SUFFICES ASSUME LedgerInv, [LedgerNext]_ledgerVars PROVE LedgerInv'
  OBVIOUS
<1>0. ids \in Nat /\ keys \in Nat /\ DOMAIN receipts \subseteq DOMAIN expenses
      /\ DOMAIN expenses \subseteq 1 .. ids
  BY DEF LedgerInv, LedgerShapes
<1>1. CASE UNCHANGED ledgerVars
  <2> USE <1>1 DEF ledgerVars
  <2>1. LedgerShapes'
    BY DEF LedgerInv, LedgerShapes, Busy, Now
  <2>2. KeysHaveOneOwner' /\ ExpensesKeepTheirCompany'
    BY DEF LedgerInv, KeysHaveOneOwner, ExpensesKeepTheirCompany, Busy, Now
  <2>3. FilesAreAsRecorded' /\ StoredIsThere' /\ ReplacedIsGone'
    BY DEF LedgerInv, FilesAreAsRecorded, StoredIsThere, ReplacedIsGone, Busy, Now
  <2>4. RowsMatchFiles'
    BY DEF LedgerInv, RowsMatchFiles, Holds
  <2> QED BY <2>1, <2>2, <2>3, <2>4 DEF LedgerInv
<1>2. ASSUME NEW t \in Threads, NEW c \in Companies, NEW form, ExpenseAdd(t, c, form)
      PROVE  LedgerInv'
  <2>1. PICK company : company = {c}
    OBVIOUS
  <2> QED BY <1>2, <2>1, RecordStep DEF ExpenseAdd
<1>3. ASSUME NEW t \in Threads, NEW company, NEW run, NEW form, AddExpense(t, company, run, form)
      PROVE  LedgerInv'
  BY <1>3, RecordStep DEF AddExpense
<1>4. ASSUME NEW t \in Threads, NEW c \in Companies, NEW form, NEW file,
             AddWithReceipt(t, c, form, file)
      PROVE  LedgerInv'
  <2>1. /\ serving[t] = <<>> /\ ids' = ids + 1 /\ keys' = keys + 1 /\ UNCHANGED <<rowVars, undone, stray>>
        /\ objects' = Put(objects, keys + 1, [content |-> file.content, company |-> c, exp |-> ids + 1])
        /\ ValidateUpload(file)
        /\ Serve(t, Reading(Request("add", ids + 1, c, <<keys + 1>>, Sniff(file.content))))
    BY <1>4 DEF AddWithReceipt, SaveObject
  <2>2. PICK q : q = Reading(Request("add", ids + 1, c, <<keys + 1>>, Sniff(file.content)))
    OBVIOUS
  <2>3. HasReceipt(ids + 1) = <<>>
    BY <1>0 DEF HasReceipt
  <2>4. q = [do |-> "add", exp |-> ids + 1, company |-> c, key |-> <<keys + 1>>,
             type |-> file.content, previous |-> <<>>, step |-> "read"]
    BY <2>1, <2>2, <2>3, ValidIsSniffed DEF Reading, Request
  <2>5. q \in RequestsUpTo(ids', keys')
    <3>1. ids + 1 \in 1 .. ids' /\ keys + 1 \in 1 .. keys'
      BY <1>0, <2>1
    <3>2. <<>> \in AtMostOne(1 .. keys') /\ <<keys + 1>> \in AtMostOne(1 .. keys')
      BY <3>1 DEF AtMostOne
    <3> QED BY <2>1, <2>4, <3>1, <3>2, ValidIsSniffed DEF RequestsUpTo
  <2>6. /\ q.do = "add" /\ q.exp = ids + 1 /\ q.company = c /\ q.key = <<keys + 1>>
        /\ q.type = file.content /\ q.previous = <<>> /\ q.step = "read"
    BY <2>4
  <2>7. Serve(t, q) /\ ~Busy(t) /\ ids' \in Nat /\ ids <= ids'
    BY <1>0, <2>1, <2>2 DEF Busy
  <2> QED BY <2>1, <2>5, <2>6, <2>7, StoreStep
<1>5. ASSUME NEW t \in Threads, NEW c \in Companies, NEW e \in DOMAIN expenses, NEW form, NEW file,
             EditWithReceipt(t, c, e, form, file)
      PROVE  LedgerInv'
  <2>1. /\ serving[t] = <<>> /\ ids' = ids /\ keys' = keys + 1 /\ UNCHANGED <<rowVars, undone, stray>>
        /\ objects' = Put(objects, keys + 1, [content |-> file.content, company |-> c, exp |-> e])
        /\ ValidateUpload(file) /\ expenses[e] = {c}
        /\ Serve(t, Request("edit", e, c, <<keys + 1>>, Sniff(file.content)))
    BY <1>5 DEF EditWithReceipt, SaveObject, Opens
  <2>2. PICK q : q = Request("edit", e, c, <<keys + 1>>, Sniff(file.content))
    OBVIOUS
  <2>4. q = [do |-> "edit", exp |-> e, company |-> c, key |-> <<keys + 1>>,
             type |-> file.content, previous |-> <<>>, step |-> "stored"]
    BY <2>1, <2>2, ValidIsSniffed DEF Request
  <2>5. q \in RequestsUpTo(ids', keys')
    <3>1. e \in 1 .. ids' /\ keys + 1 \in 1 .. keys'
      BY <1>0, <2>1
    <3>2. <<>> \in AtMostOne(1 .. keys') /\ <<keys + 1>> \in AtMostOne(1 .. keys')
      BY <3>1 DEF AtMostOne
    <3> QED BY <2>1, <2>4, <3>1, <3>2, ValidIsSniffed DEF RequestsUpTo
  <2>6. /\ q.do = "edit" /\ q.exp = e /\ q.company = c /\ q.key = <<keys + 1>>
        /\ q.type = file.content /\ q.previous = <<>> /\ q.step = "stored"
    BY <2>4
  <2>7. Serve(t, q) /\ ~Busy(t) /\ ids' \in Nat /\ ids <= ids'
    BY <1>0, <2>1, <2>2 DEF Busy
  <2> QED BY <2>1, <2>5, <2>6, <2>7, StoreStep
<1>6. ASSUME NEW e \in DOMAIN expenses
      PROVE  HasReceipt(e) \in AtMostOne(1 .. keys)
  BY DEF HasReceipt, AtMostOne, LedgerInv, LedgerShapes
<1>7. ASSUME NEW t \in Threads, NEW c \in Companies, NEW e \in DOMAIN expenses,
             ReceiptDelete(t, c, e) \/ ExpenseDelete(t, c, e)
      PROVE  LedgerInv'
  <2>1. PICK do \in {"detach", "delete"} :
          /\ serving[t] = <<>> /\ Serve(t, Reading(Request(do, e, c, <<>>, "")))
          /\ UNCHANGED <<rowVars, objects, ids, keys, undone, stray>>
    BY <1>7 DEF ReceiptDelete, ExpenseDelete
  <2>2. PICK q : q = Reading(Request(do, e, c, <<>>, ""))
    OBVIOUS
  <2>3. q = [do |-> do, exp |-> e, company |-> c, key |-> <<>>, type |-> "",
             previous |-> HasReceipt(e), step |-> "read"]
    BY <2>2 DEF Reading, Request
  <2>4. q \in RequestsUpTo(ids, keys)
    <3>1. <<>> \in AtMostOne(1 .. keys) /\ e \in 1 .. ids
      BY <1>0 DEF AtMostOne
    <3> QED BY <1>6, <2>3, <3>1 DEF RequestsUpTo
  <2>5. /\ q.do = do /\ q.exp = e /\ q.company = c /\ q.key = <<>>
        /\ q.previous = HasReceipt(q.exp) /\ q.step = "read"
    BY <2>3
  <2>6. Serve(t, q) /\ ~Busy(t)
    BY <2>1, <2>2 DEF Busy
  <2> QED BY <2>1, <2>4, <2>5, <2>6, ReadStep
<1>8. ASSUME NEW t \in Threads, LoadPrevious(t) PROVE LedgerInv'
  <2>1. /\ Busy(t) /\ Now(t).step = "stored" /\ Serve(t, Reading(Now(t)))
        /\ UNCHANGED <<rowVars, objects, ids, keys, undone, stray>>
    BY <1>8 DEF LoadPrevious, Busy, Now
  <2>2. /\ Now(t) \in RequestsUpTo(ids, keys)
        /\ Now(t).key = <<>> <=> Now(t).do \in {"detach", "delete"}
    BY <2>1, RequestOf
  <2>3. PICK q : q = [Now(t) EXCEPT !.previous = HasReceipt(Now(t).exp), !.step = "read"]
    OBVIOUS
  <2>4. HasReceipt(Now(t).exp) \in AtMostOne(1 .. keys)
    BY DEF HasReceipt, AtMostOne, LedgerInv, LedgerShapes
  <2>5. /\ q \in RequestsUpTo(ids, keys) /\ q.do = Now(t).do /\ q.exp = Now(t).exp
        /\ q.company = Now(t).company /\ q.key = Now(t).key /\ q.type = Now(t).type
        /\ q.previous = HasReceipt(q.exp) /\ q.step = "read"
    BY <2>2, <2>3, <2>4 DEF RequestsUpTo
  <2>6. Serve(t, q)
    BY <2>1, <2>3 DEF Reading
  <2> QED BY <2>1, <2>2, <2>5, <2>6, ReadStep
<1>9. ASSUME NEW t \in Threads, Commit(t) \/ Fail(t) \/ \E fails \in BOOLEAN : ReplacePrevious(t, fails)
      PROVE  LedgerInv'
  BY <1>9, CommitStep, FailStep, ReplaceStep
<1> QED BY <1>1, <1>2, <1>3, <1>4, <1>5, <1>7, <1>8, <1>9 DEF LedgerNext

(* The inductive invariant of the expenses and their receipts                 *)
(* (client/expenses.py, receipts.py, storage.py).                             *)
THEOREM LedgerInvAlways == LedgerSpec => []LedgerInv
BY LedgerInitHolds, LedgerStep, PTL DEF LedgerSpec

(* Receipt rows and stored files match, for any number of threads, companies, *)
(* expenses and files, whichever requests cross and wherever one fails         *)
(* (receipts.attach_receipt, detach_receipt, client.expenses.expense_delete).  *)
THEOREM RowsMatchFilesAlways == LedgerSpec => []RowsMatchFiles
<1>1. LedgerInv => RowsMatchFiles
  BY DEF LedgerInv
<1> QED BY <1>1, LedgerInvAlways, PTL

(* A company is served the file its own people uploaded to that expense, as    *)
(* what its bytes are, for any tenants, uploads and failures                  *)
(* (client.expenses._send_receipt, receipts.validate_upload).                 *)
THEOREM ServedIsOwnFileAlways == LedgerSpec => []ServedIsOwnFile
<1>1. LedgerInv => ServedIsOwnFile
  <2> SUFFICES ASSUME LedgerInv, NEW c \in Companies, NEW e \in DOMAIN expenses, NEW file,
                      file = SendReceipt(c, e), file # <<>>
               PROVE  /\ file[1].object.company = c /\ file[1].object.exp = e
                      /\ file[1].type = file[1].object.content
    BY DEF ServedIsOwnFile
  <2>1. /\ expenses[e] = {c} /\ e \in DOMAIN receipts /\ receipts[e].key \in DOMAIN objects
        /\ file = <<[object |-> objects[receipts[e].key], type |-> receipts[e].type]>>
    BY DEF SendReceipt, Opens
  <2>2. /\ expenses[e] = {objects[receipts[e].key].company}
        /\ objects[receipts[e].key].exp = e
        /\ objects[receipts[e].key].content = receipts[e].type
    BY <2>1 DEF LedgerInv, FilesAreAsRecorded
  <2>3. objects[receipts[e].key].company = c
    BY <2>1, <2>2
  <2> QED BY <2>1, <2>2, <2>3
<1> QED BY <1>1, LedgerInvAlways, PTL

(* The other half of the shapes: a receipt's expense has a company, and       *)
(* nothing is numbered beyond the bounds.                                     *)
CompaniesAndBounds ==
    /\ \A e \in DOMAIN receipts : expenses[e] # NoOne
    /\ ids <= MaxExpenses /\ keys <= MaxKeys

LEMMA RecordKeepsCompanies ==
    ASSUME LedgerInv, CompaniesAndBounds, NEW c,
           expenses' = Put(expenses, ids + 1, c), UNCHANGED <<receipts, keys>>,
           ids < MaxExpenses, ids' = ids + 1
    PROVE  CompaniesAndBounds'
<1>1. ids \in Nat /\ DOMAIN receipts \subseteq 1 .. ids
  BY DEF LedgerInv, LedgerShapes
<1>2. \A e \in DOMAIN receipts : expenses'[e] = expenses[e]
  <2>1. DOMAIN receipts \subseteq DOMAIN expenses
    BY DEF LedgerInv, LedgerShapes
  <2> QED BY <1>1, <2>1 DEF Put
<1> QED BY <1>1, <1>2, LedgerBoundsAssumption DEF CompaniesAndBounds

LEMMA CommitKeepsCompanies ==
    ASSUME LedgerInv, CompaniesAndBounds, NEW t \in Threads, Commit(t)
    PROVE  CompaniesAndBounds'
<1>q. PICK q : q = Now(t)
  OBVIOUS
<1>0. Busy(t) /\ UNCHANGED <<ids, keys>>
  BY DEF Commit, Busy
<1>1. /\ q.key = <<>> \/ \E k \in 1 .. keys : q.key = <<k>>
      /\ q.key = <<>> <=> q.do \in {"detach", "delete"}
  BY <1>0, <1>q, RequestOf
<1>2. SUFFICES ASSUME NEW e \in DOMAIN receipts' PROVE expenses'[e] # NoOne
  BY <1>0 DEF CompaniesAndBounds
<1>3. e \in DOMAIN expenses'
  BY <1>q, CommitOf
<1>4. CASE e # q.exp
  <2>1. e \in DOMAIN receipts /\ expenses'[e] = expenses[e]
    BY <1>q, <1>3, <1>4, CommitOf
  <2> QED BY <2>1 DEF CompaniesAndBounds
<1>5. CASE e = q.exp /\ q.key = <<>>
  <2>1. e \in DOMAIN receipts /\ expenses'[e] = expenses[e]
    BY <1>q, <1>1, <1>3, <1>5, CommitOf
  <2> QED BY <2>1 DEF CompaniesAndBounds
<1>6. CASE e = q.exp /\ q.key # <<>>
  <2>1. expenses'[e] = {q.company}
    BY <1>q, <1>1, <1>6, CommitOf
  <2> QED BY <2>1 DEF NoOne
<1> QED BY <1>4, <1>5, <1>6

(* Rows and objects are what the code stores, for any requests and failures:  *)
(* a receipt hangs off an expense that is there and has a company, and no two *)
(* rows name one object (ExpenseReceipt.expense_id, build_storage_key).       *)
THEOREM LedgerTypesAlways == LedgerSpec => []LedgerTypeOK
<1>1. LedgerInit => CompaniesAndBounds
  BY LedgerBoundsAssumption DEF LedgerInit, CompaniesAndBounds, NoOne
<1>2. LedgerInv /\ CompaniesAndBounds /\ [LedgerNext]_ledgerVars => CompaniesAndBounds'
  <2> SUFFICES ASSUME LedgerInv, CompaniesAndBounds, [LedgerNext]_ledgerVars
               PROVE  CompaniesAndBounds'
    OBVIOUS
  <2>0. ids \in Nat /\ keys \in Nat
    BY DEF LedgerInv, LedgerShapes
  <2>1. CASE UNCHANGED ledgerVars
    BY <2>1 DEF ledgerVars, CompaniesAndBounds
  <2>2. ASSUME NEW t \in Threads, Commit(t) PROVE CompaniesAndBounds'
    BY <2>2, CommitKeepsCompanies
  <2>3. ASSUME NEW t \in Threads, NEW c \in Companies, NEW form \in Forms, ExpenseAdd(t, c, form)
        PROVE  CompaniesAndBounds'
    BY <2>3, RecordKeepsCompanies DEF ExpenseAdd
  <2>4. ASSUME NEW t \in Threads, NEW company, NEW run, NEW form \in Forms,
               AddExpense(t, company, run, form)
        PROVE  CompaniesAndBounds'
    BY <2>4, RecordKeepsCompanies DEF AddExpense
  <2>5. ASSUME NEW t \in Threads, NEW c \in Companies, NEW form \in Forms, NEW file \in Uploads,
               \/ AddWithReceipt(t, c, form, file)
               \/ \E e \in DOMAIN expenses : EditWithReceipt(t, c, e, form, file)
        PROVE  CompaniesAndBounds'
    <3>1. /\ UNCHANGED <<expenses, receipts>> /\ keys < MaxKeys /\ keys' = keys + 1
          /\ ids' = ids \/ (ids < MaxExpenses /\ ids' = ids + 1)
      BY <2>5 DEF AddWithReceipt, EditWithReceipt, SaveObject, rowVars
    <3> QED BY <2>0, <3>1, LedgerBoundsAssumption DEF CompaniesAndBounds
  <2>6. ASSUME NEW t \in Threads,
               \/ \E c \in Companies, e \in DOMAIN expenses : ReceiptDelete(t, c, e) \/ ExpenseDelete(t, c, e)
               \/ LoadPrevious(t)
               \/ \E fails \in BOOLEAN : ReplacePrevious(t, fails)
               \/ Fail(t)
        PROVE  CompaniesAndBounds'
    BY <2>6 DEF ReceiptDelete, ExpenseDelete, LoadPrevious, ReplacePrevious, Fail, rowVars,
                CompaniesAndBounds
  <2> QED BY <2>1, <2>2, <2>3, <2>4, <2>5, <2>6 DEF LedgerNext
<1>3. LedgerInv /\ CompaniesAndBounds => LedgerTypeOK
  BY DEF LedgerInv, LedgerShapes, KeysHaveOneOwner, CompaniesAndBounds, LedgerTypeOK
<1> QED BY <1>1, <1>2, <1>3, LedgerInvAlways, PTL DEF LedgerSpec

-----------------------------------------------------------------------------
(* The audit page *)

(* R puts the members of S in one line.                                       *)
InLine(S, R) ==
    /\ \A x \in S : <<x, x>> \notin R
    /\ \A x, y \in S : x # y => <<x, y>> \in R \/ <<y, x>> \in R
    /\ \A x, y, z \in S : <<x, y>> \in R /\ <<y, z>> \in R => <<x, z>> \in R

Place(S, R, x) == Cardinality(Ahead(S, R, x))

(* Who is ahead has fewer ahead.                                              *)
LEMMA PlacesFollowTheLine ==
    ASSUME NEW S, IsFiniteSet(S), NEW R, InLine(S, R)
    PROVE  /\ \A x \in S : Place(S, R, x) \in 0 .. Cardinality(S) - 1
           /\ \A x, y \in S : <<x, y>> \in R => Place(S, R, x) < Place(S, R, y)
           /\ \A x, y \in S : Place(S, R, x) = Place(S, R, y) => x = y
<1>1. \A x \in S : IsFiniteSet(Ahead(S, R, x)) /\ Place(S, R, x) \in Nat
  <2> SUFFICES ASSUME NEW x \in S PROVE IsFiniteSet(Ahead(S, R, x)) /\ Place(S, R, x) \in Nat
    OBVIOUS
  <2>1. Ahead(S, R, x) \in SUBSET S
    BY DEF Ahead
  <2> QED BY <2>1, FS_Subset, FS_CardinalityType DEF Place
<1>2. ASSUME NEW T, IsFiniteSet(T), NEW U \in SUBSET T, U # T
      PROVE  Cardinality(U) < Cardinality(T)
  <2>1. Cardinality(U) <= Cardinality(T) /\ Cardinality(U) # Cardinality(T)
    BY <1>2, FS_Subset
  <2>2. Cardinality(U) \in Nat /\ Cardinality(T) \in Nat
    BY <1>2, FS_Subset, FS_CardinalityType
  <2> QED BY <2>1, <2>2
<1>3. \A x \in S : Place(S, R, x) \in 0 .. Cardinality(S) - 1
  <2> SUFFICES ASSUME NEW x \in S PROVE Place(S, R, x) \in 0 .. Cardinality(S) - 1
    OBVIOUS
  <2>1. Ahead(S, R, x) \in SUBSET S /\ x \notin Ahead(S, R, x)
    BY DEF Ahead, InLine
  <2>2. Place(S, R, x) < Cardinality(S)
    BY <1>2, <2>1 DEF Place
  <2> QED BY <1>1, <2>2, FS_CardinalityType
<1>4. ASSUME NEW x \in S, NEW y \in S, <<x, y>> \in R PROVE Place(S, R, x) < Place(S, R, y)
  <2>1. /\ Ahead(S, R, x) \in SUBSET Ahead(S, R, y)
        /\ x \in Ahead(S, R, y) /\ x \notin Ahead(S, R, x)
    BY <1>4 DEF Ahead, InLine
  <2>2. IsFiniteSet(Ahead(S, R, y)) /\ Ahead(S, R, x) # Ahead(S, R, y)
    BY <1>1, <2>1
  <2> QED BY <1>2, <2>1, <2>2 DEF Place
<1>5. \A x, y \in S : Place(S, R, x) = Place(S, R, y) => x = y
  <2> SUFFICES ASSUME NEW x \in S, NEW y \in S, Place(S, R, x) = Place(S, R, y), x # y PROVE FALSE
    OBVIOUS
  <2>1. <<x, y>> \in R \/ <<y, x>> \in R
    BY DEF InLine
  <2>2. Place(S, R, x) < Place(S, R, y) \/ Place(S, R, y) < Place(S, R, x)
    BY <1>4, <2>1
  <2> QED BY <1>1, <2>2
<1> QED BY <1>3, <1>4, <1>5

(* Every place is taken: the sorted list has each member where its place is.  *)
LEMMA OrderedIs ==
    ASSUME NEW S, IsFiniteSet(S), NEW R, InLine(S, R)
    PROVE  /\ \A n \in 1 .. Cardinality(S) :
                 Ordered(S, R)[n] \in S /\ Place(S, R, Ordered(S, R)[n]) = n - 1
           /\ \A x \in S : Ordered(S, R)[Place(S, R, x) + 1] = x
<1> DEFINE N == Cardinality(S)
           T == 0 .. N - 1
           f == [x \in S |-> Place(S, R, x)]
<1>1. N \in Nat
  BY FS_CardinalityType
<1>2. IsFiniteSet(T) /\ Cardinality(T) = N
  <2>1. N - 1 \in Int
    BY <1>1
  <2>2. IsFiniteSet(T) /\ Cardinality(T) = IF 0 > N - 1 THEN 0 ELSE N - 1 - 0 + 1
    BY <2>1, FS_Interval
  <2> HIDE DEF T
  <2> QED BY <1>1, <2>2
<1>3. f \in Injection(S, T)
  <2>1. f \in [S -> T]
    BY PlacesFollowTheLine
  <2>2. \A x, y \in S : f[x] = f[y] => x = y
    BY PlacesFollowTheLine
  <2> QED BY <2>1, <2>2 DEF Injection, IsInjective
<1>4. f \in Surjection(S, T)
  BY <1>2, <1>3, FS_Injection
<1>5. \A n \in T : \E x \in S : Place(S, R, x) = n
  <2>1. \A n \in T : \E x \in S : f[x] = n
    BY <1>4 DEF Surjection
  <2> QED BY <2>1
<1>6. \A n \in 1 .. N : Ordered(S, R)[n] \in S /\ Place(S, R, Ordered(S, R)[n]) = n - 1
  <2> SUFFICES ASSUME NEW n \in 1 .. N
               PROVE  Ordered(S, R)[n] \in S /\ Place(S, R, Ordered(S, R)[n]) = n - 1
    OBVIOUS
  <2>1. n - 1 \in T
    BY <1>1
  <2>2. \E x \in S : Place(S, R, x) = n - 1
    BY <1>5, <2>1
  <2>3. Ordered(S, R)[n] = CHOOSE x \in S : Place(S, R, x) = n - 1
    BY DEF Ordered, Place
  <2> QED BY <2>2, <2>3
<1>7. ASSUME NEW x \in S PROVE Ordered(S, R)[Place(S, R, x) + 1] = x
  <2>1. Place(S, R, x) \in T
    BY PlacesFollowTheLine
  <2>3. /\ Ordered(S, R)[Place(S, R, x) + 1] \in S
        /\ Place(S, R, Ordered(S, R)[Place(S, R, x) + 1]) = Place(S, R, x)
    <3> DEFINE n == Place(S, R, x) + 1
    <3>1. n \in 1 .. N /\ n - 1 = Place(S, R, x)
      BY <1>1, <2>1
    <3> HIDE DEF n, N
    <3>2. Ordered(S, R)[n] \in S /\ Place(S, R, Ordered(S, R)[n]) = Place(S, R, x)
      BY <1>6, <3>1
    <3> QED BY <3>2 DEF n
  <2> QED BY <2>3, PlacesFollowTheLine
<1> QED BY <1>6, <1>7

(* To see the first n of a line it is enough to line up some of it that has    *)
(* them.                                                                      *)
LEMMA FirstOfSome ==
    ASSUME NEW S, IsFiniteSet(S), NEW R, InLine(S, R), NEW n \in Nat,
           NEW Q \in SUBSET S, \A x \in S : Place(S, R, x) < n => x \in Q,
           NEW P, \A x, y \in Q : <<x, y>> \in P <=> <<x, y>> \in R
    PROVE  /\ Cardinality(Q) \in Nat /\ Cardinality(S) \in Nat
           /\ Cardinality(Q) <= Cardinality(S)
           /\ \A m \in 1 .. Cardinality(S) : m <= n =>
                 m <= Cardinality(Q) /\ Ordered(Q, P)[m] = Ordered(S, R)[m]
<1>1. /\ IsFiniteSet(Q) /\ Cardinality(Q) \in Nat /\ Cardinality(S) \in Nat
      /\ Cardinality(Q) <= Cardinality(S)
  BY FS_Subset, FS_CardinalityType
<1>2. InLine(Q, P)
  BY DEF InLine
<1>3. ASSUME NEW m \in 1 .. Cardinality(S), m <= n
      PROVE  m <= Cardinality(Q) /\ Ordered(Q, P)[m] = Ordered(S, R)[m]
  <2> DEFINE x == Ordered(S, R)[m]
  <2>1. x \in S /\ Place(S, R, x) = m - 1
    BY OrderedIs
  <2> HIDE DEF x
  <2>2. x \in Q /\ m \in Nat
    BY <1>1, <1>3, <2>1
  <2>3. Ahead(Q, P, x) = Ahead(S, R, x)
    <3>1. ASSUME NEW y \in S, <<y, x>> \in R PROVE y \in Q
      <4>1. Place(S, R, y) < m - 1 /\ Place(S, R, y) \in 0 .. Cardinality(S) - 1
        BY <2>1, <3>1, PlacesFollowTheLine
      <4> QED BY <1>1, <1>3, <4>1
    <3> QED BY <2>2, <3>1 DEF Ahead
  <2>4. Place(Q, P, x) = m - 1
    BY <2>1, <2>3 DEF Place
  <2>5. Place(Q, P, x) \in 0 .. Cardinality(Q) - 1 /\ Ordered(Q, P)[Place(Q, P, x) + 1] = x
    BY <1>1, <1>2, <2>2, PlacesFollowTheLine, OrderedIs
  <2>6. m - 1 + 1 = m /\ m <= Cardinality(Q)
    BY <1>1, <2>2, <2>4, <2>5
  <2>7. Ordered(Q, P)[m] = x
    BY <2>4, <2>5, <2>6
  <2> QED BY <2>6, <2>7 DEF x
<1> QED BY <1>1, <1>3

(* Numbers and times are ones that were given; no two expenses were entered   *)
(* at one instant.                                                            *)
TrailInv ==
    /\ now \in Nat /\ recorded \in Nat /\ trail \subseteq 0 .. now
    /\ DOMAIN spend \subseteq 1 .. recorded
    /\ \A e \in DOMAIN spend : spend[e].date \in Int /\ spend[e].created \in trail
    /\ \A d, e \in DOMAIN spend : spend[d].created = spend[e].created => d = e

LEMMA TrailInvAlways == TrailSpec => []TrailInv
<1>1. TrailInit => TrailInv
  BY DEF TrailInit, TrailInv
<1>2. TrailInv /\ [TrailNext]_trailVars => TrailInv'
  <2> SUFFICES ASSUME TrailInv, [TrailNext]_trailVars PROVE TrailInv'
    OBVIOUS
  <2>1. CASE UNCHANGED trailVars
    BY <2>1 DEF trailVars, TrailInv
  <2>2. ASSUME NEW date \in Days, NEW operator \in BOOLEAN, Record(operator, date) PROVE TrailInv'
    <3>1. /\ recorded' = recorded + 1 /\ now' = now /\ now \notin trail /\ trail' = trail \cup {now}
          /\ DOMAIN spend' = DOMAIN spend \cup {recorded + 1}
          /\ spend'[recorded + 1] = [date |-> date, created |-> now]
          /\ \A e \in DOMAIN spend \ {recorded + 1} : spend'[e] = spend[e]
      BY <2>2 DEF Record, RecordAudit
    <3>2. date \in Int /\ recorded + 1 \notin DOMAIN spend
      BY DEF Days, TrailInv
    <3>3. /\ recorded' \in Nat /\ DOMAIN spend' \subseteq 1 .. recorded' /\ trail' \subseteq 0 .. now'
      <4>1. recorded \in Nat /\ 1 .. recorded \subseteq 1 .. recorded + 1 /\ recorded + 1 \in 1 .. recorded + 1
        BY DEF TrailInv
      <4>2. now \in 0 .. now
        BY DEF TrailInv
      <4>3. DOMAIN spend' \subseteq 1 .. recorded'
        BY <3>1, <4>1 DEF TrailInv
      <4>4. trail' \subseteq 0 .. now'
        BY <3>1, <4>2 DEF TrailInv
      <4> QED BY <3>1, <4>1, <4>3, <4>4
    <3>4. \A e \in DOMAIN spend' : spend'[e].date \in Int /\ spend'[e].created \in trail'
      BY <3>1, <3>2 DEF TrailInv
    <3>5. \A d, e \in DOMAIN spend' : spend'[d].created = spend'[e].created => d = e
      BY <3>1, <3>2 DEF TrailInv
    <3> QED BY <3>1, <3>3, <3>4, <3>5 DEF TrailInv
  <2>3. ASSUME NEW date \in Days, NEW e \in DOMAIN spend, Redate(e, date) PROVE TrailInv'
    <3>1. /\ recorded' = recorded /\ now' = now /\ trail' = trail \cup {now}
          /\ DOMAIN spend' = DOMAIN spend
          /\ \A d \in DOMAIN spend :
                spend'[d].created = spend[d].created /\ spend'[d].date \in {date, spend[d].date}
      <4>1. spend' = [spend EXCEPT ![e].date = date]
        BY <2>3 DEF Redate
      <4>2. \A d \in DOMAIN spend :
                spend'[d] = IF d = e THEN [spend[d] EXCEPT !.date = date] ELSE spend[d]
        BY <4>1
      <4>3. spend[e].date \in Int
        BY DEF TrailInv
      <4> QED BY <2>3, <4>1, <4>2 DEF Redate, RecordAudit
    <3>2. date \in Int
      BY DEF Days
    <3> QED BY <3>1, <3>2 DEF TrailInv
  <2>4. ASSUME NEW e \in DOMAIN spend, Withdraw(e) PROVE TrailInv'
    BY <2>4 DEF Withdraw, RecordAudit, TrailInv
  <2>5. CASE Elsewhere
    BY <2>5 DEF Elsewhere, RecordAudit, TrailInv
  <2>6. CASE Pass
    BY <2>6 DEF Pass, TrailInv
  <2> QED BY <2>1, <2>2, <2>3, <2>4, <2>5, <2>6 DEF TrailNext
<1> QED BY <1>1, <1>2, PTL DEF TrailSpec

(* What the rows of the page are, and when one comes before another.           *)
LEMMA TrailRowIs ==
    ASSUME NEW kind, NEW r \in TrailRows(kind)
    PROVE  \/ r.kind = "action" /\ r.id \in trail /\ kind # "expenses" /\ r = Entry(r.id) /\ r.at = r.id
           \/ /\ r.kind = "expense" /\ r.id \in DOMAIN spend /\ kind # "actions"
              /\ r = ExpenseRow(r.id)
              /\ r.at = (2 * spend[r.id].date) + TimeOfDay(spend[r.id].created)
BY DEF TrailRows, Entry, ExpenseRow

LEMMA AheadIs ==
    ASSUME NEW rows, NEW r \in rows, NEW s \in rows
    PROVE  <<r, s>> \in NewestFirst(rows) <=>
              \/ r.at > s.at
              \/ r.at = s.at /\ s.kind = "expense" /\ (r.kind = "action" \/ <<r.id, s.id>> \in ByDate)
<1>1. <<r, s>> \in rows \X rows /\ <<r, s>>[1] = r /\ <<r, s>>[2] = s
  OBVIOUS
<1> QED BY <1>1 DEF NewestFirst

LEMMA DatedIs ==
    ASSUME NEW d \in DOMAIN spend, NEW e \in DOMAIN spend
    PROVE  <<d, e>> \in ByDate <=>
              \/ spend[d].date > spend[e].date
              \/ spend[d].date = spend[e].date /\ spend[d].created > spend[e].created
<1>1. /\ <<d, e>> \in (DOMAIN spend) \X (DOMAIN spend)
      /\ <<d, e>>[1] = d /\ <<d, e>>[2] = e
  OBVIOUS
<1> QED BY <1>1 DEF ByDate

LEMMA SpendIsTimed ==
    ASSUME TrailInv, NEW e \in DOMAIN spend
    PROVE  /\ spend[e].date \in Int /\ spend[e].created \in Nat
           /\ TimeOfDay(spend[e].created) \in {0, 1}
<1>1. 0 .. now \subseteq Nat
  BY DEF TrailInv
<1>2. spend[e].date \in Int /\ spend[e].created \in Nat
  BY <1>1 DEF TrailInv
<1> QED BY <1>2 DEF TimeOfDay

LEMMA EntriesInLine == ASSUME TrailInv PROVE InLine(trail, Entries)
<1>1. ASSUME NEW s \in trail, NEW t \in trail PROVE <<s, t>> \in Entries <=> s > t
  <2>1. <<s, t>> \in trail \X trail /\ <<s, t>>[1] = s /\ <<s, t>>[2] = t
    OBVIOUS
  <2> QED BY <2>1 DEF Entries
<1>2. \A s \in trail : s \in Int
  BY DEF TrailInv
<1> QED BY <1>1, <1>2 DEF InLine

LEMMA SpendInLine == ASSUME TrailInv PROVE InLine(DOMAIN spend, ByDate)
<1>1. \A e \in DOMAIN spend : spend[e].date \in Int /\ spend[e].created \in Int
  BY SpendIsTimed
<1>2. \A d, e \in DOMAIN spend : d # e => spend[d].created # spend[e].created
  BY DEF TrailInv
<1> QED BY <1>1, <1>2, DatedIs DEF InLine

(* Who is ahead is not older.                                                 *)
LEMMA AheadIsNotOlder ==
    ASSUME TrailInv, NEW kind, NEW r \in TrailRows(kind), NEW s \in TrailRows(kind),
           <<r, s>> \in NewestFirst(TrailRows(kind))
    PROVE  r.at >= s.at
<1>1. ASSUME NEW v \in TrailRows(kind) PROVE v.at \in Int
  <2>1. \A t \in trail : t \in Int
    BY DEF TrailInv
  <2> QED BY <2>1, TrailRowIs, SpendIsTimed
<1>2. r.at \in Int /\ s.at \in Int
  BY <1>1
<1>3. <<r, s>> \in NewestFirst(TrailRows(kind)) <=>
        \/ r.at > s.at
        \/ r.at = s.at /\ s.kind = "expense" /\ (r.kind = "action" \/ <<r.id, s.id>> \in ByDate)
  BY AheadIs, Zenon
<1> QED BY <1>2, <1>3

LEMMA RowsInLine ==
    ASSUME TrailInv, NEW kind
    PROVE  InLine(TrailRows(kind), NewestFirst(TrailRows(kind)))
<1> DEFINE rows == TrailRows(kind)
<1>1. ASSUME NEW r \in rows
      PROVE  /\ r.at \in Int /\ r.kind \in {"action", "expense"}
             /\ r.kind = "action" => r.id = r.at
             /\ r.kind = "expense" => r.id \in DOMAIN spend
             /\ <<r, r>> \notin NewestFirst(rows)
  <2>1. r.at \in Int /\ r.kind \in {"action", "expense"} /\ (r.kind = "action" => r.id = r.at)
    <3>1. ASSUME NEW t \in trail PROVE t \in Int
      BY DEF TrailInv
    <3>2. CASE r.kind = "action" /\ r.id \in trail /\ r.at = r.id
      BY <3>1, <3>2
    <3>3. CASE /\ r.kind = "expense" /\ r.id \in DOMAIN spend
               /\ r.at = (2 * spend[r.id].date) + TimeOfDay(spend[r.id].created)
      BY <3>3, SpendIsTimed
    <3> QED BY <3>2, <3>3, TrailRowIs
  <2>2. r.kind = "expense" => r.id \in DOMAIN spend
    BY TrailRowIs
  <2>3. r.kind = "expense" => <<r.id, r.id>> \notin ByDate
    BY <2>2, SpendInLine DEF InLine
  <2> QED BY <2>1, <2>2, <2>3, AheadIs
<1>2. ASSUME NEW r \in rows, NEW s \in rows, r # s
      PROVE  <<r, s>> \in NewestFirst(rows) \/ <<s, r>> \in NewestFirst(rows)
  <2>1. r.kind = "action" /\ s.kind = "action" => r.at # s.at
    BY <1>2, TrailRowIs DEF Entry
  <2>2. r.kind = "expense" /\ s.kind = "expense" => <<r.id, s.id>> \in ByDate \/ <<s.id, r.id>> \in ByDate
    <3>1. r.kind = "expense" /\ s.kind = "expense" => r.id # s.id
      BY <1>2, TrailRowIs
    <3> QED BY <1>1, <3>1, SpendInLine DEF InLine
  <2>3. r.at \in Int /\ s.at \in Int /\ r.kind \in {"action", "expense"} /\ s.kind \in {"action", "expense"}
    BY <1>1
  <2>4. r.at > s.at \/ s.at > r.at \/ r.at = s.at
    BY <2>3
  <2> HIDE DEF rows
  <2> QED BY <2>1, <2>2, <2>3, <2>4, AheadIs
<1>3. ASSUME NEW r \in rows, NEW s \in rows, NEW u \in rows,
             <<r, s>> \in NewestFirst(rows), <<s, u>> \in NewestFirst(rows)
      PROVE  <<r, u>> \in NewestFirst(rows)
  <2>1. /\ r.at \in Int /\ s.at \in Int /\ u.at \in Int
        /\ r.at >= s.at /\ s.at >= u.at
    BY <1>1, <1>3, AheadIsNotOlder
  <2>2. CASE r.at > u.at
    BY <2>2, AheadIs
  <2>3. CASE r.at = s.at /\ s.at = u.at
    <3>1. /\ s.kind = "expense" /\ u.kind = "expense"
          /\ r.kind = "action" \/ <<r.id, s.id>> \in ByDate
          /\ <<s.id, u.id>> \in ByDate
      BY <1>1, <1>3, <2>1, <2>3, AheadIs
    <3>2. r.kind = "expense" => <<r.id, u.id>> \in ByDate
      <4>1. s.id \in DOMAIN spend /\ u.id \in DOMAIN spend /\ (r.kind = "expense" => r.id \in DOMAIN spend)
        BY <1>1, <3>1
      <4>2. r.kind = "expense" => <<r.id, s.id>> \in ByDate
        BY <3>1
      <4> QED BY <3>1, <4>1, <4>2, SpendInLine DEF InLine
    <3> QED BY <1>1, <2>3, <3>1, <3>2, AheadIs
  <2> QED BY <2>1, <2>2, <2>3
<1> QED BY <1>1, <1>2, <1>3 DEF InLine

(* The two tables together are what there is to show.                         *)
LEMMA RowsAreCounted ==
    ASSUME TrailInv, NEW kind
    PROVE  IsFiniteSet(TrailRows(kind)) /\ Cardinality(TrailRows(kind)) = TrailTotal(kind)
<1> DEFINE acts == {Entry(time) : time \in trail}
           costs == {ExpenseRow(e) : e \in DOMAIN spend}
           f == [time \in trail |-> Entry(time)]
           g == [e \in DOMAIN spend |-> ExpenseRow(e)]
<1>1. IsFiniteSet(trail) /\ IsFiniteSet(DOMAIN spend)
  <2>1. IsFiniteSet(0 .. now) /\ IsFiniteSet(1 .. recorded)
    BY FS_Interval DEF TrailInv
  <2> QED BY <2>1, FS_Subset DEF TrailInv
<1>2. IsFiniteSet(acts) /\ Cardinality(acts) = Cardinality(trail)
  <2>1. f \in Bijection(trail, acts)
    BY DEF Bijection, Injection, Surjection, IsInjective, Entry
  <2> QED BY <1>1, <2>1, FS_Bijection DEF ExistsBijection
<1>3. IsFiniteSet(costs) /\ Cardinality(costs) = Cardinality(DOMAIN spend)
  <2>1. \A d, e \in DOMAIN spend : ExpenseRow(d) = ExpenseRow(e) => d = e
    BY DEF ExpenseRow
  <2>2. g \in Bijection(DOMAIN spend, costs)
    BY <2>1 DEF Bijection, Injection, Surjection, IsInjective
  <2> QED BY <1>1, <2>2, FS_Bijection DEF ExistsBijection
<1>4. acts \cap costs = {}
  <2>1. \A r \in acts : r.kind = "action"
    BY DEF Entry
  <2>2. \A r \in costs : r.kind = "expense"
    BY DEF ExpenseRow
  <2> QED BY <2>1, <2>2
<1>5. Cardinality(trail) \in Nat /\ Cardinality(DOMAIN spend) \in Nat
  BY <1>1, FS_CardinalityType
<1>6. IsFiniteSet({}) /\ Cardinality({}) = 0
  BY FS_EmptySet
<1> HIDE DEF acts, costs
<1>7. /\ IsFiniteSet(acts \cup costs)
      /\ Cardinality(acts \cup costs) = Cardinality(trail) + Cardinality(DOMAIN spend)
  <2>1. /\ IsFiniteSet(acts \cup costs)
        /\ Cardinality(acts \cup costs) = Cardinality(acts) + Cardinality(costs) - Cardinality(acts \cap costs)
    BY <1>2, <1>3, FS_Union
  <2>2. Cardinality(acts \cap costs) = 0
    BY <1>4, <1>6
  <2> QED BY <1>2, <1>3, <1>5, <2>1, <2>2
<1>8. TrailRows(kind) = (IF kind = "expenses" THEN {} ELSE acts) \cup (IF kind = "actions" THEN {} ELSE costs)
  BY DEF TrailRows, acts, costs
<1>9. CASE kind = "expenses"
  BY <1>3, <1>5, <1>8, <1>9 DEF TrailTotal
<1>10. CASE kind = "actions"
  BY <1>2, <1>5, <1>8, <1>10 DEF TrailTotal
<1>11. CASE kind # "expenses" /\ kind # "actions"
  BY <1>5, <1>7, <1>8, <1>11 DEF TrailTotal
<1> QED BY <1>9, <1>10, <1>11

(* Expenses of one day were entered in the order of their times of day.       *)
EnteredInOrder ==
    \A d, e \in DOMAIN spend :
       spend[d].date = spend[e].date /\ spend[d].created < spend[e].created
       => TimeOfDay(spend[d].created) <= TimeOfDay(spend[e].created)

(* Then a page has its rows: what is not fetched has a page's depth ahead.     *)
LEMMA EnoughIsFetched ==
    ASSUME TrailInv, EnteredInOrder, NEW kind, NEW n \in Nat, NEW r \in TrailRows(kind),
           Place(TrailRows(kind), NewestFirst(TrailRows(kind)), r) < n
    PROVE  \/ r.kind = "action" /\ r.id \in FetchedEntries(kind, n) /\ r = Entry(r.id)
           \/ r.kind = "expense" /\ r.id \in FetchedSpend(kind, n) /\ r = ExpenseRow(r.id)
<1> DEFINE rows == TrailRows(kind)
           ahead == Ahead(rows, NewestFirst(rows), r)
<1>1. IsFiniteSet(ahead) /\ Cardinality(ahead) \in Nat
  <2>1. ahead \in SUBSET rows
    BY DEF Ahead
  <2>2. IsFiniteSet(rows)
    BY RowsAreCounted
  <2> QED BY <2>1, <2>2, FS_Subset, FS_CardinalityType
<1>2. Cardinality(ahead) < n
  BY DEF Place
<1>3. CASE r.kind = "action"
  <2> DEFINE before == Ahead(trail, Entries, r.id)
             f == [time \in before |-> Entry(time)]
  <2>1. r.id \in trail /\ kind # "expenses" /\ r = Entry(r.id) /\ r.at = r.id
    BY <1>3, TrailRowIs
  <2>2. ASSUME NEW time \in before PROVE Entry(time) \in ahead
    <3>1. time \in trail /\ time > r.id
      <4>1. <<time, r.id>>[1] = time /\ <<time, r.id>>[2] = r.id
        OBVIOUS
      <4> QED BY <2>2, <4>1 DEF Ahead, Entries
    <3>2. Entry(time) \in rows /\ Entry(time).at = time
      BY <2>1, <3>1 DEF TrailRows, Entry
    <3>3. <<Entry(time), r>> \in NewestFirst(rows)
      BY <2>1, <3>1, <3>2, AheadIs
    <3> QED BY <3>2, <3>3 DEF Ahead
  <2>3. f \in Injection(before, ahead)
    <3> HIDE DEF ahead, before
    <3>1. f \in [before -> ahead]
      BY <2>2
    <3>2. \A s, t \in before : f[s] = f[t] => s = t
      BY DEF Entry
    <3> QED BY <3>1, <3>2 DEF Injection, IsInjective
  <2>4. Cardinality(before) <= Cardinality(ahead) /\ Cardinality(before) \in Nat
    <3> HIDE DEF ahead, before, f
    <3> QED BY <1>1, <2>3, FS_Injection, FS_CardinalityType
  <2>5. Cardinality(before) < n
    <3> HIDE DEF ahead, before
    <3> QED BY <1>1, <1>2, <2>4
  <2> QED BY <1>3, <2>1, <2>5 DEF FetchedEntries, FirstOf
<1>4. CASE r.kind = "expense"
  <2> DEFINE before == Ahead(DOMAIN spend, ByDate, r.id)
             f == [e \in before |-> ExpenseRow(e)]
  <2>1. r.id \in DOMAIN spend /\ kind # "actions" /\ r = ExpenseRow(r.id)
    BY <1>4, TrailRowIs
  <2>2. ASSUME NEW e \in before PROVE ExpenseRow(e) \in ahead
    <3>1. e \in DOMAIN spend /\ <<e, r.id>> \in ByDate
      BY <2>2 DEF Ahead
    <3>2. /\ ExpenseRow(e) \in rows /\ ExpenseRow(e).kind = "expense" /\ ExpenseRow(e).id = e
          /\ ExpenseRow(e).at = (2 * spend[e].date) + TimeOfDay(spend[e].created)
      BY <2>1, <3>1 DEF TrailRows, ExpenseRow
    <3>3. r.at = (2 * spend[r.id].date) + TimeOfDay(spend[r.id].created)
      BY <1>4, TrailRowIs
    <3>4. /\ spend[e].date \in Int /\ spend[r.id].date \in Int
          /\ spend[e].created \in Nat /\ spend[r.id].created \in Nat
          /\ TimeOfDay(spend[e].created) \in {0, 1} /\ TimeOfDay(spend[r.id].created) \in {0, 1}
      BY <2>1, <3>1, SpendIsTimed
    <3>5. CASE spend[e].date > spend[r.id].date
      <4>1. ExpenseRow(e).at > r.at
        BY <3>2, <3>3, <3>4, <3>5
      <4>2. <<ExpenseRow(e), r>> \in NewestFirst(rows)
        BY <3>2, <4>1, AheadIs
      <4> QED BY <3>2, <4>2 DEF Ahead
    <3>6. CASE spend[e].date = spend[r.id].date /\ spend[e].created > spend[r.id].created
      <4>1. TimeOfDay(spend[e].created) >= TimeOfDay(spend[r.id].created)
        BY <2>1, <3>1, <3>4, <3>6 DEF EnteredInOrder
      <4>2. ExpenseRow(e).at > r.at \/ ExpenseRow(e).at = r.at
        BY <3>2, <3>3, <3>4, <3>6, <4>1
      <4>3. <<ExpenseRow(e), r>> \in NewestFirst(rows)
        BY <1>4, <3>1, <3>2, <4>2, AheadIs
      <4> QED BY <3>2, <4>3 DEF Ahead
    <3> QED BY <2>1, <3>1, <3>5, <3>6, DatedIs
  <2>3. f \in Injection(before, ahead)
    <3> HIDE DEF ahead, before
    <3>1. f \in [before -> ahead]
      BY <2>2
    <3>2. \A d, e \in before : f[d] = f[e] => d = e
      <4>1. \A d, e \in before : ExpenseRow(d) = ExpenseRow(e) => d = e
        BY DEF ExpenseRow
      <4> QED BY <4>1
    <3> QED BY <3>1, <3>2 DEF Injection, IsInjective
  <2>4. Cardinality(before) <= Cardinality(ahead) /\ Cardinality(before) \in Nat
    <3> HIDE DEF ahead, before, f
    <3> QED BY <1>1, <2>3, FS_Injection, FS_CardinalityType
  <2>5. Cardinality(before) < n
    <3> HIDE DEF ahead, before
    <3> QED BY <1>1, <1>2, <2>4
  <2> QED BY <1>4, <2>1, <2>5 DEF FetchedSpend, FirstOf
<1> QED BY <1>3, <1>4, TrailRowIs

(* The arithmetic of pages: a place is on one page, and the pages end where    *)
(* the rows do.                                                               *)
LEMMA PlaceOnPage ==
    ASSUME NEW size \in Nat \ {0}, NEW k \in Nat, NEW total \in Nat, k < total
    PROVE  \E p \in 1 .. (total + size - 1) \div size, i \in 1 .. size : k + 1 = (p - 1) * size + i
<1> DEFINE q == k \div size
           m == k % size
           last == (total + size - 1) \div size
<1>1. q \in Nat /\ m \in 0 .. size - 1 /\ k = q * size + m
  OBVIOUS
<1>2. /\ last \in Nat
      /\ total + size - 1 - last * size \in 0 .. size - 1
  OBVIOUS
<1> HIDE DEF q, m, last
<1>3. q < last
  <2> SUFFICES ASSUME last <= q PROVE FALSE
    BY <1>1, <1>2
  <2>1. last * size <= q * size
    BY <1>1, <1>2
  <2> QED BY <1>1, <1>2, <2>1
<1>4. q + 1 \in 1 .. last /\ m + 1 \in 1 .. size /\ k + 1 = ((q + 1) - 1) * size + (m + 1)
  BY <1>1, <1>2, <1>3
<1> QED BY <1>4 DEF last

LEMMA PagesAreWithin ==
    ASSUME NEW size \in Nat \ {0}, NEW total \in Nat, NEW p \in 1 .. (total + size - 1) \div size
    PROVE  /\ (p - 1) * size \in Nat /\ p * size = (p - 1) * size + size
           /\ (p - 1) * size < total
<1> DEFINE last == (total + size - 1) \div size
<1>1. last \in Nat /\ last * size <= total + size - 1
  OBVIOUS
<1> HIDE DEF last
<1>2. p \in 1 .. last
  BY DEF last
<1>3. p * size <= last * size
  BY <1>1, <1>2
<1>4. (p - 1) * size \in Nat /\ p * size = (p - 1) * size + size
  BY <1>1, <1>2
<1>5. p * size \in Nat /\ last * size \in Nat
  BY <1>1, <1>2
<1> QED BY <1>1, <1>3, <1>4, <1>5

(* All rows, newest first: what the pages are cut from.                        *)
Whole(kind) == Ordered(TrailRows(kind), NewestFirst(TrailRows(kind)))

LEMMA WholeIs ==
    ASSUME TrailInv, NEW kind
    PROVE  /\ TrailTotal(kind) \in Nat
           /\ \A m \in 1 .. TrailTotal(kind) : Whole(kind)[m] \in TrailRows(kind)
           /\ \A r \in TrailRows(kind) : \E k \in Nat : k < TrailTotal(kind) /\ Whole(kind)[k + 1] = r
           /\ \A m, n \in 1 .. TrailTotal(kind) : m < n =>
                 Whole(kind)[m] # Whole(kind)[n] /\ Whole(kind)[m].at >= Whole(kind)[n].at
<1> DEFINE rows == TrailRows(kind)
           R == NewestFirst(rows)
           N == TrailTotal(kind)
<1>1. IsFiniteSet(rows) /\ Cardinality(rows) = N /\ N \in Nat
  BY RowsAreCounted, FS_CardinalityType
<1>2. InLine(rows, R)
  BY RowsInLine
<1>3. \A r, s \in rows : <<r, s>> \in R => r.at >= s.at
  BY AheadIsNotOlder
<1>4. Whole(kind) = Ordered(rows, R)
  BY DEF Whole
<1> HIDE DEF rows, R, N
<1>5. /\ \A m \in 1 .. N : Whole(kind)[m] \in rows /\ Place(rows, R, Whole(kind)[m]) = m - 1
      /\ \A r \in rows : Whole(kind)[Place(rows, R, r) + 1] = r
      /\ \A r \in rows : Place(rows, R, r) \in 0 .. N - 1
  BY <1>1, <1>2, <1>4, OrderedIs, PlacesFollowTheLine
<1>6. ASSUME NEW r \in rows PROVE \E k \in Nat : k < N /\ Whole(kind)[k + 1] = r
  <2>1. Place(rows, R, r) \in Nat /\ Place(rows, R, r) < N
    BY <1>1, <1>5
  <2> QED BY <1>5, <2>1
<1>7. ASSUME NEW m \in 1 .. N, NEW n \in 1 .. N, m < n
      PROVE  Whole(kind)[m] # Whole(kind)[n] /\ Whole(kind)[m].at >= Whole(kind)[n].at
  <2> DEFINE r == Whole(kind)[m]
             s == Whole(kind)[n]
  <2>1. r \in rows /\ s \in rows /\ Place(rows, R, r) = m - 1 /\ Place(rows, R, s) = n - 1
    BY <1>5
  <2> HIDE DEF r, s
  <2>2. r # s /\ ~(Place(rows, R, s) < Place(rows, R, r))
    BY <1>1, <1>7, <2>1
  <2>3. <<r, s>> \in R
    BY <1>1, <1>2, <2>1, <2>2, PlacesFollowTheLine DEF InLine
  <2> QED BY <1>3, <2>1, <2>2, <2>3 DEF r, s
<1> QED BY <1>1, <1>5, <1>6, <1>7 DEF rows, N

(* A page is its piece of the whole, although it is cut from a part.           *)
LEMMA PageIs ==
    ASSUME TrailInv, EnteredInOrder, NEW kind, NEW page \in 1 .. TrailPages(kind),
           NEW start, start = (page - 1) * AUDIT_PER_PAGE
    PROVE  /\ start \in Nat
           /\ \A i : i \in DOMAIN AuditPage(kind, page) <=>
                 i \in 1 .. AUDIT_PER_PAGE /\ start + i <= TrailTotal(kind)
           /\ \A i \in DOMAIN AuditPage(kind, page) : AuditPage(kind, page)[i] = Whole(kind)[start + i]
<1> DEFINE size == AUDIT_PER_PAGE
           depth == page * AUDIT_PER_PAGE
           N == TrailTotal(kind)
           rows == TrailRows(kind)
           R == NewestFirst(rows)
           acts == FetchedEntries(kind, depth)
           costs == FetchedSpend(kind, depth)
           Q == {Entry(time) : time \in acts} \cup {ExpenseRow(e) : e \in costs}
           list == Ordered(Q, NewestFirst(Q))
<1>1. N \in Nat /\ size \in Nat \ {0}
  BY WholeIs, PerPageAssumption
<1>2. start \in Nat /\ depth = start + size /\ start < N /\ depth \in Nat
  <2>1. page \in 1 .. (N + size - 1) \div size
    BY DEF TrailPages
  <2>2. start \in Nat /\ depth = start + size /\ start < N
    <3> HIDE DEF N
    <3> QED BY <1>1, <2>1, PagesAreWithin
  <2> QED BY <1>1, <2>2
<1>3. IsFiniteSet(rows) /\ Cardinality(rows) = N /\ InLine(rows, R)
  BY RowsAreCounted, RowsInLine
<1>4. Q \in SUBSET rows
  BY DEF FetchedEntries, FetchedSpend, FirstOf, TrailRows
<1>5. \A r \in rows : Place(rows, R, r) < depth => r \in Q
  <2> SUFFICES ASSUME NEW r \in rows, Place(rows, R, r) < depth PROVE r \in Q
    OBVIOUS
  <2>1. \/ r.id \in acts /\ r = Entry(r.id)
        \/ r.id \in costs /\ r = ExpenseRow(r.id)
    BY <1>2, EnoughIsFetched
  <2> QED BY <2>1
<1>6. \A r, s \in Q : <<r, s>> \in NewestFirst(Q) <=> <<r, s>> \in R
  <2> SUFFICES ASSUME NEW r \in Q, NEW s \in Q PROVE <<r, s>> \in NewestFirst(Q) <=> <<r, s>> \in R
    OBVIOUS
  <2>1. r \in rows /\ s \in rows
    BY <1>4
  <2> HIDE DEF Q, rows
  <2> QED BY <2>1, AheadIs, Zenon DEF R
<1>7. AuditPage(kind, page) = SubSeq(list, start + 1, IF depth < Len(list) THEN depth ELSE Len(list))
  BY DEF AuditPage, BuildAuditRows
<1>8. Whole(kind) = Ordered(rows, R)
  BY DEF Whole
<1> HIDE DEF N, rows, R, Q, acts, costs
<1>9. /\ Cardinality(Q) \in Nat /\ Cardinality(Q) <= N
      /\ \A m \in 1 .. N : m <= depth => m <= Cardinality(Q) /\ list[m] = Whole(kind)[m]
  <2> HIDE DEF depth
  <2> QED BY <1>2, <1>3, <1>4, <1>5, <1>6, <1>8, FirstOfSome
<1>10. Len(list) = Cardinality(Q)
  <2>1. list = [n \in 1 .. Cardinality(Q) |-> list[n]]
    BY DEF Ordered
  <2>2. list \in [1 .. Cardinality(Q) -> {list[n] : n \in 1 .. Cardinality(Q)}]
    BY <2>1
  <2> HIDE DEF list
  <2>3. list \in Seq({list[n] : n \in 1 .. Cardinality(Q)})
    BY <1>9, <2>2
  <2>4. DOMAIN list = 1 .. Len(list) /\ DOMAIN list = 1 .. Cardinality(Q) /\ Len(list) \in Nat
    BY <2>2, <2>3
  <2> QED BY <1>9, <2>4
<1> HIDE DEF list, depth, size
<1>11. PICK end : end = IF depth < Len(list) THEN depth ELSE Len(list)
  OBVIOUS
<1>12. end \in Nat /\ end = (IF depth < N THEN depth ELSE N) /\ start + 1 <= end
  <2>1. CASE depth < N
    <3>1. depth \in 1 .. N
      BY <1>1, <1>2, <2>1
    <3>2. depth <= Cardinality(Q)
      BY <1>2, <1>9, <3>1
    <3> QED BY <1>1, <1>2, <1>9, <1>10, <1>11, <2>1, <3>2
  <2>2. CASE ~(depth < N)
    <3>1. N \in 1 .. N /\ N <= depth
      BY <1>1, <1>2, <2>2
    <3>2. N <= Cardinality(Q)
      BY <1>9, <3>1
    <3> QED BY <1>1, <1>2, <1>9, <1>10, <1>11, <2>2, <3>2
  <2> QED BY <2>1, <2>2
<1>13. \A i \in start + 1 .. end : list[i] = Whole(kind)[i]
  <2>1. \A i \in start + 1 .. end : i \in 1 .. N /\ i <= depth
    BY <1>1, <1>2, <1>12
  <2> QED BY <1>9, <2>1
<1>14. /\ Len(AuditPage(kind, page)) = end - start
       /\ DOMAIN AuditPage(kind, page) = 1 .. end - start
       /\ \A i \in 1 .. end - start : AuditPage(kind, page)[i] = list[start + i]
  <2> DEFINE V == {list[n] : n \in start + 1 .. end}
             part == SubSeq(list, start + 1, end)
  <2>1. AuditPage(kind, page) = part
    BY <1>7, <1>11
  <2>2. start + 1 \in Int /\ end \in Int /\ \A i \in start + 1 .. end : list[i] \in V
    BY <1>2, <1>12
  <2> HIDE DEF V
  <2>3. /\ part \in Seq(V)
        /\ Len(part) = IF start + 1 <= end THEN end - (start + 1) + 1 ELSE 0
        /\ \A i \in 1 .. end - (start + 1) + 1 : part[i] = list[start + 1 + i - 1]
    BY <2>2, SubSeqProperties
  <2> HIDE DEF part
  <2>4. Len(part) = end - start /\ end - (start + 1) + 1 = end - start
    BY <1>2, <1>12, <2>3
  <2>5. DOMAIN part = 1 .. end - start
    BY <2>3, <2>4
  <2>6. \A i \in 1 .. end - start : start + 1 + i - 1 = start + i
    BY <1>2, <1>12
  <2>7. \A i \in 1 .. end - start : part[i] = list[start + i]
    BY <2>3, <2>4, <2>6
  <2> QED BY <2>1, <2>4, <2>5, <2>7
<1>15. ASSUME NEW i PROVE i \in 1 .. end - start <=> i \in 1 .. size /\ start + i <= N
  BY <1>1, <1>2, <1>12
<1>16. ASSUME NEW i \in 1 .. end - start PROVE list[start + i] = Whole(kind)[start + i]
  <2>1. start + i \in start + 1 .. end
    BY <1>2, <1>12
  <2> QED BY <1>13, <2>1
<1> QED BY <1>2, <1>14, <1>15, <1>16 DEF N, size

(* The pages of the audit trail together show every row once and newest       *)
(* first, for any page size, any number of rows and any dates, under the      *)
(* condition PagedExactly names (audit.audit_trail, build_audit_rows).        *)
THEOREM PagedExactlyAlways == TrailSpec => []PagedExactly
<1>1. TrailInv => PagedExactly
  <2> SUFFICES ASSUME TrailInv, EnteredInOrder, NEW kind \in {"all", "actions", "expenses"}
               PROVE  LET pages == [page \in 1 .. TrailPages(kind) |-> AuditPage(kind, page)]
                      IN /\ \A row \in TrailRows(kind) :
                               \E p \in DOMAIN pages : \E i \in DOMAIN pages[p] : pages[p][i] = row
                         /\ \A p, q \in DOMAIN pages : \A i \in DOMAIN pages[p], j \in DOMAIN pages[q] :
                               p < q \/ (p = q /\ i < j) =>
                                  pages[p][i] # pages[q][j] /\ pages[p][i].at >= pages[q][j].at
    BY DEF PagedExactly, EnteredInOrder
  <2> DEFINE pages == [page \in 1 .. TrailPages(kind) |-> AuditPage(kind, page)]
             size == AUDIT_PER_PAGE
             N == TrailTotal(kind)
             last == TrailPages(kind)
  <2>1. N \in Nat /\ size \in Nat \ {0} /\ last = (N + size - 1) \div size
    BY WholeIs, PerPageAssumption DEF TrailPages
  <2>2. ASSUME NEW p \in 1 .. last
        PROVE  /\ (p - 1) * size \in Nat /\ pages[p] = AuditPage(kind, p)
               /\ \A i : i \in DOMAIN pages[p] <=> i \in 1 .. size /\ (p - 1) * size + i <= N
               /\ \A i \in DOMAIN pages[p] : pages[p][i] = Whole(kind)[(p - 1) * size + i]
    <3>1. pages[p] = AuditPage(kind, p)
      OBVIOUS
    <3>2. /\ (p - 1) * size \in Nat
          /\ \A i : i \in DOMAIN AuditPage(kind, p) <=> i \in 1 .. size /\ (p - 1) * size + i <= N
          /\ \A i \in DOMAIN AuditPage(kind, p) : AuditPage(kind, p)[i] = Whole(kind)[(p - 1) * size + i]
      BY PageIs
    <3> HIDE DEF pages
    <3> QED BY <3>1, <3>2
  <2>3. DOMAIN pages = 1 .. last
    OBVIOUS
  <2> HIDE DEF pages, size, N, last
  <2>4. ASSUME NEW row \in TrailRows(kind)
        PROVE  \E p \in DOMAIN pages : \E i \in DOMAIN pages[p] : pages[p][i] = row
    <3>1. PICK k \in Nat : k < N /\ Whole(kind)[k + 1] = row
      BY WholeIs DEF N
    <3>2. PICK p \in 1 .. last, i \in 1 .. size : k + 1 = (p - 1) * size + i
      BY <2>1, <3>1, PlaceOnPage
    <3>3. k + 1 <= N
      BY <2>1, <3>1
    <3>4. i \in DOMAIN pages[p] /\ pages[p][i] = row
      BY <2>2, <3>1, <3>2, <3>3
    <3> QED BY <2>3, <3>4
  <2>5. ASSUME NEW p \in DOMAIN pages, NEW q \in DOMAIN pages,
               NEW i \in DOMAIN pages[p], NEW j \in DOMAIN pages[q], p < q \/ (p = q /\ i < j)
        PROVE  pages[p][i] # pages[q][j] /\ pages[p][i].at >= pages[q][j].at
    <3> DEFINE from == (p - 1) * size
               to == (q - 1) * size
    <3>1. /\ p \in 1 .. last /\ q \in 1 .. last /\ from \in Nat /\ to \in Nat
          /\ i \in 1 .. size /\ j \in 1 .. size /\ from + i <= N /\ to + j <= N
          /\ pages[p][i] = Whole(kind)[from + i] /\ pages[q][j] = Whole(kind)[to + j]
      BY <2>2, <2>3
    <3>2. CASE p < q
      <4>1. p * size = from + size
        BY <2>1, <3>1, PagesAreWithin
      <4>2. p <= q - 1 /\ p \in Nat /\ q - 1 \in Nat
        BY <3>1, <3>2
      <4>3. p * size <= (q - 1) * size
        BY <2>1, <4>2
      <4>4. from + i < to + j
        <5> HIDE DEF from
        <5>1. from + size <= to
          BY <4>1, <4>3
        <5> HIDE DEF to
        <5> QED BY <2>1, <3>1, <5>1
      <4>5. from + i \in 1 .. N /\ to + j \in 1 .. N
        <5> HIDE DEF from, to
        <5> QED BY <2>1, <3>1
      <4> QED BY <3>1, <4>4, <4>5, WholeIs DEF N
    <3>3. CASE p = q /\ i < j
      <4>1. from + i < to + j /\ from + i \in 1 .. N /\ to + j \in 1 .. N
        <5>1. from = to
          BY <3>3
        <5> HIDE DEF from, to
        <5> QED BY <2>1, <3>1, <3>3, <5>1
      <4> QED BY <3>1, <4>1, WholeIs DEF N
    <3> QED BY <2>5, <3>2, <3>3
  <2> QED BY <2>4, <2>5 DEF pages
<1> QED BY <1>1, TrailInvAlways, PTL
=============================================================================
