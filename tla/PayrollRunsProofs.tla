------------------------- MODULE PayrollRunsProofs -------------------------
(***************************************************************************)
(* Theorems about PayrollRuns, for any set of request threads, drafts,      *)
(* months and runs.                                                         *)
(***************************************************************************)
EXTENDS PayrollRuns, Least, TLAPS

USE DEF RunStatuses, RISK_GATED_STATUSES, PENDING_STATUSES, SENDABLE_STATUSES, CLOSED_STATUSES,
        DELETABLE_STATUSES, RiskStatuses, runVars, sendVars

(* A request that confirms a draft has one in hand. *)
ConfirmsADraft == \A q \in Requests : req[q].op = "confirm" => req[q].import \in Imports

(* Approval comes before everything a payslip needs: a sendable status, a    *)
(* request past the gate of the send routes, an unfinished batch.            *)
SignedBeforeSent ==
    /\ \A r \in Runs : status[r] \in SENDABLE_STATUSES => r \in signedOff
    /\ \A q \in Requests : req[q].op = "distribute" => req[q].runs \subseteq signedOff
    /\ \A r \in Runs : queued[r] => r \in signedOff

(* Whatever was sent was sent by a batch, whose row stays, for a run that is *)
(* there and has workers.                                                    *)
SentHasBatch ==
    /\ \A r \in Runs : queued[r] => batched[r]
    /\ \A r \in Runs : staffed[r] => r \in Live
    /\ \A r \in Runs : sent[r] => batched[r] /\ r \in Live

RunsInv == TypeOK /\ ConfirmsADraft /\ SignedBeforeSent /\ SentHasBatch /\ NoUnsignedPayslip

(* Request q has read some runs and passed its route's guard. *)
Begins(q) ==
    \E o \in Ops, S \in SUBSET Runs, i \in Imports \cup {"none"} :
       /\ Begin(q, o, S, i)
       /\ o = "confirm" => i \in Imports
       /\ o = "distribute" => \A r \in S : status[r] \in SENDABLE_STATUSES

-----------------------------------------------------------------------------
(* The routes that write a status, and what they write. *)
LEMMA Targets ==
    /\ DOMAIN Target = {"submit", "approve", "reject", "process", "risk_held", "risk_accepted",
                        "release"}
    /\ \A o \in DOMAIN Target : Target[o] \in RunStatuses
<1>1. DOMAIN Target = {"submit", "approve", "reject", "process", "risk_held", "risk_accepted",
                       "release"}
  BY DEF Target
<1>2. /\ Target["submit"] = "Pending Approval" /\ Target["approve"] = "Approved"
      /\ Target["reject"] = "Rejected" /\ Target["process"] = "Processed"
      /\ Target["risk_held"] = "Held" /\ Target["risk_accepted"] = "Auto-Accepted"
      /\ Target["release"] = "Pending Approval"
  BY DEF Target
<1> QED BY <1>1, <1>2

(* Every route that reads first and commits later starts as Begins says. *)
LEMMA LoadsBegin ==
    ASSUME NEW q \in Requests
    PROVE  /\ \A r \in Runs, o \in {"submit", "approve", "reject", "process"} :
                StatusRouteLoads(q, r, o) => Begins(q)
           /\ \A r \in Runs : \/ RiskCheckLoads(q, r) \/ ReleaseLoads(q, r)
                              \/ CalculateLoads(q, r) \/ EditLoads(q, r)
                              \/ DistributeLoads(q, r) \/ DeleteLoads(q, r)
                              => Begins(q)
           /\ \A S \in SUBSET Runs, o \in {"approve", "reject"} : BulkLoads(q, S, o) => Begins(q)
           /\ \A i \in Imports : ConfirmLoads(q, i) => Begins(q)
<1>a. /\ {"submit", "approve", "reject", "process", "risk_held", "risk_accepted"} \subseteq Ops
      /\ {"release", "calculate", "edit", "distribute", "delete", "confirm"} \subseteq Ops
  BY Targets DEF Ops
<1>b. ASSUME NEW o \in Ops, NEW S \in SUBSET Runs, NEW i \in Imports \cup {"none"},
             Begin(q, o, S, i), o = "confirm" => i \in Imports,
             o = "distribute" => \A r \in S : status[r] \in SENDABLE_STATUSES
      PROVE  Begins(q)
  BY <1>b DEF Begins
<1>1. ASSUME NEW r \in Runs, NEW o \in {"submit", "approve", "reject", "process"},
             StatusRouteLoads(q, r, o)
      PROVE  Begins(q)
  BY <1>a, <1>b, <1>1 DEF StatusRouteLoads
<1>2. ASSUME NEW r \in Runs, RiskCheckLoads(q, r) PROVE Begins(q)
  BY <1>a, <1>b, <1>2 DEF RiskCheckLoads
<1>3. ASSUME NEW r \in Runs, ReleaseLoads(q, r) \/ CalculateLoads(q, r) \/ EditLoads(q, r)
      PROVE  Begins(q)
  <2>1. CASE ReleaseLoads(q, r)
    BY <1>a, <1>b, <2>1 DEF ReleaseLoads
  <2>2. CASE CalculateLoads(q, r)
    BY <1>a, <1>b, <2>2 DEF CalculateLoads
  <2>3. CASE EditLoads(q, r)
    BY <1>a, <1>b, <2>3 DEF EditLoads
  <2> QED BY <1>3, <2>1, <2>2, <2>3
<1>4. ASSUME NEW r \in Runs, DistributeLoads(q, r) \/ DeleteLoads(q, r) PROVE Begins(q)
  <2>1. CASE DistributeLoads(q, r)
    BY <1>a, <1>b, <2>1 DEF DistributeLoads
  <2>2. CASE DeleteLoads(q, r)
    BY <1>a, <1>b, <2>2 DEF DeleteLoads
  <2> QED BY <1>4, <2>1, <2>2
<1>5. ASSUME NEW S \in SUBSET Runs, NEW o \in {"approve", "reject"}, BulkLoads(q, S, o)
      PROVE  Begins(q)
  BY <1>a, <1>b, <1>5 DEF BulkLoads
<1>6. ASSUME NEW i \in Imports, ConfirmLoads(q, i) PROVE Begins(q)
  <2>1. Of(PeriodOf[i]) \in SUBSET Runs
    BY DEF Of, Live
  <2> QED BY <1>a, <1>b, <1>6, <2>1 DEF ConfirmLoads
<1> QED BY <1>1, <1>2, <1>3, <1>4, <1>5, <1>6

(* What a new run does to the rows: it takes an id, a month and a status     *)
(* that nobody has approved, and the purged runs lose what they had.         *)
Inserted(r, p, S) ==
    /\ status' \in [Runs -> RunStatuses \cup {"none", "deleted"}]
    /\ risk' \in [Runs -> RiskStatuses]
    /\ period' \in [Runs -> Periods \cup {"none"}]
    /\ raw' \in [Runs -> BOOLEAN]
    /\ staffed' \in [Runs -> BOOLEAN]
    /\ stale' \in [Runs -> BOOLEAN]
    /\ status'[r] \in {"Draft", "Held", "Auto-Accepted"} /\ period'[r] = p
    /\ \A x \in Runs \ {r} :
         /\ x \in S => status'[x] = "deleted" /\ period'[x] = "none" /\ ~staffed'[x]
         /\ x \notin S => /\ status'[x] = status[x] /\ period'[x] = period[x]
                          /\ staffed'[x] = staffed[x]

(* Creates does exactly that, whatever the plane and the engine. *)
LEMMA CreatesOf ==
    ASSUME TypeOK, NEW r \in Runs, NEW p \in Periods, NEW plane, NEW isRaw \in BOOLEAN,
           NEW S \in SUBSET Runs, Creates(r, p, plane, isRaw, S)
    PROVE  Inserted(r, p, S)
<1>1. PICK v \in {"held", "accepted"}, hasRows \in BOOLEAN, uncomputed \in BOOLEAN :
        /\ status' = [Purged(S) EXCEPT ![r] = IF plane = "operator" THEN "Draft"
                                            ELSE IF v = "held" THEN "Held" ELSE "Auto-Accepted"]
        /\ risk' = [Without(risk, S, "unscored") EXCEPT ![r] =
                      IF plane = "operator" THEN "unscored" ELSE v]
        /\ period' = [Without(period, S, "none") EXCEPT ![r] = p]
        /\ raw' = [Without(raw, S, FALSE) EXCEPT ![r] = isRaw]
        /\ staffed' = [Without(staffed, S, FALSE) EXCEPT ![r] = hasRows]
        /\ stale' = [Without(stale, S, FALSE) EXCEPT ![r] = uncomputed]
  BY DEF Creates, Verdicts
<1> USE DEF Purged, Without, TypeOK
<1>2. /\ status' \in [Runs -> RunStatuses \cup {"none", "deleted"}]
      /\ status'[r] \in {"Draft", "Held", "Auto-Accepted"}
      /\ \A x \in Runs \ {r} : status'[x] = IF x \in S THEN "deleted" ELSE status[x]
  BY <1>1
<1>3. /\ period' \in [Runs -> Periods \cup {"none"}] /\ period'[r] = p
      /\ \A x \in Runs \ {r} : period'[x] = IF x \in S THEN "none" ELSE period[x]
  BY <1>1
<1>4. /\ staffed' \in [Runs -> BOOLEAN]
      /\ \A x \in Runs \ {r} : x \in S => ~staffed'[x]
      /\ \A x \in Runs \ {r} : x \notin S => staffed'[x] = staffed[x]
  BY <1>1
<1>5. risk' \in [Runs -> RiskStatuses]
  BY <1>1
<1>6. raw' \in [Runs -> BOOLEAN] /\ stale' \in [Runs -> BOOLEAN]
  BY <1>1
<1> QED BY <1>2, <1>3, <1>4, <1>5, <1>6 DEF Inserted

(* A draft that is gone, or not confirmed, points to no run. *)
LEMMA NoRunIds == Gone \notin Runs /\ 0 \notin Runs
BY BoundsAssumption DEF Gone, Runs

(* The next id is one that no run has had. *)
LEMMA NextId == Unused # {} => Min(Unused) \in Runs /\ status[Min(Unused)] = "none"
<1>1. Unused \in SUBSET Nat
  BY BoundsAssumption DEF Unused, Runs
<1> QED BY <1>1, MinIsMember DEF Unused
-----------------------------------------------------------------------------
(* The request's part of the invariant once q has answered. *)
LEMMA IdleRequest ==
    ASSUME RunsInv, NEW q \in Requests, req' = [req EXCEPT ![q] = Idle]
    PROVE  /\ req' \in [Requests -> [op : Ops, runs : SUBSET Runs, moved : SUBSET Runs,
                                     scored : SUBSET Runs, import : Imports \cup {"none"}]]
           /\ \A p \in Requests : req'[p].moved \cup req'[p].scored \subseteq req'[p].runs
           /\ ConfirmsADraft'
           /\ signedOff \subseteq signedOff' =>
                \A p \in Requests : req'[p].op = "distribute" => req'[p].runs \subseteq signedOff'
<1>1. Idle \in [op : Ops, runs : SUBSET Runs, moved : SUBSET Runs,
                scored : SUBSET Runs, import : Imports \cup {"none"}]
  BY DEF Idle, Ops
<1>2. Idle.op = "idle" /\ Idle.moved = {} /\ Idle.scored = {}
  BY DEF Idle
<1>3. /\ req' \in [Requests -> [op : Ops, runs : SUBSET Runs, moved : SUBSET Runs,
                                scored : SUBSET Runs, import : Imports \cup {"none"}]]
      /\ req'[q] = Idle
      /\ \A p \in Requests \ {q} : req'[p] = req[p]
  BY <1>1 DEF RunsInv, TypeOK
<1> QED BY <1>2, <1>3 DEF RunsInv, TypeOK, ConfirmsADraft, SignedBeforeSent

-----------------------------------------------------------------------------
(* A request that begins, or one that gives up, changes no row. *)
LEMMA BeginsStep ==
    ASSUME RunsInv, NEW q \in Requests, Begins(q) \/ Raise(q)
    PROVE  RunsInv'
<1>1. CASE Begins(q)
  <2>1. PICK o \in Ops, S \in SUBSET Runs, i \in Imports \cup {"none"} :
               /\ Begin(q, o, S, i)
               /\ o = "confirm" => i \in Imports
               /\ o = "distribute" => \A r \in S : status[r] \in SENDABLE_STATUSES
    BY <1>1 DEF Begins
  <2>2. PICK M \in SUBSET S, C \in SUBSET S :
               req' = [req EXCEPT ![q] = [op |-> o, runs |-> S, import |-> i,
                                          moved |-> M, scored |-> C]]
    BY <2>1 DEF Begin
  <2>3. /\ UNCHANGED <<runVars, sendVars, imported, signedOff>>
        /\ requests < MaxRequests /\ requests' = requests + 1
    BY <2>1 DEF Begin
  <2>4. [op |-> o, runs |-> S, import |-> i, moved |-> M, scored |-> C]
          \in [op : Ops, runs : SUBSET Runs, moved : SUBSET Runs,
               scored : SUBSET Runs, import : Imports \cup {"none"}]
    OBVIOUS
  <2>5. /\ req' \in [Requests -> [op : Ops, runs : SUBSET Runs, moved : SUBSET Runs,
                                  scored : SUBSET Runs, import : Imports \cup {"none"}]]
        /\ req'[q] = [op |-> o, runs |-> S, import |-> i, moved |-> M, scored |-> C]
        /\ \A p \in Requests \ {q} : req'[p] = req[p]
    BY <2>2, <2>4 DEF RunsInv, TypeOK
  <2>a. \A p \in Requests : req'[p].moved \cup req'[p].scored \subseteq req'[p].runs
    <3>1. req'[q].moved \cup req'[q].scored \subseteq req'[q].runs
      BY <2>5
    <3>2. \A p \in Requests \ {q} : req[p].moved \cup req[p].scored \subseteq req[p].runs
      BY DEF RunsInv, TypeOK
    <3> QED BY <2>5, <3>1, <3>2
  <2>b. requests' \in 0..MaxRequests
    <3>1. requests \in 0..MaxRequests
      BY DEF RunsInv, TypeOK
    <3> QED BY <2>3, <3>1, BoundsAssumption
  <2>c. Live' = Live
    BY <2>3 DEF Live
  <2>6. TypeOK'
    BY <2>3, <2>5, <2>a, <2>b, <2>c DEF RunsInv, TypeOK
  <2>7. ConfirmsADraft' /\ SignedBeforeSent'
    BY <2>1, <2>3, <2>5 DEF RunsInv, ConfirmsADraft, SignedBeforeSent
  <2> QED BY <2>3, <2>6, <2>7 DEF RunsInv, SentHasBatch, NoUnsignedPayslip, Live
<1>2. CASE Raise(q)
  <2>1. /\ UNCHANGED <<runVars, sendVars, imported, signedOff, requests>>
        /\ req' = [req EXCEPT ![q] = Idle]
    BY <1>2 DEF Raise, Respond
  <2>2. TypeOK'
    BY <2>1, IdleRequest DEF RunsInv, TypeOK, Live
  <2> QED BY <2>1, <2>2, IdleRequest
          DEF RunsInv, SignedBeforeSent, SentHasBatch, NoUnsignedPayslip, Live
<1> QED BY <1>1, <1>2
(* A status route keeps the set of runs there are, and whoever it makes      *)
(* sendable is on record as signed off.                                      *)
LEMMA StatusStep ==
    ASSUME RunsInv, NEW q \in Requests, StatusCommits(q)
    PROVE  RunsInv'
<1> DEFINE o == req[q].op
<1>0. TypeOK /\ o \in DOMAIN Target
  BY DEF RunsInv, StatusCommits
<1>1. CASE RowsGone(q)
  BY <1>1, BeginsStep DEF StatusCommits
<1>2. CASE ~RowsGone(q)
  <2>1. /\ req[q].runs \subseteq Live /\ req[q].moved \subseteq req[q].runs
        /\ Live \subseteq Runs
    BY <1>0, <1>2 DEF RowsGone, TypeOK, Live
  <2>2. /\ status' = [r \in Runs |-> IF r \in req[q].moved THEN Target[o] ELSE status[r]]
        /\ risk' = [r \in Runs |-> IF r \in req[q].scored THEN RiskAfter(o, "held") ELSE risk[r]]
        /\ signedOff' = signedOff \cup {r \in req[q].runs : status'[r] \in SENDABLE_STATUSES}
        /\ req' = [req EXCEPT ![q] = Idle]
        /\ UNCHANGED <<period, raw, staffed, stale, sendVars, imported, requests>>
    BY <1>2 DEF StatusCommits, Respond
  <2>3. Target[o] \in RunStatuses
    BY <1>0, Targets
  <2>4. /\ status' \in [Runs -> RunStatuses \cup {"none", "deleted"}]
        /\ \A r \in Runs : r \notin req[q].runs => status'[r] = status[r]
        /\ \A r \in Runs : r \in req[q].runs =>
              status[r] \in RunStatuses /\ status'[r] \in RunStatuses
    <3> HIDE DEF o
    <3> QED BY <1>0, <2>1, <2>2, <2>3 DEF TypeOK, Live
  <2>5. Live' = Live
    BY <2>4 DEF Live
  <2>6. risk' \in [Runs -> RiskStatuses]
    <3>1. RiskAfter(o, "held") \in RiskStatuses
      BY DEF RiskAfter
    <3> HIDE DEF o
    <3> QED BY <1>0, <2>2, <3>1 DEF TypeOK
  <2>7. signedOff \subseteq signedOff' /\ signedOff' \subseteq Runs
    BY <1>0, <2>1, <2>2 DEF TypeOK
  <2>8. \A r \in Runs : period'[r] = "none" <=> status'[r] \in {"none", "deleted"}
    BY <1>0, <2>2, <2>4 DEF TypeOK
  <2>9. TypeOK'
    BY <1>0, <2>2, <2>4, <2>5, <2>6, <2>7, <2>8, IdleRequest DEF TypeOK
  <2>10. \A r \in Runs : status'[r] \in SENDABLE_STATUSES => r \in signedOff'
    BY <2>2, <2>4 DEF RunsInv, SignedBeforeSent
  <2>11. SignedBeforeSent'
    BY <2>2, <2>7, <2>10, IdleRequest DEF RunsInv, SignedBeforeSent
  <2>12. SentHasBatch' /\ NoUnsignedPayslip'
    BY <2>2, <2>5, <2>7 DEF RunsInv, SentHasBatch, NoUnsignedPayslip
  <2> QED BY <2>2, <2>9, <2>11, <2>12, IdleRequest DEF RunsInv
<1> QED BY <1>1, <1>2

(* Calculating and editing touch the figures alone. *)
LEMMA FiguresStep ==
    ASSUME RunsInv, NEW q \in Requests, CalculateCommits(q) \/ EditCommits(q)
    PROVE  RunsInv'
<1>1. CASE RowsGone(q)
  BY <1>1, BeginsStep DEF CalculateCommits, EditCommits
<1>2. CASE ~RowsGone(q)
  <2>1. /\ UNCHANGED <<status, risk, period, raw, staffed, sendVars, imported, signedOff, requests>>
        /\ req' = [req EXCEPT ![q] = Idle]
    BY <1>2 DEF CalculateCommits, EditCommits, Respond
  <2>2. stale' \in [Runs -> BOOLEAN]
    BY <1>2 DEF CalculateCommits, EditCommits, RunsInv, TypeOK
  <2>3. Live' = Live
    BY <2>1 DEF Live
  <2>4. TypeOK'
    BY <2>1, <2>2, <2>3, IdleRequest DEF RunsInv, TypeOK
  <2> QED BY <2>1, <2>3, <2>4, IdleRequest
          DEF RunsInv, SignedBeforeSent, SentHasBatch, NoUnsignedPayslip
<1> QED BY <1>1, <1>2

(* A batch is queued for runs that passed the gate, which were signed off    *)
(* then; what has happened to their status since does not matter.            *)
LEMMA DistributeStep ==
    ASSUME RunsInv, NEW q \in Requests, DistributeCommits(q)
    PROVE  RunsInv'
<1>1. CASE RowsGone(q)
  BY <1>1, BeginsStep DEF DistributeCommits
<1>2. CASE ~RowsGone(q)
  <2>1. /\ batched' = [r \in Runs |-> batched[r] \/ r \in req[q].runs]
        /\ queued' = [r \in Runs |-> queued[r] \/ r \in req[q].runs]
        /\ UNCHANGED <<runVars, sent, imported, signedOff, requests>>
        /\ req' = [req EXCEPT ![q] = Idle]
    BY <1>2 DEF DistributeCommits, Respond
  <2>2. batched' \in [Runs -> BOOLEAN] /\ queued' \in [Runs -> BOOLEAN]
    BY <2>1 DEF RunsInv, TypeOK
  <2>3. Live' = Live
    BY <2>1 DEF Live
  <2>4. TypeOK'
    BY <2>1, <2>2, <2>3, IdleRequest DEF RunsInv, TypeOK
  <2>5. req[q].runs \subseteq signedOff
    BY DEF DistributeCommits, RunsInv, SignedBeforeSent
  <2>6. SignedBeforeSent'
    BY <2>1, <2>5, IdleRequest DEF RunsInv, SignedBeforeSent
  <2>7. SentHasBatch' /\ NoUnsignedPayslip'
    BY <2>1, <2>3 DEF RunsInv, SentHasBatch, NoUnsignedPayslip
  <2> QED BY <2>1, <2>4, <2>6, <2>7, IdleRequest DEF RunsInv
<1> QED BY <1>1, <1>2

(* The worker sends for a batch that is there; a cancel only ends it. *)
LEMMA BatchStep ==
    ASSUME RunsInv, NEW r \in Runs, BatchEnds(r) \/ BatchCancelled(r)
    PROVE  RunsInv'
<1>1. /\ queued[r] /\ queued' = [queued EXCEPT ![r] = FALSE]
      /\ sent' = sent \/ \E some \in BOOLEAN : sent' = [sent EXCEPT ![r] = @ \/ (some /\ staffed[r])]
      /\ UNCHANGED <<runVars, batched, imported, req, signedOff, requests>>
  BY DEF BatchEnds, BatchCancelled
<1>2. /\ queued' \in [Runs -> BOOLEAN] /\ sent' \in [Runs -> BOOLEAN]
      /\ \A x \in Runs : queued'[x] => queued[x]
      /\ \A x \in Runs : sent'[x] => sent[x] \/ (x = r /\ staffed[r])
  BY <1>1 DEF RunsInv, TypeOK
<1>3. Live' = Live
  BY <1>1 DEF Live
<1>4. TypeOK'
  BY <1>1, <1>2, <1>3 DEF RunsInv, TypeOK
<1>5. ConfirmsADraft' /\ SignedBeforeSent'
  BY <1>1, <1>2 DEF RunsInv, ConfirmsADraft, SignedBeforeSent
<1>6. SentHasBatch' /\ NoUnsignedPayslip'
  BY <1>1, <1>2, <1>3 DEF RunsInv, SentHasBatch, SignedBeforeSent, NoUnsignedPayslip
<1> QED BY <1>4, <1>5, <1>6 DEF RunsInv
(* A run with a sent payslip has a batch row, and the foreign key of that    *)
(* row refuses the purge.                                                    *)
LEMMA PurgeSparesSent ==
    ASSUME RunsInv, NEW S \in SUBSET Runs, ~PurgeRefused(S)
    PROVE  \A r \in S : ~sent[r]
BY DEF RunsInv, SentHasBatch, PurgeRefused

(* Deleting takes the run with its draft, and nothing that was sent. *)
LEMMA DeleteStep ==
    ASSUME RunsInv, NEW q \in Requests, DeleteCommits(q)
    PROVE  RunsInv' /\ \A r \in Runs : sent[r] => status'[r] # "deleted"
<1> DEFINE S == req[q].runs
<1>0. TypeOK /\ S \in SUBSET Runs
  BY DEF RunsInv, TypeOK
<1>a. \A r \in Runs : sent[r] => status[r] # "deleted"
  BY DEF RunsInv, SentHasBatch, Live
<1>1. CASE PurgeRefused(S)
  <2>1. Raise(q)
    BY <1>1 DEF DeleteCommits
  <2> QED BY <1>a, <2>1, BeginsStep DEF Raise
<1>2. CASE ~PurgeRefused(S)
  <2>1. /\ status' = Purged(S) /\ imported' = DraftsAfter(S)
        /\ risk' = Without(risk, S, "unscored") /\ period' = Without(period, S, "none")
        /\ raw' = Without(raw, S, FALSE) /\ staffed' = Without(staffed, S, FALSE)
        /\ stale' = Without(stale, S, FALSE) /\ sent' = Without(sent, S, FALSE)
        /\ req' = [req EXCEPT ![q] = Idle]
        /\ UNCHANGED <<batched, queued, signedOff, requests>>
    BY <1>2 DEF DeleteCommits, Respond
  <2>2. \A r \in S : ~sent[r]
    BY <1>0, <1>2, PurgeSparesSent
  <2> HIDE DEF S
  <2>3. /\ status' \in [Runs -> RunStatuses \cup {"none", "deleted"}]
        /\ risk' \in [Runs -> RiskStatuses] /\ period' \in [Runs -> Periods \cup {"none"}]
        /\ raw' \in [Runs -> BOOLEAN] /\ staffed' \in [Runs -> BOOLEAN]
        /\ stale' \in [Runs -> BOOLEAN] /\ sent' \in [Runs -> BOOLEAN]
    BY <1>0, <2>1 DEF TypeOK, Purged, Without
  <2>4. Live' = Live \ S
    BY <1>0, <2>1 DEF Live, Purged, TypeOK
  <2>5. /\ imported' \in [Imports -> Runs \cup {0, Gone}]
        /\ \A i \in Imports : imported'[i] \in Runs => imported'[i] \in Live'
    <3>1. /\ imported \in [Imports -> Runs \cup {0, Gone}]
          /\ \A i \in Imports : imported[i] \in Runs => imported[i] \in Live
      BY <1>0 DEF TypeOK
    <3> QED BY <2>1, <2>4, <3>1, NoRunIds DEF DraftsAfter
  <2>6. \A r \in Runs : period'[r] = "none" <=> status'[r] \in {"none", "deleted"}
    BY <1>0, <2>1 DEF TypeOK, Purged, Without
  <2>7. TypeOK'
    BY <1>0, <2>1, <2>3, <2>5, <2>6, IdleRequest DEF TypeOK
  <2>8. SignedBeforeSent'
    <3>1. \A r \in Runs : status'[r] \in SENDABLE_STATUSES => status[r] \in SENDABLE_STATUSES
      BY <1>0, <2>1 DEF Purged
    <3> QED BY <2>1, <3>1, IdleRequest DEF RunsInv, SignedBeforeSent
  <2>9. SentHasBatch' /\ NoUnsignedPayslip'
    BY <1>0, <2>1, <2>4 DEF RunsInv, SentHasBatch, NoUnsignedPayslip, Without, TypeOK
  <2>10. \A r \in Runs : sent[r] => status'[r] # "deleted"
    BY <1>a, <2>1, <2>2 DEF Purged
  <2> QED BY <2>1, <2>7, <2>8, <2>9, <2>10, IdleRequest DEF RunsInv
<1> QED BY <1>1, <1>2

(* A confirmed draft becomes a run, in place of those it replaces. *)
LEMMA ConfirmStep ==
    ASSUME RunsInv, NEW q \in Requests, ConfirmCommits(q)
    PROVE  RunsInv' /\ \A r \in Runs : sent[r] => status'[r] # "deleted"
<1> DEFINE S == req[q].runs
           i == req[q].import
           new == Min(Unused)
           isRaw == FALSE
<1>0. /\ TypeOK /\ S \in SUBSET Runs /\ i \in Imports
      /\ new \in Runs /\ status[new] = "none"
  BY NextId DEF RunsInv, TypeOK, ConfirmCommits, ConfirmsADraft
<1>a. \A r \in Runs : sent[r] => status[r] # "deleted"
  BY DEF RunsInv, SentHasBatch, Live
<1>1. CASE PurgeRefused(S) \/ imported[i] = Gone
  <2>1. Raise(q)
    BY <1>1 DEF ConfirmCommits
  <2> QED BY <1>a, <2>1, BeginsStep DEF Raise
<1>2. CASE ~(PurgeRefused(S) \/ imported[i] = Gone)
  <2>1. /\ Creates(new, PeriodOf[i], PlaneOf[i], isRaw, S) /\ isRaw \in BOOLEAN
        /\ imported' = [DraftsAfter(S) EXCEPT ![i] = IF @ = Gone THEN Gone ELSE new]
        /\ sent' = Without(sent, S, FALSE)
        /\ req' = [req EXCEPT ![q] = Idle]
        /\ UNCHANGED <<batched, queued, signedOff, requests>>
    BY <1>2 DEF ConfirmCommits, Respond
  <2>2. \A r \in S : ~sent[r]
    BY <1>0, <1>2, PurgeSparesSent
  <2>3. PeriodOf[i] \in Periods
    BY <1>0 DEF Periods
  <2> HIDE DEF S, i, new, isRaw
  <2>4. /\ status' \in [Runs -> RunStatuses \cup {"none", "deleted"}]
        /\ risk' \in [Runs -> RiskStatuses] /\ period' \in [Runs -> Periods \cup {"none"}]
        /\ raw' \in [Runs -> BOOLEAN] /\ staffed' \in [Runs -> BOOLEAN]
        /\ stale' \in [Runs -> BOOLEAN]
        /\ status'[new] \in {"Draft", "Held", "Auto-Accepted"} /\ period'[new] = PeriodOf[i]
        /\ \A x \in Runs \ {new} :
             /\ x \in S => status'[x] = "deleted" /\ period'[x] = "none" /\ ~staffed'[x]
             /\ x \notin S => /\ status'[x] = status[x] /\ period'[x] = period[x]
                              /\ staffed'[x] = staffed[x]
    <3>1. Inserted(new, PeriodOf[i], S)
      BY <1>0, <2>1, <2>3, CreatesOf, Zenon
    <3> QED BY <3>1 DEF Inserted
  <2>5. Live' = (Live \ S) \cup {new}
    BY <1>0, <2>4 DEF Live
  <2>6. imported' \in [Imports -> Runs \cup {0, Gone}]
        /\ \A j \in Imports : imported'[j] \in Runs => imported'[j] \in Live'
    <3>1. /\ imported \in [Imports -> Runs \cup {0, Gone}]
          /\ \A j \in Imports : imported[j] \in Runs => imported[j] \in Live
      BY <1>0 DEF TypeOK
    <3>2. /\ DraftsAfter(S) \in [Imports -> Runs \cup {0, Gone}]
          /\ \A j \in Imports : DraftsAfter(S)[j] \in Runs => DraftsAfter(S)[j] \in Live \ S
      BY <3>1, NoRunIds DEF DraftsAfter
    <3> QED BY <1>0, <2>1, <2>5, <3>2, NoRunIds
  <2>7. \A r \in Runs : period'[r] = "none" <=> status'[r] \in {"none", "deleted"}
    BY <1>0, <2>3, <2>4, PeriodsAssumption DEF TypeOK
  <2>8. sent' \in [Runs -> BOOLEAN] /\ \A r \in Runs : sent'[r] => sent[r] /\ r \notin S
    BY <1>0, <2>1 DEF TypeOK, Without
  <2>9. TypeOK'
    BY <1>0, <2>1, <2>4, <2>6, <2>7, <2>8, IdleRequest DEF TypeOK
  <2>10. SignedBeforeSent'
    <3>1. \A r \in Runs : status'[r] \in SENDABLE_STATUSES => status[r] \in SENDABLE_STATUSES
      BY <1>0, <2>4
    <3> QED BY <2>1, <3>1, IdleRequest DEF RunsInv, SignedBeforeSent
  <2>11. \A r \in Runs : staffed'[r] => r \in Live'
    BY <1>0, <2>4, <2>5 DEF RunsInv, SentHasBatch
  <2>12. SentHasBatch' /\ NoUnsignedPayslip'
    BY <2>1, <2>5, <2>8, <2>11 DEF RunsInv, SentHasBatch, NoUnsignedPayslip
  <2>13. \A r \in Runs : sent[r] => status'[r] # "deleted"
    BY <1>a, <2>2, <2>4
  <2> QED BY <2>1, <2>9, <2>10, <2>12, <2>13, IdleRequest DEF RunsInv
<1> QED BY <1>1, <1>2

(* A raw-hours workbook becomes a run next to those of the month. *)
LEMMA RawConfirmStep ==
    ASSUME RunsInv, NEW p \in RawPeriods, NEW plane, RawConfirm(p, plane)
    PROVE  RunsInv' /\ \A r \in Runs : sent[r] => status'[r] # "deleted"
<1> DEFINE new == Min(Unused)
           isRaw == TRUE
<1>0. /\ TypeOK /\ p \in Periods
      /\ new \in Runs /\ status[new] = "none"
  BY NextId DEF RunsInv, RawConfirm, Periods
<1>1. /\ Creates(new, p, plane, isRaw, {}) /\ isRaw \in BOOLEAN
      /\ UNCHANGED <<sendVars, imported, req, signedOff, requests>>
  BY DEF RawConfirm
<1> HIDE DEF new, isRaw
<1>2. /\ status' \in [Runs -> RunStatuses \cup {"none", "deleted"}]
      /\ risk' \in [Runs -> RiskStatuses] /\ period' \in [Runs -> Periods \cup {"none"}]
      /\ raw' \in [Runs -> BOOLEAN] /\ staffed' \in [Runs -> BOOLEAN]
      /\ stale' \in [Runs -> BOOLEAN]
      /\ status'[new] \in {"Draft", "Held", "Auto-Accepted"} /\ period'[new] = p
      /\ \A x \in Runs \ {new} : /\ status'[x] = status[x] /\ period'[x] = period[x]
                                 /\ staffed'[x] = staffed[x]
  <2>1. {} \in SUBSET Runs
    OBVIOUS
  <2>2. Inserted(new, p, {})
    BY <1>0, <1>1, <2>1, CreatesOf, Zenon
  <2> QED BY <2>2 DEF Inserted
<1>3. Live' = Live \cup {new}
  BY <1>0, <1>2 DEF Live
<1>4. \A r \in Runs : period'[r] = "none" <=> status'[r] \in {"none", "deleted"}
  BY <1>0, <1>2, PeriodsAssumption DEF TypeOK
<1>5. TypeOK'
  BY <1>0, <1>1, <1>2, <1>3, <1>4 DEF TypeOK
<1>6. ConfirmsADraft' /\ SignedBeforeSent'
  BY <1>0, <1>1, <1>2 DEF RunsInv, ConfirmsADraft, SignedBeforeSent
<1>7. SentHasBatch' /\ NoUnsignedPayslip'
  BY <1>0, <1>1, <1>2, <1>3 DEF RunsInv, SentHasBatch, NoUnsignedPayslip
<1>8. \A r \in Runs : sent[r] => status'[r] # "deleted"
  BY <1>0, <1>2 DEF RunsInv, SentHasBatch, Live
<1> QED BY <1>5, <1>6, <1>7, <1>8 DEF RunsInv

(* Discarding a draft touches no run. *)
LEMMA DiscardStep == ASSUME RunsInv, NEW i \in Imports, Discard(i) PROVE RunsInv'
<1>1. /\ UNCHANGED <<runVars, sendVars, req, signedOff, requests>>
      /\ imported' = [imported EXCEPT ![i] = Gone]
  BY DEF Discard
<1>2. /\ imported' \in [Imports -> Runs \cup {0, Gone}]
      /\ \A j \in Imports : imported'[j] \in Runs => imported'[j] \in Live
  <2>1. /\ imported \in [Imports -> Runs \cup {0, Gone}]
        /\ \A j \in Imports : imported[j] \in Runs => imported[j] \in Live
    BY DEF RunsInv, TypeOK
  <2> QED BY <1>1, <2>1, NoRunIds
<1>3. Live' = Live
  BY <1>1 DEF Live
<1>4. TypeOK'
  BY <1>1, <1>2, <1>3 DEF RunsInv, TypeOK
<1> QED BY <1>1, <1>3, <1>4
        DEF RunsInv, ConfirmsADraft, SignedBeforeSent, SentHasBatch, NoUnsignedPayslip

-----------------------------------------------------------------------------
(* Every step of any thread, of the worker or of an operator keeps the       *)
(* invariant and deletes no run with a sent payslip.                         *)
LEMMA RunsStep ==
    RunsInv /\ [Next]_vars => RunsInv' /\ \A r \in Runs : sent[r] => status'[r] # "deleted"
<1> SUFFICES ASSUME RunsInv, [Next]_vars
             PROVE  RunsInv' /\ \A r \in Runs : sent[r] => status'[r] # "deleted"
  OBVIOUS
<1>a. ASSUME UNCHANGED status \/ \E q \in Requests : StatusCommits(q)
      PROVE  \A r \in Runs : sent[r] => status'[r] # "deleted"
  <2>1. \A r \in Runs : sent[r] => status[r] \in RunStatuses
    BY DEF RunsInv, SentHasBatch, Live
  <2>2. CASE UNCHANGED status
    BY <2>1, <2>2
  <2>3. ASSUME NEW q \in Requests, StatusCommits(q)
        PROVE  \A r \in Runs : sent[r] => status'[r] # "deleted"
    <3>1. Target[req[q].op] \in RunStatuses
      BY <2>3, Targets DEF StatusCommits
    <3> QED BY <2>1, <2>3, <3>1 DEF StatusCommits, Raise
  <2> QED BY <1>a, <2>2, <2>3
<1>1. ASSUME NEW q \in Requests, Begins(q) \/ CalculateCommits(q) \/ EditCommits(q)
                                  \/ DistributeCommits(q)
      PROVE  RunsInv' /\ UNCHANGED status
  <2>1. UNCHANGED status
    BY <1>1 DEF Begins, Begin, CalculateCommits, EditCommits, DistributeCommits, Raise
  <2> QED BY <1>1, <2>1, BeginsStep, FiguresStep, DistributeStep
<1>2. ASSUME NEW q \in Requests, StatusCommits(q) \/ DeleteCommits(q) \/ ConfirmCommits(q)
      PROVE  RunsInv' /\ \A r \in Runs : sent[r] => status'[r] # "deleted"
  BY <1>a, <1>2, StatusStep, DeleteStep, ConfirmStep
<1>3. ASSUME NEW r \in Runs, BatchEnds(r) \/ BatchCancelled(r)
      PROVE  RunsInv' /\ UNCHANGED status
  BY <1>3, BatchStep DEF BatchEnds, BatchCancelled
<1>4. ASSUME NEW i \in Imports, Discard(i) PROVE RunsInv' /\ UNCHANGED status
  BY <1>4, DiscardStep DEF Discard
<1>5. ASSUME NEW p \in RawPeriods, NEW plane \in {"operator", "client"}, RawConfirm(p, plane)
      PROVE  RunsInv' /\ \A r \in Runs : sent[r] => status'[r] # "deleted"
  BY <1>5, RawConfirmStep
<1>6. CASE UNCHANGED vars
  <2>1. Live' = Live /\ UNCHANGED status
    BY <1>6 DEF vars, Live
  <2>2. RunsInv'
    BY <1>6, <2>1
       DEF vars, RunsInv, TypeOK, ConfirmsADraft, SignedBeforeSent, SentHasBatch,
           NoUnsignedPayslip
  <2> QED BY <1>a, <2>1, <2>2
<1> QED BY <1>a, <1>1, <1>2, <1>3, <1>4, <1>5, <1>6, LoadsBegin DEF Next

(* The inductive invariant holds throughout. *)
THEOREM RunsInvAlways == Spec => []RunsInv
<1>1. Init => RunsInv
  <2> SUFFICES ASSUME Init PROVE RunsInv
    OBVIOUS
  <2>1. Idle \in [op : Ops, runs : SUBSET Runs, moved : SUBSET Runs,
                  scored : SUBSET Runs, import : Imports \cup {"none"}]
    BY DEF Idle, Ops
  <2>2. Idle.op = "idle" /\ Idle.moved = {} /\ Idle.scored = {}
    BY DEF Idle
  <2>3. TypeOK
    BY <2>1, <2>2, BoundsAssumption DEF Init, TypeOK, Gone, Runs
  <2> QED BY <2>2, <2>3
          DEF Init, RunsInv, ConfirmsADraft, SignedBeforeSent, SentHasBatch, NoUnsignedPayslip
<1> QED BY <1>1, RunsStep, PTL DEF Spec

(* Types are kept, and no draft ever points to a deleted run: reopening an   *)
(* import never leads to a page that does not exist.                         *)
THEOREM RunsTypeCorrect == Spec => []TypeOK
<1>1. RunsInv => TypeOK
  BY DEF RunsInv
<1> QED BY <1>1, RunsInvAlways, PTL

(* No payslip of a run that was never approved or closed, whatever crosses   *)
(* the send between its gate and the worker (_do_send, bulk_distribute).     *)
THEOREM NoUnsignedPayslipAlways == Spec => []NoUnsignedPayslip
<1>1. RunsInv => NoUnsignedPayslip
  BY DEF RunsInv
<1> QED BY <1>1, RunsInvAlways, PTL

(* No path, and no race of a deletion or a replacement with a send, deletes  *)
(* a run with a sent payslip (payroll_run_record_blockers, purge_payroll_run).*)
THEOREM SentSurvivesAlways == Spec => SentSurvives
<1>1. RunsInv /\ [Next]_vars => [\A r \in Runs : sent[r] => status'[r] # "deleted"]_vars
  BY RunsStep
<1> QED BY <1>1, RunsInvAlways, PTL DEF Spec, SentSurvives
=============================================================================
