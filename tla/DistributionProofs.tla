-------------------------- MODULE DistributionProofs --------------------------
(***************************************************************************)
(* Theorems about payslip distribution.  Delivery: for every finite set of  *)
(* senders, every set of rows, every assignment of sender classes and every *)
(* bound.  Queue: for any sets of runs and requests, any number of batches  *)
(* and any DISTRIBUTION_BATCH_MAX_RECLAIMS.                                 *)
(***************************************************************************)
EXTENDS Delivery, Queue, Least, FiniteSetTheorems, TLAPS

USE DEF Statuses, Modes, PCs, Replies, Columns, CLAIMABLE_FOR_SEND, CLAIMABLE_FOR_RETRY,
        SKIPPED_BY_SEND

-----------------------------------------------------------------------------
(* Every variable keeps its type, and a busy sender has a row: type          *)
(* correctness of the delivery rows and of _attempt_send's bookkeeping.      *)
THEOREM TypeCorrect == Spec => []TypeOK
<1>1. Init => TypeOK
  BY BoundsAssumption DEF Init, TypeOK
<1>2. TypeOK /\ [Next]_vars => TypeOK'
  <2> SUFFICES ASSUME TypeOK, [Next]_vars PROVE TypeOK'
    OBVIOUS
  <2> USE BoundsAssumption DEF rowVars, senderVars, webVars, historyVars, boundVars
  <2>1. ASSUME NEW s \in Senders, NEW d \in Deliveries, NEW m \in {"send", "resend"},
               PickForBatch(s, d, m)
        PROVE  TypeOK'
    BY <2>1 DEF TypeOK, PickForBatch
  <2>2. ASSUME NEW s \in Senders, NEW d \in Deliveries, PickForSweep(s, d)
        PROVE  TypeOK'
    BY <2>2 DEF TypeOK, PickForSweep
  <2>3. ASSUME NEW s \in Senders, InsertPending(s) PROVE TypeOK'
    BY <2>3 DEF TypeOK, InsertPending
  <2>4. ASSUME NEW s \in Senders, ClaimDelivery(s) PROVE TypeOK'
    <3>1. CASE MayClaim(mode[s], row[s])
      BY <2>4, <3>1 DEF TypeOK, ClaimDelivery
    <3>2. CASE ~MayClaim(mode[s], row[s])
      <4>1. Leave(s) /\ UNCHANGED <<rowVars, webVars, historyVars, boundVars>>
        BY <2>4, <3>2 DEF ClaimDelivery
      <4> QED BY <4>1 DEF TypeOK, Leave
    <3> QED BY <3>1, <3>2
  <2>5. ASSUME NEW s \in Senders, NothingSent(s) PROVE TypeOK'
    BY <2>5 DEF TypeOK, NothingSent, Leave
  <2>6. ASSUME NEW s \in Senders, CallProvider(s) PROVE TypeOK'
    <3>1. row[s] \in Deliveries
      BY <2>6 DEF TypeOK, CallProvider
    <3>2. PICK a \in Answers(SenderOf[row[s]]) :
                /\ took' = [took EXCEPT ![s] = a.took]
                /\ reply' = [reply EXCEPT ![s] = a.says]
                /\ copies' = [copies EXCEPT ![row[s]] =
                                IF a.took THEN copies[row[s]] + 1 ELSE copies[row[s]]]
      BY <2>6 DEF CallProvider
    <3>3. a.took \in BOOLEAN /\ a.says \in Replies
      BY <3>2 DEF Answers
    <3> QED BY <2>6, <3>1, <3>2, <3>3 DEF TypeOK, CallProvider
  <2>7. ASSUME NEW s \in Senders, RecordOutcome(s) PROVE TypeOK'
    <3>1. row[s] \in Deliveries /\ Leave(s)
      BY <2>7 DEF TypeOK, RecordOutcome
    <3>2. UNCHANGED <<attempts, webVars, historyVars, boundVars>>
      BY <2>7 DEF RecordOutcome
    <3>3. status' \in [Deliveries -> Statuses]
      BY <2>7, <3>1 DEF TypeOK, RecordOutcome, Statuses
    <3>4. retry' \in [Deliveries -> BOOLEAN]
      BY <2>7, <3>1 DEF TypeOK, RecordOutcome, RetryScheduled
    <3>5. tracked' \in [Deliveries -> BOOLEAN]
      BY <2>7, <3>1 DEF TypeOK, RecordOutcome
    <3> QED BY <3>1, <3>2, <3>3, <3>4, <3>5 DEF TypeOK, Leave
  <2>8. ASSUME NEW s \in Senders, SenderDies(s) PROVE TypeOK'
    BY <2>8 DEF TypeOK, SenderDies, Leave
  <2>9. ASSUME NEW d \in Deliveries, RecoverStaleClaim(d) PROVE TypeOK'
    BY <2>9 DEF TypeOK, RecoverStaleClaim
  <2>10. ASSUME NEW d \in Deliveries, NEW o \in {"sent", "not_sent"}, SettleUnknown(d, o)
         PROVE  TypeOK'
    BY <2>10 DEF TypeOK, SettleUnknown
  <2>11. ASSUME NEW d \in Deliveries, ReportLoads(d) PROVE TypeOK'
    BY <2>11 DEF TypeOK, ReportLoads
  <2>12. ASSUME NEW d \in Deliveries, ReportCommits(d) PROVE TypeOK'
    BY <2>12 DEF TypeOK, ReportCommits
  <2>13. CASE CancelLoads
    BY <2>13 DEF TypeOK, CancelLoads
  <2>14. CASE CancelCommits
    BY <2>14 DEF TypeOK, CancelCommits
  <2>15. CASE UNCHANGED vars
    BY <2>15 DEF TypeOK, vars
  <2> QED
    BY <2>1, <2>2, <2>3, <2>4, <2>5, <2>6, <2>7, <2>8, <2>9, <2>10, <2>11, <2>12, <2>13,
       <2>14, <2>15 DEF Next, SenderStep
<1> QED BY <1>1, <1>2, PTL DEF Spec

-----------------------------------------------------------------------------
(* A sender with an accepted message is waiting to record it, and a          *)
(* classifying sender never calls an accepted message a failure.             *)
HonestReplies ==
    \A s \in Senders :
        took[s] => /\ pc[s] = "answered"
                   /\ row[s] \in Classified => reply[s] \in {"ok", "ambiguous"}

(* The claims counted by PermitBalance are finitely many. *)
LEMMA HoldingFinite ==
    ASSUME NEW d
    PROVE  IsFiniteSet(Holding(d)) /\ Cardinality(Holding(d)) \in Nat
<1>1. Holding(d) \subseteq Senders
  BY DEF Holding
<1> QED BY <1>1, SendersAssumption, FS_Subset, FS_CardinalityType

(* The same, one step later. *)
LEMMA HoldingFinitePrime ==
    ASSUME NEW d
    PROVE  IsFiniteSet(Holding(d)') /\ Cardinality(Holding(d)') \in Nat
<1>1. Holding(d)' \subseteq Senders
  BY DEF Holding
<1> QED BY <1>1, SendersAssumption, FS_Subset, FS_CardinalityType

(* A sender that leaves _attempt_send gives up its claim and no other: the   *)
(* number of claims on a row drops by one exactly if it held one.            *)
LEMMA LeaveHolding ==
    ASSUME TypeOK, NEW s \in Senders, Leave(s), NEW d \in Deliveries
    PROVE  /\ s \in Holding(d) => Cardinality(Holding(d)') = Cardinality(Holding(d)) - 1
           /\ s \notin Holding(d) => Cardinality(Holding(d)') = Cardinality(Holding(d))
<1>1. Holding(d)' = Holding(d) \ {s}
  BY DEF TypeOK, Leave, Holding
<1>2. CASE s \in Holding(d)
  BY <1>1, <1>2, HoldingFinite, FS_RemoveElement
<1>3. CASE s \notin Holding(d)
  <2>1. Holding(d) \ {s} = Holding(d)
    BY <1>3
  <2> QED BY <1>1, <1>3, <2>1
<1> QED BY <1>2, <1>3

(* A step that leaves every sender alone leaves every claim alone. *)
LEMMA SameHolding ==
    ASSUME UNCHANGED <<pc, row, took>>, NEW d
    PROVE  Holding(d)' = Holding(d)
BY DEF Holding

(* HonestReplies is preserved: only CallProvider sets `took`, to an answer   *)
(* of Answers(SenderOf[row]), and every way out of _attempt_send clears it.  *)
LEMMA HonestStep == TypeOK /\ HonestReplies /\ [Next]_vars => HonestReplies'
<1> SUFFICES ASSUME TypeOK, HonestReplies, [Next]_vars, NEW t \in Senders, took'[t]
             PROVE  /\ pc'[t] = "answered"
                    /\ row'[t] \in Classified => reply'[t] \in {"ok", "ambiguous"}
  BY DEF HonestReplies, Classified
<1> USE DEF TypeOK, HonestReplies, rowVars, senderVars, webVars, historyVars, boundVars
<1>1. ASSUME NEW s \in Senders, NEW d \in Deliveries, NEW m \in {"send", "resend"},
             PickForBatch(s, d, m)
      PROVE  /\ pc'[t] = "answered"
             /\ row'[t] \in Classified => reply'[t] \in {"ok", "ambiguous"}
  BY <1>1 DEF PickForBatch
<1>2. ASSUME NEW s \in Senders, NEW d \in Deliveries, PickForSweep(s, d)
      PROVE  /\ pc'[t] = "answered"
             /\ row'[t] \in Classified => reply'[t] \in {"ok", "ambiguous"}
  BY <1>2 DEF PickForSweep
<1>3. ASSUME NEW s \in Senders, Leave(s)
      PROVE  /\ pc'[t] = "answered"
             /\ row'[t] \in Classified => reply'[t] \in {"ok", "ambiguous"}
  BY <1>3 DEF Leave
<1>4. ASSUME NEW s \in Senders, ClaimDelivery(s), MayClaim(mode[s], row[s])
      PROVE  /\ pc'[t] = "answered"
             /\ row'[t] \in Classified => reply'[t] \in {"ok", "ambiguous"}
  BY <1>4 DEF ClaimDelivery
<1>5. ASSUME NEW s \in Senders, CallProvider(s)
      PROVE  /\ pc'[t] = "answered"
             /\ row'[t] \in Classified => reply'[t] \in {"ok", "ambiguous"}
  BY <1>5 DEF CallProvider, Answers, Classified
<1>6. CASE UNCHANGED senderVars
  BY <1>6
<1>7. ASSUME NEW s \in Senders, ClaimDelivery(s), ~MayClaim(mode[s], row[s])
      PROVE  Leave(s)
  BY <1>7 DEF ClaimDelivery
<1> QED
  BY <1>1, <1>2, <1>3, <1>4, <1>5, <1>6, <1>7
     DEF Next, SenderStep, InsertPending, NothingSent, RecordOutcome, SenderDies,
         RecoverStaleClaim, SettleUnknown, ReportLoads, ReportCommits, CancelLoads,
         CancelCommits, vars

-----------------------------------------------------------------------------
(* The balance is preserved by every step: a claim turns the row's own       *)
(* claimability into the sender's, an acceptance spends it, an outcome       *)
(* returns at most what the sender still held, and whatever else makes a row *)
(* claimable is counted as a release.                                        *)
LEMMA BalanceStep ==
    TypeOK /\ HonestReplies /\ PermitBalance /\ [Next]_vars => PermitBalance'
<1> SUFFICES ASSUME TypeOK, HonestReplies, PermitBalance, [Next]_vars, NEW d \in Classified
             PROVE  copies'[d] + Permits(d)' <= 1 + released'[d]
  BY DEF PermitBalance, Classified
<1> DEFINE h == Cardinality(Holding(d))
<1>0. /\ d \in Deliveries
      /\ SenderOf[d] = "sasusync"
      /\ copies[d] \in Nat /\ released[d] \in Nat
      /\ h \in Nat /\ h' \in Nat
      /\ copies[d] + h + (IF Claimable(d) THEN 1 ELSE 0) <= 1 + released[d]
  BY HoldingFinite, HoldingFinitePrime DEF PermitBalance, TypeOK, Classified, Permits
<1> SUFFICES copies'[d] + (h' + (IF Claimable(d)' THEN 1 ELSE 0)) <= 1 + released'[d]
  BY <1>0 DEF Permits
<1> USE DEF rowVars, senderVars, webVars, historyVars, boundVars
<1>1. ASSUME NEW s \in Senders, ClaimDelivery(s), MayClaim(mode[s], row[s])
      PROVE  copies'[d] + (h' + (IF Claimable(d)' THEN 1 ELSE 0)) <= 1 + released'[d]
  <2>1. CASE row[s] = d
    <3>1. Holding(d)' = Holding(d) \cup {s} /\ s \notin Holding(d)
      BY <1>1, <2>1 DEF TypeOK, HonestReplies, ClaimDelivery, Holding
    <3>2. h' = h + 1
      BY <3>1, HoldingFinite, FS_AddElement
    <3>3. Claimable(d) /\ ~Claimable(d)'
      BY <1>1, <2>1 DEF TypeOK, ClaimDelivery, MayClaim, Claimable
    <3> QED BY <1>0, <1>1, <3>2, <3>3 DEF ClaimDelivery
  <2>2. CASE row[s] # d
    <3>1. Holding(d)' = Holding(d)
      BY <1>1, <2>2 DEF TypeOK, ClaimDelivery, Holding
    <3>2. Claimable(d)' <=> Claimable(d)
      <4>1. status'[d] = status[d]
        BY <1>1, <2>2, <1>0 DEF TypeOK, ClaimDelivery
      <4> QED BY <4>1 DEF Claimable
    <3> QED BY <1>0, <1>1, <3>1, <3>2 DEF ClaimDelivery
  <2> QED BY <2>1, <2>2
<1>2. ASSUME NEW s \in Senders, Leave(s), UNCHANGED <<status, copies, released>>
      PROVE  copies'[d] + (h' + (IF Claimable(d)' THEN 1 ELSE 0)) <= 1 + released'[d]
  BY <1>0, <1>2, LeaveHolding DEF Claimable
<1>3. ASSUME NEW s \in Senders, CallProvider(s)
      PROVE  copies'[d] + (h' + (IF Claimable(d)' THEN 1 ELSE 0)) <= 1 + released'[d]
  <2>1. status' = status /\ released' = released
    BY <1>3 DEF CallProvider
  <2>2. CASE row[s] = d /\ took'[s]
    <3>1. Holding(d)' = Holding(d) \ {s} /\ s \in Holding(d)
      BY <1>3, <2>2 DEF TypeOK, HonestReplies, CallProvider, Holding
    <3>2. h' = h - 1
      BY <3>1, HoldingFinite, FS_RemoveElement
    <3>3. copies'[d] = copies[d] + 1
      BY <1>3, <2>2, <1>0 DEF TypeOK, CallProvider, Answers
    <3> QED BY <1>0, <2>1, <3>2, <3>3 DEF Claimable
  <2>3. CASE ~(row[s] = d /\ took'[s])
    <3>1. Holding(d)' = Holding(d)
      BY <1>3, <2>3 DEF TypeOK, HonestReplies, CallProvider, Holding
    <3>2. copies'[d] = copies[d]
      BY <1>3, <2>3, <1>0 DEF TypeOK, CallProvider, Answers
    <3> QED BY <1>0, <2>1, <3>1, <3>2 DEF Claimable
  <2> QED BY <2>2, <2>3
<1>4. ASSUME NEW s \in Senders, RecordOutcome(s)
      PROVE  copies'[d] + (h' + (IF Claimable(d)' THEN 1 ELSE 0)) <= 1 + released'[d]
  <2>1. Leave(s) /\ copies' = copies /\ released' = released
    BY <1>4 DEF RecordOutcome
  <2>2. CASE row[s] # d
    <3>1. Claimable(d)' <=> Claimable(d)
      <4>1. status'[d] = status[d]
        BY <1>4, <2>2, <1>0 DEF TypeOK, RecordOutcome
      <4> QED BY <4>1 DEF Claimable
    <3> QED BY <1>0, <2>1, <3>1, LeaveHolding
  <2>3. CASE row[s] = d /\ took[s]
    <3>1. ~Claimable(d)'
      BY <1>4, <2>3 DEF TypeOK, HonestReplies, RecordOutcome, Claimable
    <3> QED BY <1>0, <2>1, <3>1, LeaveHolding
  <2>4. CASE row[s] = d /\ ~took[s]
    <3>1. s \in Holding(d)
      BY <1>4, <2>4 DEF RecordOutcome, Holding
    <3> QED BY <1>0, <2>1, <3>1, LeaveHolding
  <2> QED BY <2>2, <2>3, <2>4 DEF TypeOK
<1>5. ASSUME NEW s \in Senders, NothingSent(s)
      PROVE  copies'[d] + (h' + (IF Claimable(d)' THEN 1 ELSE 0)) <= 1 + released'[d]
  <2>1. Leave(s) /\ copies' = copies /\ released' = released
    BY <1>5 DEF NothingSent
  <2>2. CASE row[s] # d
    <3>1. Claimable(d)' <=> Claimable(d)
      BY <1>5, <2>2 DEF TypeOK, NothingSent, Claimable
    <3> QED BY <1>0, <2>1, <3>1, LeaveHolding
  <2>3. CASE row[s] = d
    <3>1. s \in Holding(d)
      BY <1>5, <2>3 DEF NothingSent, Holding, HonestReplies, TypeOK
    <3> QED BY <1>0, <2>1, <3>1, LeaveHolding
  <2> QED BY <2>2, <2>3
<1>6. ASSUME UNCHANGED <<pc, row, took, copies>>,
             Claimable(d)' => Claimable(d) \/ released'[d] = released[d] + 1,
             released'[d] \in {released[d], released[d] + 1}
      PROVE  copies'[d] + (h' + (IF Claimable(d)' THEN 1 ELSE 0)) <= 1 + released'[d]
  <2>1. h' = h
    BY <1>6, SameHolding
  <2> QED BY <1>0, <1>6, <2>1
<1>7. ASSUME NEW s \in Senders, NEW e \in Deliveries, NEW m \in {"send", "resend"},
             PickForBatch(s, e, m) \/ PickForSweep(s, e)
      PROVE  copies'[d] + (h' + (IF Claimable(d)' THEN 1 ELSE 0)) <= 1 + released'[d]
  <2>1. Holding(d)' = Holding(d)
    BY <1>7 DEF TypeOK, HonestReplies, PickForBatch, PickForSweep, Holding
  <2> QED BY <1>0, <1>7, <2>1 DEF PickForBatch, PickForSweep, Claimable
<1>8. ASSUME NEW s \in Senders, InsertPending(s)
      PROVE  copies'[d] + (h' + (IF Claimable(d)' THEN 1 ELSE 0)) <= 1 + released'[d]
  BY <1>6, <1>8, <1>0 DEF TypeOK, InsertPending, Claimable
<1>9. ASSUME NEW e \in Deliveries, RecoverStaleClaim(e)
      PROVE  copies'[d] + (h' + (IF Claimable(d)' THEN 1 ELSE 0)) <= 1 + released'[d]
  BY <1>6, <1>9, <1>0 DEF TypeOK, RecoverStaleClaim, Claimable
<1>10. ASSUME NEW e \in Deliveries, NEW o \in {"sent", "not_sent"}, SettleUnknown(e, o)
       PROVE  copies'[d] + (h' + (IF Claimable(d)' THEN 1 ELSE 0)) <= 1 + released'[d]
  BY <1>6, <1>10, <1>0 DEF TypeOK, SettleUnknown, Claimable
<1>11. ASSUME NEW e \in Deliveries, ReportCommits(e)
       PROVE  copies'[d] + (h' + (IF Claimable(d)' THEN 1 ELSE 0)) <= 1 + released'[d]
  BY <1>6, <1>11, <1>0 DEF TypeOK, ReportCommits, Claimable
<1>12. CASE CancelCommits
  BY <1>6, <1>12, <1>0 DEF TypeOK, CancelCommits, Claimable
<1>13. CASE UNCHANGED <<pc, row, took, status, copies, released>>
  BY <1>6, <1>13, <1>0 DEF Claimable
<1>14. ASSUME NEW s \in Senders, ClaimDelivery(s), ~MayClaim(mode[s], row[s])
       PROVE  Leave(s) /\ UNCHANGED <<status, copies, released>>
  BY <1>14 DEF ClaimDelivery
<1>15. ASSUME NEW s \in Senders, SenderDies(s)
       PROVE  Leave(s) /\ UNCHANGED <<status, copies, released>>
  BY <1>15 DEF SenderDies
<1>16. ASSUME NEW e \in Deliveries, ReportLoads(e)
       PROVE  UNCHANGED <<pc, row, took, status, copies, released>>
  BY <1>16 DEF ReportLoads
<1>17. CancelLoads => UNCHANGED <<pc, row, took, status, copies, released>>
  BY DEF CancelLoads
<1>18. UNCHANGED vars => UNCHANGED <<pc, row, took, status, copies, released>>
  BY DEF vars
<1> HIDE DEF h
<1> QED
  BY <1>1, <1>2, <1>3, <1>4, <1>5, <1>7, <1>8, <1>9, <1>10, <1>11, <1>12, <1>13, <1>14,
     <1>15, <1>16, <1>17, <1>18 DEF Next, SenderStep

(* In every behaviour the messages the provider accepted for a row, plus the *)
(* claims still out on it, never exceed one plus its releases.               *)
THEOREM BalanceAlways == Spec => []PermitBalance
<1>1. Init => HonestReplies /\ PermitBalance
  <2> SUFFICES ASSUME Init PROVE HonestReplies /\ PermitBalance
    OBVIOUS
  <2>1. HonestReplies
    BY DEF Init, HonestReplies
  <2>2. ASSUME NEW d \in Classified PROVE copies[d] + Permits(d) <= 1 + released[d]
    <3>1. Holding(d) = {}
      BY DEF Init, Holding
    <3>2. Cardinality(Holding(d)) = 0
      BY <3>1, FS_EmptySet
    <3>3. Claimable(d) /\ copies[d] = 0 /\ released[d] = 0
      BY DEF Init, Claimable, Classified
    <3> QED BY <3>2, <3>3 DEF Permits
  <2> QED BY <2>1, <2>2 DEF PermitBalance
<1> QED BY <1>1, TypeCorrect, HonestStep, BalanceStep, PTL DEF Spec

(* No payslip of a classifying sender is accepted again without a release:   *)
(* the send path alone delivers each payslip at most once.                   *)
THEOREM AtMostOncePerRelease == Spec => []NoBlindResend
<1>1. TypeOK /\ PermitBalance => NoBlindResend
  <2> SUFFICES ASSUME TypeOK, PermitBalance, NEW d \in Classified
               PROVE  copies[d] <= 1 + released[d]
    BY DEF NoBlindResend
  <2>1. Permits(d) \in Nat
    BY HoldingFinite DEF Permits
  <2> QED BY <2>1 DEF PermitBalance, TypeOK, Classified
<1> QED BY <1>1, TypeCorrect, BalanceAlways, PTL
-----------------------------------------------------------------------------
(* An `ok` still to be recorded is about a message the provider accepted. *)
OkIsAccepted ==
    \A s \in Senders : pc[s] = "answered" /\ reply[s] = "ok" => copies[row[s]] > 0

(* The grounds for `sent` are preserved: _mark_sent is reached only after an *)
(* accepted message, the operator's settle is recorded, and neither an       *)
(* acceptance nor a settle is ever taken back.                               *)
LEMMA GroundsStep ==
    TypeOK /\ OkIsAccepted /\ SentHasGrounds /\ [Next]_vars => OkIsAccepted' /\ SentHasGrounds'
<1> SUFFICES ASSUME TypeOK, OkIsAccepted, SentHasGrounds, [Next]_vars
             PROVE  OkIsAccepted' /\ SentHasGrounds'
  OBVIOUS
<1> USE DEF OkIsAccepted, SentHasGrounds, rowVars, senderVars, webVars, historyVars, boundVars
<1>0. /\ status \in [Deliveries -> Statuses] /\ copies \in [Deliveries -> Nat]
      /\ pc \in [Senders -> PCs] /\ reply \in [Senders -> Replies]
      /\ row \in [Senders -> Deliveries \cup {"none"}]
      /\ \A s \in Senders : pc[s] # "idle" => row[s] \in Deliveries
  BY DEF TypeOK
<1>1. ASSUME NEW s \in Senders, NEW d \in Deliveries, NEW m \in {"send", "resend"},
             PickForBatch(s, d, m) \/ PickForSweep(s, d)
      PROVE  OkIsAccepted' /\ SentHasGrounds'
  BY <1>0, <1>1 DEF PickForBatch, PickForSweep
<1>2. ASSUME NEW s \in Senders, Leave(s), copies' = copies PROVE OkIsAccepted'
  BY <1>0, <1>2 DEF Leave
<1>3. ASSUME NEW s \in Senders, InsertPending(s) PROVE OkIsAccepted' /\ SentHasGrounds'
  BY <1>0, <1>3 DEF InsertPending
<1>4. ASSUME NEW s \in Senders, ClaimDelivery(s) PROVE OkIsAccepted' /\ SentHasGrounds'
  <2>1. CASE MayClaim(mode[s], row[s])
    BY <1>0, <1>4, <2>1 DEF ClaimDelivery
  <2>2. CASE ~MayClaim(mode[s], row[s])
    BY <1>0, <1>4, <2>2, <1>2 DEF ClaimDelivery
  <2> QED BY <2>1, <2>2
<1>5. ASSUME NEW s \in Senders, NothingSent(s) PROVE OkIsAccepted' /\ SentHasGrounds'
  BY <1>0, <1>5, <1>2 DEF NothingSent
<1>6. ASSUME NEW s \in Senders, CallProvider(s) PROVE OkIsAccepted' /\ SentHasGrounds'
  <2>1. row[s] \in Deliveries
    BY <1>0, <1>6 DEF CallProvider
  <2>2. PICK a \in Answers(SenderOf[row[s]]) :
              /\ reply' = [reply EXCEPT ![s] = a.says]
              /\ copies' = [copies EXCEPT ![row[s]] =
                              IF a.took THEN copies[row[s]] + 1 ELSE copies[row[s]]]
    BY <1>6 DEF CallProvider
  <2>3. a.says = "ok" => a.took
    BY <2>2 DEF Answers
  <2>4. /\ copies' \in [Deliveries -> Nat]
        /\ copies'[row[s]] >= copies[row[s]]
        /\ a.took => copies'[row[s]] > 0
        /\ \A d \in Deliveries \ {row[s]} : copies'[d] = copies[d]
    BY <1>0, <2>1, <2>2
  <2>5. pc' = [pc EXCEPT ![s] = "answered"] /\ UNCHANGED <<status, row, vouched>>
    BY <1>6 DEF CallProvider
  <2>6. \A d \in Deliveries : copies[d] > 0 => copies'[d] > 0
    BY <1>0, <2>1, <2>4
  <2> QED BY <1>0, <2>1, <2>2, <2>3, <2>4, <2>5, <2>6
<1>7. ASSUME NEW s \in Senders, RecordOutcome(s) PROVE OkIsAccepted' /\ SentHasGrounds'
  <2>1. row[s] \in Deliveries /\ (reply[s] = "ok" => copies[row[s]] > 0)
    BY <1>0, <1>7 DEF RecordOutcome
  <2> QED BY <1>0, <1>7, <1>2, <2>1 DEF RecordOutcome
<1>8. ASSUME NEW s \in Senders, SenderDies(s) PROVE OkIsAccepted' /\ SentHasGrounds'
  BY <1>0, <1>8, <1>2 DEF SenderDies
<1>9. ASSUME NEW d \in Deliveries, RecoverStaleClaim(d) PROVE OkIsAccepted' /\ SentHasGrounds'
  BY <1>0, <1>9 DEF RecoverStaleClaim
<1>10. ASSUME NEW d \in Deliveries, NEW o \in {"sent", "not_sent"}, SettleUnknown(d, o)
       PROVE  OkIsAccepted' /\ SentHasGrounds'
  BY <1>0, <1>10 DEF SettleUnknown
<1>11. ASSUME NEW d \in Deliveries, ReportLoads(d) \/ ReportCommits(d)
       PROVE  OkIsAccepted' /\ SentHasGrounds'
  BY <1>0, <1>11 DEF ReportLoads, ReportCommits
<1>12. CASE CancelLoads \/ CancelCommits
  BY <1>0, <1>12 DEF CancelLoads, CancelCommits
<1>13. CASE UNCHANGED vars
  BY <1>13 DEF vars
<1> QED
  BY <1>1, <1>3, <1>4, <1>5, <1>6, <1>7, <1>8, <1>9, <1>10, <1>11, <1>12, <1>13
     DEF Next, SenderStep

(* No interleaving of late outcomes, recoveries, settles, webhooks and       *)
(* cancels makes a row `sent` that the provider never accepted and nobody    *)
(* vouched for.                                                              *)
THEOREM SentIsGrounded == Spec => []SentHasGrounds
<1>1. Init => OkIsAccepted /\ SentHasGrounds
  BY DEF Init, OkIsAccepted, SentHasGrounds
<1> QED BY <1>1, TypeCorrect, GroundsStep, PTL DEF Spec

-----------------------------------------------------------------------------
(* What the sweep relies on: a webhook works on rows with a provider id, and *)
(* a scheduled retry of any other row is within DISTRIBUTION_MAX_ATTEMPTS.   *)
RetryWithinLimit ==
    /\ \A d \in reporting : tracked[d]
    /\ \A d \in Deliveries :
         status[d] = "failed" /\ retry[d] /\ ~tracked[d] => attempts[d] < MaxAttempts

(* RetryWithinLimit is preserved: attempts grow only with a claim, which     *)
(* leaves `failed`, and every way back to `failed` rewrites next_retry_at,   *)
(* except a failure report's.                                                *)
LEMMA RetryStep == TypeOK /\ RetryWithinLimit /\ [Next]_vars => RetryWithinLimit'
<1> SUFFICES ASSUME TypeOK, RetryWithinLimit, [Next]_vars PROVE RetryWithinLimit'
  OBVIOUS
<1> USE MaxAttemptsAssumption
        DEF RetryWithinLimit, rowVars, senderVars, webVars, historyVars, boundVars
<1>0. /\ status \in [Deliveries -> Statuses] /\ retry \in [Deliveries -> BOOLEAN]
      /\ attempts \in [Deliveries -> Nat] /\ tracked \in [Deliveries -> BOOLEAN]
      /\ reporting \subseteq Deliveries
      /\ \A s \in Senders : pc[s] # "idle" => row[s] \in Deliveries
  BY DEF TypeOK
<1>1. ASSUME NEW s \in Senders, InsertPending(s) PROVE RetryWithinLimit'
  BY <1>0, <1>1 DEF InsertPending
<1>2. ASSUME NEW s \in Senders, ClaimDelivery(s) PROVE RetryWithinLimit'
  BY <1>0, <1>2 DEF ClaimDelivery
<1>3. ASSUME NEW s \in Senders, NothingSent(s) PROVE RetryWithinLimit'
  BY <1>0, <1>3 DEF NothingSent
<1>4. ASSUME NEW s \in Senders, RecordOutcome(s) PROVE RetryWithinLimit'
  <2>1. row[s] \in Deliveries /\ UNCHANGED <<attempts, reporting>>
    BY <1>0, <1>4 DEF RecordOutcome
  <2>2. CASE reply[s] = "ok"
    BY <1>0, <1>4, <2>1, <2>2 DEF RecordOutcome
  <2>3. CASE reply[s] = "ambiguous"
    BY <1>0, <1>4, <2>1, <2>3 DEF RecordOutcome
  <2>4. CASE reply[s] \in {"retryable", "refused", "unclassified"}
    BY <1>0, <1>4, <2>1, <2>4 DEF RecordOutcome, RetryScheduled
  <2> QED BY <1>4, <2>2, <2>3, <2>4 DEF RecordOutcome
<1>5. ASSUME NEW d \in Deliveries, RecoverStaleClaim(d) PROVE RetryWithinLimit'
  BY <1>0, <1>5 DEF RecoverStaleClaim
<1>6. ASSUME NEW d \in Deliveries, NEW o \in {"sent", "not_sent"}, SettleUnknown(d, o)
      PROVE  RetryWithinLimit'
  BY <1>0, <1>6 DEF SettleUnknown
<1>7. ASSUME NEW d \in Deliveries, ReportLoads(d) PROVE RetryWithinLimit'
  BY <1>0, <1>7 DEF ReportLoads
<1>8. ASSUME NEW d \in Deliveries, ReportCommits(d) PROVE RetryWithinLimit'
  BY <1>0, <1>8 DEF ReportCommits
<1>9. CASE CancelCommits
  BY <1>0, <1>9 DEF CancelCommits
<1>10. CASE UNCHANGED <<status, retry, attempts, tracked, reporting>>
  BY <1>10
<1> QED
  BY <1>1, <1>2, <1>3, <1>4, <1>5, <1>6, <1>7, <1>8, <1>9, <1>10
     DEF Next, SenderStep, PickForBatch, PickForSweep, CallProvider, SenderDies, CancelLoads,
         vars

(* An attempt the retry sweep claims is within DISTRIBUTION_MAX_ATTEMPTS,    *)
(* however many other threads counted attempts on the row in the meantime    *)
(* (process_due_retries, claim_delivery, _mark_failed).                      *)
THEOREM SweepKeepsLimit == Spec => SweepWithinLimit
<1>1. Init => RetryWithinLimit
  BY DEF Init, RetryWithinLimit
<1>2. TypeOK /\ RetryWithinLimit /\ [Next]_vars =>
        [\A s \in Senders :
           pc[s] = "picked" /\ pc'[s] = "claimed" /\ mode[s] = "sweep" /\ ~tracked[row[s]]
              => attempts'[row[s]] <= MaxAttempts]_vars
  <2> SUFFICES ASSUME TypeOK, RetryWithinLimit, Next, NEW s \in Senders,
                      pc[s] = "picked", pc'[s] = "claimed", mode[s] = "sweep",
                      ~tracked[row[s]]
               PROVE  attempts'[row[s]] <= MaxAttempts
    OBVIOUS
  <2> USE DEF rowVars, senderVars, webVars, historyVars, boundVars
  <2>1. ClaimDelivery(s) /\ MayClaim(mode[s], row[s])
    BY DEF TypeOK, Next, SenderStep, PickForBatch, PickForSweep, InsertPending, ClaimDelivery,
           NothingSent, CallProvider, RecordOutcome, SenderDies, Leave, RecoverStaleClaim,
           SettleUnknown, ReportLoads, ReportCommits, CancelLoads, CancelCommits
  <2>2. row[s] \in Deliveries /\ attempts[row[s]] < MaxAttempts
    BY <2>1 DEF TypeOK, RetryWithinLimit, MayClaim
  <2> QED BY <2>1, <2>2, MaxAttemptsAssumption DEF TypeOK, ClaimDelivery
<1> QED BY <1>1, <1>2, TypeCorrect, RetryStep, PTL DEF Spec, SweepWithinLimit
-----------------------------------------------------------------------------
(* Delivery implements SendPermits.  What the promise sees of one row does   *)
(* not change in a step.                                                     *)
SameRow(d) ==
    copies'[d] = copies[d] /\ released'[d] = released[d] /\ Permits(d)' = Permits(d)

(* The number of permits is a number. *)
LEMMA PermitsNat ==
    ASSUME NEW d PROVE Permits(d) \in Nat /\ Permits(d)' \in Nat
BY HoldingFinite, HoldingFinitePrime DEF Permits

(* If no row of a classifying sender changes, the promise takes no step. *)
LEMMA StutterOf ==
    ASSUME \A d \in Classified : SameRow(d)
    PROVE  UNCHANGED Promise!vars
BY DEF SameRow, Promise!vars, Classified

(* If one row loses permits and no other changes, the promise forfeits, or   *)
(* takes no step when nothing was lost.                                      *)
LEMMA ForfeitOf ==
    ASSUME NEW d \in Classified, copies'[d] = copies[d], released'[d] = released[d],
           Permits(d)' <= Permits(d), \A e \in Classified \ {d} : SameRow(e)
    PROVE  [Promise!Next]_(Promise!vars)
<1>1. CASE Permits(d)' = Permits(d)
  BY <1>1, StutterOf DEF SameRow
<1>2. CASE Permits(d)' # Permits(d)
  <2>1. Permits(d)' \in 0..(Permits(d) - 1)
    BY <1>2, PermitsNat
  <2>2. Promise!Forfeit(d)
    BY <2>1 DEF SameRow, Classified, Promise!Forfeit
  <2> QED BY <2>2 DEF Promise!Next
<1> QED BY <1>1, <1>2

(* If one row gains a copy and loses a permit, the promise accepts. *)
LEMMA AcceptOf ==
    ASSUME NEW d \in Classified, copies'[d] = copies[d] + 1, released'[d] = released[d],
           Permits(d)' = Permits(d) - 1, \A e \in Classified \ {d} : SameRow(e)
    PROVE  Promise!Next
<1>1. Permits(d) > 0
  BY PermitsNat
<1>2. Promise!Accept(d)
  BY <1>1 DEF SameRow, Classified, Promise!Accept
<1> QED BY <1>2 DEF Promise!Next

(* If some rows gain a release and a permit, the promise releases them. *)
LEMMA ReleaseOf ==
    ASSUME NEW S \in SUBSET Classified, \A d \in Classified : copies'[d] = copies[d],
           \A d \in S : released'[d] = released[d] + 1 /\ Permits(d)' = Permits(d) + 1,
           \A d \in Classified \ S : SameRow(d)
    PROVE  Promise!Next
<1>1. Promise!Release(S)
  BY DEF SameRow, Classified, Promise!Release
<1> QED BY <1>1 DEF Promise!Next
(* A row whose claims, claimability and history stay is the same row. *)
LEMMA SameRowOf ==
    ASSUME NEW d, Cardinality(Holding(d)') = Cardinality(Holding(d)),
           Claimable(d)' <=> Claimable(d), copies'[d] = copies[d], released'[d] = released[d]
    PROVE  SameRow(d)
BY DEF SameRow, Permits

(* A sender that ends its attempt, with whatever outcome, gives the promise  *)
(* nothing back: if its row has no more permits than before, that is a       *)
(* forfeit or no step.                                                       *)
LEMMA LeaveRefines ==
    ASSUME TypeOK, NEW s \in Senders, Leave(s), UNCHANGED <<copies, released>>,
           \A d \in Deliveries \ {row[s]} : status'[d] = status[d],
           \A d \in Classified : d = row[s] => Permits(d)' <= Permits(d)
    PROVE  [Promise!Next]_(Promise!vars)
<1>1. ASSUME NEW d \in Classified \ {row[s]} PROVE SameRow(d)
  <2>1. d \in Deliveries /\ s \notin Holding(d)
    BY <1>1 DEF Classified, Holding
  <2>2. Cardinality(Holding(d)') = Cardinality(Holding(d))
    BY <2>1, LeaveHolding
  <2>3. Claimable(d)' <=> Claimable(d)
    BY <1>1, <2>1 DEF Claimable
  <2> QED BY <2>2, <2>3, SameRowOf
<1>2. CASE row[s] \in Classified
  BY <1>1, <1>2, ForfeitOf
<1>3. CASE row[s] \notin Classified
  BY <1>1, <1>3, StutterOf
<1> QED BY <1>2, <1>3

(* Every step of the delivery rows is a step, or no step, of the promise. *)
LEMMA RefineStep ==
    TypeOK /\ HonestReplies /\ [Next]_vars => [Promise!Next]_(Promise!vars)
<1> SUFFICES ASSUME TypeOK, HonestReplies, [Next]_vars PROVE [Promise!Next]_(Promise!vars)
  OBVIOUS
<1> USE DEF rowVars, senderVars, webVars, historyVars, boundVars
<1>0. Classified \subseteq Deliveries
  BY DEF Classified
<1>1. ASSUME NEW s \in Senders, NEW e \in Deliveries, NEW m \in {"send", "resend"},
             PickForBatch(s, e, m) \/ PickForSweep(s, e)
      PROVE  [Promise!Next]_(Promise!vars)
  <2>1. ASSUME NEW d \in Classified PROVE SameRow(d)
    <3>1. Holding(d)' = Holding(d)
      BY <1>1 DEF TypeOK, HonestReplies, PickForBatch, PickForSweep, Holding
    <3> QED BY <1>1, <3>1, SameRowOf DEF PickForBatch, PickForSweep, Claimable
  <2> QED BY <2>1, StutterOf
<1>2. ASSUME UNCHANGED <<pc, row, took, copies, released>>,
             \A d \in Classified : Claimable(d)' <=> Claimable(d)
      PROVE  [Promise!Next]_(Promise!vars)
  <2>1. ASSUME NEW d \in Classified PROVE SameRow(d)
    BY <1>2, SameHolding, SameRowOf
  <2> QED BY <2>1, StutterOf
<1>3. ASSUME NEW s \in Senders, InsertPending(s) PROVE [Promise!Next]_(Promise!vars)
  <2>1. \A d \in Classified : Claimable(d)' <=> Claimable(d)
    BY <1>0, <1>3 DEF TypeOK, InsertPending, Claimable
  <2> QED BY <1>2, <1>3, <2>1 DEF InsertPending
<1>4. ASSUME NEW s \in Senders, ClaimDelivery(s), MayClaim(mode[s], row[s])
      PROVE  [Promise!Next]_(Promise!vars)
  <2>1. ASSUME NEW d \in Classified, d = row[s] PROVE SameRow(d)
    <3>1. Holding(d)' = Holding(d) \cup {s} /\ s \notin Holding(d)
      BY <1>4, <2>1 DEF TypeOK, HonestReplies, ClaimDelivery, Holding
    <3>2. Cardinality(Holding(d)') = Cardinality(Holding(d)) + 1
      BY <3>1, HoldingFinite, FS_AddElement
    <3>3. Claimable(d) /\ ~Claimable(d)'
      BY <1>4, <2>1, <1>0 DEF TypeOK, ClaimDelivery, MayClaim, Claimable
    <3>4. Permits(d)' = Permits(d)
      BY <3>2, <3>3, HoldingFinite DEF Permits
    <3> QED BY <1>4, <3>4 DEF ClaimDelivery, SameRow
  <2>2. ASSUME NEW d \in Classified, d # row[s] PROVE SameRow(d)
    <3>1. Holding(d)' = Holding(d)
      BY <1>4, <2>2 DEF TypeOK, ClaimDelivery, Holding
    <3>2. status'[d] = status[d]
      BY <1>4, <2>2, <1>0 DEF TypeOK, ClaimDelivery
    <3> QED BY <1>4, <3>1, <3>2, SameRowOf DEF ClaimDelivery, Claimable
  <2> QED BY <2>1, <2>2, StutterOf
<1>5. ASSUME NEW s \in Senders, Leave(s), UNCHANGED <<status, copies, released>>
      PROVE  [Promise!Next]_(Promise!vars)
  <2>1. ASSUME NEW d \in Classified, d = row[s] PROVE Permits(d)' <= Permits(d)
    <3>1. Cardinality(Holding(d)') \in {Cardinality(Holding(d)), Cardinality(Holding(d)) - 1}
      BY <1>5, <1>0, LeaveHolding
    <3>2. Claimable(d)' <=> Claimable(d)
      BY <1>5 DEF Claimable
    <3> QED BY <3>1, <3>2, HoldingFinite DEF Permits
  <2> QED BY <1>5, <2>1, LeaveRefines
<1>6. ASSUME NEW s \in Senders, NothingSent(s) PROVE [Promise!Next]_(Promise!vars)
  <2>1. Leave(s) /\ UNCHANGED <<copies, released>>
        /\ \A d \in Deliveries \ {row[s]} : status'[d] = status[d]
    BY <1>6 DEF TypeOK, NothingSent
  <2>2. ASSUME NEW d \in Classified, d = row[s] PROVE Permits(d)' <= Permits(d)
    <3>1. s \in Holding(d)
      BY <1>6, <2>2 DEF NothingSent, Holding, HonestReplies, TypeOK
    <3>2. Cardinality(Holding(d)') = Cardinality(Holding(d)) - 1
      BY <1>0, <2>1, <3>1, LeaveHolding
    <3> QED BY <3>2, HoldingFinite DEF Permits
  <2> QED BY <2>1, <2>2, LeaveRefines
<1>7. ASSUME NEW s \in Senders, RecordOutcome(s) PROVE [Promise!Next]_(Promise!vars)
  <2>1. Leave(s) /\ UNCHANGED <<copies, released>>
    BY <1>7 DEF RecordOutcome
  <2>2. \A d \in Deliveries \ {row[s]} : status'[d] = status[d]
    BY <1>7 DEF TypeOK, RecordOutcome
  <2>3. ASSUME NEW d \in Classified, d = row[s] PROVE Permits(d)' <= Permits(d)
    <3>1. CASE took[s]
      <4>1. ~Claimable(d)' /\ s \notin Holding(d)
        BY <1>7, <2>3, <3>1, <1>0 DEF TypeOK, HonestReplies, RecordOutcome, Claimable, Holding
      <4>2. Cardinality(Holding(d)') = Cardinality(Holding(d))
        BY <1>0, <2>1, <4>1, LeaveHolding
      <4> QED BY <4>1, <4>2, HoldingFinite DEF Permits
    <3>2. CASE ~took[s]
      <4>1. s \in Holding(d)
        BY <1>7, <2>3, <3>2 DEF RecordOutcome, Holding
      <4>2. Cardinality(Holding(d)') = Cardinality(Holding(d)) - 1
        BY <1>0, <2>1, <4>1, LeaveHolding
      <4> QED BY <4>2, HoldingFinite DEF Permits
    <3> QED BY <3>1, <3>2
  <2> QED BY <2>1, <2>2, <2>3, LeaveRefines
<1>8. ASSUME NEW s \in Senders, CallProvider(s) PROVE [Promise!Next]_(Promise!vars)
  <2>1. status' = status /\ released' = released
    BY <1>8 DEF CallProvider
  <2>2. ASSUME NEW d \in Classified, ~(d = row[s] /\ took'[s]) PROVE SameRow(d)
    <3>1. Holding(d)' = Holding(d)
      BY <1>8, <2>2 DEF TypeOK, HonestReplies, CallProvider, Holding
    <3>2. copies'[d] = copies[d]
      BY <1>8, <2>2, <1>0 DEF TypeOK, CallProvider, Answers
    <3> QED BY <2>1, <3>1, <3>2, SameRowOf DEF Claimable
  <2>3. ASSUME NEW d \in Classified, d = row[s], took'[s]
        PROVE  copies'[d] = copies[d] + 1 /\ Permits(d)' = Permits(d) - 1
    <3>1. Holding(d)' = Holding(d) \ {s} /\ s \in Holding(d)
      BY <1>8, <2>3 DEF TypeOK, HonestReplies, CallProvider, Holding
    <3>2. Cardinality(Holding(d)') = Cardinality(Holding(d)) - 1
      BY <3>1, HoldingFinite, FS_RemoveElement
    <3>3. copies'[d] = copies[d] + 1
      BY <1>8, <2>3, <1>0 DEF TypeOK, CallProvider, Answers
    <3> QED BY <2>1, <3>2, <3>3, HoldingFinite DEF Permits, Claimable
  <2>4. CASE row[s] \in Classified /\ took'[s]
    BY <2>1, <2>2, <2>3, <2>4, AcceptOf
  <2>5. CASE ~(row[s] \in Classified /\ took'[s])
    BY <2>2, <2>5, StutterOf
  <2> QED BY <2>4, <2>5
<1>9. ASSUME NEW e \in Deliveries, RecoverStaleClaim(e) PROVE [Promise!Next]_(Promise!vars)
  <2>1. \A d \in Classified : Claimable(d)' <=> Claimable(d)
    BY <1>0, <1>9 DEF TypeOK, RecoverStaleClaim, Claimable
  <2> QED BY <1>2, <1>9, <2>1 DEF RecoverStaleClaim
<1>10. ASSUME UNCHANGED <<pc, row, took, copies>>,
              \A d \in Classified :
                 \/ (Claimable(d)' <=> Claimable(d)) /\ released'[d] = released[d]
                 \/ ~Claimable(d) /\ Claimable(d)' /\ released'[d] = released[d] + 1
       PROVE  [Promise!Next]_(Promise!vars)
  <2> DEFINE S == {d \in Classified : ~Claimable(d) /\ Claimable(d)'}
  <2>1. ASSUME NEW d \in S PROVE released'[d] = released[d] + 1 /\ Permits(d)' = Permits(d) + 1
    <3>1. released'[d] = released[d] + 1
      BY <1>10
    <3> QED BY <1>10, <3>1, SameHolding, HoldingFinite DEF Permits
  <2>2. ASSUME NEW d \in Classified \ S PROVE SameRow(d)
    BY <1>10, SameHolding, SameRowOf
  <2> HIDE DEF S
  <2>3. S \in SUBSET Classified
    BY DEF S
  <2> QED BY <1>10, <2>1, <2>2, <2>3, ReleaseOf
<1>11. ASSUME NEW e \in Deliveries, NEW o \in {"sent", "not_sent"}, SettleUnknown(e, o)
       PROVE  [Promise!Next]_(Promise!vars)
  BY <1>0, <1>10, <1>11 DEF TypeOK, SettleUnknown, Claimable
<1>12. ASSUME NEW e \in Deliveries, ReportCommits(e) PROVE [Promise!Next]_(Promise!vars)
  BY <1>0, <1>10, <1>12 DEF TypeOK, ReportCommits, Claimable
<1>13. CASE CancelCommits
  BY <1>0, <1>10, <1>13 DEF TypeOK, CancelCommits, Claimable
<1>14. CASE UNCHANGED <<pc, row, took, status, copies, released>>
  BY <1>2, <1>14 DEF Claimable
<1>15. ASSUME NEW s \in Senders,
              SenderDies(s) \/ (ClaimDelivery(s) /\ ~MayClaim(mode[s], row[s]))
       PROVE  Leave(s) /\ UNCHANGED <<status, copies, released>>
  BY <1>15 DEF SenderDies, ClaimDelivery
<1>16. ASSUME NEW e \in Deliveries, ReportLoads(e)
       PROVE  UNCHANGED <<pc, row, took, status, copies, released>>
  BY <1>16 DEF ReportLoads
<1>17. CancelLoads \/ UNCHANGED vars => UNCHANGED <<pc, row, took, status, copies, released>>
  BY DEF CancelLoads, vars
<1> QED
  BY <1>1, <1>3, <1>4, <1>5, <1>6, <1>7, <1>8, <1>9, <1>11, <1>12, <1>13, <1>14, <1>15, <1>16,
     <1>17 DEF Next, SenderStep

(* The rows, their senders, the recovery, the operator, the webhooks and the *)
(* cancel together implement SendPermits: an accepted message spends a       *)
(* permit, and only a decision outside the send path grants another.         *)
THEOREM DeliveryImplementsPromise == Spec => KeepsPromise
<1>1. Init => Promise!Init
  <2> SUFFICES ASSUME Init PROVE Promise!Init
    OBVIOUS
  <2>1. ASSUME NEW d \in Classified PROVE Permits(d) = 1 /\ copies[d] = 0 /\ released[d] = 0
    <3>1. Holding(d) = {}
      BY DEF Init, Holding
    <3>2. Cardinality(Holding(d)) = 0
      BY <3>1, FS_EmptySet
    <3>3. Claimable(d) /\ copies[d] = 0 /\ released[d] = 0
      BY DEF Init, Claimable, Classified
    <3> QED BY <3>2, <3>3 DEF Permits
  <2> QED BY <2>1 DEF Promise!Init
<1>2. Init => HonestReplies
  BY DEF Init, HonestReplies
<1> QED
  BY <1>1, <1>2, TypeCorrect, HonestStep, RefineStep, PTL DEF Spec, KeepsPromise, Promise!Spec

-----------------------------------------------------------------------------
(* The queue *)

USE DEF BatchStatuses, BATCH_PENDING_STATUSES, Finished, WorkerPCs, RequestPCs

(* The batches of one status are batches, and the oldest is one of them. *)
LEMMA OldestHaving ==
    ASSUME NEW st, Having(st) # {}
    PROVE  Min(Having(st)) \in Batches /\ bstatus[Min(Having(st))] = st
<1>1. Having(st) \in SUBSET Nat
  BY QueueBoundsAssumption DEF Having, Batches
<1>2. Min(Having(st)) \in Having(st)
  BY <1>1, MinIsMember
<1> QED BY <1>2 DEF Having

-----------------------------------------------------------------------------
(* What a request is about to insert is a batch of a run. *)
EnqueuesForRuns == \A q \in Requests : rpc[q] = "enqueue" => target[q] \in Runs

(* Types are kept by every request, worker and clock step; the reclaim       *)
(* counter in particular never passes DISTRIBUTION_BATCH_MAX_RECLAIMS, even  *)
(* when several workers write the same batch from what each of them loaded.  *)
THEOREM QueueTypeCorrect == QueueSpec => []QueueTypeOK
<1>1. QueueInit => QueueTypeOK /\ EnqueuesForRuns
  BY MaxReclaimsAssumption, QueueBoundsAssumption DEF QueueInit, QueueTypeOK, EnqueuesForRuns
<1>2. QueueTypeOK /\ EnqueuesForRuns /\ [QueueNext]_queueVars => (QueueTypeOK /\ EnqueuesForRuns)'
  <2> SUFFICES ASSUME QueueTypeOK, EnqueuesForRuns, [QueueNext]_queueVars
               PROVE  QueueTypeOK' /\ EnqueuesForRuns'
    OBVIOUS
  <2> USE MaxReclaimsAssumption, QueueBoundsAssumption
          DEF QueueTypeOK, EnqueuesForRuns, batchVars, workerVars, requestVars
  <2>1. ASSUME NEW q \in Requests, NEW r \in Runs,
               EnqueueLoads(q, r) \/ CancelBatchLoads(q, r) \/ RescheduleLoads(q, r)
        PROVE  QueueTypeOK' /\ EnqueuesForRuns'
    <3>1. CASE EnqueueLoads(q, r)
      BY <3>1 DEF EnqueueLoads
    <3>2. CASE CancelBatchLoads(q, r)
      BY <3>2 DEF CancelBatchLoads, InFlight
    <3>3. CASE RescheduleLoads(q, r)
      BY <3>3 DEF RescheduleLoads, InFlight
    <3> QED BY <2>1, <3>1, <3>2, <3>3
  <2>2. ASSUME NEW q \in Requests, EnqueueCommits(q) PROVE QueueTypeOK' /\ EnqueuesForRuns'
    BY <2>2 DEF EnqueueCommits, Respond
  <2>3. ASSUME NEW q \in Requests, CancelBatchCommits(q) \/ RescheduleCommits(q)
        PROVE  QueueTypeOK' /\ EnqueuesForRuns'
    BY <2>3 DEF CancelBatchCommits, RescheduleCommits, Respond
  <2>4. ASSUME NEW b \in Batches, BecomesDue(b) \/ BecomesOld(b)
        PROVE  QueueTypeOK' /\ EnqueuesForRuns'
    BY <2>4 DEF BecomesDue, BecomesOld
  <2>5. ASSUME NEW w \in Workers, ActivateLoads(w) PROVE QueueTypeOK' /\ EnqueuesForRuns'
    BY <2>5 DEF ActivateLoads, DueScheduled, Having
  <2>6. ASSUME NEW w \in Workers, ActivateCommits(w) PROVE QueueTypeOK' /\ EnqueuesForRuns'
    BY <2>6 DEF ActivateCommits
  <2>7. ASSUME NEW w \in Workers, ReclaimLoads(w) PROVE QueueTypeOK' /\ EnqueuesForRuns'
    BY <2>7 DEF ReclaimLoads, StaleRunning, Having
  <2>8. ASSUME NEW w \in Workers, ReclaimCommits(w) PROVE QueueTypeOK' /\ EnqueuesForRuns'
    BY <2>8 DEF ReclaimCommits, Spent
  <2>9. ASSUME NEW w \in Workers, ClaimNextBatch(w) PROVE QueueTypeOK' /\ EnqueuesForRuns'
    <3>1. CASE Having("queued") = {}
      BY <2>9, <3>1 DEF ClaimNextBatch
    <3>2. CASE Having("queued") # {}
      <4> DEFINE b == Min(Having("queued"))
      <4>1. b \in Batches
        BY <3>2, OldestHaving
      <4>2. /\ bstatus' = [bstatus EXCEPT ![b] = "running"]
            /\ old' = [old EXCEPT ![b] = FALSE]
            /\ held' = [held EXCEPT ![w] = b]
            /\ executions' = [executions EXCEPT ![b] = @ + 1]
            /\ wpc' = [wpc EXCEPT ![w] = "processing"]
            /\ UNCHANGED <<runOf, due, reclaims, loaded, seen, requestVars, reschedules>>
        BY <2>9, <3>2 DEF ClaimNextBatch
      <4> HIDE DEF b
      <4> QED BY <4>1, <4>2
    <3> QED BY <3>1, <3>2
  <2>10. ASSUME NEW w \in Workers, ProcessBatch(w) \/ WorkerDies(w)
         PROVE  QueueTypeOK' /\ EnqueuesForRuns'
    <3>1. CASE ProcessBatch(w)
      <4>1. PICK outcome \in {"completed", "failed"} :
                  bstatus' = [bstatus EXCEPT ![held[w]] = outcome]
        BY <3>1 DEF ProcessBatch
      <4>2. bstatus' \in [Batches -> BatchStatuses]
        BY <4>1
      <4> QED BY <3>1, <4>2 DEF ProcessBatch
    <3>2. CASE WorkerDies(w)
      BY <3>2 DEF WorkerDies
    <3> QED BY <2>10, <3>1, <3>2
  <2>11. CASE UNCHANGED queueVars
    BY <2>11 DEF queueVars
  <2> QED
    BY <2>1, <2>2, <2>3, <2>4, <2>5, <2>6, <2>7, <2>8, <2>9, <2>10, <2>11
       DEF QueueNext, RequestCommits, WorkerStep
<1> QED BY <1>1, <1>2, PTL DEF QueueSpec
-----------------------------------------------------------------------------
(* The accounts of one worker w.  A batch that may be claimed, or that w is  *)
(* about to activate, has its next start paid for: by its creation or by a   *)
(* counted reclaim.  What w loaded to reclaim still has the count it loaded. *)
StartsPaid(w) ==
    /\ \A b \in Batches : executions[b] <= 1 + reclaims[b]
    /\ \A b \in Batches :
         bstatus[b] \in {"none", "scheduled", "queued"} => executions[b] <= reclaims[b]
    /\ wpc[w] = "activating" => \A b \in loaded[w] : executions[b] <= reclaims[b]
    /\ wpc[w] = "reclaiming" => \A b \in loaded[w] : seen[w][b] = reclaims[b]

(* StartsPaid is preserved by the worker, by the clock and by every request, *)
(* a cancel that overwrites a batch already claimed included.                *)
LEMMA StartsStep ==
    ASSUME NEW w, Workers = {w}
    PROVE  QueueTypeOK /\ StartsPaid(w) /\ [QueueNext]_queueVars => StartsPaid(w)'
<1> SUFFICES ASSUME QueueTypeOK, StartsPaid(w), [QueueNext]_queueVars PROVE StartsPaid(w)'
  OBVIOUS
<1> USE MaxReclaimsAssumption DEF StartsPaid, batchVars, workerVars, requestVars
<1>0. /\ w \in Workers
      /\ bstatus \in [Batches -> BatchStatuses] /\ reclaims \in [Batches -> 0..MaxReclaims]
      /\ executions \in [Batches -> Nat] /\ wpc \in [Workers -> WorkerPCs]
      /\ loaded \in [Workers -> SUBSET Batches]
      /\ seen \in [Workers -> [Batches -> 0..MaxReclaims]]
  BY DEF QueueTypeOK
<1>1. ASSUME NEW q \in Requests, EnqueueCommits(q) PROVE StartsPaid(w)'
  <2> DEFINE b == Min(Having("none"))
  <2>1. b \in Batches /\ bstatus[b] = "none"
    BY <1>1, OldestHaving DEF EnqueueCommits
  <2>2. PICK st \in {"scheduled", "queued"} : bstatus' = [bstatus EXCEPT ![b] = st]
    BY <1>1 DEF EnqueueCommits
  <2>3. UNCHANGED <<reclaims, executions, wpc, loaded, seen>>
    BY <1>1 DEF EnqueueCommits
  <2> HIDE DEF b
  <2> QED BY <1>0, <2>1, <2>2, <2>3
<1>2. ASSUME NEW q \in Requests, CancelBatchCommits(q) PROVE StartsPaid(w)'
  BY <1>0, <1>2 DEF CancelBatchCommits
<1>3. ActivateLoads(w) => StartsPaid(w)'
  BY <1>0 DEF ActivateLoads, DueScheduled, Having
<1>4. ActivateCommits(w) => StartsPaid(w)'
  BY <1>0 DEF ActivateCommits
<1>5. ReclaimLoads(w) => StartsPaid(w)'
  BY <1>0 DEF ReclaimLoads, StaleRunning, Having
<1>6. ReclaimCommits(w) => StartsPaid(w)'
  BY <1>0 DEF ReclaimCommits, Spent
<1>7. ASSUME ClaimNextBatch(w) PROVE StartsPaid(w)'
  <2>1. CASE Having("queued") = {}
    BY <1>0, <1>7, <2>1 DEF ClaimNextBatch
  <2>2. CASE Having("queued") # {}
    <3> DEFINE b == Min(Having("queued"))
    <3>1. b \in Batches /\ bstatus[b] = "queued"
      BY <2>2, OldestHaving
    <3>2. /\ bstatus' = [bstatus EXCEPT ![b] = "running"]
          /\ executions' = [executions EXCEPT ![b] = @ + 1]
          /\ wpc' = [wpc EXCEPT ![w] = "processing"]
          /\ UNCHANGED <<reclaims, loaded, seen>>
      BY <1>7, <2>2 DEF ClaimNextBatch
    <3> HIDE DEF b
    <3> QED BY <1>0, <3>1, <3>2
  <2> QED BY <2>1, <2>2
<1>8. ProcessBatch(w) => StartsPaid(w)'
  BY <1>0 DEF ProcessBatch
<1>9. WorkerDies(w) => StartsPaid(w)'
  BY <1>0 DEF WorkerDies
<1>10. CASE UNCHANGED <<bstatus, reclaims, executions, wpc, loaded, seen>>
  BY <1>10
<1> QED
  BY <1>1, <1>2, <1>3, <1>4, <1>5, <1>6, <1>7, <1>8, <1>9, <1>10
     DEF QueueNext, RequestCommits, WorkerStep, EnqueueLoads, CancelBatchLoads, RescheduleLoads,
         RescheduleCommits, BecomesDue, BecomesOld, queueVars

(* With one worker, which is what run_worker_loop is deployed as, a batch is *)
(* started once plus once per counted reclaim: a batch that kills its worker *)
(* every time is started at most 1 + DISTRIBUTION_BATCH_MAX_RECLAIMS times.  *)
THEOREM OneWorkerAccounts ==
    ASSUME NEW w, Workers = {w} PROVE QueueSpec => []StartsAreAccounted
<1>1. QueueInit => StartsPaid(w)
  BY DEF QueueInit, StartsPaid
<1>2. QueueTypeOK /\ StartsPaid(w) => StartsAreAccounted
  BY MaxReclaimsAssumption DEF QueueTypeOK, StartsPaid, StartsAreAccounted
<1>3. QueueTypeOK /\ StartsPaid(w) /\ [QueueNext]_queueVars => StartsPaid(w)'
  BY StartsStep
<1> QED BY <1>1, <1>2, <1>3, QueueTypeCorrect, PTL DEF QueueSpec
=============================================================================
