------------------------------ MODULE Delivery ------------------------------
(***************************************************************************)
(* The life of PayslipDelivery rows (one row per payslip and channel) under *)
(* everything that writes them:                                             *)
(*                                                                          *)
(*   - senders: the threads that run _attempt_send, on behalf of a "send"   *)
(*     batch, a "resend" (only_failed) batch or the automatic retry sweep;  *)
(*   - recover_stale_claims, which gives up on a row left `sending`;        *)
(*   - the operator's settle action, the delivery-report webhooks and       *)
(*     cancel_distribution, which run in web request threads.               *)
(*                                                                          *)
(* Every action below is one database transaction of the code, or one call  *)
(* to the provider.  Between two of them any other thread may run.  Times   *)
(* (claimed_at, next_retry_at, backoff) are abstracted: a scheduled retry   *)
(* may be due at any moment, and a claim may be old at any moment, because  *)
(* nothing bounds the wall-clock time between a claim and its outcome (a    *)
(* suspended laptop runs the desktop edition's worker).                     *)
(***************************************************************************)
EXTENDS Integers, FiniteSets

CONSTANTS
    Senders,        \* threads that may be inside _attempt_send
    Deliveries,     \* the PayslipDelivery rows of one run
    SenderOf,       \* which Sender class serves a row's channel
    MaxAttempts,    \* DISTRIBUTION_MAX_ATTEMPTS
    MaxPasses,      \* bound: rows a send/resend batch picks up
    MaxReports,     \* bound: delivery reports of failure
    MaxCrashes      \* bound: senders that die inside _attempt_send

SenderKinds == {"sasusync", "apps_script", "unclassified"}

ASSUME SendersAssumption == IsFiniteSet(Senders)
ASSUME SenderOfAssumption == SenderOf \in [Deliveries -> SenderKinds]
ASSUME NoRowAssumption == "none" \notin Deliveries
ASSUME MaxAttemptsAssumption == MaxAttempts \in Nat
ASSUME BoundsAssumption == /\ MaxPasses \in Nat
                           /\ MaxReports \in Nat
                           /\ MaxCrashes \in Nat

VARIABLES
    status,         \* PayslipDelivery.status; "absent" before the INSERT
    retry,          \* PayslipDelivery.next_retry_at IS NOT NULL
    attempts,       \* PayslipDelivery.attempts
    tracked,        \* PayslipDelivery.provider_message_id IS NOT NULL
    pc,             \* where each sender is in _attempt_send
    row,            \* the delivery it works on, "none" when idle
    mode,           \* on whose behalf
    took,           \* whether the provider accepted its message
    reply,          \* what the provider call returned to it
    reporting,      \* rows a failure-report webhook has loaded, not yet committed
    dirty,          \* the columns that webhook's flush will write
    cancelling,     \* rows a cancel_distribution has loaded, not yet committed
    copies,         \* history: messages the provider accepted for the row
    released,       \* history: unclaimable rows made claimable from outside a send
    vouched,        \* history: rows an operator settled as sent
    passes, reports, crashes    \* how much of each bound is used

rowVars == <<status, retry, attempts, tracked>>
senderVars == <<pc, row, mode, took, reply>>
webVars == <<reporting, dirty, cancelling>>
historyVars == <<copies, released, vouched>>
boundVars == <<passes, reports, crashes>>
vars == <<rowVars, senderVars, webVars, historyVars, boundVars>>

Statuses == {"absent", "pending", "sending", "sent", "failed", "unknown", "cancelled"}
Modes == {"send", "resend", "sweep"}
PCs == {"idle", "picked", "claimed", "answered"}
Replies == {"none", "ok", "ambiguous", "retryable", "refused", "unclassified"}
Columns == {"status", "next_retry_at"}

TypeOK ==
    /\ status \in [Deliveries -> Statuses]
    /\ retry \in [Deliveries -> BOOLEAN]
    /\ attempts \in [Deliveries -> Nat]
    /\ tracked \in [Deliveries -> BOOLEAN]
    /\ pc \in [Senders -> PCs]
    /\ row \in [Senders -> Deliveries \cup {"none"}]
    /\ \A s \in Senders : pc[s] # "idle" => row[s] \in Deliveries
    /\ mode \in [Senders -> Modes]
    /\ took \in [Senders -> BOOLEAN]
    /\ reply \in [Senders -> Replies]
    /\ reporting \subseteq Deliveries
    /\ dirty \in [Deliveries -> SUBSET Columns]
    /\ cancelling \subseteq Deliveries
    /\ copies \in [Deliveries -> Nat]
    /\ released \in [Deliveries -> Nat]
    /\ vouched \subseteq Deliveries
    /\ passes \in 0..MaxPasses
    /\ reports \in 0..MaxReports
    /\ crashes \in 0..MaxCrashes

-----------------------------------------------------------------------------
(* The three status tables of service.py. *)

RetryTakesUnknown == {"failed", "unknown"}         \* mutant of CLAIMABLE_FOR_RETRY

CLAIMABLE_FOR_SEND == {"pending", "failed", "cancelled"}
CLAIMABLE_FOR_RETRY == {"failed"}
SKIPPED_BY_SEND == {"sent", "sending", "unknown"}

(* Mutant of MayClaim: a first send claims by primary key alone. *)
SendClaimsAny(m, d) == m = "send" \/ (status[d] = "failed" /\ (m = "sweep" => retry[d]))

(* The WHERE clause of claim_delivery, for a caller in mode m. *)
MayClaim(m, d) ==
    CASE m = "send"   -> status[d] \in CLAIMABLE_FOR_SEND
      [] m = "resend" -> status[d] \in CLAIMABLE_FOR_RETRY
      [] m = "sweep"  -> status[d] \in CLAIMABLE_FOR_RETRY /\ retry[d]

(* Some send could still claim this row, or insert it. *)
Claimable(d) == status[d] \in CLAIMABLE_FOR_SEND \cup {"absent"}

RetryOnceMore(d, wanted) == wanted /\ attempts[d] <= MaxAttempts    \* mutant

(* _mark_failed's rule for next_retry_at.  delivery.attempts was expired by  *)
(* the last commit, so it is the value in the database at the write.         *)
RetryScheduled(d, wanted) == wanted /\ attempts[d] < MaxAttempts

(* Mutant of Answers: a lost answer is read as a success. *)
LostMeansSent(kind) ==
    {a \in [took : BOOLEAN, says : {"ok", "refused"}] : a.took => a.says = "ok"}

(* What a provider call can amount to: was the message accepted, and what    *)
(* does the SendResult say.  That a SasuSync error status (429, 4xx, 5xx)    *)
(* means nothing was accepted is what sasusync.py says of its API; a lost    *)
(* answer may hide either.                                                   *)
(* Senders that do not classify failures report a lost answer and a refusal  *)
(* alike (retryable=None); so does the Apps Script relay for a non-JSON body.*)
Answers(kind) ==
    {a \in [took : BOOLEAN, says : Replies \ {"none"}] :
        \/ a.says = "ok" /\ a.took
        \/ a.says = "ambiguous" /\ kind # "unclassified"
        \/ a.says = "retryable" /\ ~a.took /\ kind = "sasusync"
        \/ a.says = "refused" /\ ~a.took /\ kind # "unclassified"
        \/ a.says = "unclassified" /\ kind # "sasusync"}

-----------------------------------------------------------------------------
Init ==
    /\ status = [d \in Deliveries |-> "absent"]
    /\ retry = [d \in Deliveries |-> FALSE]
    /\ attempts = [d \in Deliveries |-> 0]
    /\ tracked = [d \in Deliveries |-> FALSE]
    /\ pc = [s \in Senders |-> "idle"]
    /\ row = [s \in Senders |-> "none"]
    /\ mode = [s \in Senders |-> "send"]
    /\ took = [s \in Senders |-> FALSE]
    /\ reply = [s \in Senders |-> "none"]
    /\ reporting = {}
    /\ dirty = [d \in Deliveries |-> {}]
    /\ cancelling = {}
    /\ copies = [d \in Deliveries |-> 0]
    /\ released = [d \in Deliveries |-> 0]
    /\ vouched = {}
    /\ passes = 0 /\ reports = 0 /\ crashes = 0

(* Mutant of Leave: the sender does not notice that its attempt is over. *)
LeaveUnnoticed(s) ==
    /\ row' = [row EXCEPT ![s] = "none"]
    /\ UNCHANGED <<pc, mode, took, reply>>

(* The sender leaves _attempt_send; nothing of the attempt stays in memory. *)
Leave(s) ==
    /\ pc' = [pc EXCEPT ![s] = "idle"]
    /\ row' = [row EXCEPT ![s] = "none"]
    /\ mode' = [mode EXCEPT ![s] = "send"]
    /\ took' = [took EXCEPT ![s] = FALSE]
    /\ reply' = [reply EXCEPT ![s] = "none"]

(* distribute_run reaches the row of its next item and does not skip it. *)
PickForBatch(s, d, m) ==
    /\ pc[s] = "idle"
    /\ passes < MaxPasses
    /\ \/ m = "send" /\ status[d] \notin SKIPPED_BY_SEND
       \/ m = "resend" /\ status[d] = "failed"
    /\ pc' = [pc EXCEPT ![s] = "picked"]
    /\ row' = [row EXCEPT ![s] = d]
    /\ mode' = [mode EXCEPT ![s] = m]
    /\ passes' = passes + 1
    /\ UNCHANGED <<rowVars, took, reply, webVars, historyVars, reports, crashes>>

(* process_due_retries selected the row, and retry_delivery re-read it. *)
PickForSweep(s, d) ==
    /\ pc[s] = "idle"
    /\ status[d] = "failed" /\ retry[d]
    /\ pc' = [pc EXCEPT ![s] = "picked"]
    /\ row' = [row EXCEPT ![s] = d]
    /\ mode' = [mode EXCEPT ![s] = "sweep"]
    /\ UNCHANGED <<rowVars, took, reply, webVars, historyVars, boundVars>>

(* _insert_pending.  A sender that loses the race on the unique constraint   *)
(* finds the row present and goes straight to its claim.                     *)
InsertPending(s) ==
    /\ pc[s] = "picked"
    /\ status[row[s]] = "absent"
    /\ status' = [status EXCEPT ![row[s]] = "pending"]
    /\ UNCHANGED <<retry, attempts, tracked, senderVars, webVars, historyVars, boundVars>>

(* claim_delivery: the conditional UPDATE either changes the row, and the    *)
(* sender goes on, or matches nothing, and the attempt is over.              *)
ClaimDelivery(s) ==
    LET d == row[s] IN
    /\ pc[s] = "picked"
    /\ status[d] # "absent"
    /\ IF MayClaim(mode[s], d)
         THEN /\ status' = [status EXCEPT ![d] = "sending"]
              /\ attempts' = [attempts EXCEPT ![d] = @ + 1]
              /\ pc' = [pc EXCEPT ![s] = "claimed"]
              /\ UNCHANGED <<row, mode, took, reply>>
         ELSE /\ Leave(s)
              /\ UNCHANGED <<status, attempts>>
    /\ UNCHANGED <<retry, tracked, webVars, historyVars, boundVars>>

(* No usable contact, or the message could not be built: a permanent failure *)
(* recorded without calling the provider.                                    *)
NothingSent(s) ==
    LET d == row[s] IN
    /\ pc[s] = "claimed"
    /\ status' = [status EXCEPT ![d] = "failed"]
    /\ retry' = [retry EXCEPT ![d] = FALSE]
    /\ Leave(s)
    /\ UNCHANGED <<attempts, tracked, webVars, historyVars, boundVars>>

(* sender.send(message). *)
CallProvider(s) ==
    LET d == row[s] IN
    /\ pc[s] = "claimed"
    /\ \E a \in Answers(SenderOf[d]) :
         /\ took' = [took EXCEPT ![s] = a.took]
         /\ reply' = [reply EXCEPT ![s] = a.says]
         /\ copies' = [copies EXCEPT ![d] = IF a.took THEN @ + 1 ELSE @]
    /\ pc' = [pc EXCEPT ![s] = "answered"]
    /\ UNCHANGED <<rowVars, row, mode, webVars, released, vouched, boundVars>>

(* _record_outcome and its commit: an UPDATE by primary key, whatever the    *)
(* row's status has become since the claim.                                  *)
RecordOutcome(s) ==
    LET d == row[s] IN
    /\ pc[s] = "answered"
    /\ \/ /\ reply[s] = "ok"                        \* _mark_sent
          /\ status' = [status EXCEPT ![d] = "sent"]
          /\ retry' = [retry EXCEPT ![d] = FALSE]
          /\ \E gotId \in BOOLEAN :
               tracked' = [tracked EXCEPT ![d] = @ \/ gotId]
       \/ /\ reply[s] = "ambiguous"                 \* _mark_unknown
          /\ status' = [status EXCEPT ![d] = "unknown"]
          /\ retry' = [retry EXCEPT ![d] = FALSE]
          /\ UNCHANGED tracked
       \/ /\ reply[s] \in {"retryable", "refused", "unclassified"}   \* _mark_failed
          /\ status' = [status EXCEPT ![d] = "failed"]
          /\ retry' = [retry EXCEPT ![d] = RetryScheduled(d, reply[s] # "refused")]
          /\ UNCHANGED tracked
    /\ Leave(s)
    /\ UNCHANGED <<attempts, webVars, historyVars, boundVars>>

(* The sender dies (process killed, or an exception escapes sender.send and  *)
(* ends the attempt): what it committed stays, what it had not is lost.      *)
SenderDies(s) ==
    /\ pc[s] # "idle"
    /\ crashes < MaxCrashes
    /\ crashes' = crashes + 1
    /\ Leave(s)
    /\ UNCHANGED <<rowVars, webVars, historyVars, passes, reports>>

(* Mutants of RecoverStaleClaim: the row is offered for another try; only    *)
(* rows without attempts left are given up.                                  *)
RecoverForRetry(d) ==
    /\ status[d] = "sending"
    /\ status' = [status EXCEPT ![d] = "failed"]
    /\ UNCHANGED <<retry, attempts, tracked, senderVars, webVars, historyVars, boundVars>>

RecoverOnlySpent(d) ==
    /\ status[d] = "sending" /\ attempts[d] >= MaxAttempts
    /\ status' = [status EXCEPT ![d] = "unknown"]
    /\ UNCHANGED <<retry, attempts, tracked, senderVars, webVars, historyVars, boundVars>>

(* recover_stale_claims: conditional on the status and the claimed_at it     *)
(* read, so its read and its write act as one step.                          *)
RecoverStaleClaim(d) ==
    /\ status[d] = "sending"
    /\ status' = [status EXCEPT ![d] = "unknown"]
    /\ retry' = [retry EXCEPT ![d] = FALSE]
    /\ UNCHANGED <<attempts, tracked, senderVars, webVars, historyVars, boundVars>>

(* settle_unknown: an operator says whether an unconfirmed send went out. *)
SettleUnknown(d, outcome) ==
    /\ status[d] = "unknown"
    /\ \/ /\ outcome = "sent"
          /\ status' = [status EXCEPT ![d] = "sent"]
          /\ vouched' = vouched \cup {d}
          /\ UNCHANGED released
       \/ /\ outcome = "not_sent"
          /\ status' = [status EXCEPT ![d] = "failed"]
          /\ released' = [released EXCEPT ![d] = @ + 1]
          /\ UNCHANGED vouched
    /\ retry' = [retry EXCEPT ![d] = FALSE]
    /\ UNCHANGED <<attempts, tracked, senderVars, webVars, copies, boundVars>>

(* apply_receipt finds the row by its stored provider_message_id.  A report  *)
(* may be late, repeated, or about an earlier send of the same row.  The ORM *)
(* will write only the columns whose value differs from the one it loaded.   *)
ReportLoads(d) ==
    /\ tracked[d]
    /\ d \notin reporting
    /\ reports < MaxReports
    /\ reports' = reports + 1
    /\ reporting' = reporting \cup {d}
    /\ dirty' = [dirty EXCEPT ![d] =
                   (IF status[d] # "failed" THEN {"status"} ELSE {}) \cup
                   (IF retry[d] THEN {"next_retry_at"} ELSE {})]
    /\ UNCHANGED <<rowVars, senderVars, cancelling, historyVars, passes, crashes>>

(* apply_receipts commits the failure: _mark_failed(retry=False).  A report  *)
(* of success writes provider_status and delivered_at only, nothing here.    *)
ReportCommits(d) ==
    /\ d \in reporting
    /\ reporting' = reporting \ {d}
    /\ status' = [status EXCEPT ![d] = IF "status" \in dirty[d] THEN "failed" ELSE @]
    /\ retry' = [retry EXCEPT ![d] = @ /\ "next_retry_at" \notin dirty[d]]
    /\ released' = [released EXCEPT ![d] =
                      IF "status" \in dirty[d] /\ ~Claimable(d) THEN @ + 1 ELSE @]
    /\ dirty' = [dirty EXCEPT ![d] = {}]
    /\ UNCHANGED <<attempts, tracked, senderVars, cancelling, copies, vouched, boundVars>>

(* cancel_distribution loads the pending automatic retries.  It refuses only *)
(* while a batch row of the run says running; a sender may still be at work  *)
(* for a batch whose row a reclaim has put back to queued (Queue), so the    *)
(* states of the senders do not hold it back.                                *)
CancelLoads ==
    LET pendingRetries == {d \in Deliveries : status[d] = "failed" /\ retry[d]} IN
    /\ cancelling = {}
    /\ pendingRetries # {}
    /\ cancelling' = pendingRetries
    /\ UNCHANGED <<rowVars, senderVars, reporting, dirty, historyVars, boundVars>>

(* ... and commits: every loaded row is written, whatever it has become. *)
CancelCommits ==
    /\ cancelling # {}
    /\ status' = [d \in Deliveries |-> IF d \in cancelling THEN "cancelled" ELSE status[d]]
    /\ retry' = [d \in Deliveries |-> retry[d] /\ d \notin cancelling]
    /\ released' = [d \in Deliveries |->
                      IF d \in cancelling /\ ~Claimable(d) THEN released[d] + 1
                                                            ELSE released[d]]
    /\ cancelling' = {}
    /\ UNCHANGED <<attempts, tracked, senderVars, reporting, dirty, copies, vouched, boundVars>>

SenderStep(s) ==
    \/ InsertPending(s)
    \/ ClaimDelivery(s)
    \/ NothingSent(s)
    \/ CallProvider(s)
    \/ RecordOutcome(s)

Next ==
    \/ \E s \in Senders, d \in Deliveries, m \in {"send", "resend"} : PickForBatch(s, d, m)
    \/ \E s \in Senders, d \in Deliveries : PickForSweep(s, d)
    \/ \E s \in Senders : SenderStep(s) \/ SenderDies(s)
    \/ \E d \in Deliveries : RecoverStaleClaim(d)
    \/ \E d \in Deliveries, outcome \in {"sent", "not_sent"} : SettleUnknown(d, outcome)
    \/ \E d \in Deliveries : ReportLoads(d) \/ ReportCommits(d)
    \/ CancelLoads
    \/ CancelCommits

Spec == Init /\ [][Next]_vars

(* A thread inside _attempt_send or a web request keeps running until it     *)
(* finishes or dies; the worker loop polls for ever, so a stale claim and a  *)
(* due retry are eventually looked at.  Nobody owes the system a new batch,  *)
(* a settle decision, a report, a cancel or a crash.                         *)
Fairness ==
    /\ \A s \in Senders : WF_vars(SenderStep(s))
    /\ \A d \in Deliveries : /\ WF_vars(RecoverStaleClaim(d))
                             /\ WF_vars(\E s \in Senders : PickForSweep(s, d))
                             /\ WF_vars(ReportCommits(d))
    /\ WF_vars(CancelCommits)

FairSpec == Spec /\ Fairness

-----------------------------------------------------------------------------
(* Properties.                                                               *)

(* Rows whose sender tells a refusal from a lost answer (sasusync.py).       *)
Classified == {d \in Deliveries : SenderOf[d] = "sasusync"}

(* A payslip is accepted by the provider at most once, plus once for every   *)
(* time someone outside the send path (an operator's "not sent", a failure   *)
(* report, a cancellation) made its row claimable again.  No interleaving of *)
(* batches, resends, sweeps, stale-claim recoveries, crashes and late        *)
(* outcomes sends it again on its own: the promise of service.py's docstring *)
(* ("None is re-sent blind by a re-run or a batch reclaim").                 *)
NoBlindResend == \A d \in Classified : copies[d] <= 1 + released[d]

(* The senders that still may have to use, or give back, their claim of d:   *)
(* they claimed it and the provider has not accepted their message.          *)
Holding(d) == {s \in Senders : row[s] = d /\ pc[s] \in {"claimed", "answered"} /\ ~took[s]}

(* How often d can still be accepted without anyone releasing it. *)
Permits(d) == Cardinality(Holding(d)) + (IF Claimable(d) THEN 1 ELSE 0)

(* The reason for NoBlindResend, and its inductive form: an acceptance uses  *)
(* up the claim it was made under, and nothing but a release adds a claim.   *)
PermitBalance == \A d \in Classified : copies[d] + Permits(d) <= 1 + released[d]

(* The rows of classifying senders, seen as SendPermits sees them.           *)
Promise == INSTANCE SendPermits WITH
    Rows <- Classified,
    copies <- [d \in Classified |-> copies[d]],
    permits <- [d \in Classified |-> Permits(d)],
    released <- [d \in Classified |-> released[d]]

(* Delivery implements SendPermits: every step of a sender, the recovery, an *)
(* operator, a webhook or a cancel is a step, or no step, of the promise.    *)
KeepsPromise == Promise!Spec

(* A row says `sent` only if the provider accepted a message for it or an    *)
(* operator vouched for it; a stale write never invents a success.           *)
SentHasGrounds ==
    \A d \in Deliveries : status[d] = "sent" => copies[d] > 0 \/ d \in vouched

(* The sweep never takes a row past DISTRIBUTION_MAX_ATTEMPTS: an attempt it *)
(* claims is within the limit even if other threads counted attempts since   *)
(* the retry was scheduled.  Rows a delivery report can reach are left out:  *)
(* a report loaded before a retry was scheduled and committed after the next *)
(* claim leaves that retry on a row whose limit is spent.                    *)
SweepWithinLimit ==
    [][\A s \in Senders :
         pc[s] = "picked" /\ pc'[s] = "claimed" /\ mode[s] = "sweep" /\ ~tracked[row[s]]
            => attempts'[row[s]] <= MaxAttempts]_vars

(* The automatic machinery comes to rest: from some point on no row is       *)
(* `sending` and no automatic retry is scheduled, whatever died on the way.  *)
AutomaticSendingEnds ==
    <>[](\A d \in Deliveries : status[d] # "sending" /\ ~(status[d] = "failed" /\ retry[d]))
=============================================================================
