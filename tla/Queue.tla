------------------------------- MODULE Queue -------------------------------
(***************************************************************************)
(* The distribution queue (queue.py): DistributionBatch rows, the web       *)
(* requests that enqueue, schedule, reschedule and cancel them, and the     *)
(* worker loop that activates, reclaims, claims and processes them.         *)
(*                                                                          *)
(* A function of queue.py that reads rows and later writes them is two      *)
(* actions, "Loads" and "Commits": the ORM writes by primary key, whatever  *)
(* the row has become in between.  claim_next_batch is one action: it locks *)
(* the row it reads (SELECT ... FOR UPDATE SKIP LOCKED).                    *)
(*                                                                          *)
(* Times are abstracted to two facts a clock can make true at any moment:   *)
(* a batch is due (scheduled_for has passed), a running batch is old        *)
(* (started_at is before the stale cutoff).                                 *)
(***************************************************************************)
EXTENDS Integers, FiniteSets, FiniteSetsExt

CONSTANTS
    Workers,            \* threads or processes in run_worker_loop
    Requests,           \* web request threads
    Runs,               \* payroll runs
    MaxReclaims,        \* DISTRIBUTION_BATCH_MAX_RECLAIMS
    BusyBatchesGetOld,  \* can a batch outlast the stale window while being sent?
    MaxBatches,         \* bound: batches ever created
    MaxReschedules      \* bound: reschedule requests

ASSUME MaxReclaimsAssumption == MaxReclaims \in Nat
ASSUME BusyAssumption == BusyBatchesGetOld \in BOOLEAN
ASSUME QueueBoundsAssumption == MaxBatches \in Nat /\ MaxReschedules \in Nat

Batches == 1..MaxBatches        \* ids, in order of created_at

VARIABLES
    bstatus,        \* DistributionBatch.status; "none" before the INSERT
    runOf,          \* DistributionBatch.payroll_run_id
    due,            \* scheduled_for is NULL or has passed
    old,            \* started_at is before the stale cutoff
    reclaims,       \* DistributionBatch.reclaim_count
    wpc,            \* where each worker is in drain_once
    loaded,         \* the batches its last query returned
    seen,           \* the reclaim_count of those batches, as loaded
    held,           \* the batch it is processing, 0 for none
    rpc,            \* what each web request is about to commit
    target,         \* the batch it loaded, or the run it enqueues for
    executions,     \* history: how often each batch was claimed
    reschedules     \* how much of MaxReschedules is used

batchVars == <<bstatus, runOf, due, old, reclaims>>
workerVars == <<wpc, loaded, seen, held>>
requestVars == <<rpc, target>>
queueVars == <<batchVars, workerVars, requestVars, executions, reschedules>>

BATCH_PENDING_STATUSES == {"scheduled", "queued", "running"}
Finished == {"completed", "failed", "cancelled"}
BatchStatuses == {"none"} \cup BATCH_PENDING_STATUSES \cup Finished
WorkerPCs == {"poll", "activating", "recover", "reclaiming", "claim", "processing"}
RequestPCs == {"idle", "enqueue", "cancel", "reschedule"}

QueueTypeOK ==
    /\ bstatus \in [Batches -> BatchStatuses]
    /\ runOf \in [Batches -> Runs \cup {"none"}]
    /\ due \in [Batches -> BOOLEAN]
    /\ old \in [Batches -> BOOLEAN]
    /\ reclaims \in [Batches -> 0..MaxReclaims]
    /\ wpc \in [Workers -> WorkerPCs]
    /\ loaded \in [Workers -> SUBSET Batches]
    /\ seen \in [Workers -> [Batches -> 0..MaxReclaims]]
    /\ held \in [Workers -> Batches \cup {0}]
    /\ rpc \in [Requests -> RequestPCs]
    /\ target \in [Requests -> Batches \cup Runs \cup {0}]
    /\ executions \in [Batches -> Nat]
    /\ reschedules \in 0..MaxReschedules

Having(st) == {b \in Batches : bstatus[b] = st}

(* _in_flight_batch *)
InFlight(r) == {b \in Batches : runOf[b] = r /\ bstatus[b] \in BATCH_PENDING_STATUSES}

QueueInit ==
    /\ bstatus = [b \in Batches |-> "none"]
    /\ runOf = [b \in Batches |-> "none"]
    /\ due = [b \in Batches |-> FALSE]
    /\ old = [b \in Batches |-> FALSE]
    /\ reclaims = [b \in Batches |-> 0]
    /\ wpc = [w \in Workers |-> "poll"]
    /\ loaded = [w \in Workers |-> {}]
    /\ seen = [w \in Workers |-> [b \in Batches |-> 0]]
    /\ held = [w \in Workers |-> 0]
    /\ rpc = [q \in Requests |-> "idle"]
    /\ target = [q \in Requests |-> 0]
    /\ executions = [b \in Batches |-> 0]
    /\ reschedules = 0

-----------------------------------------------------------------------------
(* Web requests. *)

Respond(q) ==
    /\ rpc' = [rpc EXCEPT ![q] = "idle"]
    /\ target' = [target EXCEPT ![q] = 0]

(* enqueue_distribution found no unfinished batch of r. *)
EnqueueLoads(q, r) ==
    /\ rpc[q] = "idle"
    /\ Having("none") # {}
    /\ InFlight(r) = {}
    /\ rpc' = [rpc EXCEPT ![q] = "enqueue"]
    /\ target' = [target EXCEPT ![q] = r]
    /\ UNCHANGED <<batchVars, workerVars, executions, reschedules>>

(* ... and inserts one, scheduled for later or queued at once. *)
EnqueueCommits(q) ==
    /\ rpc[q] = "enqueue"
    /\ Having("none") # {}
    /\ LET b == Min(Having("none")) IN
         \E later \in BOOLEAN :
           /\ bstatus' = [bstatus EXCEPT ![b] = IF later THEN "scheduled" ELSE "queued"]
           /\ due' = [due EXCEPT ![b] = ~later]
           /\ runOf' = [runOf EXCEPT ![b] = target[q]]
    /\ Respond(q)
    /\ UNCHANGED <<old, reclaims, workerVars, executions, reschedules>>

(* cancel_distribution: refused while a batch of the run is running. *)
CancelBatchLoads(q, r) ==
    /\ rpc[q] = "idle"
    /\ InFlight(r) \cap Having("running") = {}
    /\ \E b \in InFlight(r) : target' = [target EXCEPT ![q] = b]
    /\ rpc' = [rpc EXCEPT ![q] = "cancel"]
    /\ UNCHANGED <<batchVars, workerVars, executions, reschedules>>

CancelBatchCommits(q) ==
    /\ rpc[q] = "cancel"
    /\ bstatus' = [bstatus EXCEPT ![target[q]] = "cancelled"]
    /\ Respond(q)
    /\ UNCHANGED <<runOf, due, old, reclaims, workerVars, executions, reschedules>>

(* reschedule_distribution: only the time is written. *)
RescheduleLoads(q, r) ==
    /\ rpc[q] = "idle"
    /\ reschedules < MaxReschedules
    /\ reschedules' = reschedules + 1
    /\ \E b \in InFlight(r) \cap Having("scheduled") : target' = [target EXCEPT ![q] = b]
    /\ rpc' = [rpc EXCEPT ![q] = "reschedule"]
    /\ UNCHANGED <<batchVars, workerVars, executions>>

RescheduleCommits(q) ==
    /\ rpc[q] = "reschedule"
    /\ due' = [due EXCEPT ![target[q]] = FALSE]
    /\ Respond(q)
    /\ UNCHANGED <<bstatus, runOf, old, reclaims, workerVars, executions, reschedules>>

-----------------------------------------------------------------------------
(* The clock. *)

BecomesDue(b) ==
    /\ bstatus[b] # "none" /\ ~due[b]
    /\ due' = [due EXCEPT ![b] = TRUE]
    /\ UNCHANGED <<bstatus, runOf, old, reclaims, workerVars, requestVars, executions, reschedules>>

BecomesOld(b) ==
    /\ bstatus[b] = "running" /\ ~old[b]
    /\ BusyBatchesGetOld \/ \A w \in Workers : held[w] # b
    /\ old' = [old EXCEPT ![b] = TRUE]
    /\ UNCHANGED <<bstatus, runOf, due, reclaims, workerVars, requestVars, executions, reschedules>>

-----------------------------------------------------------------------------
(* The worker: drain_once, over and over. *)

DueUnfinished == {b \in Batches : bstatus[b] \in {"scheduled", "running"} /\ due[b]}   \* mutant

(* The query of activate_due_scheduled. *)
DueScheduled == {b \in Having("scheduled") : due[b]}

(* activate_due_scheduled reads the scheduled batches that are due. *)
ActivateLoads(w) ==
    /\ wpc[w] = "poll"
    /\ loaded' = [loaded EXCEPT ![w] = DueScheduled]
    /\ wpc' = [wpc EXCEPT ![w] = IF DueScheduled = {} THEN "recover" ELSE "activating"]
    /\ UNCHANGED <<batchVars, seen, held, requestVars, executions, reschedules>>

ActivateCommits(w) ==
    /\ wpc[w] = "activating"
    /\ bstatus' = [b \in Batches |-> IF b \in loaded[w] THEN "queued" ELSE bstatus[b]]
    /\ loaded' = [loaded EXCEPT ![w] = {}]
    /\ wpc' = [wpc EXCEPT ![w] = "recover"]
    /\ UNCHANGED <<runOf, due, old, reclaims, seen, held, requestVars, executions, reschedules>>

StaleBelowCap == {b \in Having("running") : old[b] /\ reclaims[b] < MaxReclaims}   \* mutant

(* The query of reclaim_stale_batches. *)
StaleRunning == {b \in Having("running") : old[b]}

(* reclaim_stale_batches reads the running batches that are too old ... *)
ReclaimLoads(w) ==
    /\ wpc[w] = "recover"
    /\ loaded' = [loaded EXCEPT ![w] = StaleRunning]
    /\ seen' = [seen EXCEPT ![w] =
                  [b \in Batches |-> IF b \in StaleRunning THEN reclaims[b] ELSE 0]]
    /\ wpc' = [wpc EXCEPT ![w] = IF StaleRunning = {} THEN "claim" ELSE "reclaiming"]
    /\ UNCHANGED <<batchVars, held, requestVars, executions, reschedules>>

(* The loaded batches that have been requeued often enough. *)
Spent(w) == {b \in loaded[w] : seen[w][b] >= MaxReclaims}

(* ... and requeues each, or fails it once it has been requeued too often. *)
ReclaimCommits(w) ==
    LET spent == Spent(w) IN
    /\ wpc[w] = "reclaiming"
    /\ bstatus' = [b \in Batches |-> IF b \in spent THEN "failed"
                                     ELSE IF b \in loaded[w] THEN "queued" ELSE bstatus[b]]
    /\ reclaims' = [b \in Batches |-> IF b \in loaded[w] \ spent THEN seen[w][b] + 1
                                                                 ELSE reclaims[b]]
    /\ old' = [b \in Batches |-> old[b] /\ b \notin loaded[w] \ spent]
    /\ loaded' = [loaded EXCEPT ![w] = {}]
    /\ seen' = [seen EXCEPT ![w] = [b \in Batches |-> 0]]
    /\ wpc' = [wpc EXCEPT ![w] = "claim"]
    /\ UNCHANGED <<runOf, due, held, requestVars, executions, reschedules>>

(* claim_next_batch: the oldest queued batch, until there is none. *)
ClaimNextBatch(w) ==
    /\ wpc[w] = "claim"
    /\ IF Having("queued") = {}
         THEN /\ wpc' = [wpc EXCEPT ![w] = "poll"]
              /\ UNCHANGED <<bstatus, old, held, executions>>
         ELSE LET b == Min(Having("queued")) IN
              /\ bstatus' = [bstatus EXCEPT ![b] = "running"]
              /\ old' = [old EXCEPT ![b] = FALSE]
              /\ held' = [held EXCEPT ![w] = b]
              /\ executions' = [executions EXCEPT ![b] = @ + 1]
              /\ wpc' = [wpc EXCEPT ![w] = "processing"]
    /\ UNCHANGED <<runOf, due, reclaims, loaded, seen, requestVars, reschedules>>

(* process_batch ends, normally or in its except clause. *)
ProcessBatch(w) ==
    /\ wpc[w] = "processing"
    /\ \E outcome \in {"completed", "failed"} :
         bstatus' = [bstatus EXCEPT ![held[w]] = outcome]
    /\ held' = [held EXCEPT ![w] = 0]
    /\ wpc' = [wpc EXCEPT ![w] = "claim"]
    /\ UNCHANGED <<runOf, due, old, reclaims, loaded, seen, requestVars, executions, reschedules>>

(* The worker dies inside a batch and is started again; the batch stays      *)
(* `running`.  (Dying between a load and its commit only loses the load.)    *)
WorkerDies(w) ==
    /\ wpc[w] = "processing"
    /\ held' = [held EXCEPT ![w] = 0]
    /\ wpc' = [wpc EXCEPT ![w] = "poll"]
    /\ UNCHANGED <<batchVars, loaded, seen, requestVars, executions, reschedules>>

WorkerStep(w) ==
    \/ ActivateLoads(w)
    \/ ActivateCommits(w)
    \/ ReclaimLoads(w)
    \/ ReclaimCommits(w)
    \/ ClaimNextBatch(w)
    \/ ProcessBatch(w)

RequestCommits(q) ==
    \/ EnqueueCommits(q)
    \/ CancelBatchCommits(q)
    \/ RescheduleCommits(q)

QueueNext ==
    \/ \E q \in Requests, r \in Runs :
         EnqueueLoads(q, r) \/ CancelBatchLoads(q, r) \/ RescheduleLoads(q, r)
    \/ \E q \in Requests : RequestCommits(q)
    \/ \E b \in Batches : BecomesDue(b) \/ BecomesOld(b)
    \/ \E w \in Workers : WorkerStep(w) \/ WorkerDies(w)

QueueSpec == QueueInit /\ [][QueueNext]_queueVars

(* The worker loop never stops polling (a dead worker is restarted), a       *)
(* request that has loaded commits, and clocks advance.  Nothing is assumed  *)
(* about how often a worker dies inside a batch: it may die every time.      *)
QueueFairness ==
    /\ \A w \in Workers : WF_queueVars(WorkerStep(w))
    /\ \A q \in Requests : WF_queueVars(RequestCommits(q))
    /\ \A b \in Batches : WF_queueVars(BecomesDue(b)) /\ WF_queueVars(BecomesOld(b))

QueueFairSpec == QueueSpec /\ QueueFairness

-----------------------------------------------------------------------------
(* Properties. *)

(* A batch is started once, plus once per counted reclaim, and reclaims are  *)
(* capped: a batch that kills its worker every time is started at most       *)
(* 1 + DISTRIBUTION_BATCH_MAX_RECLAIMS times.  Stated for one worker.        *)
StartsAreAccounted ==
    \A b \in Batches : executions[b] <= 1 + reclaims[b] /\ reclaims[b] <= MaxReclaims

(* Every batch ever created comes to rest as completed, failed or cancelled, *)
(* even if every attempt to process it kills the worker: activation, reclaim *)
(* and the reclaim cap leave no batch scheduled, queued or running for ever. *)
AllBatchesSettle ==
    <>[](\A b \in Batches : bstatus[b] \notin BATCH_PENDING_STATUSES)
=============================================================================
