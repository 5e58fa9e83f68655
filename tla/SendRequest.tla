---------------------------- MODULE SendRequest ----------------------------
(***************************************************************************)
(* One press of "Send payslips": replay_or_run (idempotency.py) around      *)
(* enqueue_distribution (queue.py), by web requests that carry a nonce.     *)
(* A double click or a browser retry is a second request with the same      *)
(* nonce.  The batches are those of one payroll run; the worker and the     *)
(* schedule route appear as the environment that finishes and adds them.    *)
(***************************************************************************)
EXTENDS Integers, Sequences, FiniteSets

CONSTANTS
    Requests,       \* POSTs to the send route
    Keys,           \* IdempotencyKey.key values, one per nonce
    KeyOf,          \* the key each request carries
    MaxBatches,     \* bound: batches of the run
    MaxCrashes      \* bound: web processes killed inside a request

ASSUME KeyOfAssumption == KeyOf \in [Requests -> Keys]
ASSUME KeysAssumption == "schedule" \notin Keys     \* the schedule route has no nonce
ASSUME RequestBounds == MaxBatches \in Nat /\ MaxCrashes \in Nat

VARIABLES
    key,        \* the IdempotencyKey row: absent, claimed (no response), stored
    response,   \* response_json: the batch it names, 0 for none
    batches,    \* the run's batches, in order: [open, dated, key]
    pc,         \* where each request is
    summary,    \* what run_fn returned to it, or is to return: [batch, dated]
    answer,     \* what the user was told: a batch id or a word
    lost,       \* history: batches whose request failed after it had committed them
    crashes

requestVars == <<key, response, batches, pc, summary, answer, lost, crashes>>

NoSummary == [batch |-> 0, dated |-> FALSE]
PCs == {"new", "duplicate", "run", "insert", "read", "store", "undo", "done"}

RequestTypeOK ==
    /\ key \in [Keys -> {"absent", "claimed", "stored"}]
    /\ response \in [Keys -> 0..MaxBatches]
    /\ \A k \in Keys : key[k] = "stored" <=> response[k] # 0
    /\ batches \in Seq([open : BOOLEAN, dated : BOOLEAN, key : Keys \cup {"schedule"}])
    /\ Len(batches) <= MaxBatches
    /\ pc \in [Requests -> PCs]
    /\ summary \in [Requests -> [batch : 0..MaxBatches, dated : BOOLEAN]]
    /\ answer \in [Requests -> 0..MaxBatches]
    /\ lost \subseteq 1..Len(batches)
    /\ crashes \in 0..MaxCrashes

RequestInit ==
    /\ key = [k \in Keys |-> "absent"]
    /\ response = [k \in Keys |-> 0]
    /\ batches = <<>>
    /\ pc = [q \in Requests |-> "new"]
    /\ summary = [q \in Requests |-> NoSummary]
    /\ answer = [q \in Requests |-> 0]
    /\ lost = {}
    /\ crashes = 0

Open == {b \in 1..Len(batches) : batches[b].open}

Goto(q, l) == pc' = [pc EXCEPT ![q] = l]

(* Mutant of ClaimKey: only a stored response counts as a duplicate. *)
ClaimUnlessStored(q) ==
    /\ pc[q] = "new"
    /\ key' = [key EXCEPT ![KeyOf[q]] = IF @ = "absent" THEN "claimed" ELSE @]
    /\ Goto(q, IF key[KeyOf[q]] = "stored" THEN "duplicate" ELSE "run")
    /\ UNCHANGED <<response, batches, summary, answer, lost, crashes>>

(* The unique column decides who runs. *)
ClaimKey(q) ==
    /\ pc[q] = "new"
    /\ IF key[KeyOf[q]] = "absent"
         THEN /\ key' = [key EXCEPT ![KeyOf[q]] = "claimed"]
              /\ Goto(q, "run")
         ELSE /\ Goto(q, "duplicate")
              /\ UNCHANGED key
    /\ UNCHANGED <<response, batches, summary, answer, lost, crashes>>

(* After the IntegrityError: the stored response, or "in progress" (0).     *)
ReplayExisting(q) ==
    /\ pc[q] = "duplicate"
    /\ answer' = [answer EXCEPT ![q] = response[KeyOf[q]]]
    /\ Goto(q, "done")
    /\ UNCHANGED <<key, response, batches, summary, lost, crashes>>

(* enqueue_distribution returns the unfinished batch if there is one, with  *)
(* its scheduled_for, which activation leaves set.                          *)
EnqueueLoads(q) ==
    /\ pc[q] = "run"
    /\ IF Open = {}
         THEN /\ Goto(q, "insert")
              /\ UNCHANGED summary
         ELSE /\ \E b \in Open :
                   summary' = [summary EXCEPT ![q] = [batch |-> b, dated |-> batches[b].dated]]
              /\ Goto(q, "store")
    /\ UNCHANGED <<key, response, batches, answer, lost, crashes>>

(* Its own batch is committed, and the summary is read from it afterwards.   *)
EnqueueCommits(q) ==
    /\ pc[q] = "insert"
    /\ Len(batches) < MaxBatches
    /\ batches' = Append(batches, [open |-> TRUE, dated |-> FALSE, key |-> KeyOf[q]])
    /\ summary' = [summary EXCEPT ![q] = [batch |-> Len(batches) + 1, dated |-> FALSE]]
    /\ Goto(q, "read")
    /\ UNCHANGED <<key, response, answer, lost, crashes>>

(* The commit has expired the batch: reading its columns is a query.         *)
EnqueueReads(q) ==
    /\ pc[q] = "read"
    /\ Goto(q, "store")
    /\ UNCHANGED <<key, response, batches, summary, answer, lost, crashes>>

(* run_fn raises: before its commit, in the commit, or in the query after it. *)
RunRaises(q) ==
    /\ pc[q] \in {"run", "insert", "read"}
    /\ Goto(q, "undo")
    /\ summary' = [summary EXCEPT ![q] = NoSummary]
    /\ lost' = IF pc[q] = "read" THEN lost \cup {summary[q].batch} ELSE lost
    /\ UNCHANGED <<key, response, batches, answer, crashes>>

(* Mutant of ReleaseKey: the request ends and its claim stays. *)
ReleaseNothing(q) ==
    /\ pc[q] = "undo"
    /\ Goto(q, "done")
    /\ UNCHANGED <<key, response, batches, summary, answer, lost, crashes>>

(* The except clause deletes the claim, so that a retry may run. *)
ReleaseKey(q) ==
    /\ pc[q] = "undo"
    /\ key' = [key EXCEPT ![KeyOf[q]] = "absent"]
    /\ Goto(q, "done")
    /\ UNCHANGED <<response, batches, summary, answer, lost, crashes>>

(* json.dumps(summary) and the commit.  A datetime is not serialisable: the *)
(* TypeError leaves the request with the claim still in place.              *)
StoreResponse(q) ==
    /\ pc[q] = "store"
    /\ IF summary[q].dated
         THEN UNCHANGED <<key, response, answer>>
         ELSE /\ key' = [key EXCEPT ![KeyOf[q]] = "stored"]
              /\ response' = [response EXCEPT ![KeyOf[q]] = summary[q].batch]
              /\ answer' = [answer EXCEPT ![q] = summary[q].batch]
    /\ Goto(q, "done")
    /\ UNCHANGED <<batches, summary, lost, crashes>>

(* The process is killed; or the database fails it in replay_or_run's own    *)
(* statements, which leaves the claim in place too.                          *)
RequestDies(q) ==
    /\ pc[q] \notin {"new", "done"}
    /\ crashes < MaxCrashes
    /\ crashes' = crashes + 1
    /\ Goto(q, "done")
    /\ UNCHANGED <<key, response, batches, summary, answer, lost>>

(* The environment: the schedule route (no nonce) and the worker. *)
ScheduleBatch ==
    /\ Open = {} /\ Len(batches) < MaxBatches
    /\ batches' = Append(batches, [open |-> TRUE, dated |-> TRUE, key |-> "schedule"])
    /\ UNCHANGED <<key, response, pc, summary, answer, lost, crashes>>

BatchFinishes(b) ==
    /\ b \in Open
    /\ batches' = [batches EXCEPT ![b].open = FALSE]
    /\ UNCHANGED <<key, response, pc, summary, answer, lost, crashes>>

RequestNext ==
    \/ \E q \in Requests :
         \/ ClaimKey(q) \/ ReplayExisting(q) \/ EnqueueLoads(q) \/ EnqueueCommits(q)
         \/ EnqueueReads(q) \/ RunRaises(q) \/ ReleaseKey(q) \/ StoreResponse(q) \/ RequestDies(q)
    \/ ScheduleBatch
    \/ \E b \in 1..MaxBatches : BatchFinishes(b)

RequestSpec == RequestInit /\ [][RequestNext]_requestVars

-----------------------------------------------------------------------------
(* However often a press is repeated, retried after an error or interrupted  *)
(* by a crash, one nonce creates at most one batch, even after that batch    *)
(* has finished, and those of its requests that are answered with a batch    *)
(* are told of the same one: a replay repeats the original answer.  A batch  *)
(* does not count whose request failed in reading it back: that gives the    *)
(* nonce free although the batch is there and is sent, and a repeat after it *)
(* has finished queues another (idempotency.replay_or_run, "at most once per *)
(* key").                                                                    *)
OneBatchPerNonce ==
    /\ \A k \in Keys : Cardinality({b \in 1..Len(batches) \ lost : batches[b].key = k}) <= 1
    /\ \A p, q \in Requests :
         KeyOf[p] = KeyOf[q] /\ answer[p] # 0 /\ answer[q] # 0 => answer[p] = answer[q]

(* A nonce does not stay claimed with nobody working on it, which would tell *)
(* every repeat "in progress" for ever: only a crash leaves one, and a       *)
(* summary that cannot be stored, that of a batch with a scheduled time      *)
(* (idempotency.replay_or_run).                                              *)
ClaimsAreResolved ==
    \A k \in Keys : key[k] = "claimed" =>
        \/ crashes > 0
        \/ \E q \in Requests :
              KeyOf[q] = k /\ (pc[q] \notin {"new", "done"} \/ summary[q].dated)
=============================================================================
