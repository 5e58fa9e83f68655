------------------------------ MODULE Outreach ------------------------------
(***************************************************************************)
(* Who a send reaches, what the operator is shown of it before and after,   *)
(* and who hears when it goes wrong: contacts.py, phones.py, confirm.py,    *)
(* run_actions.py, status.py and notify.py, around the send loop of         *)
(* service.py.  (The worker's service-level checks are in Limiters.)        *)
(*                                                                          *)
(* One payslip is sent in one step here; claims, crashes and crossing       *)
(* senders are the subject of Delivery, batches that cross of Queue.        *)
(***************************************************************************)
EXTENDS Integers, FiniteSets, Sequences, SequencesExt

CONSTANTS
    Items,          \* payslips
    Runs,           \* approved payroll runs
    RunOf,          \* the run of each payslip
    Contacts,       \* what a worker's roster record and payroll row may hold
    SmsBlocked,     \* a desktop install: SMS is never offered
    MaxAttempts,    \* DISTRIBUTION_MAX_ATTEMPTS
    MaxRequests     \* bound: operator requests

ASSUME ItemsAssumption == RunOf \in [Items -> Runs]
ASSUME OutreachBounds == {MaxAttempts, MaxRequests} \subseteq Nat

VARIABLES
    contact,    \* the roster record and payroll row behind each payslip
    status,     \* PayslipDelivery.status per payslip and channel; "none": no row
    attempts,   \* PayslipDelivery.attempts
    retry,      \* pairs with next_retry_at set
    known,      \* pairs with a provider_message_id, which a delivery report can name; an
                \* email gets none
    newest,     \* the channel of a payslip's newest delivery row; "none"
    batch,      \* the newest batch of each run
    todo,       \* payslips distribute_run has still to reach
    tally,      \* its summary, as the payslips behind each count
    sweep,      \* process_due_retries on each run
    page,       \* the confirm page an operator has open
    promised,   \* history: what the confirm page showed of the batch under way
    tried,      \* history: payslips the batch set out to send, to a contact it had
    reported,   \* history: failed pairs a notice has counted, or an operator settled
    silent,     \* history: pairs that failed by a report, or whose notice died with its process
    requests    \* how much of MaxRequests is used

rowVars == <<status, attempts, retry, known, newest>>
batchVars == <<batch, todo, tally, tried>>
noticeVars == <<reported, silent>>
outreachVars == <<contact, rowVars, batchVars, sweep, page, promised, noticeVars, requests>>

DELIVERY_CHANNELS == <<"sms", "whatsapp", "email">>
Channels == Range(DELIVERY_CHANNELS)
Pairs == Items \X Channels
SKIPPED_BY_SEND == {"sent", "sending", "unknown"}

(* What was shown of each payslip; history: the payslips whose contact was   *)
(* edited, or whose delivery was changed by others, since then.              *)
Shown(what) == [shown |-> what, edited |-> {}, moved |-> {}]
NoPage == [runs |-> {}, channel |-> "none", onlyFailed |-> FALSE, later |-> FALSE,
           shown |-> <<>>, edited |-> {}, moved |-> {}]
NoTally == [sent |-> {}, failed |-> {}, unknown |-> {}, skipped |-> {}]
NoSweep == [due |-> {}, left |-> {}, at |-> {}, reaches |-> FALSE]

(* An operator's request, or a provider's. *)
Request ==
    /\ requests < MaxRequests
    /\ requests' = requests + 1

ItemsOf(r) == {i \in Items : RunOf[i] = r}
Status(p) == status[p[1]][p[2]]

Edits(i, view) == [view EXCEPT !.edited = @ \cup ({i} \cap DOMAIN view.shown)]
Moves(i, view) == [view EXCEPT !.moved = @ \cup ({i} \cap DOMAIN view.shown)]

(* The delivery of a payslip changes: no page knew.                          *)
MovesAll(i) ==
    /\ page' = Moves(i, page)
    /\ promised' = [r \in Runs |-> Moves(i, promised[r])]

-----------------------------------------------------------------------------
(* phones.py, contacts.py, resolve_channel *)

GH_MOBILE_PREFIXES == {20, 50, 24, 25, 53, 54, 55, 59, 26, 27, 56, 57}

(* A number as written: the country code in front ("233" with or without a  *)
(* plus, another one, or none), whether the trunk 0 follows, how many       *)
(* national digits, the two that name the network, and whether all of it is *)
(* ASCII digits once separators are stripped.  No contact is <<>>.  The     *)
(* number sent to is 233 and the national digits, whatever form it had.     *)
NormaliseGhMobile(raw) ==
    SelectSeq(raw, LAMBDA n : /\ n.ascii
                              /\ \/ n.country = "233" /\ ~n.trunk
                                 \/ n.country = "" /\ ~n.plus
                              /\ n.digits = 9
                              /\ n.network \in GH_MOBILE_PREFIXES)

(* sms_contact: the roster phone, the roster MoMo, the payroll row's MoMo. *)
SmsContact(c) ==
    LET candidates == << <<"roster_phone", c.phone>>, <<"roster_momo", c.momo>>,
                         <<"payroll_momo", c.rowMomo>> >>
        accepted == SelectSeq(candidates, LAMBDA n : NormaliseGhMobile(n[2]) # <<>>)
    IN  IF accepted # <<>>
          THEN [number |-> NormaliseGhMobile(accepted[1][2]), source |-> accepted[1][1]]
          ELSE [number |-> <<>>, source |-> IF {c.phone, c.momo, c.rowMomo} = {<<>>}
                                            THEN "none" ELSE "invalid"]

Or(a, b) == IF a # <<>> THEN a ELSE b

ContactFor(ch, c) ==
    CASE ch = "email" -> Or(c.email, c.rowEmail)
      [] ch = "sms" -> SmsContact(c).number
      [] OTHER -> Or(Or(c.phone, c.momo), c.rowMomo)

SendableChannels == {ch \in Channels : ch = "sms" => ~SmsBlocked}

(* The order channels are tried in: the preferred one, then the others.      *)
Place(ch) == CHOOSE n \in DOMAIN DELIVERY_CHANNELS : DELIVERY_CHANNELS[n] = ch
TriedBefore(a, b, c) == a = c.pref \/ (b # c.pref /\ Place(a) <= Place(b))

(* resolve_channel: of the channels with a usable contact, or of all if there *)
(* is none, the one that comes first.                                        *)
ResolveChannel(c) ==
    LET usable == {ch \in SendableChannels : ContactFor(ch, c) # <<>>}
        order == IF usable # {} THEN usable ELSE SendableChannels
    IN  CHOOSE a \in order : \A b \in order : TriedBefore(a, b, c)

ChannelOf(i, channel) == IF channel = "auto" THEN ResolveChannel(contact[i]) ELSE channel

-----------------------------------------------------------------------------
(* confirm.py: what the operator is shown before a send is queued *)

SkippedNow(i, ch, onlyFailed) ==
    IF onlyFailed THEN status[i][ch] # "failed" ELSE status[i][ch] \in SKIPPED_BY_SEND

(* Where a payslip over this channel goes, by what is on file.                *)
Destination(ch, c) ==
    LET sms == SmsContact(c)
    IN  IF ch = "sms"
        THEN IF sms.number # <<>>
             THEN IF sms.source = "roster_phone" THEN "to_phone" ELSE "to_momo"
             ELSE IF sms.source = "invalid" THEN "invalid" ELSE "no_contact"
        ELSE IF ContactFor(ch, c) = <<>> THEN "no_contact"
             ELSE IF ch = "email" THEN "by_email" ELSE "by_whatsapp"

(* Mutant: the preview counts an unconfirmed send as one more to make. *)
CategoryOfUnsent(i, channel, onlyFailed) ==
    LET ch == ChannelOf(i, channel)
    IN  IF IF onlyFailed THEN status[i][ch] # "failed" ELSE status[i][ch] \in {"sent", "sending"}
        THEN "skipped" ELSE Destination(ch, contact[i])

(* send_preview: what becomes of one payslip. *)
Category(i, channel, onlyFailed) ==
    LET ch == ChannelOf(i, channel)
    IN  IF SkippedNow(i, ch, onlyFailed) THEN "skipped" ELSE Destination(ch, contact[i])

Reachable == {"to_phone", "to_momo", "by_email", "by_whatsapp"}

InFlight(r) == batch[r].status \in {"scheduled", "queued", "running"}

Shows(rs, channel, onlyFailed, later) ==
    /\ Request
    /\ page' = [runs |-> rs, channel |-> channel, onlyFailed |-> onlyFailed, later |-> later,
                shown |-> [i \in {j \in Items : RunOf[j] \in rs} |-> Category(i, channel, onlyFailed)],
                edited |-> {}, moved |-> {}]
    /\ UNCHANGED <<contact, rowVars, batchVars, sweep, promised, noticeVars>>

(* confirm_send, distribute_confirm: one run's confirm page. *)
ConfirmSend(r, channel, action) ==
    /\ channel \in {"sms", "auto"}
    /\ ~(channel = "sms" /\ SmsBlocked)
    /\ Shows({r}, channel, action = "resend", action = "schedule")

(* bulk_confirm: several runs at once, leaving out those with a batch. *)
BulkConfirm(rs) ==
    /\ rs # {}
    /\ Shows({r \in rs : ~InFlight(r)}, "auto", FALSE, FALSE)

-----------------------------------------------------------------------------
(* Queueing and sending *)

Enqueued(rs, channel, onlyFailed, later, what) ==
    /\ batch' = [r \in Runs |-> IF r \in rs
                    THEN [status |-> IF later THEN "scheduled" ELSE "queued",
                          channel |-> channel, onlyFailed |-> onlyFailed]
                    ELSE batch[r]]
    /\ promised' = [r \in Runs |-> IF r \in rs THEN what ELSE promised[r]]
    /\ UNCHANGED <<contact, rowVars, todo, tally, tried, sweep, noticeVars>>

(* The confirm page's button: the hidden fields queue what it showed. *)
PostConfirmed ==
    /\ page.runs # {}
    /\ LET rs == {r \in page.runs : ~InFlight(r)}
       IN  /\ rs # {}
           /\ Enqueued(rs, page.channel, page.onlyFailed, page.later,
                       [shown |-> page.shown, edited |-> page.edited, moved |-> page.moved])
    /\ page' = NoPage
    /\ UNCHANGED requests

(* Email and WhatsApp queue without the step. *)
PostDirect(r, channel, action) ==
    /\ channel \in {"email", "whatsapp"}
    /\ ~InFlight(r)
    /\ Request
    /\ Enqueued({r}, channel, action = "resend", action = "schedule", Shown(<<>>))
    /\ UNCHANGED page

Becomes(r, now) == batch' = [batch EXCEPT ![r].status = now]

(* activate_due_scheduled, when the time has come. *)
Activate(r) ==
    /\ batch[r].status = "scheduled"
    /\ Becomes(r, "queued")
    /\ UNCHANGED <<contact, rowVars, todo, tally, tried, sweep, page, promised,
                   noticeVars, requests>>

StartBatch(r) ==
    /\ batch[r].status = "queued"
    /\ Becomes(r, "running")
    /\ todo' = [todo EXCEPT ![r] = ItemsOf(r)]
    /\ UNCHANGED <<contact, rowVars, tally, tried, sweep, page, promised,
                   noticeVars, requests>>

Capped(n) == IF n < MaxAttempts THEN n + 1 ELSE n

(* claim_delivery: the retry it may have been scheduled for stays in the row. *)
Claimed(i, ch) ==
    /\ status' = [status EXCEPT ![i][ch] = "sending"]
    /\ attempts' = [attempts EXCEPT ![i][ch] = Capped(@)]
    /\ UNCHANGED <<retry, known>>

(* _record_outcome for a row whose attempts now count n.  "unprepared" is a  *)
(* message that could not be made, "permanent" a refusal or no contact.      *)
Outcomes == {"sent", "unknown", "retryable", "permanent", "unprepared"}

Recorded(i, ch, outcome, n) ==
    /\ status' = [status EXCEPT ![i][ch] = IF outcome \in {"sent", "unknown"} THEN outcome
                                                                              ELSE "failed"]
    /\ attempts' = [attempts EXCEPT ![i][ch] = n]
    /\ retry' = IF outcome = "retryable" /\ n < MaxAttempts THEN retry \cup {<<i, ch>>}
                                                            ELSE retry \ {<<i, ch>>}
    /\ known' = IF outcome = "sent" /\ ch # "email" THEN known \cup {<<i, ch>>} ELSE known
    /\ reported' = reported \ {<<i, ch>>}
    /\ silent' = silent \ {<<i, ch>>}

Inserted(i, ch) ==
    newest' = IF status[i][ch] = "none" THEN [newest EXCEPT ![i] = ch] ELSE newest

(* The batch has a contact for the payslip, over its channel. *)
ReachedBy(r, i) == ContactFor(ChannelOf(i, batch[r].channel), contact[i]) # <<>>

(* distribute_run, one payslip: skipped, failed for want of a contact or of  *)
(* a message, or sent over the channel with one of the provider's outcomes.  *)
SendOne(r, i, outcome) ==
    LET ch == ChannelOf(i, batch[r].channel)
        count == CASE outcome = "sent" -> "sent" [] outcome = "unknown" -> "unknown"
                   [] OTHER -> "failed"
    IN  /\ batch[r].status = "running"
        /\ i \in todo[r]
        /\ todo' = [todo EXCEPT ![r] = @ \ {i}]
        /\ IF SkippedNow(i, ch, batch[r].onlyFailed)
             THEN /\ outcome = "permanent"
                  /\ tally' = [tally EXCEPT ![r].skipped = @ \cup {i}]
                  /\ UNCHANGED <<rowVars, tried, noticeVars>>
             ELSE /\ ~ReachedBy(r, i) => outcome = "permanent"
                  /\ Recorded(i, ch, outcome, Capped(attempts[i][ch]))
                  /\ Inserted(i, ch)
                  /\ tried' = IF ReachedBy(r, i) THEN [tried EXCEPT ![r] = @ \cup {i}] ELSE tried
                  /\ tally' = [tally EXCEPT ![r][count] = @ \cup {i}]
        /\ page' = Moves(i, page)
        /\ UNCHANGED <<contact, batch, promised, sweep, requests>>

FailedPairs(r) == {p \in Pairs : RunOf[p[1]] = r /\ Status(p) = "failed"}

(* Failed, and nothing will retry it. *)
FinalPairs(r) == FailedPairs(r) \ retry

(* notify_completion: a notice that says "completed" counts no failure. *)
Headline(t) ==
    IF t.failed = {}
    THEN IF t.unknown = {} THEN "completed" ELSE "unconfirmed"
    ELSE IF t.sent \cup t.unknown \cup t.skipped = {} THEN "failed" ELSE "partial"

(* The worker drops the summary, and the history of the batch ends. *)
Closed(r) ==
    /\ todo' = [todo EXCEPT ![r] = {}]
    /\ tally' = [tally EXCEPT ![r] = NoTally]
    /\ tried' = [tried EXCEPT ![r] = {}]
    /\ promised' = [promised EXCEPT ![r] = Shown(<<>>)]

(* process_batch ends: the counts are stored and the initiator is told. *)
FinishBatch(r) ==
    /\ batch[r].status = "running"
    /\ todo[r] = {}
    /\ Becomes(r, "completed")
    /\ Closed(r)
    /\ reported' = IF Headline(tally[r]) \in {"failed", "partial"}
                     THEN reported \cup {p \in FinalPairs(r) : p[1] \in tally[r].failed}
                     ELSE reported
    /\ UNCHANGED <<contact, rowVars, sweep, page, silent, requests>>

(* The loop stops between two payslips (at is empty), or inside the attempt  *)
(* on one, which was claimed and perhaps given to the provider.              *)
StopsAt(r, at) ==
    \/ at = {} /\ UNCHANGED <<rowVars, page>>
    \/ \E i \in todo[r] :
          LET ch == ChannelOf(i, batch[r].channel)
          IN  /\ at = {i}
              /\ ~SkippedNow(i, ch, batch[r].onlyFailed)
              /\ Claimed(i, ch)
              /\ Inserted(i, ch)
              /\ page' = Moves(i, page)

(* process_batch: distribute_run raised; or reclaim_stale_batches gives the  *)
(* batch up.  Either way notify_batch_failed, in the commit that says so.    *)
BatchFails(r, at) ==
    /\ batch[r].status = "running"
    /\ Becomes(r, "failed")
    /\ StopsAt(r, at)
    /\ Closed(r)
    /\ reported' = reported \cup FinalPairs(r)
    /\ UNCHANGED <<contact, sweep, silent, requests>>

(* The worker died, and reclaim_stale_batches queues the batch again: the    *)
(* summary died with it.                                                     *)
Requeue(r, at) ==
    /\ batch[r].status = "running"
    /\ Becomes(r, "queued")
    /\ StopsAt(r, at)
    /\ tried' = [tried EXCEPT ![r] = @ \cup {i \in at : ReachedBy(r, i)}]
    /\ todo' = [todo EXCEPT ![r] = {}]
    /\ tally' = [tally EXCEPT ![r] = NoTally]
    /\ silent' = silent \cup {p \in FinalPairs(r) : p[1] \in tally[r].failed}
    /\ UNCHANGED <<contact, sweep, promised, reported, requests>>

-----------------------------------------------------------------------------
(* The worker's retries: process_due_retries, run by run *)

(* The rows of the run whose backoff has passed. *)
SweepStarts(r) ==
    /\ sweep[r] = NoSweep
    /\ \E due \in SUBSET (FailedPairs(r) \cap retry) :
          /\ due # {}
          /\ sweep' = [sweep EXCEPT ![r].due = due, ![r].left = due]
    /\ UNCHANGED <<contact, rowVars, batchVars, page, promised, noticeVars, requests>>

(* retry_delivery claims the row if it still waits for its retry. *)
SweepClaims(r, i, ch) ==
    /\ sweep[r].at = {}
    /\ <<i, ch>> \in sweep[r].left
    /\ IF status[i][ch] = "failed" /\ <<i, ch>> \in retry
         THEN /\ Claimed(i, ch)
              /\ sweep' = [sweep EXCEPT ![r].left = @ \ {<<i, ch>>}, ![r].at = {<<i, ch>>},
                                        ![r].reaches = ContactFor(ch, contact[i]) # <<>>]
              /\ MovesAll(i)
         ELSE /\ sweep' = [sweep EXCEPT ![r].left = @ \ {<<i, ch>>}]
              /\ UNCHANGED <<status, attempts, retry, known, page, promised>>
    /\ UNCHANGED <<contact, newest, batchVars, noticeVars, requests>>

(* _attempt_send commits the outcome, whatever the row holds by now. *)
SweepRecords(r, i, ch, outcome) ==
    /\ <<i, ch>> \in sweep[r].at
    /\ ~sweep[r].reaches => outcome = "permanent"
    /\ Recorded(i, ch, outcome, attempts[i][ch])
    /\ sweep' = [sweep EXCEPT ![r].at = {}, ![r].reaches = FALSE]
    /\ MovesAll(i)
    /\ UNCHANGED <<contact, newest, batchVars, requests>>

(* Mutant: only attempts past the limit exhaust a delivery. *)
ExhaustedPastLimit(r) == {p \in sweep[r].due \cap FinalPairs(r) : attempts[p[1]][p[2]] > MaxAttempts}

Exhausted(r) == sweep[r].due \cap FinalPairs(r)

(* The run's deliveries are through: notify_retry_exhausted, in a commit of  *)
(* its own.                                                                  *)
SweepNotifies(r) ==
    /\ sweep[r].due # {} /\ sweep[r].left = {} /\ sweep[r].at = {}
    /\ reported' = reported \cup Exhausted(r)
    /\ sweep' = [sweep EXCEPT ![r] = NoSweep]
    /\ UNCHANGED <<contact, rowVars, batchVars, page, promised, silent, requests>>

(* The process dies, or an exception ends its loop. *)
SweepDies(r) ==
    /\ sweep[r].due # {}
    /\ silent' = silent \cup Exhausted(r)
    /\ sweep' = [sweep EXCEPT ![r] = NoSweep]
    /\ UNCHANGED <<contact, rowVars, batchVars, page, promised, reported, requests>>

(* recover_stale_claims: the claim is ten minutes old. *)
RecoverStale(i, ch) ==
    /\ status[i][ch] = "sending"
    /\ status' = [status EXCEPT ![i][ch] = "unknown"]
    /\ retry' = retry \ {<<i, ch>>}
    /\ UNCHANGED <<contact, attempts, known, newest, batchVars, sweep, page, promised,
                   noticeVars, requests>>

-----------------------------------------------------------------------------
(* What others do to a row or a contact *)

(* settle_delivery: an operator looked it up in the provider's portal. *)
Settle(i, ch, sent) ==
    /\ status[i][ch] = "unknown"
    /\ Request
    /\ status' = [status EXCEPT ![i][ch] = IF sent THEN "sent" ELSE "failed"]
    /\ retry' = retry \ {<<i, ch>>}
    /\ reported' = IF sent THEN reported ELSE reported \cup {<<i, ch>>}
    /\ MovesAll(i)
    /\ UNCHANGED <<contact, attempts, known, newest, batchVars, sweep, silent>>

(* apply_receipt: the provider says a message of this row never arrived.     *)
(* Nobody is told.                                                           *)
ReportFails(i, ch) ==
    /\ <<i, ch>> \in known
    /\ Request
    /\ status' = [status EXCEPT ![i][ch] = "failed"]
    /\ retry' = retry \ {<<i, ch>>}
    /\ silent' = silent \cup {<<i, ch>>}
    /\ MovesAll(i)
    /\ UNCHANGED <<contact, attempts, known, newest, batchVars, sweep, reported>>

(* The roster, set_preferred_channel, or the payroll row's own MoMo. *)
EditContact(i, c) ==
    /\ c # contact[i]
    /\ Request
    /\ contact' = [contact EXCEPT ![i] = c]
    /\ page' = Edits(i, page)
    /\ promised' = [r \in Runs |-> Edits(i, promised[r])]
    /\ UNCHANGED <<rowVars, batchVars, sweep, noticeVars>>

-----------------------------------------------------------------------------
OutreachInit ==
    /\ contact \in [Items -> Contacts]
    /\ status = [i \in Items |-> [ch \in Channels |-> "none"]]
    /\ attempts = [i \in Items |-> [ch \in Channels |-> 0]]
    /\ retry = {}
    /\ known = {}
    /\ newest = [i \in Items |-> "none"]
    /\ batch = [r \in Runs |-> [status |-> "none", channel |-> "none", onlyFailed |-> FALSE]]
    /\ todo = [r \in Runs |-> {}]
    /\ tally = [r \in Runs |-> NoTally]
    /\ sweep = [r \in Runs |-> NoSweep]
    /\ page = NoPage
    /\ promised = [r \in Runs |-> Shown(<<>>)]
    /\ tried = [r \in Runs |-> {}]
    /\ reported = {}
    /\ silent = {}
    /\ requests = 0

CONFIRM_ACTIONS == {"send", "resend", "schedule"}

Outside ==
    \/ \E r \in Runs, action \in CONFIRM_ACTIONS :
          \/ \E channel \in {"sms", "auto"} : ConfirmSend(r, channel, action)
          \/ \E channel \in {"email", "whatsapp"} : PostDirect(r, channel, action)
    \/ \E rs \in SUBSET Runs : BulkConfirm(rs)
    \/ PostConfirmed
    \/ \E i \in Items, ch \in Channels, sent \in BOOLEAN : Settle(i, ch, sent)
    \/ \E i \in Items, ch \in Channels : ReportFails(i, ch)
    \/ \E i \in Items, c \in Contacts : EditContact(i, c)

Worker ==
    \/ \E r \in Runs : \/ Activate(r) \/ StartBatch(r) \/ FinishBatch(r)
                       \/ SweepStarts(r) \/ SweepNotifies(r) \/ SweepDies(r)
    \/ \E r \in Runs, at \in SUBSET Items : BatchFails(r, at) \/ Requeue(r, at)
    \/ \E r \in Runs, i \in Items, outcome \in Outcomes : SendOne(r, i, outcome)
    \/ \E r \in Runs, i \in Items, ch \in Channels :
          \/ SweepClaims(r, i, ch)
          \/ \E outcome \in Outcomes : SweepRecords(r, i, ch, outcome)
    \/ \E i \in Items, ch \in Channels : RecoverStale(i, ch)

OutreachNext == Outside \/ Worker

OutreachSpec == OutreachInit /\ [][OutreachNext]_outreachVars

-----------------------------------------------------------------------------
OutreachTypeOK ==
    /\ contact \in [Items -> Contacts]
    /\ status \in [Items -> [Channels -> {"none", "sending", "sent", "failed", "unknown"}]]
    /\ attempts \in [Items -> [Channels -> 0..MaxAttempts]]
    /\ \A p \in retry : \/ Status(p) = "sending"
                        \/ Status(p) = "failed" /\ attempts[p[1]][p[2]] < MaxAttempts
    /\ \A p \in known : Status(p) # "none"
    /\ \A i \in Items : newest[i] = "none" <=> \A ch \in Channels : status[i][ch] = "none"
    /\ \A r \in Runs : /\ batch[r].status \in {"none", "scheduled", "queued", "running",
                                              "completed", "failed"}
                       /\ sweep[r].left \cup sweep[r].at \subseteq sweep[r].due
                       /\ Cardinality(sweep[r].at) <= 1

(* A completed batch did what its confirm page showed (confirm.py: "the      *)
(* preview and the send cannot disagree about a worker").  Where nothing     *)
(* changed in between, it set out to send no payslip the page did not count  *)
(* as reachable, and each it did count, with retries of the batch after its  *)
(* worker died; a message that cannot be prepared ends there.  The page may  *)
(* be minutes or, with a schedule, days old: an edited contact still does    *)
(* not send what the page said is left out, on a channel that was named, and *)
(* a delivery that changed still does not reach a worker the page said has   *)
(* no contact.                                                               *)
PreviewIsWhatIsSent ==
    [][\A r \in Runs : batch[r].status = "running" /\ batch'[r].status = "completed" =>
          LET view == promised[r]
          IN  \A i \in DOMAIN view.shown \cap ItemsOf(r) :
                /\ i \notin view.edited \cup view.moved =>
                     (i \in tried[r] <=> view.shown[i] \in Reachable)
                /\ i \notin view.moved /\ batch[r].channel # "auto" =>
                     (view.shown[i] = "skipped" => i \notin tried[r])
                /\ i \notin view.edited =>
                     (view.shown[i] \in {"no_contact", "invalid"} => i \notin tried[r])]_outreachVars

(* A payslip that failed for good was told of, or is about to be: a failed   *)
(* row that nothing will retry was counted in the completion notice or the   *)
(* notice of exhausted retries, or settled by hand, or its batch or sweep,   *)
(* which counts it, has not ended.  The failures nobody ever hears of are    *)
(* those a provider reported after the send (receipts.apply_receipt), and    *)
(* those of a process that died between the row's commit and its notice's.   *)
FinalFailureIsHeard ==
    \A r \in Runs : \A p \in FinalPairs(r) :
        p \in reported \cup silent \cup sweep[r].due \/ p[1] \in tally[r].failed

(* Mutant: the page looks at the batch alone.                                 *)
LiveByBatch(r) == batch[r].status \in {"queued", "running"}

(* delivery_status_context: the page polls while a batch is under way or the  *)
(* newest row of a payslip awaits an automatic retry.                         *)
Live(r) ==
    \/ batch[r].status \in {"queued", "running"}
    \/ \E i \in ItemsOf(r) : /\ newest[i] # "none" /\ status[i][newest[i]] = "failed"
                             /\ <<i, newest[i]>> \in retry

ShownStatus(i) == IF newest[i] = "none" THEN "none" ELSE status[i][newest[i]]

(* The page does not poll, and shows no schedule and no attempt under way.    *)
AtRest(r) ==
    /\ ~Live(r)
    /\ batch[r].status # "scheduled"
    /\ \A i \in ItemsOf(r) : ShownStatus(i) # "sending"

(* An attempt of the sweep that another hand took for dead or settled.        *)
Overrun(r) == \E p \in sweep[r].at : Status(p) # "sending"

(* A status page at rest is not out of date: what it shows changes, and work  *)
(* starts again, only by a request of an operator or a report of a provider,  *)
(* never by what the worker does by itself (status.delivery_status_context).  *)
(* A page that shows an attempt of the sweep, or a schedule, does not poll    *)
(* either and is overtaken by it; so is a page that shows a row somebody else *)
(* has decided while the sweep's attempt on it was still out.                 *)
StillPageIsFinal ==
    [][\A r \in Runs : AtRest(r) /\ ~Overrun(r) /\ requests' = requests /\ ~PostConfirmed =>
          AtRest(r)' /\ \A i \in ItemsOf(r) : ShownStatus(i)' = ShownStatus(i)]_outreachVars
=============================================================================
