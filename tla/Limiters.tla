------------------------------ MODULE Limiters ------------------------------
(***************************************************************************)
(* The counters a process keeps in memory against the clock: failed         *)
(* sign-ins (login_throttle.py, auth.login), requests for a short link      *)
(* (request_limit.py), access requests (access_requests._allow), the pace   *)
(* of sends (throttle.py) and the service-level alerts of the worker        *)
(* (sla.py).  They are independent of each other: a behaviour is about one  *)
(* of them, `subject`.                                                      *)
(*                                                                          *)
(* Time is kept as ages: a stamp the code compares with now() is the number *)
(* of ticks since, up to the age at which nothing tells it from an older    *)
(* one.  A tick is long against the wait for a lock, so that reading the    *)
(* clock and taking the lock right after it is one step; a password check   *)
(* is not, and every thread's check, verification and count are steps of    *)
(* their own.                                                               *)
(***************************************************************************)
EXTENDS Integers, FiniteSets, Sequences

CONSTANTS
    Threads,            \* request threads of a process
    Requests,           \* [header, remote]: where a request says and shows it comes from
    Accounts,           \* addresses signed in with
    Processes,          \* sending processes
    LOGIN_MAX_ATTEMPTS,
    Window,             \* LOGIN_ATTEMPT_WINDOW_SECONDS, a minute, an hour: in ticks
    Lockout,            \* LOGIN_LOCKOUT_SECONDS in ticks
    PerWindow,          \* PAYSLIP_LINK_RATE_PER_MIN, ACCESS_REQUEST_MAX_PER_HOUR
    MaxTracked,         \* _MAX_TRACKED_KEYS, _MAX_TRACKED
    MinInterval,        \* ticks between two sends of a process
    Threshold,          \* ticks after which a batch is late, a send unconfirmed, ...
    Interval, Cooldown, \* SLA_CHECK_INTERVAL_SECONDS, SLA_ALERT_COOLDOWN_SECONDS
    MinVolume           \* SLA_MIN_VOLUME

ASSUME ThreadsAssumption == IsFiniteSet(Threads)
ASSUME LimitsAssumption ==
    /\ {LOGIN_MAX_ATTEMPTS, Window, Lockout, PerWindow, MaxTracked, MinInterval} \subseteq Nat \ {0}
    /\ {Threshold, Interval, Cooldown, MinVolume} \subseteq Nat
    /\ Lockout >= Window

VARIABLES
    subject,        \* which limiter this behaviour is about
    entry,          \* login_throttle._state: key -> <<>> or <<[failures, age, left]>>
    pc, attempt,    \* per thread: where it is in login, and the keys of its attempt
    guesses,        \* history: per subscriber, the ages of failed sign-ins in the window
    hits,           \* _hits: per key, the ages of its counted requests, oldest first
    served,         \* history: per subscriber, the ages of the requests let through
    next,           \* throttle._last_send_at: ticks until a process's next free slot
    slots,          \* history: per process, how far ahead of now each slot given out lies
    since,          \* per kind of row: ticks the oldest one has waited; -1: there is none
    tally,          \* deliveries of the window: how many sent, how many failed
    supervised,     \* the worker is a process of its own, not a thread of the web process
    up,             \* the worker is running
    checked,        \* ticks since sla._last_check_at; Interval: as good as never
    alerted,        \* per breach: ticks since its last alert; Cooldown: as good as never
    told            \* breaches the last step alerted the administrators about

loginVars == <<entry, pc, attempt, guesses>>
requestVars == <<hits, served>>
sendVars == <<next, slots>>
slaVars == <<since, tally, supervised, up, checked, alerted>>
vars == <<subject, loginVars, requestVars, sendVars, slaVars, told>>

Subjects == {"login", "link", "access", "send", "sla"}
Aged(ages, limit) == [i \in DOMAIN ages |-> IF ages[i] < limit THEN ages[i] + 1 ELSE limit]

(* Stamps are kept oldest first: the ones still in the window are a tail.    *)
Recent(ages) ==
    SubSeq(ages, Cardinality({i \in DOMAIN ages : ages[i] >= Window}) + 1, Len(ages))

-----------------------------------------------------------------------------
(* Where a request comes from: client_ip.py.  An address is <<6, net, host>> *)
(* or <<4, net, host>>; a subscriber is handed a net.                        *)

ClientIp(r) == IF r.header # <<>> THEN r.header ELSE r.remote

(* An IPv6 subscriber rotates through a whole /64: that is what is counted. *)
RateLimitKey(address) ==
    IF address[1] = 6 THEN <<6, address[2], 0>> ELSE address

Subscriber(r) == ClientIp(r)[2]
Subscribers == {Subscriber(r) : r \in Requests}
IpKeys == {RateLimitKey(ClientIp(r)) : r \in Requests}
AccountKey(u) == <<0, u, 0>>
Keys == IpKeys \cup {AccountKey(u) : u \in Accounts}

(* A subscriber is one IPv4 address, or one /64.                             *)
ASSUME SubscribersAssumption ==
    \A q, r \in Requests :
      /\ ClientIp(r)[1] \in {4, 6}
      /\ Subscriber(q) = Subscriber(r) => RateLimitKey(ClientIp(q)) = RateLimitKey(ClientIp(r))

-----------------------------------------------------------------------------
(* Sign-ins *)

NoLock == -1
Locked(k) == entry[k] # <<>> /\ entry[k][1].left > 0

(* retry_after: reading counts nothing. *)
Blocked(keys) == \E k \in keys : Locked(k)

Prune(e) ==
    IF Cardinality({k \in Keys : e[k] # <<>>}) < MaxTracked THEN e
    ELSE [k \in Keys |-> IF e[k] # <<>> /\ e[k][1].left <= 0 /\ e[k][1].age >= Window
                           THEN <<>> ELSE e[k]]

(* One failure on the entry of a key: a window that has passed, or a lock    *)
(* that has, starts a new count.                                            *)
Counted(e) ==
    LET stale == \/ e = <<>>
                 \/ e[1].left = NoLock /\ e[1].age >= Window
                 \/ e[1].left = 0
        failures == IF stale THEN 1 ELSE e[1].failures + 1
    IN  <<[failures |-> failures,
           age |-> IF stale THEN 0 ELSE e[1].age,
           left |-> IF failures >= LOGIN_MAX_ATTEMPTS THEN Lockout
                    ELSE IF stale THEN NoLock ELSE e[1].left]>>

RegisterFailure(keys) ==
    entry' = [k \in Keys |-> IF k \in keys THEN Counted(Prune(entry)[k]) ELSE Prune(entry)[k]]

(* login: refused while a key is locked, before the user is looked up. *)
Login(t, r, u) ==
    LET keys == {RateLimitKey(ClientIp(r)), AccountKey(u)} IN
    /\ subject = "login" /\ pc[t] = "idle"
    /\ ~Blocked(keys)
    /\ pc' = [pc EXCEPT ![t] = "verify"]
    /\ attempt' = [attempt EXCEPT ![t] = <<keys, AccountKey(u), Subscriber(r)>>]
    /\ UNCHANGED <<subject, entry, guesses, requestVars, sendVars, slaVars, told>>

WrongPassword(t) ==
    /\ pc[t] = "verify"
    /\ RegisterFailure(attempt[t][1])
    /\ guesses' = [guesses EXCEPT ![attempt[t][3]] = Append(@, 0)]
    /\ pc' = [pc EXCEPT ![t] = "idle"]
    /\ attempt' = [attempt EXCEPT ![t] = <<>>]
    /\ UNCHANGED <<subject, requestVars, sendVars, slaVars, told>>

ClearsTheAddressToo(t) ==
    /\ pc[t] = "verify"
    /\ entry' = [k \in Keys |-> IF k \in attempt[t][1] THEN <<>> ELSE entry[k]]
    /\ pc' = [pc EXCEPT ![t] = "idle"]
    /\ attempt' = [attempt EXCEPT ![t] = <<>>]
    /\ UNCHANGED <<subject, guesses, requestVars, sendVars, slaVars, told>>

(* A success clears the account's count, and not the address's. *)
RightPassword(t) ==
    /\ pc[t] = "verify"
    /\ entry' = [entry EXCEPT ![attempt[t][2]] = <<>>]
    /\ pc' = [pc EXCEPT ![t] = "idle"]
    /\ attempt' = [attempt EXCEPT ![t] = <<>>]
    /\ UNCHANGED <<subject, guesses, requestVars, sendVars, slaVars, told>>

-----------------------------------------------------------------------------
(* Requests in a window *)

Tracked == {k \in IpKeys : hits[k] # <<>>}
Idle(k) == hits[k] # <<>> /\ hits[k][Len(hits[k])] >= Window

LetThrough(r, h) ==
    /\ hits' = h
    /\ served' = [served EXCEPT ![Subscriber(r)] = Append(@, 0)]
    /\ UNCHANGED <<subject, loginVars, sendVars, slaVars, told>>

AllowForgetsAll(r) ==
    LET k == RateLimitKey(ClientIp(r))
        kept == IF Cardinality(Tracked) < MaxTracked THEN hits ELSE [j \in IpKeys |-> <<>>]
    IN  /\ subject = "link"
        /\ Len(Recent(kept[k])) < PerWindow
        /\ LetThrough(r, [kept EXCEPT ![k] = Append(Recent(@), 0)])

(* request_limit.allow, for /s/<code>: a full table drops its idle keys, and *)
(* takes the key whatever is left.                                           *)
Allow(r) ==
    LET k == RateLimitKey(ClientIp(r))
        kept == IF Cardinality(Tracked) < MaxTracked THEN hits
                ELSE [j \in IpKeys |-> IF Idle(j) THEN <<>> ELSE hits[j]]
    IN  /\ subject = "link"
        /\ Len(Recent(kept[k])) < PerWindow
        /\ LetThrough(r, [kept EXCEPT ![k] = Append(Recent(@), 0)])

(* access_requests._allow: a full table drops its idle keys too, and refuses *)
(* a new one if that is not enough.                                         *)
AllowAccessRequest(r) ==
    LET k == RateLimitKey(ClientIp(r))
        full == Cardinality(Tracked) >= MaxTracked /\ hits[k] = <<>>
        kept == IF full THEN [j \in IpKeys |-> IF Idle(j) THEN <<>> ELSE hits[j]] ELSE hits
    IN  /\ subject = "access"
        /\ Len(Recent(hits[k])) < PerWindow
        /\ full => Cardinality({j \in IpKeys : kept[j] # <<>>}) < MaxTracked
        /\ LetThrough(r, [kept EXCEPT ![k] = Append(Recent(@), 0)])

-----------------------------------------------------------------------------
(* Sends *)

(* throttle: take the next slot under the lock, sleep until it outside.  At  *)
(* most one caller per thread is asleep.                                     *)
Throttle(p) ==
    /\ subject = "send"
    /\ Cardinality({i \in DOMAIN slots[p] : slots[p][i] > 0}) < Cardinality(Threads)
    /\ slots' = [slots EXCEPT ![p] = Append(@, next[p])]
    /\ next' = [next EXCEPT ![p] = @ + MinInterval]
    /\ UNCHANGED <<subject, loginVars, requestVars, slaVars, told>>

-----------------------------------------------------------------------------
(* Service levels *)

Kinds == {"batch_overdue", "unconfirmed", "unknown"}
Breaches == Kinds \cup {"failure_rate"}

(* evaluate_sla.  A fifth of the window's deliveries is what may fail. *)
EvaluateSla ==
    {k \in Kinds : since[k] > Threshold}
      \cup (IF /\ tally.sent + tally.failed >= MinVolume
               /\ tally.sent + tally.failed > 0
               /\ 5 * tally.failed >= tally.sent + tally.failed
              THEN {"failure_rate"} ELSE {})

Fresh == {b \in EvaluateSla : alerted[b] >= Cooldown}

StampsEveryBreach ==
    /\ subject = "sla" /\ up
    /\ checked >= Interval
    /\ checked' = 0
    /\ told' = Fresh
    /\ alerted' = [b \in Breaches |-> IF b \in EvaluateSla THEN 0 ELSE alerted[b]]
    /\ UNCHANGED <<subject, loginVars, requestVars, sendVars, since, tally, supervised, up>>

(* maybe_check_sla, which commits the alert it made. *)
CheckSla ==
    /\ subject = "sla" /\ up
    /\ checked >= Interval
    /\ checked' = 0
    /\ told' = Fresh
    /\ alerted' = [b \in Breaches |-> IF b \in Fresh THEN 0 ELSE alerted[b]]
    /\ UNCHANGED <<subject, loginVars, requestVars, sendVars, since, tally, supervised, up>>

(* A step of a poll raises, the alert's own write among them: the error ends *)
(* the worker (run_worker), be it a process or a thread.                     *)
WorkerRaises ==
    /\ subject = "sla" /\ up
    /\ up' = FALSE
    /\ told' = {}
    /\ UNCHANGED <<subject, loginVars, requestVars, sendVars, since, tally, supervised,
                   checked, alerted>>

(* A new process, after a crash or a deployment, remembers neither checks    *)
(* nor alerts.  Nothing starts a thread again but a new web process.         *)
Restart ==
    /\ subject = "sla"
    /\ up' = TRUE
    /\ checked' = Interval
    /\ alerted' = [b \in Breaches |-> Cooldown]
    /\ told' = {}
    /\ UNCHANGED <<subject, loginVars, requestVars, sendVars, since, tally, supervised>>

(* A batch starts or ends, a message is sent, confirmed, lost or settled. *)
RowsChange ==
    /\ subject = "sla"
    /\ \/ \E k \in Kinds, age \in {-1, 0} : since' = [since EXCEPT ![k] = age] /\ UNCHANGED tally
       \/ \E s, f \in 0 .. MinVolume : tally' = [sent |-> s, failed |-> f] /\ UNCHANGED since
    /\ told' = {}
    /\ UNCHANGED <<subject, loginVars, requestVars, sendVars, supervised, up, checked, alerted>>

-----------------------------------------------------------------------------
Init ==
    /\ subject \in Subjects
    /\ entry = [k \in Keys |-> <<>>]
    /\ pc = [t \in Threads |-> "idle"]
    /\ attempt = [t \in Threads |-> <<>>]
    /\ guesses = [s \in Subscribers |-> <<>>]
    /\ hits = [k \in IpKeys |-> <<>>]
    /\ served = [s \in Subscribers |-> <<>>]
    /\ next = [p \in Processes |-> 0]
    /\ slots = [p \in Processes |-> <<>>]
    /\ since = [k \in Kinds |-> -1]
    /\ tally = [sent |-> 0, failed |-> 0]
    /\ supervised \in BOOLEAN /\ (supervised => subject = "sla")
    /\ up = TRUE
    /\ checked = Interval
    /\ alerted = [b \in Breaches |-> Cooldown]
    /\ told = {}

Down(n) == IF n > 0 THEN n - 1 ELSE n

(* Slots a tick later; those the minimum interval ago are forgotten.         *)
Later(given) ==
    SubSeq([i \in DOMAIN given |-> given[i] - 1],
           Cardinality({i \in DOMAIN given : given[i] <= 1 - MinInterval}) + 1, Len(given))

Tick ==
    /\ entry' = [k \in Keys |->
                   IF entry[k] = <<>> THEN <<>>
                   ELSE <<[entry[k][1] EXCEPT !.age = IF @ < Window THEN @ + 1 ELSE @,
                                              !.left = Down(@)]>>]
    /\ guesses' = [s \in Subscribers |-> Recent(Aged(guesses[s], Window))]
    /\ hits' = [k \in IpKeys |-> Aged(hits[k], Window)]
    /\ served' = [s \in Subscribers |-> Recent(Aged(served[s], Window))]
    /\ next' = [p \in Processes |-> Down(next[p])]
    /\ slots' = [p \in Processes |-> Later(slots[p])]
    /\ since' = [k \in Kinds |-> IF since[k] \in 0 .. Threshold THEN since[k] + 1 ELSE since[k]]
    /\ checked' = IF checked < Interval THEN checked + 1 ELSE checked
    /\ alerted' = [b \in Breaches |-> IF alerted[b] < Cooldown THEN alerted[b] + 1 ELSE alerted[b]]
    /\ told' = {}
    /\ UNCHANGED <<subject, pc, attempt, tally, supervised, up>>

Next ==
    \/ \E t \in Threads :
         \/ \E r \in Requests, u \in Accounts : Login(t, r, u)
         \/ WrongPassword(t) \/ RightPassword(t)
    \/ \E r \in Requests : Allow(r) \/ AllowAccessRequest(r)
    \/ \E p \in Processes : Throttle(p)
    \/ CheckSla \/ WorkerRaises \/ Restart \/ RowsChange
    \/ Tick

(* The clock runs, a worker that is up polls, the database takes an alert it *)
(* is offered again and again, and a supervisor restarts a worker that is a  *)
(* process.  Nothing is assumed of a thread that has ended.                  *)
Fairness ==
    /\ WF_vars(Tick)
    /\ WF_vars(supervised /\ ~up /\ Restart)
    /\ SF_vars(CheckSla)

Spec == Init /\ [][Next]_vars /\ Fairness

-----------------------------------------------------------------------------
(* Properties *)

(* What each counter may hold: no table entry is locked for longer than the  *)
(* lock, and no slot lies further ahead than the callers asleep before it.   *)
TypeOK ==
    /\ subject \in Subjects
    /\ \A k \in Keys : entry[k] # <<>> =>
         /\ entry[k][1].age \in 0 .. Window
         /\ entry[k][1].left \in NoLock .. Lockout
         /\ entry[k][1].left = NoLock <=> entry[k][1].failures < LOGIN_MAX_ATTEMPTS
    /\ pc \in [Threads -> {"idle", "verify"}]
    /\ \A k \in IpKeys : Len(hits[k]) <= PerWindow
    /\ \A p \in Processes : next[p] \in 0 .. MinInterval * (Cardinality(Threads) + 1)
    /\ since \in [Kinds -> -1 .. Threshold + 1]
    /\ checked \in 0 .. Interval
    /\ alerted \in [Breaches -> 0 .. Cooldown]
    /\ told \subseteq Breaches

(* Within any window a subscriber's failed sign-ins stay below two rounds of *)
(* the limit and one per thread that was past the check when the lock came:  *)
(* neither crossing requests, nor rotating addresses, nor a success between  *)
(* them, nor a full table gives it more ("an attacker holding one valid      *)
(* login" of auth.login).                                                    *)
GuessesAreBounded ==
    \A s \in Subscribers :
      Len(guesses[s]) <= 2 * (LOGIN_MAX_ATTEMPTS - 1) + Cardinality(Threads)

(* No subscriber gets more requests through in a window than the limit,      *)
(* whatever the other addresses do to the table ("Clearing the whole dict    *)
(* here would let a flood of new addresses reset everyone"); and each slot a *)
(* process gives its senders lies the minimum interval after those before    *)
(* it, with any number of callers asleep ("the effective ceiling is N x the  *)
(* rate" of throttle.py for N processes).                                    *)
RatesAreKept ==
    /\ \A s \in Subscribers : Len(served[s]) <= PerWindow
    /\ \A p \in Processes : \A i, j \in DOMAIN slots[p] :
         i < j => slots[p][j] - slots[p][i] >= MinInterval

(* A breach that stays is told of again and again, whichever other breaches  *)
(* come and go, however often the worker dies and the process is deployed    *)
(* (sla.py: "Repeats every cooldown until each one is settled, because       *)
(* nothing else will move them"), unless the worker was a thread of the web  *)
(* process, has ended, and no deployment follows.                            *)
StandingBreachIsRepeated ==
    \A b \in Breaches :
      <>[](subject = "sla" /\ b \in EvaluateSla) =>
        \/ []<>(b \in told)
        \/ <>[](~supervised /\ ~up)

=============================================================================
