-------------------------- MODULE OnboardingProofs --------------------------
(***************************************************************************)
(* Proofs about Onboarding, for any number of operators, invitees and       *)
(* companies: an invitation link works once, the invited administrator is   *)
(* not shut out, a request is decided once, and a tenant sees its own rows. *)
(*                                                                          *)
(* None of the first three is inductive as it stands.  What carries them is *)
(* what a handler that has read and not yet committed still holds: an open  *)
(* request, no licence, a pending invitation, and a placeholder password    *)
(* that no link has used and no row contains.                               *)
(***************************************************************************)
EXTENDS Onboarding, FiniteSetTheorems, TLAPS

Account == [company : companies, hash : 1 .. hash, invited : BOOLEAN, activated : BOOLEAN]

(* Rows, counters and histories; the invited account is a whole row.         *)
Shapes ==
    /\ TypeOK
    /\ hash \in 0 .. MaxHash /\ signed \in Nat
    /\ user # <<>> => user[1] \in Account
    /\ op = [o \in Operators |-> op[o]]
    /\ accepting = [i \in Invitees |-> accepting[i]]
    /\ \A i \in Invitees : accepting[i] # <<>> => user # <<>>

(* What a handler relies on between its reads and its commit.                *)
ReadsHold ==
    \A o \in Operators :
      /\ op[o].do \in {"contacted", "declined", "approved"} => op[o].seen[1] \in OPEN
      /\ op[o].do = "licence" => op[o].seen[2] = {} /\ op[o].seen[3] \in 1 .. signed
      /\ op[o].do = "invite" => op[o].seen[1] \in companies
      /\ op[o].do = "resend" => user # <<>> /\ Pending(op[o].seen[1])

(* A handler about to write a placeholder password.                          *)
Mails(o) == op[o].do \in {"invite", "resend"}

(* A used link is an old one; a placeholder on its way to the row is new     *)
(* there, unused, and nobody else's.                                         *)
PlaceholdersAreFresh ==
    /\ uses \in [1 .. MaxHash -> 0 .. 1]
    /\ \A h \in 1 .. MaxHash : uses[h] = 1 => h <= hash /\ (user # <<>> => user[1].hash # h)
    /\ \A o \in Operators : Mails(o) =>
         /\ op[o].seen[2] \in 1 .. hash
         /\ uses[op[o].seen[2]] = 0
         /\ user # <<>> => user[1].hash # op[o].seen[2]
         /\ \A p \in Operators : Mails(p) /\ p # o => op[p].seen[2] # op[o].seen[2]

OnboardingInv ==
    /\ Shapes
    /\ ReadsHold
    /\ PlaceholdersAreFresh
    /\ InviteeIsNotShutOut
    /\ DecidedOnce

-----------------------------------------------------------------------------
(* A handler that begins or ends changes its own entry alone.                *)
LEMMA BeginOf ==
    ASSUME op = [o \in Operators |-> op[o]], NEW o \in Operators, NEW what, NEW seen,
           Begin(o, what, seen)
    PROVE  /\ op' = [p \in Operators |-> op'[p]]
           /\ op'[o].do = what /\ op'[o].seen = seen
           /\ \A p \in Operators \ {o} : op'[p] = op[p]
BY DEF Begin

(* The end of a handler, by a commit or a failure.                            *)
LEMMA EndOf ==
    ASSUME op = [o \in Operators |-> op[o]], NEW o \in Operators, End(o)
    PROVE  /\ op' = [p \in Operators |-> op'[p]]
           /\ op'[o].do = "idle"
           /\ \A p \in Operators \ {o} : op'[p] = op[p]
BY DEF End, Idle

(* The rows of the request and the licence, as they start.                   *)
LEMMA InitHolds == Init => OnboardingInv
<1> SUFFICES ASSUME Init PROVE OnboardingInv
  OBVIOUS
<1>1. Shapes
  <2>1. Cardinality({}) = 0
    BY FS_EmptySet
  <2>2. TypeOK
    <3>1. linked = {} /\ companies = {} /\ Cardinality(linked) <= 1
      BY <2>1 DEF Init
    <3>2. \A o \in Operators : op[o].do = "idle"
      BY DEF Init, Idle
    <3>3. user = <<>> /\ licences = {} /\ status = "none" /\ crossed = FALSE
      BY DEF Init
    <3>4. {mailbox, chosen, expired} \subseteq SUBSET (1 .. hash)
      BY DEF Init
    <3> QED BY <3>1, <3>2, <3>3, <3>4 DEF TypeOK
  <2>3. hash \in 0 .. MaxHash /\ signed \in Nat
    BY BoundsAssumption DEF Init
  <2> QED BY <2>2, <2>3 DEF Init, Shapes
<1>2. ReadsHold
  BY DEF Init, ReadsHold, Idle
<1>3. PlaceholdersAreFresh
  BY DEF Init, PlaceholdersAreFresh, Mails, Idle
<1>4. InviteeIsNotShutOut /\ DecidedOnce
  BY FS_EmptySet DEF Init, InviteeIsNotShutOut, DecidedOnce
<1> QED BY <1>1, <1>2, <1>3, <1>4 DEF OnboardingInv

-----------------------------------------------------------------------------
(* The request: a form, and handlers that have only read so far.             *)
LEMMA SubmitStep ==
    ASSUME OnboardingInv, NEW valid \in BOOLEAN, NEW honeypot \in BOOLEAN, NEW wanted,
           Submit(valid, honeypot, wanted)
    PROVE  OnboardingInv'
<1>1. /\ status = "none" /\ status' \in {"none", "new"}
      /\ UNCHANGED <<linked, companies, created, licenceVars, userVars, op, accepting,
                     expired, crossed>>
  BY DEF Submit
<1> USE DEF licenceVars, userVars
<1>2. Shapes'
  BY <1>1 DEF OnboardingInv, Shapes, TypeOK, Account
<1>3. ReadsHold' /\ PlaceholdersAreFresh' /\ InviteeIsNotShutOut'
  BY <1>1 DEF OnboardingInv, ReadsHold, PlaceholdersAreFresh, Mails, InviteeIsNotShutOut, Pending
<1>4. DecidedOnce'
  BY <1>1 DEF OnboardingInv, DecidedOnce
<1> QED BY <1>2, <1>3, <1>4 DEF OnboardingInv

(* Review, AddClient and a failed commit: only the handler's entry changes,  *)
(* to one that holds what it read of an open request.                        *)
LEMMA OnlyOp ==
    ASSUME OnboardingInv, NEW o \in Operators,
           UNCHANGED <<requestVars, licenceVars, userVars, accepting, expired, crossed>>,
           op' = [p \in Operators |-> op'[p]],
           \A p \in Operators \ {o} : op'[p] = op[p],
           op'[o].do \in {"idle", "contacted", "declined", "approved"},
           op'[o].do # "idle" => op'[o].seen[1] \in OPEN
    PROVE  OnboardingInv'
<1> USE DEF requestVars, licenceVars, userVars
<1>1. Shapes'
  BY DEF OnboardingInv, Shapes, TypeOK, Account
<1>2. ReadsHold'
  BY DEF OnboardingInv, ReadsHold, Pending
<1>3. \A p \in Operators : Mails(p)' => Mails(p) /\ p # o /\ op'[p] = op[p]
  BY DEF Mails
<1>4. PlaceholdersAreFresh'
  BY <1>3 DEF OnboardingInv, PlaceholdersAreFresh
<1>5. InviteeIsNotShutOut' /\ DecidedOnce'
  BY DEF OnboardingInv, InviteeIsNotShutOut, DecidedOnce, Pending
<1> QED BY <1>1, <1>2, <1>4, <1>5 DEF OnboardingInv

(* A review reads an open request.                                           *)
LEMMA ReviewStep ==
    ASSUME OnboardingInv, NEW o \in Operators, NEW decision \in {"contacted", "declined"},
           Review(o, decision)
    PROVE  OnboardingInv'
<1>1. /\ op' = [p \in Operators |-> op'[p]] /\ \A p \in Operators \ {o} : op'[p] = op[p]
      /\ op'[o].do = decision /\ op'[o].seen = <<status>>
  BY BeginOf DEF Review, OnboardingInv, Shapes
<1> QED BY <1>1, OnlyOp DEF Review

(* So does the form for its company.                                         *)
LEMMA AddClientStep ==
    ASSUME OnboardingInv, NEW o \in Operators, NEW c \in Companies, AddClient(o, c)
    PROVE  OnboardingInv'
<1>1. /\ op' = [p \in Operators |-> op'[p]] /\ \A p \in Operators \ {o} : op'[p] = op[p]
      /\ op'[o].do = "approved" /\ op'[o].seen = <<status, c>>
  BY BeginOf DEF AddClient, OnboardingInv, Shapes
<1> QED BY <1>1, OnlyOp DEF AddClient

(* A failed commit leaves the rows as they are.                              *)
LEMMA CommitFailsStep ==
    ASSUME OnboardingInv, NEW o \in Operators, CommitFails(o) PROVE OnboardingInv'
<1>1. /\ op' = [p \in Operators |-> op'[p]] /\ \A p \in Operators \ {o} : op'[p] = op[p]
      /\ op'[o].do = "idle"
  BY EndOf DEF CommitFails, OnboardingInv, Shapes
<1> QED BY <1>1, OnlyOp DEF CommitFails

(* The commit of a decision: unless the request changed since it was read,   *)
(* it was open, and so has no company yet.                                   *)
LEMMA ReviewCommitsStep ==
    ASSUME OnboardingInv, NEW o \in Operators, ReviewCommits(o) PROVE OnboardingInv'
<1>1. /\ op[o].do \in {"contacted", "declined"} /\ status' = op[o].do
      /\ crossed' = (crossed \/ status # op[o].seen[1])
      /\ UNCHANGED <<interest, linked, companies, created, licenceVars, userVars, accepting,
                     expired>>
  BY DEF ReviewCommits
<1>2. /\ op' = [p \in Operators |-> op'[p]] /\ \A p \in Operators \ {o} : op'[p] = op[p]
      /\ op'[o].do = "idle"
  BY EndOf DEF ReviewCommits, OnboardingInv, Shapes
<1>3. op[o].seen[1] \in OPEN
  BY <1>1 DEF OnboardingInv, ReadsHold
<1> USE DEF licenceVars, userVars
<1>4. Shapes'
  BY <1>1, <1>2 DEF OnboardingInv, Shapes, TypeOK, Account
<1>5. ReadsHold'
  BY <1>1, <1>2 DEF OnboardingInv, ReadsHold, Pending
<1>6. \A p \in Operators : Mails(p)' => Mails(p) /\ p # o /\ op'[p] = op[p]
  BY <1>2 DEF Mails
<1>7. PlaceholdersAreFresh'
  BY <1>1, <1>6 DEF OnboardingInv, PlaceholdersAreFresh
<1>8. InviteeIsNotShutOut'
  BY <1>1 DEF OnboardingInv, InviteeIsNotShutOut, Pending
<1>9. DecidedOnce'
  BY <1>1, <1>3 DEF OnboardingInv, DecidedOnce, OPEN
<1> QED BY <1>4, <1>5, <1>7, <1>8, <1>9 DEF OnboardingInv

(* The company of the request is its first one.                              *)
LEMMA AddClientCommitsStep ==
    ASSUME OnboardingInv, NEW o \in Operators, AddClientCommits(o) PROVE OnboardingInv'
<1> DEFINE c == op[o].seen[2]
<1>1. op[o].do = "approved" /\ UNCHANGED <<interest, licenceVars, userVars, accepting, expired>>
  BY DEF AddClientCommits
<1>2. /\ op' = [p \in Operators |-> op'[p]] /\ \A p \in Operators \ {o} : op'[p] = op[p]
      /\ op'[o].do = "idle"
  BY EndOf DEF AddClientCommits, OnboardingInv, Shapes
<1>3. CASE c \in companies
  <2>1. UNCHANGED <<requestVars, crossed>>
    BY <1>1, <1>3 DEF AddClientCommits, requestVars
  <2> QED BY <1>1, <1>2, <2>1, OnlyOp
<1>4. CASE c \notin companies
  <2>1. /\ companies' = companies \cup {c} /\ created' = created \cup {c} /\ linked' = {c}
        /\ status' = "approved" /\ crossed' = (crossed \/ status # op[o].seen[1])
    BY <1>4 DEF AddClientCommits
  <2>2. op[o].seen[1] \in OPEN
    BY <1>1 DEF OnboardingInv, ReadsHold
  <2> HIDE DEF c
  <2> USE DEF licenceVars, userVars
  <2>3. Cardinality(linked') <= 1
    <3>1. Cardinality({c}) = 1
      BY FS_Singleton
    <3> QED BY <2>1, <3>1
  <2>4. Shapes'
    BY <1>1, <1>2, <2>1, <2>3 DEF OnboardingInv, Shapes, TypeOK, Account
  <2>5. ReadsHold'
    BY <1>1, <1>2, <2>1 DEF OnboardingInv, ReadsHold, Pending
  <2>6. \A p \in Operators : Mails(p)' => Mails(p) /\ p # o /\ op'[p] = op[p]
    BY <1>2 DEF Mails
  <2>7. PlaceholdersAreFresh'
    BY <1>1, <2>6 DEF OnboardingInv, PlaceholdersAreFresh
  <2>8. InviteeIsNotShutOut'
    BY <1>1, <2>1 DEF OnboardingInv, InviteeIsNotShutOut, Pending
  <2>9. ~crossed' => created = {}
    BY <2>1, <2>2 DEF OnboardingInv, DecidedOnce, OPEN
  <2>10. DecidedOnce'
    BY <1>1, <2>1, <2>9 DEF OnboardingInv, DecidedOnce
  <2> QED BY <2>4, <2>5, <2>7, <2>8, <2>10 DEF OnboardingInv
<1> QED BY <1>3, <1>4

(* The licence signed is its number, so far unissued.                        *)
LEMMA IssueStep ==
    ASSUME OnboardingInv, NEW o \in Operators, NEW terms, Issue(o, terms)
    PROVE  OnboardingInv'
<1>1. /\ signed' = signed + 1 /\ licences = {}
      /\ UNCHANGED <<requestVars, licences, userVars, accepting, expired, crossed>>
  BY DEF Issue
<1>2. /\ op' = [p \in Operators |-> op'[p]] /\ \A p \in Operators \ {o} : op'[p] = op[p]
      /\ op'[o].do = "licence" /\ op'[o].seen = <<status, licences, signed + 1>>
  BY BeginOf DEF Issue, OnboardingInv, Shapes
<1> USE DEF requestVars, userVars
<1>3. Shapes'
  BY <1>1, <1>2 DEF OnboardingInv, Shapes, TypeOK, Account
<1>4. ReadsHold'
  <2>1. \A p \in Operators : op[p].do = "licence" => op[p].seen[3] \in 1 .. signed'
    BY <1>1 DEF OnboardingInv, ReadsHold, Shapes
  <2>2. op'[o].seen[2] = {} /\ op'[o].seen[3] \in 1 .. signed'
    BY <1>1, <1>2 DEF OnboardingInv, Shapes
  <2> QED BY <1>1, <1>2, <2>1, <2>2 DEF OnboardingInv, ReadsHold, Pending
<1>5. \A p \in Operators : Mails(p)' => Mails(p) /\ p # o /\ op'[p] = op[p]
  BY <1>2 DEF Mails
<1>6. PlaceholdersAreFresh'
  BY <1>1, <1>5 DEF OnboardingInv, PlaceholdersAreFresh
<1>7. InviteeIsNotShutOut' /\ DecidedOnce'
  BY <1>1 DEF OnboardingInv, InviteeIsNotShutOut, DecidedOnce, Pending
<1> QED BY <1>3, <1>4, <1>6, <1>7 DEF OnboardingInv

(* The licence is the only one, unless another came in between.              *)
LEMMA IssueCommitsStep ==
    ASSUME OnboardingInv, NEW o \in Operators, IssueCommits(o) PROVE OnboardingInv'
<1>1. /\ op[o].do = "licence" /\ licences' = licences \cup {op[o].seen[3]}
      /\ status' = IF op[o].seen[1] \in OPEN /\ interest = "desktop" THEN "approved" ELSE status
      /\ crossed' = (crossed \/ <<status, licences>> # <<op[o].seen[1], op[o].seen[2]>>)
      /\ UNCHANGED <<interest, linked, companies, created, signed, userVars, accepting, expired>>
  BY DEF IssueCommits
<1>2. /\ op' = [p \in Operators |-> op'[p]] /\ \A p \in Operators \ {o} : op'[p] = op[p]
      /\ op'[o].do = "idle"
  BY EndOf DEF IssueCommits, OnboardingInv, Shapes
<1>3. op[o].seen[2] = {} /\ op[o].seen[3] \in 1 .. signed
  BY <1>1 DEF OnboardingInv, ReadsHold
<1> USE DEF userVars
<1>4. Shapes'
  BY <1>1, <1>2, <1>3 DEF OnboardingInv, Shapes, TypeOK, Account
<1>5. ReadsHold'
  BY <1>1, <1>2 DEF OnboardingInv, ReadsHold, Pending
<1>6. \A p \in Operators : Mails(p)' => Mails(p) /\ p # o /\ op'[p] = op[p]
  BY <1>2 DEF Mails
<1>7. PlaceholdersAreFresh'
  BY <1>1, <1>6 DEF OnboardingInv, PlaceholdersAreFresh
<1>8. InviteeIsNotShutOut'
  BY <1>1 DEF OnboardingInv, InviteeIsNotShutOut, Pending
<1>9. ~crossed' => ~crossed /\ status = op[o].seen[1] /\ licences = {}
  BY <1>1, <1>3
<1>10. ~crossed' => Cardinality(licences') <= 1
  <2>1. ~crossed' => licences' = {op[o].seen[3]}
    BY <1>1, <1>9
  <2>2. Cardinality({op[o].seen[3]}) = 1
    BY FS_Singleton
  <2> QED BY <2>1, <2>2
<1>11. DecidedOnce'
  BY <1>1, <1>9, <1>10 DEF OnboardingInv, DecidedOnce, OPEN
<1> QED BY <1>4, <1>5, <1>7, <1>8, <1>11 DEF OnboardingInv

-----------------------------------------------------------------------------
(* The invitation: a handler mails a link to a password nobody has had.      *)
LEMMA MailStep ==
    ASSUME OnboardingInv, NEW o \in Operators, SendInvite,
           op' = [p \in Operators |-> op'[p]],
           \A p \in Operators \ {o} : op'[p] = op[p],
           op'[o].do \in {"invite", "resend"}, op'[o].seen[2] = hash + 1,
           op'[o].do = "invite" => op'[o].seen[1] \in companies,
           op'[o].do = "resend" => user # <<>> /\ Pending(op'[o].seen[1]),
           UNCHANGED <<requestVars, licenceVars, user, chosen, uses, accepting, expired, crossed>>
    PROVE  OnboardingInv'
<1>1. /\ hash < MaxHash /\ hash' = hash + 1 /\ mailbox' \subseteq mailbox \cup {hash + 1}
      /\ hash \in Nat /\ MaxHash \in Nat
  BY BoundsAssumption DEF SendInvite, OnboardingInv, Shapes
<1> USE DEF requestVars, licenceVars
<1>2. Shapes'
  <2>1. 1 .. hash \subseteq 1 .. hash' /\ hash + 1 \in 1 .. hash'
    BY <1>1
  <2>2. user # <<>> => user[1] \in Account'
    BY <2>1 DEF OnboardingInv, Shapes, Account
  <2>3. {mailbox, chosen, expired}' \subseteq SUBSET (1 .. hash')
    BY <1>1, <2>1 DEF OnboardingInv, Shapes, TypeOK
  <2>4. user # <<>> => user[1].company \in companies /\ user[1].hash \in 1 .. hash'
    BY <2>1 DEF OnboardingInv, Shapes, TypeOK
  <2>5. \A p \in Operators : op'[p].do \in {"idle", "contacted", "declined", "approved", "licence",
                                           "invite", "resend"}
    BY DEF OnboardingInv, Shapes, TypeOK
  <2>6. TypeOK'
    BY <2>3, <2>4, <2>5 DEF OnboardingInv, Shapes, TypeOK
  <2> QED BY <1>1, <2>2, <2>6 DEF OnboardingInv, Shapes
<1>3. ReadsHold'
  BY DEF OnboardingInv, ReadsHold, Pending
<1>4. PlaceholdersAreFresh'
  <2>1. \A p \in Operators \ {o} : Mails(p)' => Mails(p) /\ op'[p] = op[p]
    BY DEF Mails
  <2>2. uses[hash + 1] = 0
    BY <1>1 DEF OnboardingInv, PlaceholdersAreFresh
  <2>3. user # <<>> => user[1].hash # hash + 1
    BY <1>1 DEF OnboardingInv, Shapes, TypeOK
  <2>4. \A p \in Operators \ {o} : Mails(p)' =>
          /\ op'[p].seen[2] \in 1 .. hash /\ op'[p].seen[2] # hash + 1
          /\ uses[op'[p].seen[2]] = 0 /\ (user # <<>> => user[1].hash # op'[p].seen[2])
    BY <1>1, <2>1 DEF OnboardingInv, PlaceholdersAreFresh
  <2>5. \A p, q \in Operators : Mails(p)' /\ Mails(q)' /\ p # q => op'[p].seen[2] # op'[q].seen[2]
    BY <2>1, <2>4 DEF OnboardingInv, PlaceholdersAreFresh
  <2>6. /\ uses \in [1 .. MaxHash -> 0 .. 1]
        /\ \A h \in 1 .. MaxHash : uses[h] = 1 => h <= hash' /\ (user # <<>> => user[1].hash # h)
    BY <1>1 DEF OnboardingInv, PlaceholdersAreFresh
  <2>7. \A p \in Operators : Mails(p)' =>
          /\ op'[p].seen[2] \in 1 .. hash'
          /\ uses[op'[p].seen[2]] = 0 /\ (user # <<>> => user[1].hash # op'[p].seen[2])
    BY <1>1, <2>2, <2>3, <2>4
  <2> QED BY <2>5, <2>6, <2>7 DEF PlaceholdersAreFresh
<1>5. InviteeIsNotShutOut' /\ DecidedOnce'
  BY DEF OnboardingInv, InviteeIsNotShutOut, DecidedOnce, Pending
<1> QED BY <1>2, <1>3, <1>4, <1>5 DEF OnboardingInv

(* An invitation reads a company there is.                                   *)
LEMMA InviteStep ==
    ASSUME OnboardingInv, NEW o \in Operators, NEW c \in Companies, Invite(o, c)
    PROVE  OnboardingInv'
<1>1. /\ op' = [p \in Operators |-> op'[p]] /\ \A p \in Operators \ {o} : op'[p] = op[p]
      /\ op'[o].do = "invite" /\ op'[o].seen = <<c, hash + 1>>
  BY BeginOf DEF Invite, OnboardingInv, Shapes
<1> QED BY <1>1, MailStep DEF Invite

(* A resend reads a pending invitation.                                      *)
LEMMA ResendStep ==
    ASSUME OnboardingInv, NEW o \in Operators, Resend(o) PROVE OnboardingInv'
<1>1. /\ op' = [p \in Operators |-> op'[p]] /\ \A p \in Operators \ {o} : op'[p] = op[p]
      /\ op'[o].do = "resend" /\ op'[o].seen = <<user, hash + 1>>
  BY BeginOf DEF Resend, OnboardingInv, Shapes
<1>2. user # <<>>
  BY DEF Resend, Pending
<1> QED BY <1>1, <1>2, MailStep DEF Resend

(* A placeholder reaches the row: it is new there and leaves the handler.    *)
LEMMA PlaceholderStep ==
    ASSUME OnboardingInv, NEW o \in Operators, Mails(o),
           op' = [p \in Operators |-> op'[p]],
           \A p \in Operators \ {o} : op'[p] = op[p],
           op'[o].do = "idle",
           user' # <<>>, user'[1] \in Account, user'[1].hash = op[o].seen[2],
           UNCHANGED <<requestVars, licenceVars, hash, mailbox, chosen, uses, accepting, expired>>,
           crossed' \in BOOLEAN, crossed => crossed',
           ~crossed' => Pending(user')
    PROVE  OnboardingInv'
<1> USE DEF requestVars, licenceVars
<1>1. user'[1].company \in companies /\ user'[1].hash \in 1 .. hash
  BY DEF Account
<1>2. Shapes'
  <2>1. TypeOK'
    BY <1>1 DEF OnboardingInv, Shapes, TypeOK
  <2> QED BY <2>1 DEF OnboardingInv, Shapes, Account
<1>3. ReadsHold'
  BY DEF OnboardingInv, ReadsHold, Pending
<1>4. PlaceholdersAreFresh'
  <2>1. \A p \in Operators : Mails(p)' => Mails(p) /\ p # o /\ op'[p] = op[p]
    BY DEF Mails
  <2>2. op[o].seen[2] \in 1 .. MaxHash /\ uses[op[o].seen[2]] = 0
    BY BoundsAssumption DEF OnboardingInv, PlaceholdersAreFresh, Shapes
  <2>3. \A h \in 1 .. MaxHash : uses[h] = 1 => h <= hash /\ user'[1].hash # h
    BY <2>2 DEF OnboardingInv, PlaceholdersAreFresh
  <2>4. \A p \in Operators : Mails(p)' => user'[1].hash # op'[p].seen[2]
    BY <2>1 DEF OnboardingInv, PlaceholdersAreFresh
  <2> QED BY <2>1, <2>3, <2>4 DEF OnboardingInv, PlaceholdersAreFresh
<1>5. InviteeIsNotShutOut' /\ DecidedOnce'
  BY DEF OnboardingInv, InviteeIsNotShutOut, DecidedOnce, Pending
<1> QED BY <1>2, <1>3, <1>4, <1>5 DEF OnboardingInv

(* An invitation makes the row, pending.                                     *)
LEMMA InviteCommitsStep ==
    ASSUME OnboardingInv, NEW o \in Operators, InviteCommits(o) PROVE OnboardingInv'
<1>1. /\ op[o].do = "invite"
      /\ user' = <<[company |-> op[o].seen[1], hash |-> op[o].seen[2],
                    invited |-> TRUE, activated |-> FALSE]>>
      /\ UNCHANGED <<requestVars, licenceVars, hash, mailbox, chosen, uses, accepting, expired,
                     crossed>>
  BY DEF InviteCommits
<1>2. /\ op' = [p \in Operators |-> op'[p]] /\ \A p \in Operators \ {o} : op'[p] = op[p]
      /\ op'[o].do = "idle"
  BY EndOf DEF InviteCommits, OnboardingInv, Shapes
<1>3. Mails(o) /\ op[o].seen[1] \in companies /\ op[o].seen[2] \in 1 .. hash
  BY <1>1 DEF OnboardingInv, PlaceholdersAreFresh, ReadsHold, Mails
<1>4. /\ user' # <<>> /\ user'[1] \in Account /\ user'[1].hash = op[o].seen[2]
      /\ Pending(user')
  BY <1>1, <1>3 DEF Account, Pending
<1>5. crossed' \in BOOLEAN /\ (crossed => crossed')
  BY <1>1 DEF OnboardingInv, Shapes, TypeOK
<1> QED BY <1>1, <1>2, <1>3, <1>4, <1>5, PlaceholderStep

(* A resend over the row it read finds the invitation pending still.         *)
LEMMA ResendCommitsStep ==
    ASSUME OnboardingInv, NEW o \in Operators, ResendCommits(o) PROVE OnboardingInv'
<1>1. /\ op[o].do = "resend"
      /\ user' = <<[user[1] EXCEPT !.hash = op[o].seen[2]]>>
      /\ crossed' = (crossed \/ user # op[o].seen[1])
      /\ UNCHANGED <<requestVars, licenceVars, hash, mailbox, chosen, uses, accepting, expired>>
  BY DEF ResendCommits
<1>2. /\ op' = [p \in Operators |-> op'[p]] /\ \A p \in Operators \ {o} : op'[p] = op[p]
      /\ op'[o].do = "idle"
  BY EndOf DEF ResendCommits, OnboardingInv, Shapes
<1>3. Mails(o) /\ op[o].seen[2] \in 1 .. hash /\ user[1] \in Account /\ Pending(op[o].seen[1])
  BY <1>1 DEF OnboardingInv, PlaceholdersAreFresh, ReadsHold, Mails, Shapes
<1>4. /\ user' # <<>> /\ user'[1] \in Account /\ user'[1].hash = op[o].seen[2]
      /\ user'[1].invited = user[1].invited /\ user'[1].activated = user[1].activated
  BY <1>1, <1>3 DEF Account
<1>5. crossed' \in BOOLEAN /\ (crossed => crossed') /\ (~crossed' => Pending(user'))
  BY <1>1, <1>3, <1>4 DEF OnboardingInv, Shapes, TypeOK, Pending
<1> QED BY <1>1, <1>2, <1>3, <1>4, <1>5, PlaceholderStep

-----------------------------------------------------------------------------
(* A token grows old, or opens the form.                                     *)
LEMMA TokenStep ==
    ASSUME OnboardingInv, NEW h \in mailbox,
           ExpireToken(h) \/ \E i \in Invitees : Accept(i, h)
    PROVE  OnboardingInv'
<1>1. /\ UNCHANGED <<requestVars, licenceVars, userVars, op, crossed>>
      /\ expired' \subseteq expired \cup {h}
      /\ accepting' = [i \in Invitees |-> accepting'[i]]
      /\ \A i \in Invitees : accepting'[i] # <<>> => user # <<>>
  <2>1. CASE ExpireToken(h)
    BY <2>1 DEF ExpireToken, OnboardingInv, Shapes
  <2>2. CASE \E i \in Invitees : Accept(i, h)
    BY <2>2 DEF Accept, TokenOpens, OnboardingInv, Shapes
  <2> QED BY <2>1, <2>2
<1> USE DEF requestVars, licenceVars, userVars
<1>2. Shapes'
  <2>1. TypeOK'
    BY <1>1 DEF OnboardingInv, Shapes, TypeOK
  <2> QED BY <1>1, <2>1 DEF OnboardingInv, Shapes, Account
<1>3. ReadsHold' /\ PlaceholdersAreFresh'
  BY <1>1 DEF OnboardingInv, ReadsHold, PlaceholdersAreFresh, Mails, Pending
<1>4. InviteeIsNotShutOut' /\ DecidedOnce'
  BY <1>1 DEF OnboardingInv, InviteeIsNotShutOut, DecidedOnce, Pending
<1> QED BY <1>2, <1>3, <1>4 DEF OnboardingInv

(* The password of a link that still matches the row: the row moves to a     *)
(* hash that no link has, so no link used before or now matches it again.    *)
LEMMA AcceptCommitsStep ==
    ASSUME OnboardingInv, NEW i \in Invitees, AcceptCommits(i) PROVE OnboardingInv'
<1> USE DEF requestVars, licenceVars
<1>1. /\ UNCHANGED <<requestVars, licenceVars, mailbox, op, expired, crossed>>
      /\ accepting[i] # <<>> /\ accepting' = [accepting EXCEPT ![i] = <<>>]
  BY DEF AcceptCommits
<1>2. user # <<>> /\ user[1] \in Account /\ hash \in Nat /\ MaxHash \in Nat
  BY <1>1, BoundsAssumption DEF OnboardingInv, Shapes
<1>3. /\ accepting' = [j \in Invitees |-> accepting'[j]]
      /\ \A j \in Invitees : accepting'[j] # <<>> => accepting[j] # <<>>
  BY <1>1 DEF OnboardingInv, Shapes
<1>4. CASE user[1].hash # accepting[i][1]
  <2>1. UNCHANGED <<user, hash, chosen, uses>>
    BY <1>4 DEF AcceptCommits
  <2>2. TypeOK'
    BY <1>1, <2>1 DEF OnboardingInv, Shapes, TypeOK
  <2>3. Shapes'
    BY <1>1, <1>3, <2>1, <2>2 DEF OnboardingInv, Shapes, Account
  <2>4. ReadsHold' /\ PlaceholdersAreFresh'
    BY <1>1, <2>1 DEF OnboardingInv, ReadsHold, PlaceholdersAreFresh, Mails, Pending
  <2>5. InviteeIsNotShutOut' /\ DecidedOnce'
    BY <1>1, <2>1 DEF OnboardingInv, InviteeIsNotShutOut, DecidedOnce, Pending
  <2> QED BY <2>3, <2>4, <2>5 DEF OnboardingInv
<1>5. CASE user[1].hash = accepting[i][1]
  <2> DEFINE h == user[1].hash
  <2>1. /\ hash < MaxHash /\ hash' = hash + 1
        /\ user' = <<[user[1] EXCEPT !.hash = hash + 1, !.activated = TRUE]>>
        /\ chosen' = chosen \cup {hash + 1}
        /\ uses' = [uses EXCEPT ![h] = @ + 1]
    BY <1>5 DEF AcceptCommits, SetsPassword
  <2>2. 1 .. hash \subseteq 1 .. hash' /\ hash + 1 \in 1 .. hash' /\ hash' \in 0 .. MaxHash
    BY <1>2, <2>1
  <2>3. /\ user' # <<>> /\ user'[1] \in Account' /\ user'[1].hash = hash + 1
        /\ user'[1].company \in companies
    BY <1>1, <1>2, <2>1, <2>2 DEF Account
  <2>4. h \in 1 .. hash /\ h \in 1 .. MaxHash /\ hash + 1 \in 1 .. MaxHash
    BY <1>2, <2>1 DEF Account
  <2>5. /\ uses \in [1 .. MaxHash -> 0 .. 1]
        /\ \A g \in 1 .. MaxHash : uses[g] = 1 => g <= hash /\ h # g
    BY <1>2 DEF OnboardingInv, PlaceholdersAreFresh
  <2> HIDE DEF h
  <2>6. uses[h] = 0 /\ uses[hash + 1] = 0
    BY <1>2, <2>4, <2>5
  <2>7. /\ uses' \in [1 .. MaxHash -> 0 .. 1] /\ uses'[h] = 1
        /\ \A g \in 1 .. MaxHash \ {h} : uses'[g] = uses[g]
    BY <2>1, <2>4, <2>5, <2>6
  <2>8. TypeOK'
    <3>1. {mailbox, chosen, expired}' \subseteq SUBSET (1 .. hash')
      BY <1>1, <2>1, <2>2 DEF OnboardingInv, Shapes, TypeOK
    <3> QED BY <1>1, <2>1, <2>2, <2>3, <3>1 DEF OnboardingInv, Shapes, TypeOK
  <2>9. Shapes'
    BY <1>1, <1>3, <2>2, <2>3, <2>8 DEF OnboardingInv, Shapes
  <2>10. ReadsHold'
    BY <1>1, <2>3 DEF OnboardingInv, ReadsHold, Pending
  <2>11. \A g \in 1 .. MaxHash : uses'[g] = 1 => g <= hash' /\ user'[1].hash # g
    BY <1>2, <2>1, <2>3, <2>4, <2>5, <2>7
  <2>12. \A o \in Operators : Mails(o) =>
           /\ op[o].seen[2] \in 1 .. hash /\ op[o].seen[2] # h /\ op[o].seen[2] # hash + 1
           /\ uses[op[o].seen[2]] = 0
    BY <1>2 DEF OnboardingInv, PlaceholdersAreFresh, h
  <2>13. \A o \in Operators : Mails(o) =>
           op[o].seen[2] \in 1 .. hash' /\ uses'[op[o].seen[2]] = 0
    BY <1>2, <2>1, <2>7, <2>12
  <2>14. PlaceholdersAreFresh'
    BY <1>1, <2>3, <2>7, <2>11, <2>12, <2>13
       DEF OnboardingInv, PlaceholdersAreFresh, Mails
  <2>15. InviteeIsNotShutOut' /\ DecidedOnce'
    BY <1>1, <2>1, <2>3 DEF OnboardingInv, InviteeIsNotShutOut, DecidedOnce
  <2> QED BY <2>9, <2>10, <2>14, <2>15 DEF OnboardingInv
<1> QED BY <1>4, <1>5

-----------------------------------------------------------------------------
(* Every step keeps the invariant.                                           *)
LEMMA OnboardingStep == OnboardingInv /\ [Next]_vars => OnboardingInv'
<1> SUFFICES ASSUME OnboardingInv, [Next]_vars PROVE OnboardingInv'
  OBVIOUS
<1>1. CASE UNCHANGED vars
  <2> USE <1>1 DEF vars, requestVars, licenceVars, userVars
  <2>1. Shapes'
    BY DEF OnboardingInv, Shapes, TypeOK, Account
  <2>2. ReadsHold' /\ PlaceholdersAreFresh'
    BY DEF OnboardingInv, ReadsHold, PlaceholdersAreFresh, Mails, Pending
  <2>3. InviteeIsNotShutOut' /\ DecidedOnce'
    BY DEF OnboardingInv, InviteeIsNotShutOut, DecidedOnce, Pending
  <2> QED BY <2>1, <2>2, <2>3 DEF OnboardingInv
<1>2. CASE \E valid, honeypot \in BOOLEAN, wanted \in {"web", "desktop", "both"} :
             Submit(valid, honeypot, wanted)
  BY <1>2, SubmitStep
<1>3. ASSUME NEW o \in Operators,
             \/ \E decision \in {"contacted", "declined"} : Review(o, decision)
             \/ \E c \in Companies : AddClient(o, c) \/ Invite(o, c)
             \/ \E terms \in Terms : Issue(o, terms)
             \/ ReviewCommits(o) \/ AddClientCommits(o) \/ IssueCommits(o)
             \/ Resend(o) \/ InviteCommits(o) \/ ResendCommits(o) \/ CommitFails(o)
      PROVE  OnboardingInv'
  BY <1>3, ReviewStep, AddClientStep, InviteStep, IssueStep, ReviewCommitsStep,
     AddClientCommitsStep, IssueCommitsStep, ResendStep, InviteCommitsStep, ResendCommitsStep,
     CommitFailsStep
<1>4. CASE \E h \in mailbox : ExpireToken(h) \/ \E i \in Invitees : Accept(i, h)
  BY <1>4, TokenStep
<1>5. CASE \E i \in Invitees : AcceptCommits(i)
  BY <1>5, AcceptCommitsStep
<1> QED BY <1>1, <1>2, <1>3, <1>4, <1>5 DEF Next

(* The inductive invariant of the onboarding handlers (access_requests.py,   *)
(* routes.client_form, desktop_licences.py, invites.py).                     *)
THEOREM OnboardingInvAlways == Spec => []OnboardingInv
BY InitHolds, OnboardingStep, PTL DEF Spec

(* An invitation link sets a password at most once, for any number of        *)
(* operators who resend and of threads that submit (invites.accept).         *)
THEOREM LinkWorksOnceAlways == Spec => []LinkWorksOnce
<1>1. OnboardingInv => LinkWorksOnce
  BY DEF OnboardingInv, PlaceholdersAreFresh, LinkWorksOnce
<1> QED BY <1>1, OnboardingInvAlways, PTL

(* The password in force is one the invitee chose, or the invitation can be  *)
(* sent again, whatever emails and commits fail (invites.send_invite).       *)
THEOREM InviteeIsNotShutOutAlways == Spec => []InviteeIsNotShutOut
<1>1. OnboardingInv => InviteeIsNotShutOut
  BY DEF OnboardingInv
<1> QED BY <1>1, OnboardingInvAlways, PTL

(* A request is decided once unless two handlers overlapped on it            *)
(* (access_requests.mark_approved, desktop_licences.issue_for_request).      *)
THEOREM DecidedOnceAlways == Spec => []DecidedOnce
<1>1. OnboardingInv => DecidedOnce
  BY DEF OnboardingInv
<1> QED BY <1>1, OnboardingInvAlways, PTL

(* A tenant account, whatever its role, is served rows of its own company    *)
(* alone, for any accounts and rows (tenancy.owns_object, tenant_query,      *)
(* roles.role_required).                                                     *)
THEOREM TenantSeesItsOwnAlways == Spec => []TenantSeesItsOwn
<1>1. TenantSeesItsOwn
  <2> SUFFICES ASSUME NEW a \in SignedIn, NEW row \in Rows, a.company # {}
               PROVE  /\ ~PlatformPageShows(a, row)
                      /\ TenantPageShows(a, row) => row.company \cup row.run = a.company
    BY DEF TenantSeesItsOwn
  <2>1. row.company = {} \/ row.run = {} \/ row.run = row.company
    BY CompaniesAssumption
  <2> QED BY <2>1 DEF PlatformPageShows, RoleRequired, TenantPageShows, OwnsObject, TenantQuery
<1> QED BY <1>1, PTL
=============================================================================
