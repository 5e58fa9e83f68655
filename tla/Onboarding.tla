----------------------------- MODULE Onboarding -----------------------------
(***************************************************************************)
(* How a company comes to use Payrolla: its access request                  *)
(* (access_requests.py), the operator's decision on it, the company created *)
(* from it (routes.client_form), the desktop licence (desktop_licences.py,  *)
(* licensing.py), the invitation of its administrator (invites.py), and     *)
(* what the new account may then see (roles.py, tenancy.py, auth.py,        *)
(* permissions.py).                                                         *)
(*                                                                          *)
(* A request handler reads, works (signs, sends an email) and commits: the  *)
(* reads and the commit are two steps, and other handlers run in between.   *)
(***************************************************************************)
EXTENDS Integers, FiniteSets, Sequences

CONSTANTS
    Operators,      \* request threads of platform administrators
    Invitees,       \* request threads of whoever holds the invitation
    Companies,      \* companies that may be created, each with its name and code
    Others,         \* accounts that exist already: [role, company], company {} for the platform's
    Rows,           \* rows asked for: [kind, company, run], each of the two {} or {a company}
    MaxHash,        \* bound: passwords set, placeholders included
    MaxLicences     \* bound: licences signed

(* A row with a company and a run names a run of that company.              *)
ASSUME CompaniesAssumption ==
    \A r \in Rows : /\ r.company \subseteq Companies /\ r.run \subseteq Companies
                    /\ r.company = {} \/ r.run = {} \/ r.run = r.company
ASSUME BoundsAssumption == {MaxHash, MaxLicences} \subseteq Nat

VARIABLES
    status,     \* AccessRequest.status; "none": not sent yet
    interest,   \* AccessRequest.interest
    linked,     \* AccessRequest.client_company_id, as a set
    companies,  \* ClientCompany rows
    licences,   \* DesktopLicence rows of the request
    signed,     \* licences signed so far
    user,       \* the invited User row: <<>> or <<[company, hash, invited, activated]>>
    hash,       \* passwords hashed so far
    op,         \* per operator: the handler it is in, with what it read
    accepting,  \* per invitee thread: the token and the hash its POST read; <<>>: none
    mailbox,    \* invitations that arrived, by the hash in their token
    expired,    \* tokens past INVITE_MAX_AGE
    chosen,     \* history: hashes of passwords the invitee chose
    uses,       \* history: how often each token set a password
    created,    \* history: companies created from the request
    crossed     \* history: a handler committed over a row that had changed since it read it

requestVars == <<status, interest, linked, companies, created>>
licenceVars == <<licences, signed>>
userVars == <<user, hash, mailbox, chosen, uses>>
vars == <<requestVars, licenceVars, userVars, op, accepting, expired, crossed>>

OPEN == {"new", "contacted"}
Idle == [do |-> "idle", seen |-> <<>>]
Begin(o, what, seen) == op' = [op EXCEPT ![o] = [do |-> what, seen |-> seen]]
End(o) == op' = [op EXCEPT ![o] = Idle]
Pending(u) == u # <<>> /\ u[1].invited /\ ~u[1].activated

-----------------------------------------------------------------------------
(* The request *)

(* A form as validate sees it: every field within its limits, or not; a      *)
(* filled honeypot answers as a success and stores nothing.                  *)
Submit(valid, honeypot, wanted) ==
    /\ status = "none"
    /\ status' = IF valid /\ ~honeypot THEN "new" ELSE "none"
    /\ interest' = wanted
    /\ UNCHANGED <<linked, companies, created, licenceVars, userVars, op, accepting, expired, crossed>>

Review(o, decision) ==
    /\ op[o] = Idle
    /\ status \in OPEN
    /\ Begin(o, decision, <<status>>)
    /\ UNCHANGED <<requestVars, licenceVars, userVars, accepting, expired, crossed>>

(* contacted, decline *)
ReviewCommits(o) ==
    /\ op[o].do \in {"contacted", "declined"}
    /\ status' = op[o].do
    /\ crossed' = (crossed \/ status # op[o].seen[1])
    /\ End(o)
    /\ UNCHANGED <<interest, linked, companies, created, licenceVars, userVars, accepting, expired>>

AddClientAnyRequest(o, c) ==
    /\ op[o] = Idle
    /\ status # "none" /\ c \notin companies
    /\ Begin(o, "approved", <<status, c>>)
    /\ UNCHANGED <<requestVars, licenceVars, userVars, accepting, expired, crossed>>

(* client_form, posted from the request: it must be open still, and the name *)
(* and code must be free.                                                    *)
AddClient(o, c) ==
    /\ op[o] = Idle
    /\ status \in OPEN
    /\ c \notin companies
    /\ Begin(o, "approved", <<status, c>>)
    /\ UNCHANGED <<requestVars, licenceVars, userVars, accepting, expired, crossed>>

(* The unique name and code refuse a company that came into being since;     *)
(* mark_approved writes the request whatever it holds by now.                *)
AddClientCommits(o) ==
    LET c == op[o].seen[2] IN
    /\ op[o].do = "approved"
    /\ IF c \in companies
         THEN UNCHANGED <<status, linked, companies, created, crossed>>
         ELSE /\ companies' = companies \cup {c}
              /\ created' = created \cup {c}
              /\ linked' = {c}
              /\ status' = "approved"
              /\ crossed' = (crossed \/ status # op[o].seen[1])
    /\ End(o)
    /\ UNCHANGED <<interest, licenceVars, userVars, accepting, expired>>

-----------------------------------------------------------------------------
(* The desktop licence *)

(* issue_trial: terms that cannot be signed raise, and nothing is issued. *)
SigningPayload(terms) ==
    /\ terms.firm # "" /\ terms.employees >= 1 /\ terms.expiry > terms.issued

(* issue_for_request *)
Issue(o, terms) ==
    /\ op[o] = Idle /\ signed < MaxLicences
    /\ status # "none" /\ interest \in {"desktop", "both"} /\ status # "declined"
    /\ licences = {}
    /\ SigningPayload(terms)
    /\ signed' = signed + 1
    /\ Begin(o, "licence", <<status, licences, signed + 1>>)
    /\ UNCHANGED <<requestVars, licences, userVars, accepting, expired, crossed>>

(* A licence answers a request for the desktop app alone; one for both still *)
(* waits for its company.                                                    *)
IssueCommits(o) ==
    /\ op[o].do = "licence"
    /\ licences' = licences \cup {op[o].seen[3]}
    /\ status' = IF op[o].seen[1] \in OPEN /\ interest = "desktop" THEN "approved" ELSE status
    /\ crossed' = (crossed \/ <<status, licences>> # <<op[o].seen[1], op[o].seen[2]>>)
    /\ End(o)
    /\ UNCHANGED <<interest, linked, companies, created, signed, userVars, accepting, expired>>

-----------------------------------------------------------------------------
(* The invitation *)

(* send_invite: a fresh placeholder password, and a link tied to it, which   *)
(* the sender may fail to deliver.  The email goes before the commit.        *)
SendInvite ==
    /\ hash < MaxHash
    /\ hash' = hash + 1
    /\ mailbox' \in {mailbox, mailbox \cup {hash + 1}}

(* invite_admin: the flush holds the address against a second invitation. *)
Invite(o, c) ==
    /\ op[o] = Idle /\ user = <<>> /\ c \in companies
    /\ \A p \in Operators : op[p].do # "invite"
    /\ SendInvite
    /\ Begin(o, "invite", <<c, hash + 1>>)
    /\ UNCHANGED <<requestVars, licenceVars, user, chosen, uses, accepting, expired, crossed>>

InviteCommits(o) ==
    /\ op[o].do = "invite"
    /\ user' = <<[company |-> op[o].seen[1], hash |-> op[o].seen[2],
                  invited |-> TRUE, activated |-> FALSE]>>
    /\ End(o)
    /\ UNCHANGED <<requestVars, licenceVars, hash, mailbox, chosen, uses, accepting, expired, crossed>>

ResendToAnyone(o) ==
    /\ op[o] = Idle
    /\ user # <<>>
    /\ SendInvite
    /\ Begin(o, "resend", <<user, hash + 1>>)
    /\ UNCHANGED <<requestVars, licenceVars, user, chosen, uses, accepting, expired, crossed>>

(* resend_invite, while the invitation is pending *)
Resend(o) ==
    /\ op[o] = Idle
    /\ Pending(user)
    /\ SendInvite
    /\ Begin(o, "resend", <<user, hash + 1>>)
    /\ UNCHANGED <<requestVars, licenceVars, user, chosen, uses, accepting, expired, crossed>>

(* The new placeholder is written by primary key. *)
ResendCommits(o) ==
    /\ op[o].do = "resend"
    /\ user' = <<[user[1] EXCEPT !.hash = op[o].seen[2]]>>
    /\ crossed' = (crossed \/ user # op[o].seen[1])
    /\ End(o)
    /\ UNCHANGED <<requestVars, licenceVars, hash, mailbox, chosen, uses, accepting, expired>>

(* The database refuses the commit, or the process dies: what was mailed     *)
(* stays mailed.                                                             *)
CommitFails(o) ==
    /\ op[o] # Idle
    /\ End(o)
    /\ UNCHANGED <<requestVars, licenceVars, userVars, accepting, expired, crossed>>

ExpireToken(h) ==
    /\ h \in mailbox \ expired
    /\ expired' = expired \cup {h}
    /\ UNCHANGED <<requestVars, licenceVars, userVars, op, accepting, crossed>>

(* load_user_from_token *)
TokenOpens(h) == h \in mailbox \ expired /\ user # <<>> /\ user[1].hash = h

Accept(i, h) ==
    /\ accepting[i] = <<>>
    /\ TokenOpens(h)
    /\ accepting' = [accepting EXCEPT ![i] = <<h>>]
    /\ UNCHANGED <<requestVars, licenceVars, userVars, op, expired, crossed>>

SetsPassword(i) ==
    /\ hash < MaxHash
    /\ hash' = hash + 1
    /\ user' = <<[user[1] EXCEPT !.hash = hash + 1, !.activated = TRUE]>>
    /\ chosen' = chosen \cup {hash + 1}
    /\ uses' = [uses EXCEPT ![accepting[i][1]] = @ + 1]

AcceptAlways(i) ==
    /\ accepting[i] # <<>>
    /\ SetsPassword(i)
    /\ accepting' = [accepting EXCEPT ![i] = <<>>]
    /\ UNCHANGED <<requestVars, licenceVars, mailbox, op, expired, crossed>>

(* The UPDATE matches while the hash is the one that was read. *)
AcceptCommits(i) ==
    /\ accepting[i] # <<>>
    /\ IF user[1].hash = accepting[i][1] THEN SetsPassword(i)
       ELSE UNCHANGED <<user, hash, chosen, uses>>
    /\ accepting' = [accepting EXCEPT ![i] = <<>>]
    /\ UNCHANGED <<requestVars, licenceVars, mailbox, op, expired, crossed>>

-----------------------------------------------------------------------------
(* What an account may see *)

NormaliseRole(role) ==
    CASE role = "chrisnat_admin" -> "payrolla_admin"
      [] role = "chrisnat_reviewer" -> "payrolla_reviewer"
      [] OTHER -> role

CLIENT_MANAGEMENT_ROLES == {"admin", "md", "payrolla_admin"}

(* The accounts that can sign in: those there are, and the invited one once  *)
(* its password is a chosen one.                                             *)
SignedIn ==
    Others \cup IF user # <<>> /\ user[1].hash \in chosen
                  THEN {[role |-> "client_admin", company |-> {user[1].company}]} ELSE {}

OwnsWithoutFallback(a, row) ==
    \/ a.company = {}
    \/ row.company # {} /\ row.company = a.company
    \/ row.company = {} /\ (row.run = {} \/ row.run = a.company)

(* owns_object: by the row's own company where it has one or is of a model   *)
(* that carries one, else by its run's; a row of neither kind raises.        *)
OwnsObject(a, row) ==
    \/ a.company = {}
    \/ (row.company # {} \/ row.kind = "owned") /\ row.company = a.company
    \/ row.company = {} /\ row.kind = "child" /\ row.run # {} /\ row.run = a.company

(* tenant_query: a filter on the company, or a join through the run; a model *)
(* that is neither raises.                                                   *)
TenantQuery(a) ==
    {row \in Rows :
       \/ a.company = {}
       \/ row.kind = "owned" /\ row.company = a.company
       \/ row.kind = "child" /\ row.run # {} /\ row.run = a.company}

(* role_required *)
RoleRequired(a, roles) ==
    a.company = {} /\ a.role # "client_user" /\ NormaliseRole(a.role) \in roles

(* tenant_required, tenant_role_required *)
TenantRoleRequired(a, roles) == a.company # {} /\ NormaliseRole(a.role) \in roles

(* A page of the company's own, by key (tenant_get_or_404) or in a list. *)
TenantPageShows(a, row) ==
    /\ TenantRoleRequired(a, {"client_admin", "client_preparer"})
    /\ OwnsObject(a, row) \/ row \in TenantQuery(a)

(* A page of the platform's shows every row. *)
PlatformPageShows(a, row) == RoleRequired(a, CLIENT_MANAGEMENT_ROLES)

-----------------------------------------------------------------------------
Init ==
    /\ status = "none" /\ interest = "web" /\ linked = {}
    /\ companies = {} /\ created = {}
    /\ licences = {} /\ signed = 0
    /\ user = <<>> /\ hash = 0
    /\ op = [o \in Operators |-> Idle]
    /\ accepting = [i \in Invitees |-> <<>>]
    /\ mailbox = {} /\ expired = {} /\ chosen = {}
    /\ uses = [h \in 1 .. MaxHash |-> 0]
    /\ crossed = FALSE

Terms == [firm : {"", "Acme"}, employees : {0, 25}, issued : {1}, expiry : {1, 2}]

Next ==
    \/ \E valid, honeypot \in BOOLEAN, wanted \in {"web", "desktop", "both"} :
         Submit(valid, honeypot, wanted)
    \/ \E o \in Operators :
         \/ \E decision \in {"contacted", "declined"} : Review(o, decision)
         \/ \E c \in Companies : AddClient(o, c) \/ Invite(o, c)
         \/ \E terms \in Terms : Issue(o, terms)
         \/ ReviewCommits(o) \/ AddClientCommits(o) \/ IssueCommits(o)
         \/ Resend(o) \/ InviteCommits(o) \/ ResendCommits(o) \/ CommitFails(o)
    \/ \E h \in mailbox : ExpireToken(h) \/ \E i \in Invitees : Accept(i, h)
    \/ \E i \in Invitees : AcceptCommits(i)

Spec == Init /\ [][Next]_vars

-----------------------------------------------------------------------------
(* Properties *)

(* The values the rows may hold; the invited account belongs to a company    *)
(* there is.                                                                 *)
TypeOK ==
    /\ status \in {"none", "new", "contacted", "approved", "declined"}
    /\ linked \subseteq companies /\ Cardinality(linked) <= 1
    /\ licences \subseteq 1 .. signed
    /\ user # <<>> => user[1].company \in companies /\ user[1].hash \in 1 .. hash
    /\ {mailbox, chosen, expired} \subseteq SUBSET (1 .. hash)
    /\ \A o \in Operators : op[o].do \in {"idle", "contacted", "declined", "approved", "licence",
                                           "invite", "resend"}
    /\ crossed \in BOOLEAN

(* An invitation link sets a password at most once, however many            *)
(* submissions and resends cross (invites.py: "of two simultaneous           *)
(* submissions exactly one wins").                                           *)
LinkWorksOnce == \A h \in 1 .. MaxHash : uses[h] <= 1

(* The invited administrator is never shut out: the password in force is    *)
(* one they chose, or the invitation is pending and can be sent again,       *)
(* whatever emails and commits fail.  Only a resend that commits over an     *)
(* acceptance it did not see can shut them out.                              *)
InviteeIsNotShutOut ==
    (user # <<>> /\ ~crossed) => (user[1].hash \in chosen \/ Pending(user))

(* A request is decided once: one that became a company is approved and      *)
(* points to it, a declined one has no company, no request has two companies *)
(* or two licences, unless two operators' handlers overlapped on it          *)
(* (client_form: "refuse rather than create an unlinked company").           *)
DecidedOnce ==
    ~crossed =>
      /\ created # {} => status = "approved" /\ linked = created
      /\ status = "declined" => created = {}
      /\ Cardinality(licences) <= 1

(* A tenant account, whatever its role says, is served rows of its own       *)
(* company only, rows without an owner included, and never a platform page   *)
(* (roles.py: "a misassigned role can never widen a tenant user's data       *)
(* horizon").                                                                *)
TenantSeesItsOwn ==
    \A a \in SignedIn, row \in Rows :
      a.company # {} =>
        /\ ~PlatformPageShows(a, row)
        /\ TenantPageShows(a, row) => row.company \cup row.run = a.company

=============================================================================
