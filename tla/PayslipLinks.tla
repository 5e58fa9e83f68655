---------------------------- MODULE PayslipLinks ----------------------------
(***************************************************************************)
(* The link a payslip message carries: the short /s/<code> of an SMS        *)
(* (links.py) and the signed /p/<token> of the other channels (tokens.py),  *)
(* as _attempt_send issues them (service.py), as the public routes resolve  *)
(* them, and as they are revoked: by a resend, one by one, all those of a   *)
(* payslip, or all there are by rotating PAYSLIP_TOKEN_KEY.  The SMS that    *)
(* carries a code is rendered too (render.py, gsm7.py).                     *)
(*                                                                          *)
(* One delivery.  The ways its claims cross are the subject of Delivery (a  *)
(* cancelled row is claimed like a failed one and is left out here); this is *)
(* what becomes of the links behind them.                                   *)
(***************************************************************************)
EXTENDS Integers, FiniteSets, Sequences, SequencesExt

CONSTANTS
    Senders,            \* threads and workers that send
    MaxLinks,           \* bound: links issued
    MaxVersion,         \* bound: payslip_token_version
    MaxKey,             \* bound: key rotations
    MaxUpsets,          \* bound: crashes, reports, revocations and expiries
    SMS_MAX_SEPTETS,    \* what one SMS part holds
    Names,              \* company names, as sequences of character kinds
    Brand,              \* APP_BRAND_NAME, the name used when nothing of the company's is left
    Tails               \* the rest of the text: the period and the link

ASSUME LinksBounds == {MaxLinks, MaxVersion, MaxKey, MaxUpsets, SMS_MAX_SEPTETS} \subseteq Nat

VARIABLES
    channel,    \* the delivery's channel: "sms" or "email"
    sendStatus,     \* PayslipDelivery.status
    messageId,  \* provider_message_id: the link of the message it names
    owner,      \* the claim on the row (claimed_at tells claims apart); {}: none
    stage, link,   \* per sender: where it is in _attempt_send, and the link it issued
    version,    \* PayrollItem.payslip_token_version
    tokenKey,        \* PAYSLIP_TOKEN_KEY
    issued,     \* every link: the version and key it was made with
    stored,     \* codes with a committed PayslipLink row
    revoked,    \* codes with revoked_at set
    expired,    \* links past their lifetime
    revoking,   \* a revoke_payslip_links under way: the version it read and the links it is for
    phone,      \* history: links the provider passed on
    verdict,    \* history: what was last said of the message with this link
    pulled,     \* history: links somebody revoked on purpose
    crossed,    \* history: a row was taken from a sender that was still at work, or
                \* declared failed over a message the report was not about
    regressed,  \* history: a revocation wrote a version older than the row's
    multipart,  \* history: an SMS took more than one part, or was not GSM-7
    upsets      \* how much of MaxUpsets is used

senderVars == <<stage, link>>
linkVars == <<issued, stored, revoked, expired>>
keyVars == <<version, tokenKey, revoking>>
historyVars == <<phone, verdict, pulled, crossed, regressed, multipart>>
payslipVars == <<channel, sendStatus, messageId, owner, senderVars, keyVars, linkVars, historyVars, upsets>>

Links == 1 .. Len(issued)
None == 0

-----------------------------------------------------------------------------
(* The text.  A character is of a kind: "a" costs one septet, "e" is a       *)
(* GSM-7 extension character and costs two, " " is a space, "-" is a mark    *)
(* no name ends with, "x" is not GSM-7 and has no equivalent there.          *)

Kinds == {"a", "e", " ", "-", "x"}
ASSUME TextsAssumption == Names \subseteq Seq(Kinds) /\ Brand \in Seq(Kinds) /\ Tails \subseteq Seq(Kinds)

IsGsm7(text) == \A i \in DOMAIN text : text[i] # "x"

Septets(text) == Len(text) + Cardinality({i \in DOMAIN text : text[i] = "e"})

(* The characters at the kept places, in order.                              *)
Pick(text, kept) ==
    [n \in 1 .. Cardinality(kept) |->
       text[CHOOSE i \in kept : Cardinality({j \in kept : j < i}) = n - 1]]

(* What is not GSM-7 goes, runs of spaces become one, none at either end. *)
CleanForSms(text) ==
    LET t == Pick(text, {i \in DOMAIN text : text[i] # "x"})
    IN  Pick(t, {i \in DOMAIN t :
                   \/ t[i] # " "
                   \/ i > 1 /\ t[i - 1] # " " /\ \E j \in i .. Len(t) : t[j] # " "})

(* The last of some places, 0 if there are none. *)
LastOf(places) == CHOOSE i \in places \cup {0} : \A j \in places : j <= i

RStrip(text) == SubSeq(text, 1, LastOf({i \in DOMAIN text : text[i] \notin {" ", "-"}}))

FitCountsCharacters(text, budget) ==
    IF budget < Len(text) THEN SubSeq(text, 1, budget) ELSE text

(* The longest prefix within the budget, cut back to a whole word where     *)
(* there is one.                                                            *)
Fit(text, budget) ==
    LET end == LastOf({n \in 0 .. Len(text) : Septets(SubSeq(text, 1, n)) <= budget})
        spaces == {i \in 1 .. end : text[i] = " "}
        splits == end < Len(text) /\ text[end + 1] # " " /\ spaces # {}
    IN  RStrip(SubSeq(text, 1, IF splits THEN LastOf(spaces) - 1 ELSE end))

(* The body as a set of at most one text: none when it cannot be made to    *)
(* fit, in which case the code raises.                                      *)
RenderPayslipSms(company, tail) ==
    LET budget == SMS_MAX_SEPTETS - Septets(tail)
        own == Fit(CleanForSms(company), budget)
        name == IF own # <<>> THEN own ELSE Fit(CleanForSms(Brand), budget)
    IN  IF IsGsm7(tail) /\ name # <<>> THEN {name \o tail} ELSE {}

-----------------------------------------------------------------------------
(* Resolving a link: the public routes *)

Signed(l) == issued[l].tokenKey = tokenKey

LinkOfAnyVersion(l) == Signed(l) /\ l \in stored \ revoked /\ l \notin expired

(* A code is looked up by its hash, which is made with the key: after a     *)
(* rotation there is no row for it.                                         *)
ResolvePayslipLink(l) ==
    /\ Signed(l)
    /\ l \in stored \ revoked
    /\ l \notin expired
    /\ issued[l].version = version

(* A token is stored nowhere: its signature, its age and the version it     *)
(* carries decide.                                                          *)
ResolvePayslipItem(l) ==
    /\ Signed(l)
    /\ l \notin expired
    /\ issued[l].version = version

(* /s/<code>, /p/<token> and their PDFs: the payslip, or the one answer      *)
(* every refusal gets.                                                      *)
Answer(l) ==
    IF (channel = "sms" /\ ResolvePayslipLink(l)) \/ (channel # "sms" /\ ResolvePayslipItem(l))
      THEN "payslip" ELSE "link_expired"

-----------------------------------------------------------------------------
LinksInit ==
    /\ channel \in {"sms", "email"}
    /\ sendStatus = "pending"
    /\ messageId = None
    /\ owner = {}
    /\ stage = [s \in Senders |-> "idle"]
    /\ link = [s \in Senders |-> None]
    /\ version = 0
    /\ tokenKey = 0
    /\ revoking = <<>>
    /\ issued = <<>>
    /\ stored = {}
    /\ revoked = {}
    /\ expired = {}
    /\ phone = {}
    /\ verdict = <<>>
    /\ pulled = {}
    /\ crossed = FALSE
    /\ regressed = FALSE
    /\ multipart = FALSE
    /\ upsets = 0

Upset ==
    /\ upsets < MaxUpsets
    /\ upsets' = upsets + 1

Advance(s, where) == stage' = [stage EXCEPT ![s] = where]

Done(s) ==
    /\ Advance(s, "idle")
    /\ link' = [link EXCEPT ![s] = None]

(* claim_delivery *)
Claim(s) ==
    /\ stage[s] = "idle"
    /\ sendStatus \in {"pending", "failed"}
    /\ sendStatus' = "sending"
    /\ owner' = {s}
    /\ Advance(s, "claimed")
    /\ UNCHANGED <<channel, messageId, link, keyVars, linkVars, historyVars, upsets>>

(* No contact to send to. *)
NoRecipient(s) ==
    /\ stage[s] = "claimed"
    /\ sendStatus' = "failed"
    /\ owner' = owner \ {s}
    /\ Done(s)
    /\ UNCHANGED <<channel, messageId, keyVars, linkVars, historyVars, upsets>>

(* issue_payslip_token: a link carries the item's version as it is now. *)
NewLink(revokes) == [version |-> version, tokenKey |-> tokenKey, revokes |-> revokes]

(* mint_payslip_link, public_payslip_url.  The codes this transaction        *)
(* revokes are the ones it can see; neither that nor the new code is         *)
(* committed yet.                                                            *)
Mint(s) ==
    /\ stage[s] = "claimed"
    /\ Len(issued) < MaxLinks
    /\ issued' = Append(issued, NewLink(stored))
    /\ verdict' = Append(verdict, "open")
    /\ link' = [link EXCEPT ![s] = Len(issued) + 1]
    /\ Advance(s, "minted")
    /\ UNCHANGED <<channel, messageId, sendStatus, owner, keyVars, stored, revoked, expired,
                   phone, pulled, crossed, regressed, multipart, upsets>>

SendsUncommitted(s) ==
    /\ stage[s] = "minted"
    /\ Advance(s, "prepared")
    /\ UNCHANGED <<channel, messageId, sendStatus, owner, link, keyVars, linkVars, historyVars, upsets>>

(* The commit before the send. *)
CommitLink(s) ==
    /\ stage[s] = "minted"
    /\ IF channel = "sms"
         THEN /\ stored' = stored \cup {link[s]}
              /\ revoked' = revoked \cup issued[link[s]].revokes
         ELSE UNCHANGED <<stored, revoked>>
    /\ Advance(s, "prepared")
    /\ UNCHANGED <<channel, messageId, sendStatus, owner, link, keyVars, issued, expired, historyVars, upsets>>

(* Rendering or committing raises: the rollback takes the new code and the   *)
(* revocation of the earlier ones back, and nothing was sent.                *)
PrepareRaises(s) ==
    /\ stage[s] = "minted"
    /\ sendStatus' = "failed"
    /\ owner' = owner \ {s}
    /\ verdict' = [verdict EXCEPT ![link[s]] = "failed"]
    /\ Done(s)
    /\ UNCHANGED <<channel, messageId, keyVars, linkVars, phone, pulled, crossed, regressed, multipart, upsets>>

(* The check at the end of render_payslip_sms, "unreachable unless the code  *)
(* above is wrong".                                                          *)
OnePart(body) == IsGsm7(body) /\ Septets(body) <= SMS_MAX_SEPTETS

(* Every body the texts of the model lead to. *)
Bodies == UNION {RenderPayslipSms(company, tail) : company \in Names, tail \in Tails}

(* The message goes to the provider, which                                   *)
(* passes it on when it answers "ok", does not when it refuses, and may have *)
(* done either when the answer is lost ("ambiguous").                        *)
Send(s, answer) ==
    /\ stage[s] = "prepared"
    /\ \E body \in Bodies : multipart' = (multipart \/ ~OnePart(body))
    /\ \/ answer \in {"ok", "ambiguous"} /\ phone' = phone \cup {link[s]}
       \/ answer \in {"refused", "ambiguous"} /\ UNCHANGED phone
    /\ Advance(s, answer)
    /\ UNCHANGED <<channel, messageId, sendStatus, owner, link, keyVars, linkVars,
                   verdict, pulled, crossed, regressed, upsets>>

(* _record_outcome and its commit, whatever the row holds by now.  An answer *)
(* without a message id leaves an earlier message's in the row.              *)
Record(s) ==
    LET said == CASE stage[s] = "ok" -> "sent"
                  [] stage[s] = "ambiguous" -> "unknown"
                  [] stage[s] = "refused" -> "failed"
    IN  /\ stage[s] \in {"ok", "ambiguous", "refused"}
        /\ sendStatus' = said
        /\ verdict' = [verdict EXCEPT ![link[s]] = said]
        /\ owner' = owner \ {s}
        /\ UNCHANGED messageId \/ (said = "sent" /\ messageId' = link[s])
        /\ Done(s)
        /\ UNCHANGED <<channel, keyVars, linkVars, phone, pulled, crossed, regressed, multipart, upsets>>

(* The process dies; the row stays claimed by nobody at work. *)
Crash(s) ==
    /\ Upset
    /\ stage[s] # "idle"
    /\ owner' = owner \ {s}
    /\ Done(s)
    /\ UNCHANGED <<channel, messageId, sendStatus, keyVars, linkVars, historyVars>>

(* recover_stale_claims, ten minutes after the claim: the sender is dead, or *)
(* was held up that long.                                                    *)
Recover ==
    /\ sendStatus = "sending"
    /\ sendStatus' = "unknown"
    /\ crossed' = (crossed \/ owner # {})
    /\ owner' = {}
    /\ UNCHANGED <<channel, messageId, senderVars, keyVars, linkVars,
                   phone, verdict, pulled, regressed, multipart, upsets>>

(* settle_unknown: the operator has looked the message up. *)
SettleUnknown(outcome) ==
    /\ sendStatus = "unknown"
    /\ sendStatus' = outcome
    /\ verdict' = [l \in Links |-> IF outcome = "failed" THEN "failed" ELSE verdict[l]]
    /\ UNCHANGED <<channel, messageId, owner, senderVars, keyVars, linkVars,
                   phone, pulled, crossed, regressed, multipart, upsets>>

(* apply_receipt: a provider reports that the message with the row's id was  *)
(* not delivered.  The row is failed, whatever has happened to it since.     *)
ReportFailed ==
    /\ Upset
    /\ messageId # None
    /\ sendStatus' = "failed"
    /\ verdict' = [verdict EXCEPT ![messageId] = "failed"]
    /\ crossed' = (\/ crossed \/ owner # {}
                   \/ \E l \in phone \ {messageId} : verdict[l] # "failed")
    /\ UNCHANGED <<channel, messageId, owner, senderVars, keyVars, linkVars,
                   phone, pulled, regressed, multipart>>

-----------------------------------------------------------------------------
(* Taking links back *)

RevokeCode(l) ==
    /\ Upset
    /\ channel = "sms"
    /\ l \in stored \ revoked
    /\ revoked' = revoked \cup {l}
    /\ pulled' = pulled \cup {l}
    /\ UNCHANGED <<channel, messageId, sendStatus, owner, senderVars, keyVars, issued, stored, expired,
                   phone, verdict, crossed, regressed, multipart>>

(* revoke_payslip_links reads the version and adds one; its caller commits.  *)
RevokeReads ==
    /\ Upset
    /\ revoking = <<>> /\ version < MaxVersion
    /\ revoking' = <<[to |-> version + 1, links |-> Links]>>
    /\ UNCHANGED <<channel, messageId, sendStatus, owner, senderVars, version, tokenKey, linkVars,
                   historyVars>>

RevokeCommits ==
    /\ revoking # <<>>
    /\ version' = revoking[1].to
    /\ pulled' = pulled \cup revoking[1].links
    /\ regressed' = (regressed \/ revoking[1].to < version)
    /\ revoking' = <<>>
    /\ UNCHANGED <<channel, messageId, sendStatus, owner, senderVars, tokenKey, linkVars,
                   phone, verdict, crossed, multipart, upsets>>

(* A second one from start to end, between the two halves of the first. *)
RevokeOvertakes ==
    /\ Upset
    /\ revoking # <<>> /\ version < MaxVersion
    /\ version' = version + 1
    /\ pulled' = pulled \cup Links
    /\ UNCHANGED <<channel, messageId, sendStatus, owner, senderVars, tokenKey, revoking, linkVars,
                   phone, verdict, crossed, regressed, multipart>>

(* A new PAYSLIP_TOKEN_KEY is a deployment: every process restarts. *)
RotateKey ==
    /\ Upset
    /\ tokenKey < MaxKey
    /\ tokenKey' = tokenKey + 1
    /\ pulled' = pulled \cup Links
    /\ stage' = [s \in Senders |-> "idle"]
    /\ link' = [s \in Senders |-> None]
    /\ owner' = {}
    /\ revoking' = <<>>
    /\ UNCHANGED <<channel, messageId, sendStatus, version, linkVars, phone, verdict, crossed, regressed, multipart>>

Expire(l) ==
    /\ Upset
    /\ l \in Links \ expired
    /\ expired' = expired \cup {l}
    /\ UNCHANGED <<channel, messageId, sendStatus, owner, senderVars, keyVars, issued, stored, revoked,
                   historyVars>>

LinksNext ==
    \/ \E s \in Senders :
         \/ Claim(s) \/ NoRecipient(s) \/ Mint(s) \/ CommitLink(s) \/ PrepareRaises(s)
         \/ \E answer \in {"ok", "ambiguous", "refused"} : Send(s, answer)
         \/ Record(s) \/ Crash(s)
    \/ Recover
    \/ \E outcome \in {"sent", "failed"} : SettleUnknown(outcome)
    \/ ReportFailed
    \/ \E l \in Links : RevokeCode(l) \/ Expire(l)
    \/ RevokeReads \/ RevokeCommits \/ RevokeOvertakes \/ RotateKey

LinksSpec == LinksInit /\ [][LinksNext]_payslipVars

-----------------------------------------------------------------------------
(* Properties *)

(* The values every variable may take.  No SMS takes more than one part,    *)
(* which render_payslip_sms promises for every name and link.               *)
LinksTypeOK ==
    /\ channel \in {"sms", "email"}
    /\ sendStatus \in {"pending", "sending", "sent", "unknown", "failed"}
    /\ messageId \in Links \cup {None}
    /\ owner \subseteq Senders /\ Cardinality(owner) <= 1
    /\ stage \in [Senders -> {"idle", "claimed", "minted", "prepared", "ok", "ambiguous", "refused"}]
    /\ link \in [Senders -> Links \cup {None}]
    /\ version \in 0 .. MaxVersion /\ tokenKey \in 0 .. MaxKey
    /\ {revoked, phone, pulled, expired, stored} \subseteq SUBSET Links
    /\ revoked \subseteq stored
    /\ DOMAIN verdict = Links
    /\ {crossed, regressed} \subseteq BOOLEAN
    /\ upsets \in 0 .. MaxUpsets
    /\ ~multipart

(* A link on a worker's phone opens the payslip for as long as the message   *)
(* that brought it counts as sent, or may have been (links.py: "its code,    *)
(* which may already be on the worker's phone, stays valid until someone     *)
(* settles it"), unless it expired or was revoked on purpose (a payslip-wide *)
(* revocation takes what was sent while it ran with it): no crash, no failed *)
(* preparation and no other sender's attempt takes it away.  Two things do:  *)
(* a row taken from under a sender at work, by a stale-claim sweep that      *)
(* takes it for dead or by a delivery report; and a report about an earlier  *)
(* message of the row, which fails it for the present one too.               *)
LinkInHandOpens ==
    \A l \in phone :
      (/\ verdict[l] # "failed" /\ l \notin expired \cup pulled
       /\ issued[l].version = version /\ ~crossed) => Answer(l) = "payslip"

(* Retired links stay shut.  A delivery has at most one working code,        *)
(* however often it was sent and in whatever order its senders prepared; and *)
(* a link that existed when it was revoked, alone, with all links of the     *)
(* payslip, or with the key, never opens again: two revocations that read    *)
(* the same version are still a revocation, and a resend revives nothing.    *)
(* Only a revocation overtaken by two others can write the version back to   *)
(* one that a revoked link carries (tokens.py reads it, adds one and writes  *)
(* it by primary key).                                                       *)
RetiredNeverOpens ==
    /\ (channel = "sms" /\ ~crossed) => Cardinality({l \in Links : Answer(l) = "payslip"}) <= 1
    /\ ~regressed => \A l \in pulled : Answer(l) = "link_expired"

=============================================================================
