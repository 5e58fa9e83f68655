---------------------------- MODULE SendingProofs ----------------------------
(***************************************************************************)
(* Proofs about what surrounds a send: the links in its messages            *)
(* (PayslipLinks), for any number of senders, links, revocations and key    *)
(* rotations, the notices of its failures (Outreach), for any payslips,     *)
(* runs and contacts, and its nonce (SendRequest), for any requests,        *)
(* batches and crashes.  MCSending composes the three; its definitions for  *)
(* TLC are used by no proof.                                                *)
(***************************************************************************)
EXTENDS MCSending, Least, FiniteSetTheorems, SequenceTheorems, TLAPS

-----------------------------------------------------------------------------
(* The links *)

LinkRow == [version : Nat, tokenKey : Nat, revokes : SUBSET Nat]
AtWork == {"claimed", "minted", "prepared", "ok", "ambiguous", "refused"}
Committed == {"prepared", "ok", "ambiguous", "refused"}

LinkShapes ==
    /\ channel \in {"sms", "email"}
    /\ sendStatus \in {"pending", "sending", "sent", "unknown", "failed"}
    /\ messageId \in Links \cup {None}
    /\ owner \in SUBSET Senders
    /\ stage \in [Senders -> AtWork \cup {"idle"}]
    /\ link \in [Senders -> Nat]
    /\ version \in Nat /\ tokenKey \in Nat
    /\ issued \in Seq(LinkRow)
    /\ verdict \in Seq({"open", "sent", "unknown", "failed"}) /\ Len(verdict) = Len(issued)
    /\ stored \subseteq Links /\ revoked \subseteq stored
    /\ expired \subseteq Links /\ phone \subseteq Links /\ pulled \subseteq Links
    /\ revoking # <<>> => revoking[1].to \in Nat /\ revoking[1].links \subseteq Links
    /\ crossed \in BOOLEAN /\ regressed \in BOOLEAN

(* A sender that has issued a link holds it; by the time it sends, the code  *)
(* is committed, and so is every code on a phone.                            *)
CommittedBeforeSent ==
    /\ \A s \in Senders : IF stage[s] \in {"idle", "claimed"} THEN link[s] = None
                                                              ELSE link[s] \in Links
    /\ channel = "sms" =>
         /\ phone \subseteq stored
         /\ \A s \in Senders : stage[s] \in Committed => link[s] \in stored

(* What a link was made with: it revokes older codes only, its key and its   *)
(* version are not ahead of the present ones, and a link nobody took back    *)
(* has the present key.                                                      *)
LinksAreOfTheirTime ==
    /\ \A l \in Links :
         /\ \A k \in issued[l].revokes : k \in stored /\ k < l
         /\ issued[l].tokenKey <= tokenKey
         /\ l \notin pulled => issued[l].tokenKey = tokenKey
         /\ ~regressed => issued[l].version <= version
    /\ ~regressed /\ revoking # <<>> =>
         \A l \in revoking[1].links : issued[l].version < revoking[1].to

(* Why a link that was taken back is shut.                                   *)
PulledIsShut ==
    ~regressed => \A l \in pulled :
        \/ channel = "sms" /\ l \in revoked
        \/ issued[l].version < version
        \/ issued[l].tokenKey < tokenKey

(* While no row is taken from a sender at work: one sender works, on a       *)
(* delivery all of whose earlier links failed; what it is about to revoke is *)
(* all there is; and a code that was revoked behind a phone's back belonged  *)
(* to a failed message.                                                      *)
OneAtWork ==
    ~crossed =>
      /\ \A s \in Senders : stage[s] # "idle" =>
           /\ sendStatus = "sending" /\ owner = {s}
           /\ \A l \in phone : l = link[s] \/ verdict[l] = "failed"
           /\ link[s] \in revoked => link[s] \in pulled
           /\ stage[s] = "minted" => stored \subseteq issued[link[s]].revokes
      /\ sendStatus \in {"pending", "failed"} => \A l \in phone : verdict[l] = "failed"
      /\ \A l \in phone \cap revoked : verdict[l] = "failed" \/ l \in pulled
      /\ \A k, l \in stored \ revoked : k = l

LinksInv ==
    /\ LinkShapes
    /\ CommittedBeforeSent
    /\ LinksAreOfTheirTime
    /\ PulledIsShut
    /\ OneAtWork

(* The links as they start: there are none.                                  *)
LEMMA LinksInitHolds == LinksInit => LinksInv
<1> SUFFICES ASSUME LinksInit PROVE LinksInv
  OBVIOUS
<1>1. /\ issued = <<>> /\ verdict = <<>> /\ Links = {} /\ Len(verdict) = Len(issued)
      /\ issued \in Seq(LinkRow) /\ verdict \in Seq({"open", "sent", "unknown", "failed"})
  BY DEF LinksInit, Links
<1>2. LinkShapes
  BY <1>1 DEF LinksInit, LinkShapes, None
<1>3. CommittedBeforeSent
  BY DEF LinksInit, CommittedBeforeSent, Committed
<1>4. LinksAreOfTheirTime /\ PulledIsShut
  BY <1>1 DEF LinksInit, LinksAreOfTheirTime, PulledIsShut
<1>5. OneAtWork
  BY DEF LinksInit, OneAtWork
<1> QED BY <1>2, <1>3, <1>4, <1>5 DEF LinksInv

(* What a link carries.                                                      *)
LEMMA LinkTyped ==
    ASSUME LinkShapes, NEW l \in Links
    PROVE  issued[l].version \in Nat /\ issued[l].tokenKey \in Nat
<1>1. issued \in Seq(LinkRow) /\ l \in 1 .. Len(issued)
  BY DEF LinkShapes, Links
<1>2. issued[l] \in LinkRow
  BY <1>1, ElementOfSeq
<1> QED BY <1>2 DEF LinkRow

(* Steps that neither make, take back nor renumber links.                    *)
LEMMA LinksStand ==
    ASSUME LinksInv, UNCHANGED <<channel, keyVars, issued, stored, revoked, pulled, regressed>>
    PROVE  LinksAreOfTheirTime' /\ PulledIsShut'
BY DEF LinksInv, LinksAreOfTheirTime, PulledIsShut, keyVars, Links

(* A sender takes the row, finds nobody to send to, or dies; what it leaves  *)
(* of the row is as failed as it was before.                                 *)
LEMMA ClaimStep == ASSUME LinksInv, NEW s \in Senders, Claim(s) PROVE LinksInv'
<1>1. /\ stage[s] = "idle" /\ sendStatus \in {"pending", "failed"} /\ sendStatus' = "sending"
      /\ owner' = {s} /\ stage' = [stage EXCEPT ![s] = "claimed"]
      /\ UNCHANGED <<channel, messageId, link, keyVars, linkVars, historyVars, upsets>>
  BY DEF Claim, Advance
<1> USE DEF linkVars, historyVars
<1>2. LinkShapes'
  BY <1>1 DEF LinksInv, LinkShapes, keyVars, Links, AtWork
<1>3. stage \in [Senders -> AtWork \cup {"idle"}]
  BY DEF LinksInv, LinkShapes
<1>4. CommittedBeforeSent'
  BY <1>1, <1>3 DEF LinksInv, CommittedBeforeSent, Links, Committed
<1>5. LinksAreOfTheirTime' /\ PulledIsShut'
  BY <1>1, LinksStand
<1>6. OneAtWork'
  <2>1. ~crossed => \A t \in Senders : stage[t] = "idle"
    BY <1>1 DEF LinksInv, OneAtWork
  <2>2. link[s] = None /\ None \notin revoked
    BY <1>1 DEF LinksInv, CommittedBeforeSent, LinkShapes, None, Links
  <2> QED BY <1>1, <1>3, <2>1, <2>2 DEF LinksInv, OneAtWork
<1> QED BY <1>2, <1>4, <1>5, <1>6 DEF LinksInv

(* A sender ends without a word on any link but its own: the row is failed,  *)
(* or stays with nobody at work on it.                                       *)
LEMMA LeaveStep ==
    ASSUME LinksInv, NEW s \in Senders, NoRecipient(s) \/ Crash(s) PROVE LinksInv'
<1>1. /\ stage[s] # "idle" /\ owner' = owner \ {s}
      /\ stage' = [stage EXCEPT ![s] = "idle"] /\ link' = [link EXCEPT ![s] = None]
      /\ UNCHANGED <<channel, messageId, keyVars, linkVars, historyVars>>
      /\ \/ sendStatus' = sendStatus
         \/ stage[s] = "claimed" /\ sendStatus' = "failed"
  BY DEF NoRecipient, Crash, Done, Advance
<1> USE DEF linkVars, historyVars
<1>2. LinkShapes'
  BY <1>1 DEF LinksInv, LinkShapes, keyVars, Links, AtWork, None
<1>3. stage \in [Senders -> AtWork \cup {"idle"}] /\ link \in [Senders -> Nat]
  BY DEF LinksInv, LinkShapes
<1>4. CommittedBeforeSent'
  BY <1>1, <1>3 DEF LinksInv, CommittedBeforeSent, Links, Committed
<1>5. LinksAreOfTheirTime' /\ PulledIsShut'
  BY <1>1, LinksStand
<1>6. OneAtWork'
  <2>1. ~crossed => \A t \in Senders : stage'[t] = "idle"
    BY <1>1, <1>3 DEF LinksInv, OneAtWork
  <2>2. stage[s] = "claimed" => link[s] = None /\ None \notin phone
    BY <1>1 DEF LinksInv, CommittedBeforeSent, LinkShapes, None, Links
  <2>3. ~crossed /\ sendStatus' \in {"pending", "failed"} => \A l \in phone : verdict[l] = "failed"
    BY <1>1, <2>2 DEF LinksInv, OneAtWork
  <2> QED BY <1>1, <2>1, <2>3 DEF LinksInv, OneAtWork
<1> QED BY <1>2, <1>4, <1>5, <1>6 DEF LinksInv

(* A new link is the next number, of the present version and key, and is to  *)
(* revoke every code there is.                                               *)
LEMMA MintStep == ASSUME LinksInv, NEW s \in Senders, Mint(s) PROVE LinksInv'
<1> DEFINE n == Len(issued) + 1
           new == [version |-> version, tokenKey |-> tokenKey, revokes |-> stored]
<1>1. /\ stage[s] = "claimed" /\ issued' = Append(issued, new)
      /\ verdict' = Append(verdict, "open")
      /\ link' = [link EXCEPT ![s] = n] /\ stage' = [stage EXCEPT ![s] = "minted"]
      /\ UNCHANGED <<channel, messageId, sendStatus, owner, keyVars, stored, revoked, expired,
                     phone, pulled, crossed, regressed, multipart, upsets>>
  BY DEF Mint, Advance, NewLink
<1>2. /\ issued \in Seq(LinkRow) /\ Len(issued) \in Nat
      /\ verdict \in Seq({"open", "sent", "unknown", "failed"}) /\ Len(verdict) = Len(issued)
      /\ stage \in [Senders -> AtWork \cup {"idle"}] /\ link \in [Senders -> Nat]
      /\ version \in Nat /\ tokenKey \in Nat /\ stored \subseteq Links
  BY DEF LinksInv, LinkShapes
<1>3. new \in LinkRow
  BY <1>2 DEF LinkRow, Links
<1>4. /\ Links' = Links \cup {n} /\ n \notin Links /\ \A l \in Links : l < n
      /\ issued' \in Seq(LinkRow) /\ verdict' \in Seq({"open", "sent", "unknown", "failed"})
      /\ Len(verdict') = Len(issued')
  BY <1>1, <1>2, <1>3 DEF Links
<1>5. /\ issued'[n] = new
      /\ \A l \in Links : issued'[l] = issued[l] /\ verdict'[l] = verdict[l]
  BY <1>1, <1>2, <1>3 DEF Links
<1> HIDE DEF new, n
<1>6. n \in Nat
  BY <1>2 DEF n
<1> USE DEF keyVars
<1>7. LinkShapes'
  BY <1>1, <1>2, <1>4, <1>6 DEF LinksInv, LinkShapes, AtWork
<1>8. CommittedBeforeSent'
  BY <1>1, <1>2, <1>4 DEF LinksInv, CommittedBeforeSent, Committed
<1>9. /\ new.version = version /\ new.tokenKey = tokenKey /\ new.revokes = stored
      /\ \A k \in stored : k < n
  BY <1>2, <1>4 DEF new
<1>10. LinksAreOfTheirTime'
  <2>1. \A l \in Links : /\ \A k \in issued'[l].revokes : k \in stored /\ k < l
                         /\ issued'[l].tokenKey <= tokenKey
                         /\ l \notin pulled => issued'[l].tokenKey = tokenKey
                         /\ ~regressed => issued'[l].version <= version
    BY <1>5 DEF LinksInv, LinksAreOfTheirTime
  <2>2. /\ \A k \in issued'[n].revokes : k \in stored /\ k < n
        /\ issued'[n].tokenKey = tokenKey /\ issued'[n].version = version
        /\ tokenKey <= tokenKey /\ version <= version
    BY <1>2, <1>5, <1>9
  <2>3. ~regressed /\ revoking # <<>> =>
          \A l \in revoking[1].links : issued'[l].version < revoking[1].to
    BY <1>5 DEF LinksInv, LinksAreOfTheirTime, LinkShapes
  <2> QED BY <1>1, <1>4, <2>1, <2>2, <2>3 DEF LinksAreOfTheirTime
<1>11. PulledIsShut'
  BY <1>1, <1>5 DEF LinksInv, PulledIsShut, LinkShapes
<1>12. OneAtWork'
  <2>1. ~crossed => \A t \in Senders : stage[t] # "idle" => t = s
    BY <1>1 DEF LinksInv, OneAtWork
  <2>2. n \notin revoked /\ n \notin phone /\ phone \subseteq Links
    BY <1>4 DEF LinksInv, LinkShapes
  <2>3. link[s] \notin phone
    BY <1>1 DEF LinksInv, CommittedBeforeSent, LinkShapes, None, Links
  <2>4. ~crossed => \A l \in phone : verdict'[l] = "failed"
    BY <1>1, <1>5, <2>2, <2>3 DEF LinksInv, OneAtWork
  <2>5. ~crossed => \A t \in Senders : stage'[t] # "idle" =>
          /\ sendStatus = "sending" /\ owner = {t}
          /\ link'[t] \in revoked => link'[t] \in pulled
          /\ stage'[t] = "minted" => stored \subseteq issued'[link'[t]].revokes
    BY <1>1, <1>2, <1>5, <1>9, <2>1, <2>2 DEF LinksInv, OneAtWork
  <2>6. ~crossed => \A k, l \in stored \ revoked : k = l
    BY DEF LinksInv, OneAtWork
  <2> QED BY <1>1, <2>4, <2>5, <2>6 DEF OneAtWork
<1> QED BY <1>7, <1>8, <1>10, <1>11, <1>12 DEF LinksInv

(* The commit before the send: the new code is the only one that works, and  *)
(* those it retires came with messages that failed.                          *)
LEMMA CommitLinkStep == ASSUME LinksInv, NEW s \in Senders, CommitLink(s) PROVE LinksInv'
<1> DEFINE l == link[s]
           old == issued[link[s]].revokes
<1>1. /\ stage[s] = "minted" /\ stage' = [stage EXCEPT ![s] = "prepared"]
      /\ UNCHANGED <<channel, messageId, sendStatus, owner, link, keyVars, issued, expired, historyVars,
                     upsets>>
      /\ channel = "sms" => stored' = stored \cup {l} /\ revoked' = revoked \cup old
      /\ channel # "sms" => UNCHANGED <<stored, revoked>>
  BY DEF CommitLink, Advance
<1>2. /\ l \in Links /\ Links' = Links
      /\ \A k \in old : k \in stored /\ k < l
      /\ l \in Nat /\ old \subseteq stored /\ l \notin old
      /\ stage \in [Senders -> AtWork \cup {"idle"}]
  BY <1>1 DEF LinksInv, CommittedBeforeSent, LinksAreOfTheirTime, LinkShapes, Links
<1>3. ~crossed => stored \subseteq old
  BY <1>1 DEF LinksInv, OneAtWork
<1> HIDE DEF l, old
<1> USE DEF historyVars, keyVars
<1>4. stored \subseteq stored' /\ revoked \subseteq revoked' /\ revoked' \subseteq stored'
      /\ stored' \subseteq Links
  BY <1>1, <1>2 DEF LinksInv, LinkShapes
<1>5. LinkShapes'
  BY <1>1, <1>2, <1>4 DEF LinksInv, LinkShapes, AtWork
<1>6. CommittedBeforeSent'
  BY <1>1, <1>2, <1>4 DEF LinksInv, CommittedBeforeSent, Committed, l
<1>7. LinksAreOfTheirTime'
  BY <1>1, <1>2, <1>4 DEF LinksInv, LinksAreOfTheirTime
<1>8. PulledIsShut'
  BY <1>1, <1>4 DEF LinksInv, PulledIsShut
<1>9. OneAtWork'
  <2> SUFFICES ASSUME ~crossed PROVE OneAtWork'
    BY <1>1 DEF OneAtWork
  <2>1. \A t \in Senders : stage'[t] # "idle" => t = s
    BY <1>1, <1>2 DEF LinksInv, OneAtWork
  <2>2. /\ sendStatus = "sending" /\ owner = {s}
        /\ \A k \in phone : k = l \/ verdict[k] = "failed"
        /\ l \in revoked => l \in pulled
    BY <1>1 DEF LinksInv, OneAtWork, l
  <2>3. l \in revoked' => l \in pulled
    BY <1>1, <1>2, <2>2
  <2>4. \A k \in phone \cap revoked' : verdict[k] = "failed" \/ k \in pulled
    BY <2>2, <2>3
  <2>5. \A j, k \in stored' \ revoked' : j = k
    BY <1>1, <1>2, <1>3 DEF LinksInv, OneAtWork
  <2>6. stage'[s] = "prepared"
    BY <1>1, <1>2
  <2> QED BY <1>1, <2>1, <2>2, <2>3, <2>4, <2>5, <2>6 DEF OneAtWork, l
<1> QED BY <1>5, <1>6, <1>7, <1>8, <1>9 DEF LinksInv

(* What a sender says of its own link at the end: that nothing was sent, or  *)
(* what the provider answered.  A delivery said to have failed has no link   *)
(* on a phone that counts.                                                   *)
LEMMA SaysStep ==
    ASSUME LinksInv, NEW s \in Senders, PrepareRaises(s) \/ Record(s) PROVE LinksInv'
<1>1. PICK said \in {"sent", "unknown", "failed"} :
        /\ sendStatus' = said /\ verdict' = [verdict EXCEPT ![link[s]] = said]
        /\ stage[s] \in AtWork \ {"claimed"}
        /\ owner' = owner \ {s}
        /\ stage' = [stage EXCEPT ![s] = "idle"] /\ link' = [link EXCEPT ![s] = None]
        /\ messageId' \in {messageId, link[s]}
        /\ UNCHANGED <<channel, keyVars, linkVars, phone, pulled, crossed, regressed, multipart,
                       upsets>>
  <2>1. CASE PrepareRaises(s)
    BY <2>1 DEF PrepareRaises, Done, Advance, AtWork
  <2>2. CASE Record(s)
    <3>1. CASE stage[s] = "ok"
      BY <2>2, <3>1 DEF Record, Done, Advance, AtWork
    <3>2. CASE stage[s] = "ambiguous"
      BY <2>2, <3>2 DEF Record, Done, Advance, AtWork
    <3>3. CASE stage[s] = "refused"
      BY <2>2, <3>3 DEF Record, Done, Advance, AtWork
    <3> QED BY <2>2, <3>1, <3>2, <3>3 DEF Record
  <2> QED BY <2>1, <2>2
<1> USE DEF linkVars
<1>2. /\ stage \in [Senders -> AtWork \cup {"idle"}] /\ link \in [Senders -> Nat]
      /\ verdict \in Seq({"open", "sent", "unknown", "failed"}) /\ Len(verdict) = Len(issued)
  BY DEF LinksInv, LinkShapes
<1>3. /\ verdict' \in Seq({"open", "sent", "unknown", "failed"}) /\ Len(verdict') = Len(verdict)
      /\ \A k \in Links : verdict'[k] = IF k = link[s] THEN said ELSE verdict[k]
  <2> DEFINE V == {"open", "sent", "unknown", "failed"}
  <2>1. said \in V
    OBVIOUS
  <2>2. verdict \in Seq(V)
    BY <1>2
  <2>5. link[s] \in 1 .. Len(verdict)
    BY <1>1, <1>2 DEF LinksInv, CommittedBeforeSent, AtWork, Links
  <2> HIDE DEF V
  <2>3. verdict' \in Seq(V) /\ Len(verdict') = Len(verdict)
    BY <1>1, <2>1, <2>2, <2>5, ExceptSeq
  <2>4. \A k \in Links : verdict'[k] = IF k = link[s] THEN said ELSE verdict[k]
    BY <1>1, <1>2 DEF Links
  <2> QED BY <2>3, <2>4 DEF V
<1>9. link[s] \in Links
  BY <1>1 DEF LinksInv, CommittedBeforeSent, AtWork
<1>4. LinkShapes'
  BY <1>1, <1>2, <1>3, <1>9 DEF LinksInv, LinkShapes, keyVars, Links, None
<1>5. CommittedBeforeSent'
  BY <1>1, <1>2 DEF LinksInv, CommittedBeforeSent, Links, Committed
<1>6. LinksAreOfTheirTime' /\ PulledIsShut'
  BY <1>1, LinksStand
<1>7. OneAtWork'
  <2> SUFFICES ASSUME ~crossed PROVE OneAtWork'
    BY <1>1 DEF OneAtWork
  <2>1. \A t \in Senders : stage'[t] = "idle"
    BY <1>1, <1>2 DEF LinksInv, OneAtWork, AtWork
  <2>2. /\ \A k \in phone : k = link[s] \/ verdict[k] = "failed"
        /\ link[s] \in revoked => link[s] \in pulled
        /\ phone \subseteq Links
    BY <1>1 DEF LinksInv, OneAtWork, LinkShapes, AtWork
  <2>3. \A k \in phone : k = link[s] \/ verdict'[k] = "failed"
    BY <1>3, <2>2
  <2>4. sendStatus' \in {"pending", "failed"} => \A k \in phone : verdict'[k] = "failed"
    BY <1>1, <1>3, <2>2
  <2>5. \A k \in phone \cap revoked : verdict'[k] = "failed" \/ k \in pulled
    BY <2>2, <2>3
  <2>6. \A k, m \in stored \ revoked : k = m
    BY DEF LinksInv, OneAtWork
  <2> QED BY <1>1, <2>1, <2>4, <2>5, <2>6 DEF OneAtWork
<1> QED BY <1>4, <1>5, <1>6, <1>7 DEF LinksInv

(* The message goes out with the link of its sender, if at all.              *)
LEMMA SendStep ==
    ASSUME LinksInv, NEW s \in Senders, NEW outcome \in {"ok", "ambiguous", "refused"},
           Send(s, outcome)
    PROVE  LinksInv'
<1>1. /\ stage[s] = "prepared" /\ stage' = [stage EXCEPT ![s] = outcome]
      /\ phone \subseteq phone' /\ phone' \subseteq phone \cup {link[s]}
      /\ UNCHANGED <<channel, messageId, sendStatus, owner, link, keyVars, linkVars,
                     verdict, pulled, crossed, regressed, upsets>>
  BY DEF Send, Advance
<1> USE DEF linkVars
<1>2. /\ stage \in [Senders -> AtWork \cup {"idle"}] /\ link \in [Senders -> Nat]
      /\ link[s] \in Links /\ (channel = "sms" => link[s] \in stored)
  BY <1>1 DEF LinksInv, LinkShapes, CommittedBeforeSent, Committed
<1>3. LinkShapes'
  BY <1>1, <1>2 DEF LinksInv, LinkShapes, keyVars, Links, AtWork
<1>4. CommittedBeforeSent'
  BY <1>1, <1>2 DEF LinksInv, CommittedBeforeSent, Links, Committed
<1>5. LinksAreOfTheirTime' /\ PulledIsShut'
  BY <1>1, LinksStand
<1>6. OneAtWork'
  <2> SUFFICES ASSUME ~crossed PROVE OneAtWork'
    BY <1>1 DEF OneAtWork
  <2>1. /\ sendStatus = "sending" /\ owner = {s}
        /\ \A k \in phone : k = link[s] \/ verdict[k] = "failed"
        /\ link[s] \in revoked => link[s] \in pulled
    BY <1>1 DEF LinksInv, OneAtWork
  <2>2. \A t \in Senders : stage'[t] # "idle" => t = s
    BY <1>1, <1>2 DEF LinksInv, OneAtWork
  <2>3. \A k \in phone' : k = link[s] \/ verdict[k] = "failed"
    BY <1>1, <2>1
  <2>4. \A k \in phone' \cap revoked : verdict[k] = "failed" \/ k \in pulled
    BY <2>1, <2>3
  <2>5. stage'[s] # "minted"
    BY <1>1, <1>2
  <2>6. \A k, m \in stored \ revoked : k = m
    BY DEF LinksInv, OneAtWork
  <2> QED BY <1>1, <2>1, <2>2, <2>3, <2>4, <2>5, <2>6 DEF OneAtWork
<1> QED BY <1>3, <1>4, <1>5, <1>6 DEF LinksInv

(* What happens to a row that no sender is at work on, or that is taken from *)
(* one: after a sweep it is unknown; settled as failed, or reported so in    *)
(* due form, every link of it on a phone counts as failed.                   *)
LEMMA RowStep ==
    ASSUME LinksInv,
           Recover \/ (\E outcome \in {"sent", "failed"} : SettleUnknown(outcome)) \/ ReportFailed
    PROVE  LinksInv'
<1>1. /\ sendStatus' \in {"unknown", "sent", "failed"}
      /\ owner' \in {owner, {}}
      /\ verdict' = [l \in Links |-> verdict'[l]]
      /\ \A l \in Links : verdict'[l] \in {verdict[l], "failed"}
      /\ crossed' \in BOOLEAN /\ (crossed => crossed')
      /\ UNCHANGED <<channel, messageId, senderVars, keyVars, linkVars, phone, pulled, regressed, multipart>>
  <2>0. /\ verdict \in [Links -> {"open", "sent", "unknown", "failed"}]
        /\ crossed \in BOOLEAN
    BY DEF LinksInv, LinkShapes, Links
  <2>1. CASE Recover
    BY <2>0, <2>1 DEF Recover
  <2>2. CASE ReportFailed
    <3>1. verdict' = [verdict EXCEPT ![messageId] = "failed"]
      BY <2>2 DEF ReportFailed
    <3>2. /\ verdict' = [l \in Links |-> verdict'[l]]
          /\ \A l \in Links : verdict'[l] \in {verdict[l], "failed"}
      BY <2>0, <3>1
    <3>3. crossed' \in BOOLEAN /\ (crossed => crossed')
      BY <2>0, <2>2 DEF ReportFailed
    <3> QED BY <2>2, <3>2, <3>3 DEF ReportFailed
  <2>3. ASSUME NEW outcome \in {"sent", "failed"}, SettleUnknown(outcome)
        PROVE  <1>1!:
    BY <2>0, <2>3 DEF SettleUnknown
  <2> QED BY <2>1, <2>2, <2>3
<1> USE DEF linkVars, senderVars
<1>2. /\ verdict \in Seq({"open", "sent", "unknown", "failed"}) /\ Len(verdict) = Len(issued)
      /\ issued \in Seq(LinkRow)
  BY DEF LinksInv, LinkShapes
<1>3. /\ verdict' \in Seq({"open", "sent", "unknown", "failed"}) /\ Len(verdict') = Len(issued)
      /\ \A l \in Links : verdict'[l] \in {verdict[l], "failed"}
  BY <1>1, <1>2 DEF Links
<1>4. LinkShapes'
  BY <1>1, <1>3 DEF LinksInv, LinkShapes, keyVars, Links
<1>5. CommittedBeforeSent'
  BY <1>1 DEF LinksInv, CommittedBeforeSent, Links
<1>6. LinksAreOfTheirTime' /\ PulledIsShut'
  BY <1>1, LinksStand
<1>7. OneAtWork'
  <2> SUFFICES ASSUME ~crossed' PROVE OneAtWork'
    BY DEF OneAtWork
  <2>1. ~crossed /\ phone \subseteq Links
    BY <1>1 DEF LinksInv, LinkShapes
  <2>2. \A t \in Senders : stage[t] = "idle"
    <3>1. CASE Recover
      BY <2>1, <3>1 DEF Recover, LinksInv, OneAtWork
    <3>2. CASE ReportFailed \/ \E outcome \in {"sent", "failed"} : SettleUnknown(outcome)
      BY <2>1, <3>2 DEF ReportFailed, SettleUnknown, LinksInv, OneAtWork
    <3> QED BY <3>1, <3>2
  <2>3. sendStatus' = "failed" => \A l \in phone : verdict'[l] = "failed"
    <3>1. CASE Recover \/ \E outcome \in {"sent", "failed"} : SettleUnknown(outcome)
      BY <2>1, <3>1 DEF Recover, SettleUnknown
    <3>2. CASE ReportFailed
      <4>1. /\ verdict' = [verdict EXCEPT ![messageId] = "failed"]
            /\ \A l \in phone \ {messageId} : verdict[l] = "failed"
        BY <3>2, <2>1, <1>1 DEF ReportFailed
      <4>2. DOMAIN verdict = Links
        BY <1>2 DEF Links
      <4> QED BY <2>1, <4>1, <4>2
    <3> QED BY <3>1, <3>2
  <2>4. \A l \in phone \cap revoked : verdict'[l] = "failed" \/ l \in pulled
    BY <1>3, <2>1 DEF LinksInv, OneAtWork
  <2>5. \A k, m \in stored \ revoked : k = m
    BY <2>1 DEF LinksInv, OneAtWork
  <2> QED BY <1>1, <2>2, <2>3, <2>4, <2>5 DEF OneAtWork
<1> QED BY <1>4, <1>5, <1>6, <1>7 DEF LinksInv

(* A link grows old, or one code is taken back by hand.                      *)
LEMMA OneLinkStep ==
    ASSUME LinksInv, NEW l \in Links, RevokeCode(l) \/ Expire(l) PROVE LinksInv'
<1>1. /\ UNCHANGED <<channel, messageId, sendStatus, owner, senderVars, keyVars, issued, stored,
                     phone, verdict, crossed, regressed, multipart>>
      /\ expired' \subseteq expired \cup {l}
      /\ \/ UNCHANGED <<revoked, pulled>>
         \/ /\ channel = "sms" /\ l \in stored
            /\ revoked' = revoked \cup {l} /\ pulled' = pulled \cup {l}
  BY DEF RevokeCode, Expire, historyVars
<1> USE DEF senderVars, keyVars, Links
<1>2. LinkShapes'
  BY <1>1 DEF LinksInv, LinkShapes
<1>3. CommittedBeforeSent'
  BY <1>1 DEF LinksInv, CommittedBeforeSent
<1>4. LinksAreOfTheirTime'
  BY <1>1 DEF LinksInv, LinksAreOfTheirTime
<1>5. PulledIsShut'
  BY <1>1 DEF LinksInv, PulledIsShut
<1>6. OneAtWork'
  BY <1>1 DEF LinksInv, OneAtWork
<1> QED BY <1>2, <1>3, <1>4, <1>5, <1>6 DEF LinksInv

(* All links of the payslip are taken back.  Every link a revocation read is *)
(* of an older version than the one it is about to write; it has to write    *)
(* one older still than the row's to revive any.                             *)
LEMMA RevokeStep ==
    ASSUME LinksInv, RevokeReads \/ RevokeCommits \/ RevokeOvertakes PROVE LinksInv'
<1>1. /\ UNCHANGED <<channel, messageId, sendStatus, owner, senderVars, tokenKey, linkVars,
                     phone, verdict, crossed, multipart>>
      /\ pulled \subseteq pulled' /\ (regressed => regressed')
  <2>1. CASE RevokeReads
    BY <2>1 DEF RevokeReads, historyVars
  <2>2. CASE RevokeCommits
    BY <2>2 DEF RevokeCommits
  <2>3. CASE RevokeOvertakes
    BY <2>3 DEF RevokeOvertakes
  <2> QED BY <2>1, <2>2, <2>3
<1> USE DEF senderVars, linkVars
<1>2. \A l \in Links : issued[l].version \in Nat
  BY LinkTyped DEF LinksInv
<1>3. version \in Nat /\ tokenKey \in Nat /\ regressed \in BOOLEAN /\ pulled \subseteq Links
      /\ (revoking # <<>> => revoking[1].to \in Nat /\ revoking[1].links \subseteq Links)
      /\ Links' = Links
  BY <1>1 DEF LinksInv, LinkShapes, Links
<1>4. /\ version' \in Nat /\ regressed' \in BOOLEAN /\ pulled' \subseteq Links
      /\ revoking' # <<>> => revoking'[1].to \in Nat /\ revoking'[1].links \subseteq Links
      /\ ~regressed' => version <= version'
  <2>1. CASE RevokeReads
    BY <1>3, <2>1 DEF RevokeReads, historyVars
  <2>2. CASE RevokeCommits
    <3>1. /\ revoking # <<>> /\ version' = revoking[1].to /\ revoking' = <<>>
          /\ pulled' = pulled \cup revoking[1].links
          /\ regressed' = (regressed \/ revoking[1].to < version)
      BY <2>2 DEF RevokeCommits
    <3>2. version' \in Nat /\ pulled' \subseteq Links
      BY <1>3, <3>1
    <3>3. regressed' \in BOOLEAN /\ (~regressed' => ~(version' < version))
      BY <1>3, <3>1
    <3> QED BY <1>3, <3>1, <3>2, <3>3
  <2>3. CASE RevokeOvertakes
    BY <1>3, <2>3 DEF RevokeOvertakes
  <2> QED BY <2>1, <2>2, <2>3
<1>5. LinkShapes'
  BY <1>1, <1>3, <1>4 DEF LinksInv, LinkShapes
<1>6. CommittedBeforeSent'
  BY <1>1, <1>3 DEF LinksInv, CommittedBeforeSent
<1>7. \A l \in Links : ~regressed => issued[l].version <= version
  BY DEF LinksInv, LinksAreOfTheirTime
<1>8. ~regressed' => \A l \in Links : issued[l].version <= version'
  BY <1>1, <1>2, <1>3, <1>4, <1>7
<1>9. ~regressed' /\ revoking' # <<>> =>
        \A l \in revoking'[1].links : issued[l].version < revoking'[1].to
  <2>1. CASE RevokeReads
    BY <1>2, <1>3, <1>7, <2>1 DEF RevokeReads, historyVars
  <2>2. CASE RevokeCommits
    BY <2>2 DEF RevokeCommits
  <2>3. CASE RevokeOvertakes
    BY <2>3 DEF RevokeOvertakes, LinksInv, LinksAreOfTheirTime
  <2> QED BY <2>1, <2>2, <2>3
<1>10. LinksAreOfTheirTime'
  <2>1. \A l \in Links : /\ \A k \in issued[l].revokes : k \in stored /\ k < l
                         /\ issued[l].tokenKey <= tokenKey
                         /\ l \notin pulled => issued[l].tokenKey = tokenKey
    BY DEF LinksInv, LinksAreOfTheirTime
  <2> QED BY <1>1, <1>3, <1>8, <1>9, <2>1 DEF LinksAreOfTheirTime
<1>11. PulledIsShut'
  <2> SUFFICES ASSUME ~regressed', NEW l \in pulled'
               PROVE  \/ channel = "sms" /\ l \in revoked
                      \/ issued[l].version < version'
                      \/ issued[l].tokenKey < tokenKey
    BY <1>1 DEF PulledIsShut
  <2>1. ~regressed /\ l \in Links
    BY <1>1, <1>4
  <2>2. CASE l \in pulled
    <3>1. \/ channel = "sms" /\ l \in revoked
          \/ issued[l].version < version
          \/ issued[l].tokenKey < tokenKey
      BY <2>1, <2>2 DEF LinksInv, PulledIsShut
    <3> QED BY <1>2, <1>3, <1>4, <2>1, <3>1
  <2>3. CASE l \notin pulled
    <3>1. CASE RevokeReads
      BY <2>3, <3>1 DEF RevokeReads, historyVars
    <3>2. CASE RevokeCommits
      BY <2>1, <2>3, <3>2 DEF RevokeCommits, LinksInv, LinksAreOfTheirTime
    <3>3. CASE RevokeOvertakes
      BY <1>2, <1>3, <1>7, <2>1, <3>3 DEF RevokeOvertakes
    <3> QED BY <3>1, <3>2, <3>3
  <2> QED BY <2>2, <2>3
<1>12. OneAtWork'
  BY <1>1 DEF LinksInv, OneAtWork
<1> QED BY <1>5, <1>6, <1>10, <1>11, <1>12 DEF LinksInv

(* A new key: every link there is has an older one, and nobody is at work.   *)
LEMMA RotateStep == ASSUME LinksInv, RotateKey PROVE LinksInv'
<1>1. /\ tokenKey' = tokenKey + 1 /\ pulled' = pulled \cup Links
      /\ stage' = [s \in Senders |-> "idle"] /\ link' = [s \in Senders |-> None]
      /\ owner' = {} /\ revoking' = <<>>
      /\ UNCHANGED <<channel, messageId, sendStatus, version, linkVars, phone, verdict, crossed, regressed,
                     multipart>>
  BY DEF RotateKey
<1> USE DEF linkVars
<1>2. tokenKey \in Nat /\ pulled \subseteq Links /\ pulled' = Links /\ Links' = Links
  BY <1>1 DEF LinksInv, LinkShapes, Links
<1>3. \A l \in Links : issued[l].tokenKey \in Nat /\ issued[l].tokenKey <= tokenKey
  BY LinkTyped DEF LinksInv, LinksAreOfTheirTime
<1>4. \A l \in Links : issued[l].tokenKey <= tokenKey' /\ issued[l].tokenKey < tokenKey'
  BY <1>1, <1>2, <1>3
<1>5. LinkShapes'
  BY <1>1, <1>2 DEF LinksInv, LinkShapes, None
<1>6. CommittedBeforeSent'
  BY <1>1 DEF LinksInv, CommittedBeforeSent, Committed
<1>7. LinksAreOfTheirTime'
  BY <1>1, <1>2, <1>4 DEF LinksInv, LinksAreOfTheirTime
<1>8. PulledIsShut'
  BY <1>1, <1>2, <1>4 DEF PulledIsShut
<1>9. OneAtWork'
  BY <1>1, <1>2 DEF LinksInv, OneAtWork
<1> QED BY <1>5, <1>6, <1>7, <1>8, <1>9 DEF LinksInv

(* Every step keeps the invariant of the links.                              *)
LEMMA LinksStep == LinksInv /\ [LinksNext]_payslipVars => LinksInv'
<1> SUFFICES ASSUME LinksInv, [LinksNext]_payslipVars PROVE LinksInv'
  OBVIOUS
<1>1. CASE UNCHANGED payslipVars
  <2> USE <1>1 DEF payslipVars, senderVars, linkVars, keyVars, historyVars, Links
  <2>1. LinkShapes' /\ CommittedBeforeSent'
    BY DEF LinksInv, LinkShapes, CommittedBeforeSent
  <2>2. LinksAreOfTheirTime' /\ PulledIsShut'
    BY DEF LinksInv, LinksAreOfTheirTime, PulledIsShut
  <2>3. OneAtWork'
    BY DEF LinksInv, OneAtWork
  <2> QED BY <2>1, <2>2, <2>3 DEF LinksInv
<1>2. ASSUME NEW s \in Senders,
             \/ Claim(s) \/ NoRecipient(s) \/ Mint(s) \/ CommitLink(s) \/ PrepareRaises(s)
             \/ \E outcome \in {"ok", "ambiguous", "refused"} : Send(s, outcome)
             \/ Record(s) \/ Crash(s)
      PROVE  LinksInv'
  BY <1>2, ClaimStep, LeaveStep, MintStep, CommitLinkStep, SaysStep, SendStep
<1>3. CASE Recover \/ (\E outcome \in {"sent", "failed"} : SettleUnknown(outcome)) \/ ReportFailed
  BY <1>3, RowStep
<1>4. CASE \E l \in Links : RevokeCode(l) \/ Expire(l)
  BY <1>4, OneLinkStep
<1>5. CASE RevokeReads \/ RevokeCommits \/ RevokeOvertakes \/ RotateKey
  BY <1>5, RevokeStep, RotateStep
<1> QED BY <1>1, <1>2, <1>3, <1>4, <1>5 DEF LinksNext

(* The inductive invariant of the links (links.py, tokens.py,                *)
(* service._attempt_send).                                                   *)
THEOREM LinksInvAlways == LinksSpec => []LinksInv
BY LinksInitHolds, LinksStep, PTL DEF LinksSpec

(* A link on a phone opens while its message counts as sent, for any number  *)
(* of senders, crashes and retries (links.mint_payslip_link).                *)
THEOREM LinkInHandOpensAlways == LinksSpec => []LinkInHandOpens
<1>1. LinksInv => LinkInHandOpens
  <2> SUFFICES ASSUME LinksInv, NEW l \in phone, verdict[l] # "failed",
                      l \notin expired \cup pulled, issued[l].version = version, ~crossed
               PROVE  Answer(l) = "payslip"
    BY DEF LinkInHandOpens
  <2>1. l \in Links /\ channel \in {"sms", "email"}
    BY DEF LinksInv, LinkShapes
  <2>2. Signed(l)
    BY <2>1 DEF LinksInv, LinksAreOfTheirTime, Signed
  <2>3. channel = "sms" => l \in stored \ revoked
    BY DEF LinksInv, CommittedBeforeSent, OneAtWork
  <2> QED BY <2>1, <2>2, <2>3 DEF Answer, ResolvePayslipLink, ResolvePayslipItem
<1> QED BY <1>1, LinksInvAlways, PTL

(* Links that were taken back stay shut, and a delivery has one working code *)
(* at most (links.resolve_payslip_link, tokens.revoke_payslip_links).        *)
THEOREM RetiredNeverOpensAlways == LinksSpec => []RetiredNeverOpens
<1>1. LinksInv => RetiredNeverOpens
  <2> SUFFICES ASSUME LinksInv PROVE RetiredNeverOpens
    OBVIOUS
  <2>1. ASSUME channel = "sms", ~crossed
        PROVE  Cardinality({l \in Links : Answer(l) = "payslip"}) <= 1
    <3> DEFINE W == {l \in Links : Answer(l) = "payslip"}
    <3>1. W \subseteq stored \ revoked
      BY <2>1 DEF Answer, ResolvePayslipLink
    <3>2. \A k, l \in W : k = l
      BY <2>1, <3>1 DEF LinksInv, OneAtWork
    <3> HIDE DEF W
    <3>3. W = {} \/ \E l : W = {l}
      BY <3>2
    <3>4. Cardinality({}) = 0 /\ \A l : Cardinality({l}) = 1
      BY FS_EmptySet, FS_Singleton
    <3>5. Cardinality(W) <= 1
      <4>1. CASE W = {}
        BY <3>4, <4>1
      <4>2. ASSUME NEW l, W = {l} PROVE Cardinality(W) <= 1
        <5>1. Cardinality({l}) = 1
          BY <3>4
        <5> QED BY <4>2, <5>1
      <4> QED BY <3>3, <4>1, <4>2
    <3> QED BY <3>5 DEF W
  <2>2. ASSUME ~regressed, NEW l \in pulled PROVE Answer(l) = "link_expired"
    <3>1. l \in Links /\ version \in Nat /\ tokenKey \in Nat
      BY DEF LinksInv, LinkShapes
    <3>2. issued[l].version \in Nat /\ issued[l].tokenKey \in Nat
      BY <3>1, LinkTyped DEF LinksInv
    <3>3. \/ channel = "sms" /\ l \in revoked
          \/ issued[l].version # version
          \/ issued[l].tokenKey # tokenKey
      BY <2>2, <3>1, <3>2 DEF LinksInv, PulledIsShut
    <3> QED BY <3>3 DEF Answer, ResolvePayslipLink, ResolvePayslipItem, Signed
  <2> QED BY <2>1, <2>2 DEF RetiredNeverOpens
<1> QED BY <1>1, LinksInvAlways, PTL

-----------------------------------------------------------------------------
(* The text of an SMS *)

(* The last of some places up to a bound is one of them, or 0.               *)
LEMMA LastIs ==
    ASSUME NEW n \in Nat, NEW places \in SUBSET (0 .. n)
    PROVE  /\ LastOf(places) \in 0 .. n /\ LastOf(places) \in places \cup {0}
           /\ \A j \in places : j <= LastOf(places)
<1>1. \E i \in places \cup {0} : \A j \in places : j <= i
  <2>1. CASE places = {}
    BY <2>1
  <2>2. CASE places # {}
    <3> DEFINE back == {k \in 0 .. n : n - k \in places}
    <3>1. PICK p \in places : TRUE
      BY <2>2
    <3>2. n - p \in back
      BY <3>1
    <3>a. back \in SUBSET Nat
      OBVIOUS
    <3>b. back # {}
      <4> HIDE DEF back
      <4> QED BY <3>2
    <3>3. back \in SUBSET Nat /\ back # {}
      BY <3>a, <3>b
    <3>4. PICK x \in back : \A y \in back : x <= y
      <4> HIDE DEF back
      <4> QED BY <3>3, LeastExists
    <3>5. ASSUME NEW j \in places PROVE j <= n - x
      <4>1. n - j \in back
        OBVIOUS
      <4>2. x <= n - j
        BY <3>4, <4>1
      <4> QED BY <3>4, <4>2
    <3>6. n - x \in places
      BY <3>4
    <3> QED BY <3>5, <3>6
  <2> QED BY <2>1, <2>2
<1>2. LastOf(places) \in places \cup {0} /\ \A j \in places : j <= LastOf(places)
  BY <1>1 DEF LastOf
<1>3. places \cup {0} \subseteq 0 .. n
  OBVIOUS
<1> QED BY <1>2, <1>3

(* A sequence's places, and those of its extension characters.               *)
Wide(text) == {i \in DOMAIN text : text[i] = "e"}
LEMMA WideIsFinite ==
    ASSUME NEW S, NEW text \in Seq(S)
    PROVE  /\ IsFiniteSet(Wide(text)) /\ Cardinality(Wide(text)) \in Nat
           /\ Septets(text) = Len(text) + Cardinality(Wide(text)) /\ Septets(text) \in Nat
<1>1. Len(text) \in Nat /\ DOMAIN text = 1 .. Len(text)
  OBVIOUS
<1>2. IsFiniteSet(1 .. Len(text))
  BY <1>1, FS_Interval
<1>3. Wide(text) \in SUBSET (1 .. Len(text))
  BY <1>1 DEF Wide
<1>4. IsFiniteSet(Wide(text))
  BY <1>2, <1>3, FS_Subset
<1>5. Cardinality(Wide(text)) \in Nat
  BY <1>4, FS_CardinalityType
<1> QED BY <1>1, <1>4, <1>5 DEF Septets, Wide

(* A shorter prefix costs no more.                                           *)
LEMMA PrefixCosts ==
    ASSUME NEW S, NEW text \in Seq(S), NEW n \in 0 .. Len(text), NEW m \in 0 .. n
    PROVE  Septets(SubSeq(text, 1, m)) <= Septets(SubSeq(text, 1, n))
<1>1. /\ SubSeq(text, 1, m) \in Seq(S) /\ Len(SubSeq(text, 1, m)) = m
      /\ SubSeq(text, 1, n) \in Seq(S) /\ Len(SubSeq(text, 1, n)) = n
      /\ \A i \in 1 .. m : SubSeq(text, 1, m)[i] = text[i]
      /\ \A i \in 1 .. n : SubSeq(text, 1, n)[i] = text[i]
  OBVIOUS
<1> DEFINE a == SubSeq(text, 1, m)
           b == SubSeq(text, 1, n)
<1>2. DOMAIN a = 1 .. m /\ DOMAIN b = 1 .. n
  BY <1>1
<1>3. Wide(a) \in SUBSET Wide(b)
  BY <1>1, <1>2 DEF Wide
<1> HIDE DEF a, b
<1>4. a \in Seq(S) /\ b \in Seq(S) /\ Len(a) = m /\ Len(b) = n
  BY <1>1 DEF a, b
<1>5. /\ IsFiniteSet(Wide(b)) /\ Cardinality(Wide(a)) \in Nat /\ Cardinality(Wide(b)) \in Nat
      /\ Septets(a) = m + Cardinality(Wide(a)) /\ Septets(b) = n + Cardinality(Wide(b))
  BY <1>4, WideIsFinite
<1>6. Cardinality(Wide(a)) <= Cardinality(Wide(b))
  BY <1>3, <1>5, FS_Subset
<1>7. Septets(a) <= Septets(b)
  BY <1>5, <1>6
<1> QED BY <1>7 DEF a, b

(* Two texts together cost what they cost apart.                             *)
LEMMA JoinedCosts ==
    ASSUME NEW S, NEW a \in Seq(S), NEW b \in Seq(S)
    PROVE  Septets(a \o b) <= Septets(a) + Septets(b)
<1> DEFINE c == a \o b
           shift == [j \in Wide(b) |-> Len(a) + j]
           moved == {shift[j] : j \in Wide(b)}
<1>1. /\ c \in Seq(S) /\ Len(c) = Len(a) + Len(b) /\ DOMAIN c = 1 .. Len(a) + Len(b)
      /\ Len(a) \in Nat /\ Len(b) \in Nat /\ DOMAIN a = 1 .. Len(a) /\ DOMAIN b = 1 .. Len(b)
      /\ \A i \in 1 .. Len(a) + Len(b) : c[i] = IF i <= Len(a) THEN a[i] ELSE b[i - Len(a)]
  OBVIOUS
<1>2. Wide(c) \in SUBSET (Wide(a) \cup moved)
  <2> SUFFICES ASSUME NEW i \in Wide(c), i \notin Wide(a) PROVE i \in moved
    OBVIOUS
  <2>1. i \in 1 .. Len(a) + Len(b) /\ c[i] = "e"
    BY <1>1 DEF Wide
  <2>2. ~(i <= Len(a))
    BY <1>1, <2>1 DEF Wide
  <2>3. i - Len(a) \in Wide(b)
    BY <1>1, <2>1, <2>2 DEF Wide
  <2>4. i = shift[i - Len(a)]
    BY <1>1, <2>1, <2>3
  <2> QED BY <2>3, <2>4
<1>3. /\ IsFiniteSet(Wide(a)) /\ Cardinality(Wide(a)) \in Nat
      /\ Septets(a) = Len(a) + Cardinality(Wide(a))
  BY WideIsFinite
<1>4. /\ IsFiniteSet(Wide(b)) /\ Cardinality(Wide(b)) \in Nat
      /\ Septets(b) = Len(b) + Cardinality(Wide(b))
  BY WideIsFinite
<1>5. IsFiniteSet(moved) /\ Cardinality(moved) <= Cardinality(Wide(b))
  <2>1. shift \in Surjection(Wide(b), moved)
    BY DEF Surjection
  <2> HIDE DEF shift, moved
  <2> QED BY <1>4, <2>1, FS_Surjection DEF ExistsSurjection
<1> HIDE DEF c, moved
<1>6. Septets(c) = Len(c) + Cardinality(Wide(c)) /\ Cardinality(Wide(c)) \in Nat
  BY <1>1, WideIsFinite
<1>7. /\ IsFiniteSet(Wide(a) \cup moved) /\ Cardinality(Wide(a) \cup moved) \in Nat
      /\ Cardinality(Wide(a) \cup moved) <= Cardinality(Wide(a)) + Cardinality(moved)
  <2>1. IsFiniteSet(Wide(a) \cap moved)
    BY <1>3, FS_Subset
  <2>2. Cardinality(Wide(a) \cap moved) \in Nat /\ Cardinality(moved) \in Nat
    BY <1>5, <2>1, FS_CardinalityType
  <2>3. /\ IsFiniteSet(Wide(a) \cup moved)
        /\ Cardinality(Wide(a) \cup moved)
             = Cardinality(Wide(a)) + Cardinality(moved) - Cardinality(Wide(a) \cap moved)
    BY <1>3, <1>5, FS_Union
  <2>4. Cardinality(Wide(a) \cup moved) \in Nat
    BY <2>3, FS_CardinalityType
  <2> QED BY <1>3, <2>2, <2>3, <2>4
<1>8. Cardinality(Wide(c)) <= Cardinality(Wide(a) \cup moved)
  BY <1>2, <1>7, FS_Subset
<1>9. Cardinality(moved) \in Nat
  BY <1>5, FS_CardinalityType
<1>10. Septets(c) <= Septets(a) + Septets(b)
  BY <1>1, <1>3, <1>4, <1>5, <1>6, <1>7, <1>8, <1>9
<1> QED BY <1>10 DEF c

(* Of some places, those before the first that are not yet taken.            *)
LEMMA NextPlace ==
    ASSUME NEW n \in Nat, NEW kept \in SUBSET (1 .. n), NEW D \in SUBSET kept, D # kept,
           \A d \in D, e \in kept \ D : d < e
    PROVE  \E x \in kept \ D : /\ {j \in kept : j < x} = D
                               /\ \A d \in D \cup {x}, e \in kept \ (D \cup {x}) : d < e
<1>1. kept \ D \in SUBSET Nat
  OBVIOUS
<1>a. kept \ D # {}
  OBVIOUS
<1>2. PICK x \in kept \ D : \A y \in kept \ D : x <= y
  BY <1>1, <1>a, LeastExists
<1>3. \A e \in kept \ (D \cup {x}) : x < e
  BY <1>2
<1>4. ASSUME NEW j \in kept PROVE j < x <=> j \in D
  <2>1. j \in Int /\ x \in Int
    OBVIOUS
  <2>2. j \in D => j < x
    BY <1>2
  <2>3. j \notin D => x <= j
    BY <1>2
  <2> QED BY <2>1, <2>2, <2>3
<1>5. {j \in kept : j < x} = D
  BY <1>4
<1> QED BY <1>2, <1>3, <1>5

(* There is a place of every number.                                         *)
LEMMA EveryPlace ==
    ASSUME NEW n \in Nat, NEW kept \in SUBSET (1 .. n)
    PROVE  /\ IsFiniteSet(kept) /\ Cardinality(kept) \in Nat
           /\ \A m \in 1 .. Cardinality(kept) :
                \E i \in kept : Cardinality({j \in kept : j < i}) = m - 1
<1>1. IsFiniteSet(1 .. n)
  BY FS_Interval
<1>2. IsFiniteSet(kept)
  BY <1>1, FS_Subset
<1>3. Cardinality(kept) \in Nat
  BY <1>2, FS_CardinalityType
<1> DEFINE c == Cardinality(kept)
           Below(D) == \A d \in D, e \in kept \ D : d < e
           good == {m \in 0 .. c : \E D \in SUBSET kept : Cardinality(D) = m /\ Below(D)}
<1>4. 0 \in good
  <2>1. Cardinality({}) = 0
    BY FS_EmptySet
  <2>2. {} \in SUBSET kept /\ Below({})
    OBVIOUS
  <2> QED BY <1>3, <2>1, <2>2
<1>5. ASSUME NEW m \in 1 .. c, m - 1 \in good
      PROVE  /\ m \in good
             /\ \E i \in kept : Cardinality({j \in kept : j < i}) = m - 1
  <2>1. PICK D \in SUBSET kept : Cardinality(D) = m - 1 /\ Below(D)
    BY <1>5
  <2>2. D # kept
    BY <1>3, <1>5, <2>1
  <2>3. PICK x \in kept \ D : {j \in kept : j < x} = D /\ Below(D \cup {x})
    BY <2>1, <2>2, NextPlace
  <2>4. IsFiniteSet(D)
    BY <1>2, FS_Subset
  <2>5. Cardinality(D \cup {x}) = Cardinality(D) + 1
    BY <2>3, <2>4, FS_AddElement
  <2>6. D \cup {x} \in SUBSET kept /\ Cardinality(D \cup {x}) = m
    BY <1>3, <2>1, <2>3, <2>5
  <2>7. m \in good
    BY <2>3, <2>6
  <2>8. x \in kept /\ Cardinality({j \in kept : j < x}) = m - 1
    BY <2>1, <2>3
  <2> QED BY <2>7, <2>8
<1> HIDE DEF good, c
<1>6. c \in Nat
  BY <1>3 DEF c
<1>7. \A m \in 0 .. c : m \in good
  BY <1>4, <1>5, <1>6, HoldsUpTo
<1>8. \A m \in 1 .. c : m - 1 \in good
  BY <1>6, <1>7
<1> QED BY <1>2, <1>3, <1>5, <1>8 DEF c

(* What is picked from a text are characters of it.                          *)
LEMMA PickIs ==
    ASSUME NEW n \in Nat, NEW kept \in SUBSET (1 .. n), NEW text, NEW S,
           \A i \in kept : text[i] \in S
    PROVE  Pick(text, kept) \in Seq(S)
<1> DEFINE c == Cardinality(kept)
           At(m) == CHOOSE i \in kept : Cardinality({j \in kept : j < i}) = m - 1
<1>1. c \in Nat /\ \A m \in 1 .. c : At(m) \in kept
  BY EveryPlace
<1>2. Pick(text, kept) = [m \in 1 .. c |-> text[At(m)]]
  BY DEF Pick
<1> HIDE DEF c, At
<1>3. Pick(text, kept) \in [1 .. c -> S]
  BY <1>1, <1>2
<1> QED BY <1>1, <1>3

(* A cleaned name is GSM-7.                                                  *)
LEMMA CleanIs ==
    ASSUME NEW text \in Seq(Kinds)
    PROVE  CleanForSms(text) \in Seq(Kinds \ {"x"})
<1> DEFINE kept == {i \in DOMAIN text : text[i] # "x"}
           t == Pick(text, kept)
           rest == {i \in DOMAIN t : \/ t[i] # " "
                                     \/ i > 1 /\ t[i - 1] # " " /\ \E j \in i .. Len(t) : t[j] # " "}
<1>1. Len(text) \in Nat /\ kept \in SUBSET (1 .. Len(text))
  OBVIOUS
<1>2. \A i \in kept : text[i] \in Kinds \ {"x"}
  OBVIOUS
<1>3. t \in Seq(Kinds \ {"x"})
  <2> HIDE DEF kept
  <2> QED BY <1>1, <1>2, PickIs
<1>4. CleanForSms(text) = Pick(t, rest)
  BY DEF CleanForSms
<1> HIDE DEF t
<1>a. Len(t) \in Nat /\ DOMAIN t = 1 .. Len(t) /\ \A i \in DOMAIN t : t[i] \in Kinds \ {"x"}
  BY <1>3
<1>b. rest \subseteq DOMAIN t
  OBVIOUS
<1>5. Len(t) \in Nat /\ rest \in SUBSET (1 .. Len(t)) /\ \A i \in rest : t[i] \in Kinds \ {"x"}
  <2> HIDE DEF rest
  <2> QED BY <1>a, <1>b
<1> HIDE DEF rest
<1> QED BY <1>4, <1>5, PickIs

(* Stripping leaves a prefix.                                                *)
LEMMA StripIs ==
    ASSUME NEW S, NEW text \in Seq(S)
    PROVE  \E m \in 0 .. Len(text) : RStrip(text) = SubSeq(text, 1, m)
<1> DEFINE places == {i \in DOMAIN text : text[i] \notin {" ", "-"}}
<1>a. Len(text) \in Nat /\ DOMAIN text = 1 .. Len(text)
  OBVIOUS
<1>b. places \subseteq DOMAIN text
  OBVIOUS
<1>c. 1 .. Len(text) \subseteq 0 .. Len(text)
  BY <1>a
<1>1. Len(text) \in Nat /\ places \in SUBSET (0 .. Len(text))
  <2> HIDE DEF places
  <2> QED BY <1>a, <1>b, <1>c
<1>2. RStrip(text) = SubSeq(text, 1, LastOf(places))
  BY DEF RStrip
<1> HIDE DEF places
<1>3. LastOf(places) \in 0 .. Len(text)
  BY <1>1, LastIs
<1> QED BY <1>2, <1>3

(* What is fitted costs no more than the budget; nothing is left if that is  *)
(* less than nothing.                                                        *)
LEMMA FitIs ==
    ASSUME NEW S, NEW text \in Seq(S), NEW budget \in Int
    PROVE  /\ Fit(text, budget) \in Seq(S)
           /\ Fit(text, budget) # <<>> => Septets(Fit(text, budget)) <= budget
<1> DEFINE fits == {n \in 0 .. Len(text) : Septets(SubSeq(text, 1, n)) <= budget}
           end == LastOf(fits)
           spaces == {i \in 1 .. end : text[i] = " "}
           splits == end < Len(text) /\ text[end + 1] # " " /\ spaces # {}
           cut == IF splits THEN LastOf(spaces) - 1 ELSE end
<1>1. Fit(text, budget) = RStrip(SubSeq(text, 1, cut))
  BY DEF Fit
<1>2. Len(text) \in Nat /\ fits \in SUBSET (0 .. Len(text))
  OBVIOUS
<1>3. end \in fits \cup {0} /\ end \in 0 .. Len(text)
  <2> HIDE DEF fits
  <2> QED BY <1>2, LastIs
<1>4. cut \in 0 .. end
  <2>1. CASE splits
    <3> HIDE DEF end, fits
    <3>a. end \in Nat
      BY <1>2, <1>3
    <3>b. 1 .. end \subseteq 0 .. end
      BY <3>a
    <3>1. spaces \in SUBSET (0 .. end)
      BY <3>b
    <3>2. PICK p \in spaces : TRUE
      BY <2>1
    <3>3. p \in 1 .. end
      OBVIOUS
    <3> HIDE DEF spaces
    <3>4. LastOf(spaces) \in 0 .. end /\ p <= LastOf(spaces)
      BY <3>a, <3>1, LastIs
    <3>5. LastOf(spaces) - 1 \in 0 .. end
      BY <3>a, <3>3, <3>4
    <3> QED BY <2>1, <3>5
  <2>2. CASE ~splits
    <3>1. end \in 0 .. end
      <4> HIDE DEF end, fits
      <4> QED BY <1>2, <1>3
    <3> QED BY <2>2, <3>1
  <2> QED BY <2>1, <2>2
<1> HIDE DEF cut
<1>5. SubSeq(text, 1, cut) \in Seq(S) /\ Len(SubSeq(text, 1, cut)) = cut /\ cut \in 0 .. Len(text)
  BY <1>2, <1>3, <1>4
<1>6. PICK m \in 0 .. cut : RStrip(SubSeq(text, 1, cut)) = SubSeq(SubSeq(text, 1, cut), 1, m)
  BY <1>5, StripIs
<1>7. SubSeq(SubSeq(text, 1, cut), 1, m) = SubSeq(text, 1, m)
  BY <1>5, <1>6
<1>8. Fit(text, budget) = SubSeq(text, 1, m) /\ m \in 0 .. end /\ SubSeq(text, 1, m) \in Seq(S)
  BY <1>1, <1>2, <1>3, <1>4, <1>6, <1>7
<1>9. ASSUME Fit(text, budget) # <<>> PROVE Septets(Fit(text, budget)) <= budget
  <2>1. m # 0
    BY <1>8, <1>9
  <2>2. end \in fits
    BY <1>3, <1>8, <2>1
  <2>3. Septets(SubSeq(text, 1, end)) <= budget
    BY <2>2
  <2> HIDE DEF end, fits
  <2>4. Septets(SubSeq(text, 1, m)) <= Septets(SubSeq(text, 1, end))
    BY <1>3, <1>8, PrefixCosts
  <2>5. SubSeq(text, 1, end) \in Seq(S)
    BY <1>2, <1>3
  <2>6. Septets(SubSeq(text, 1, m)) \in Nat /\ Septets(SubSeq(text, 1, end)) \in Nat
    BY <1>8, <2>5, WideIsFinite
  <2> QED BY <1>8, <2>3, <2>4, <2>6
<1> QED BY <1>8, <1>9

(* Every rendered text is GSM-7 and fits one part: the check at the end of   *)
(* render.render_payslip_sms cannot fail, whatever the company is called and *)
(* however long the link is.                                                 *)
THEOREM RenderedIsOnePart ==
    ASSUME NEW company \in Names, NEW tail \in Tails, NEW body \in RenderPayslipSms(company, tail)
    PROVE  OnePart(body)
<1> DEFINE budget == SMS_MAX_SEPTETS - Septets(tail)
           own == Fit(CleanForSms(company), budget)
           name == IF own # <<>> THEN own ELSE Fit(CleanForSms(Brand), budget)
           G == Kinds \ {"x"}
<1>1. company \in Seq(Kinds) /\ Brand \in Seq(Kinds) /\ tail \in Seq(Kinds)
  BY TextsAssumption
<1>2. SMS_MAX_SEPTETS \in Nat /\ Septets(tail) \in Nat /\ budget \in Int
  BY <1>1, WideIsFinite, LinksBounds
<1>3. IsGsm7(tail) /\ name # <<>> /\ body = name \o tail
  BY DEF RenderPayslipSms
<1>4. CleanForSms(company) \in Seq(G) /\ CleanForSms(Brand) \in Seq(G)
  BY <1>1, CleanIs
<1> HIDE DEF budget, G
<1>5. name \in Seq(G) /\ (name # <<>> => Septets(name) <= budget)
  BY <1>2, <1>4, FitIs
<1> HIDE DEF name
<1>6. tail \in Seq(G)
  BY <1>1, <1>3 DEF IsGsm7, G
<1>7. body \in Seq(G)
  BY <1>3, <1>5, <1>6
<1>8. IsGsm7(body)
  <2>1. \A i \in DOMAIN body : body[i] \in G
    BY <1>7
  <2> QED BY <2>1 DEF IsGsm7, G
<1>9. Septets(body) <= Septets(name) + Septets(tail)
  BY <1>3, <1>5, <1>6, JoinedCosts
<1>10. Septets(name) \in Nat /\ Septets(body) \in Nat
  BY <1>5, <1>7, WideIsFinite
<1>11. Septets(body) <= SMS_MAX_SEPTETS
  BY <1>2, <1>3, <1>5, <1>9, <1>10 DEF budget
<1> QED BY <1>8, <1>11 DEF OnePart

(* What the limits and the row lock keep: one claim at most, versions, keys   *)
(* and upsets within their bounds, and no SMS beyond one part.               *)
LinksBounded ==
    /\ \A s, t \in owner : s = t
    /\ version \in 0 .. MaxVersion /\ tokenKey \in 0 .. MaxKey
    /\ revoking # <<>> => revoking[1].to \in 0 .. MaxVersion
    /\ upsets \in 0 .. MaxUpsets
    /\ multipart = FALSE

LEMMA BoundedStep == LinksInv /\ LinksBounded /\ [LinksNext]_payslipVars => LinksBounded'
<1> SUFFICES ASSUME LinksInv, LinksBounded, [LinksNext]_payslipVars PROVE LinksBounded'
  OBVIOUS
<1> USE LinksBounds DEF LinksBounded, Upset, keyVars, historyVars
<1>1. CASE UNCHANGED payslipVars
  BY <1>1 DEF payslipVars
<1>2. ASSUME NEW s \in Senders, Claim(s) \/ NoRecipient(s) \/ Mint(s) \/ CommitLink(s) \/ Crash(s)
      PROVE  LinksBounded'
  BY <1>2 DEF Claim, NoRecipient, Mint, CommitLink, Crash
<1>3. ASSUME NEW s \in Senders, PrepareRaises(s) \/ Record(s) PROVE LinksBounded'
  BY <1>3 DEF PrepareRaises, Record
<1>4. ASSUME NEW s \in Senders, NEW said \in {"ok", "ambiguous", "refused"}, Send(s, said)
      PROVE  LinksBounded'
  <2>1. PICK body \in Bodies : multipart' = (multipart \/ ~OnePart(body))
    BY <1>4 DEF Send
  <2>2. \E company \in Names, tail \in Tails : body \in RenderPayslipSms(company, tail)
    BY DEF Bodies
  <2>3. OnePart(body)
    BY <2>2, RenderedIsOnePart
  <2>4. multipart' = FALSE
    BY <2>1, <2>3
  <2>5. UNCHANGED <<owner, version, tokenKey, revoking, upsets>>
    BY <1>4 DEF Send
  <2> QED BY <2>4, <2>5
<1>5. CASE Recover \/ (\E outcome \in {"sent", "failed"} : SettleUnknown(outcome)) \/ ReportFailed
  <2>1. /\ owner' \in {owner, {}} /\ upsets' \in 0 .. MaxUpsets
        /\ UNCHANGED <<version, tokenKey, revoking, multipart>>
    <3>1. CASE Recover
      BY <3>1 DEF Recover
    <3>2. ASSUME NEW outcome \in {"sent", "failed"}, SettleUnknown(outcome) PROVE <2>1!:
      BY <3>2 DEF SettleUnknown
    <3>3. CASE ReportFailed
      <4>1. upsets < MaxUpsets /\ upsets' = upsets + 1
        BY <3>3 DEF ReportFailed
      <4>2. UNCHANGED <<owner, version, tokenKey, revoking, multipart>>
        BY <3>3 DEF ReportFailed
      <4> QED BY <4>1, <4>2
    <3> QED BY <1>5, <3>1, <3>2, <3>3
  <2> QED BY <2>1
<1>6. CASE \E l \in Links : RevokeCode(l) \/ Expire(l)
  BY <1>6 DEF RevokeCode, Expire
<1>7. CASE RevokeReads
  <2>1. revoking' = <<[to |-> version + 1, links |-> Links]>> /\ version < MaxVersion
    BY <1>7 DEF RevokeReads
  <2>2. revoking'[1].to = version + 1
    BY <2>1
  <2> QED BY <1>7, <2>1, <2>2 DEF RevokeReads
<1>8. CASE RevokeCommits \/ RevokeOvertakes \/ RotateKey
  BY <1>8 DEF RevokeCommits, RevokeOvertakes, RotateKey
<1> QED BY <1>1, <1>2, <1>3, <1>4, <1>5, <1>6, <1>7, <1>8 DEF LinksNext

(* The types of the links, the single claim on the row (claim_delivery), and *)
(* that no payslip SMS takes more than one part                              *)
(* (render.render_payslip_sms), for all names, links and limits.             *)
THEOREM LinksTypesAlways == LinksSpec => []LinksTypeOK
<1>1. LinksInit => LinksBounded
  BY LinksBounds DEF LinksInit, LinksBounded
<1>2. LinksInv /\ LinksBounded => LinksTypeOK
  <2> SUFFICES ASSUME LinksInv, LinksBounded PROVE LinksTypeOK
    OBVIOUS
  <2>1. Cardinality(owner) <= 1
    <3>a. ASSUME NEW s \in owner PROVE owner = {s}
      BY <3>a DEF LinksBounded
    <3>1. owner = {} \/ \E s : owner = {s}
      BY <3>a
    <3>2. CASE owner = {}
      BY <3>2, FS_EmptySet
    <3>3. ASSUME NEW s, owner = {s} PROVE Cardinality(owner) <= 1
      <4>1. Cardinality({s}) = 1
        BY FS_Singleton
      <4> QED BY <3>3, <4>1
    <3> QED BY <3>1, <3>2, <3>3
  <2>2. DOMAIN verdict = Links
    BY DEF LinksInv, LinkShapes, Links
  <2>3. link \in [Senders -> Links \cup {None}]
    BY DEF LinksInv, LinkShapes, CommittedBeforeSent
  <2>4. stage \in [Senders -> {"idle", "claimed", "minted", "prepared", "ok", "ambiguous", "refused"}]
    BY DEF LinksInv, LinkShapes, AtWork
  <2>5. {revoked, phone, pulled, expired, stored} \subseteq SUBSET Links /\ revoked \subseteq stored
    BY DEF LinksInv, LinkShapes
  <2>6. /\ channel \in {"sms", "email"} /\ owner \subseteq Senders
        /\ messageId \in Links \cup {None}
        /\ sendStatus \in {"pending", "sending", "sent", "unknown", "failed"}
        /\ {crossed, regressed} \subseteq BOOLEAN
    BY DEF LinksInv, LinkShapes
  <2> QED BY <2>1, <2>2, <2>3, <2>4, <2>5, <2>6 DEF LinksTypeOK, LinksBounded
<1> QED BY <1>1, <1>2, BoundedStep, LinksInvAlways, PTL DEF LinksSpec

-----------------------------------------------------------------------------
(* The notices, the confirm page and the status page *)

LEMMA ChannelsAre ==
    /\ Channels = {"sms", "whatsapp", "email"}
    /\ Place("sms") = 1 /\ Place("whatsapp") = 2 /\ Place("email") = 3
<1>1. DOMAIN DELIVERY_CHANNELS = 1 .. 3
  BY DEF DELIVERY_CHANNELS
<1>2. /\ DELIVERY_CHANNELS[1] = "sms" /\ DELIVERY_CHANNELS[2] = "whatsapp"
      /\ DELIVERY_CHANNELS[3] = "email"
  BY DEF DELIVERY_CHANNELS
<1>3. 1 .. 3 = {1, 2, 3}
  OBVIOUS
<1> HIDE DEF DELIVERY_CHANNELS
<1>4. Channels = {"sms", "whatsapp", "email"}
  BY <1>1, <1>2, <1>3 DEF Channels, Range
<1>5. Place("sms") = 1
  BY <1>1, <1>2, <1>3 DEF Place
<1>6. Place("whatsapp") = 2
  BY <1>1, <1>2, <1>3 DEF Place
<1>7. Place("email") = 3
  BY <1>1, <1>2, <1>3 DEF Place
<1> QED BY <1>4, <1>5, <1>6, <1>7

(* Every worker has a channel, whatever is on file, on a desktop too.        *)
LEMMA ResolvesToChannel == ASSUME NEW c PROVE ResolveChannel(c) \in Channels
<1> DEFINE usable == {ch \in SendableChannels : ContactFor(ch, c) # <<>>}
           order == IF usable # {} THEN usable ELSE SendableChannels
<1>1. "email" \in SendableChannels /\ SendableChannels \subseteq Channels
  BY ChannelsAre DEF SendableChannels
<1>2. order \subseteq Channels /\ order # {}
  BY <1>1
<1>3. ResolveChannel(c) = CHOOSE a \in order : \A b \in order : TriedBefore(a, b, c)
  BY DEF ResolveChannel
<1> HIDE DEF order
<1>4. \E a \in order : \A b \in order : TriedBefore(a, b, c)
  <2>1. CASE c.pref \in order
    BY <2>1 DEF TriedBefore
  <2>2. ASSUME c.pref \notin order, "sms" \in order
        PROVE  \E a \in order : \A b \in order : TriedBefore(a, b, c)
    BY <1>2, <2>2, ChannelsAre DEF TriedBefore
  <2>3. ASSUME c.pref \notin order, "sms" \notin order, "whatsapp" \in order
        PROVE  \E a \in order : \A b \in order : TriedBefore(a, b, c)
    BY <1>2, <2>3, ChannelsAre DEF TriedBefore
  <2>4. ASSUME c.pref \notin order, "sms" \notin order, "whatsapp" \notin order
        PROVE  \E a \in order : \A b \in order : TriedBefore(a, b, c)
    <3>1. \A b \in order : b = "email"
      BY <1>2, <2>4, ChannelsAre
    <3>2. "email" \in order
      BY <1>2, <3>1
    <3>3. TriedBefore("email", "email", c)
      BY <2>4, <3>2, ChannelsAre DEF TriedBefore
    <3> QED BY <3>1, <3>2, <3>3
  <2> QED BY <2>1, <2>2, <2>3, <2>4
<1> QED BY <1>2, <1>3, <1>4

-----------------------------------------------------------------------------
(* What a send reaches, and who hears of it *)

Statuses == {"none", "sending", "sent", "failed", "unknown"}
BatchStatuses == {"none", "scheduled", "queued", "running", "completed", "failed"}
BatchChannels == {"none", "sms", "auto", "email", "whatsapp"}
Counts == [sent : SUBSET Items, failed : SUBSET Items, unknown : SUBSET Items,
           skipped : SUBSET Items]

(* A row is retried only while it failed and its attempts are not spent, or  *)
(* while the attempt that was scheduled is made; a payslip has a newest row  *)
(* if it has any.                                                            *)
RetriesAreOpen ==
    \A i \in Items, ch \in Channels : <<i, ch>> \in retry =>
       \/ status[i][ch] = "sending"
       \/ status[i][ch] = "failed" /\ attempts[i][ch] < MaxAttempts
NewestIsOne == \A i \in Items : newest[i] = "none" <=> \A ch \in Channels : status[i][ch] = "none"
KnownHaveRows == \A i \in Items, ch \in Channels : <<i, ch>> \in known => status[i][ch] # "none"
RowsAgree ==
    /\ contact \in [Items -> Contacts]
    /\ status \in [Items -> [Channels -> Statuses]]
    /\ attempts \in [Items -> [Channels -> 0 .. MaxAttempts]]
    /\ newest \in [Items -> Channels \cup {"none"}]
    /\ retry \subseteq Pairs /\ known \subseteq Pairs
    /\ RetriesAreOpen /\ NewestIsOne /\ KnownHaveRows

(* A batch names the channel it is for, and has only its run's payslips to   *)
(* send.                                                                     *)
BatchesAgree ==
    /\ batch \in [Runs -> [status : BatchStatuses, channel : BatchChannels, onlyFailed : BOOLEAN]]
    /\ \A r \in Runs : batch[r].status # "none" => batch[r].channel # "none"
    /\ todo \in [Runs -> SUBSET Items] /\ \A r \in Runs : todo[r] \subseteq ItemsOf(r)
    /\ tally \in [Runs -> Counts]
    /\ tried \in [Runs -> SUBSET Items]

(* A sweep is over rows of its run, at one of them at a time.                *)
SweepsAgree ==
    /\ sweep \in [Runs -> [due : SUBSET Pairs, left : SUBSET Pairs, at : SUBSET Pairs,
                           reaches : BOOLEAN]]
    /\ \A r \in Runs : /\ sweep[r].left \cup sweep[r].at \subseteq sweep[r].due
                       /\ sweep[r].at = {} \/ \E p : sweep[r].at = {p}
                       /\ \A p \in sweep[r].due : RunOf[p[1]] = r /\ Status(p) # "none"

IsView(view) == {"shown", "edited", "moved"} \subseteq DOMAIN view
IsPage(view) ==
    /\ IsView(view) /\ {"runs", "channel", "onlyFailed", "later"} \subseteq DOMAIN view
    /\ view.runs \subseteq Runs /\ view.onlyFailed \in BOOLEAN /\ view.channel \in BatchChannels
    /\ view.runs # {} \/ DOMAIN view.shown # {} => view.channel # "none"
    /\ DOMAIN view.shown \subseteq Items
ViewsAgree ==
    /\ IsPage(page)
    /\ promised = [r \in Runs |-> promised[r]] /\ \A r \in Runs : IsView(promised[r])

(* What a send would do with one payslip, from the worker's contacts, the    *)
(* delivery rows, the channel asked for and whether failed ones alone go.    *)
PlaceOf(c, way) == IF way = "auto" THEN ResolveChannel(c) ELSE way
Skips(row, ch, only) == IF only THEN row[ch] # "failed" ELSE row[ch] \in SKIPPED_BY_SEND
WouldReach(c, row, way, only) ==
    ~Skips(row, PlaceOf(c, way), only) /\ ContactFor(PlaceOf(c, way), c) # <<>>

(* What a view says of a payslip stands, for a page or a batch b that has    *)
(* tried the payslips gone and has those of open before it.  An untouched    *)
(* payslip would be sent as the view says, until it is; then it was.  One    *)
(* whose contact alone was edited is still skipped on a named channel, one   *)
(* whose delivery alone changed still has no contact.                        *)
Stands(view, i, c, row, b, gone, open) ==
    /\ i \notin view.edited \cup view.moved =>
         /\ i \in gone \/ WouldReach(c, row, b.channel, b.onlyFailed) => view.shown[i] \in Reachable
         /\ view.shown[i] \in Reachable =>
              i \in gone \/ (WouldReach(c, row, b.channel, b.onlyFailed) /\ i \in open)
    /\ i \notin view.moved /\ b.channel # "auto" /\ view.shown[i] = "skipped" =>
         Skips(row, b.channel, b.onlyFailed) /\ i \notin gone
    /\ i \notin view.edited /\ view.shown[i] \in {"no_contact", "invalid"} =>
         ContactFor(PlaceOf(c, b.channel), c) = <<>> /\ i \notin gone

Ahead(r) == IF batch[r].status \in {"scheduled", "queued"} THEN ItemsOf(r) ELSE todo[r]

PageStands ==
    \A i \in DOMAIN page.shown : Stands(page, i, contact[i], status[i], page, {}, Items)
PromiseStands(r) ==
    IF InFlight(r)
    THEN \A i \in DOMAIN promised[r].shown \cap ItemsOf(r) :
           Stands(promised[r], i, contact[i], status[i], batch[r], tried[r], Ahead(r))
    ELSE tried[r] = {}

OutreachInv ==
    /\ RowsAgree /\ BatchesAgree /\ SweepsAgree /\ ViewsAgree
    /\ FinalFailureIsHeard
    /\ PageStands /\ \A r \in Runs : PromiseStands(r)

(* The preview's categories say whom a send would reach: it counts with the  *)
(* send's own rules.                                                         *)
LEMMA CategoryIsReach ==
    ASSUME NEW i, NEW way, NEW only
    PROVE  Category(i, way, only) \in Reachable <=> WouldReach(contact[i], status[i], way, only)
<1> DEFINE ch == PlaceOf(contact[i], way)
           skipped == Skips(status[i], ch, only)
<1>1. ChannelOf(i, way) = ch /\ (SkippedNow(i, ch, only) <=> skipped)
  BY DEF ChannelOf, PlaceOf, SkippedNow, Skips
<1>2. CASE skipped
  <2>1. Category(i, way, only) = "skipped"
    BY <1>1, <1>2 DEF Category
  <2> QED BY <1>2, <2>1 DEF WouldReach, Reachable
<1>3. CASE ~skipped
  <2>1. Category(i, way, only) = Destination(ch, contact[i])
    BY <1>1, <1>3 DEF Category
  <2>2. ch = "sms" => ContactFor(ch, contact[i]) = SmsContact(contact[i]).number
    BY DEF ContactFor
  <2>3. Destination(ch, contact[i]) \in Reachable <=> ContactFor(ch, contact[i]) # <<>>
    BY <2>2 DEF Destination, Reachable
  <2> QED BY <1>3, <2>1, <2>3 DEF WouldReach
<1> QED BY <1>2, <1>3

(* What a page shows a send would not reach is not on file, or is skipped.   *)
LEMMA CategoryStands ==
    ASSUME NEW i, NEW b, NEW view, view.shown[i] = Category(i, b.channel, b.onlyFailed)
    PROVE  /\ Stands(view, i, contact[i], status[i], b, {}, Items) \/ i \notin Items
<1> DEFINE place == PlaceOf(contact[i], b.channel)
<1>1. /\ ChannelOf(i, b.channel) = place
      /\ SkippedNow(i, place, b.onlyFailed) <=> Skips(status[i], place, b.onlyFailed)
  BY DEF ChannelOf, PlaceOf, SkippedNow, Skips
<1>2. view.shown[i] \in Reachable <=> WouldReach(contact[i], status[i], b.channel, b.onlyFailed)
  BY CategoryIsReach
<1>3. view.shown[i] = "skipped" => Skips(status[i], place, b.onlyFailed)
  BY <1>1 DEF Category, Destination
<1>4. view.shown[i] \in {"no_contact", "invalid"} => ContactFor(place, contact[i]) = <<>>
  BY <1>1 DEF Category, Destination, ContactFor
<1>5. b.channel # "auto" => place = b.channel
  BY DEF PlaceOf
<1> HIDE DEF place
<1> QED BY <1>2, <1>3, <1>4, <1>5 DEF Stands, place

(* A view goes on standing while what changed is marked in it.               *)
SameSkips(row, later) ==
    \A ch \in Channels, only \in BOOLEAN : Skips(row, ch, only) <=> Skips(later, ch, only)

LEMMA StandsOn ==
    ASSUME NEW view, NEW now, NEW i, NEW c, NEW row, NEW c2, NEW row2, NEW b,
           NEW gone, NEW open, NEW open2,
           b.channel \in BatchChannels \ {"none"}, b.onlyFailed \in BOOLEAN,
           Stands(view, i, c, row, b, gone, open),
           now.shown = view.shown, view.edited \subseteq now.edited, view.moved \subseteq now.moved,
           c2 = c \/ i \in now.edited,
           SameSkips(row, row2) \/ i \in now.moved,
           i \in open => i \in open2
    PROVE  Stands(now, i, c2, row2, b, gone, open2)
<1>1. ASSUME i \notin now.edited \cup now.moved
      PROVE  /\ i \notin view.edited \cup view.moved
             /\ WouldReach(c2, row2, b.channel, b.onlyFailed) <=> WouldReach(c, row, b.channel, b.onlyFailed)
  <2>1. c2 = c /\ SameSkips(row, row2) /\ i \notin view.edited \cup view.moved
    BY <1>1
  <2>2. PlaceOf(c, b.channel) \in Channels
    BY ResolvesToChannel, ChannelsAre DEF PlaceOf, BatchChannels
  <2> QED BY <2>1, <2>2 DEF WouldReach, SameSkips
<1>2. i \notin now.moved /\ b.channel # "auto" =>
        /\ i \notin view.moved
        /\ Skips(row, b.channel, b.onlyFailed) <=> Skips(row2, b.channel, b.onlyFailed)
  BY ChannelsAre DEF SameSkips, BatchChannels
<1>3. i \notin now.edited => i \notin view.edited /\ c2 = c
  OBVIOUS
<1> QED BY <1>1, <1>2, <1>3 DEF Stands

(* Marks are only added, and nothing else of a view changes.                 *)
Grows(view, now) ==
    /\ now.shown = view.shown
    /\ \A f \in {"runs", "channel", "onlyFailed", "later"} \cap DOMAIN view : now[f] = view[f]
    /\ DOMAIN now = DOMAIN view
    /\ view.edited \subseteq now.edited /\ view.moved \subseteq now.moved

LEMMA MarksGrow ==
    ASSUME NEW i, NEW view, IsView(view)
    PROVE  /\ Grows(view, Edits(i, view)) /\ Grows(view, Moves(i, view))
           /\ i \in DOMAIN view.shown => i \in Edits(i, view).edited /\ i \in Moves(i, view).moved
<1>1. Edits(i, view) = [view EXCEPT !.edited = view.edited \cup ({i} \cap DOMAIN view.shown)]
  BY DEF Edits
<1>2. Moves(i, view) = [view EXCEPT !.moved = view.moved \cup ({i} \cap DOMAIN view.shown)]
  BY DEF Moves
<1>3. "edited" \in DOMAIN view /\ "moved" \in DOMAIN view
  BY DEF IsView
<1>4. /\ DOMAIN Edits(i, view) = DOMAIN view /\ DOMAIN Moves(i, view) = DOMAIN view
  BY <1>1, <1>2
<1>5. /\ Edits(i, view).edited = view.edited \cup ({i} \cap DOMAIN view.shown)
      /\ Moves(i, view).moved = view.moved \cup ({i} \cap DOMAIN view.shown)
  BY <1>1, <1>2, <1>3
<1>6. \A f \in DOMAIN view : f # "edited" => Edits(i, view)[f] = view[f]
  BY <1>1
<1>7. \A f \in DOMAIN view : f # "moved" => Moves(i, view)[f] = view[f]
  BY <1>2
<1>8. "shown" \in DOMAIN view
  BY DEF IsView
<1> HIDE DEF Edits, Moves
<1>9. Grows(view, Edits(i, view))
  BY <1>3, <1>4, <1>5, <1>6, <1>8 DEF Grows
<1>10. Grows(view, Moves(i, view))
  BY <1>3, <1>4, <1>5, <1>7, <1>8 DEF Grows
<1> QED BY <1>5, <1>9, <1>10

(* The views stay views.                                                     *)
LEMMA ViewsGrow ==
    ASSUME ViewsAgree,
           Grows(page, page'),
           promised' = [r \in Runs |-> promised'[r]], \A r \in Runs : Grows(promised[r], promised'[r])
    PROVE  ViewsAgree'
<1>1. IsPage(page')
  BY DEF ViewsAgree, IsPage, IsView, Grows
<1> QED BY <1>1 DEF ViewsAgree, IsView, Grows, IsPage

LEMMA MovesAllGrow ==
    ASSUME ViewsAgree, NEW i, MovesAll(i)
    PROVE  /\ ViewsAgree' /\ Grows(page, page') /\ \A r \in Runs : Grows(promised[r], promised'[r])
           /\ i \in DOMAIN page.shown => i \in page'.moved
           /\ \A r \in Runs : i \in DOMAIN promised[r].shown => i \in promised'[r].moved
<1>1. page' = Moves(i, page) /\ promised' = [r \in Runs |-> Moves(i, promised[r])]
  BY DEF MovesAll
<1>2. IsView(page) /\ \A r \in Runs : IsView(promised[r])
  BY DEF ViewsAgree, IsPage
<1>3. Grows(page, page') /\ (i \in DOMAIN page.shown => i \in page'.moved)
  BY <1>1, <1>2, MarksGrow
<1>4. \A r \in Runs : Grows(promised[r], promised'[r])
                        /\ (i \in DOMAIN promised[r].shown => i \in promised'[r].moved)
  BY <1>1, <1>2, MarksGrow
<1> QED BY <1>1, <1>3, <1>4, ViewsGrow

(* The page stands on, and the promise of a batch under way.                 *)
LEMMA PageKept ==
    ASSUME ViewsAgree, PageStands, Grows(page, page'),
           \A j \in DOMAIN page.shown :
              /\ contact'[j] = contact[j] \/ j \in page'.edited
              /\ SameSkips(status[j], status'[j]) \/ j \in page'.moved
    PROVE  PageStands'
<1> SUFFICES ASSUME NEW j \in DOMAIN page'.shown
             PROVE  Stands(page', j, contact'[j], status'[j], page', {}, Items)
  BY DEF PageStands
<1>1. /\ page'.shown = page.shown /\ page'.channel = page.channel
      /\ page'.onlyFailed = page.onlyFailed
      /\ page.edited \subseteq page'.edited /\ page.moved \subseteq page'.moved
  BY DEF Grows, ViewsAgree, IsPage
<1>2. page.channel \in BatchChannels \ {"none"} /\ page.onlyFailed \in BOOLEAN
  BY <1>1 DEF ViewsAgree, IsPage
<1>3. Stands(page, j, contact[j], status[j], page, {}, Items)
  BY <1>1 DEF PageStands
<1>4. Stands(page', j, contact'[j], status'[j], page, {}, Items)
  BY <1>1, <1>2, <1>3, StandsOn
<1> QED BY <1>1, <1>4 DEF Stands

LEMMA PromiseKept ==
    ASSUME BatchesAgree, NEW r \in Runs, PromiseStands(r),
           InFlight(r)' =>
             /\ InFlight(r) /\ Grows(promised[r], promised'[r])
             /\ batch'[r].channel = batch[r].channel /\ batch'[r].onlyFailed = batch[r].onlyFailed
             /\ tried'[r] = tried[r] /\ Ahead(r) \subseteq Ahead(r)'
             /\ \A j \in DOMAIN promised[r].shown \cap ItemsOf(r) :
                  /\ contact'[j] = contact[j] \/ j \in promised'[r].edited
                  /\ SameSkips(status[j], status'[j]) \/ j \in promised'[r].moved,
           ~InFlight(r)' => tried'[r] = {}
    PROVE  PromiseStands(r)'
<1>1. CASE ~InFlight(r)'
  BY <1>1 DEF PromiseStands
<1>2. CASE InFlight(r)'
  <2> SUFFICES ASSUME NEW j \in DOMAIN promised'[r].shown \cap ItemsOf(r)
               PROVE  Stands(promised'[r], j, contact'[j], status'[j], batch'[r], tried'[r], Ahead(r)')
    BY <1>2 DEF PromiseStands, ItemsOf
  <2>1. /\ promised'[r].shown = promised[r].shown
        /\ promised[r].edited \subseteq promised'[r].edited
        /\ promised[r].moved \subseteq promised'[r].moved
    BY <1>2 DEF Grows
  <2>2. batch[r].channel \in BatchChannels \ {"none"} /\ batch[r].onlyFailed \in BOOLEAN
    BY <1>2 DEF BatchesAgree, InFlight
  <2>3. Stands(promised[r], j, contact[j], status[j], batch[r], tried[r], Ahead(r))
    BY <1>2, <2>1 DEF PromiseStands
  <2>4. Stands(promised'[r], j, contact'[j], status'[j], batch[r], tried[r], Ahead(r)')
    <3> DEFINE open2 == Ahead(r)'
    <3>1. j \in Ahead(r) => j \in open2
      BY <1>2
    <3>2. /\ contact'[j] = contact[j] \/ j \in promised'[r].edited
          /\ SameSkips(status[j], status'[j]) \/ j \in promised'[r].moved
      BY <1>2, <2>1
    <3> HIDE DEF open2
    <3>3. Stands(promised'[r], j, contact'[j], status'[j], batch[r], tried[r], open2)
      BY <2>1, <2>2, <2>3, <3>1, <3>2, StandsOn
    <3> QED BY <3>3 DEF open2
  <2> QED BY <1>2, <2>4 DEF Stands
<1> QED BY <1>1, <1>2

-----------------------------------------------------------------------------
(* Steps on the rows *)

(* What is not changed goes on agreeing.                                     *)
LEMMA Unchanged ==
    ASSUME OutreachInv
    PROVE  /\ UNCHANGED <<contact, rowVars>> => RowsAgree'
           /\ UNCHANGED batchVars => BatchesAgree'
           /\ UNCHANGED <<sweep, status>> => SweepsAgree'
           /\ UNCHANGED <<page, promised>> => ViewsAgree'
<1>1. UNCHANGED <<contact, rowVars>> => RowsAgree'
  BY DEF OutreachInv, rowVars, RowsAgree, RetriesAreOpen, NewestIsOne, KnownHaveRows
<1>2. UNCHANGED batchVars => BatchesAgree'
  BY DEF OutreachInv, batchVars, BatchesAgree, ItemsOf
<1>3. UNCHANGED <<sweep, status>> => SweepsAgree'
  BY DEF OutreachInv, SweepsAgree, Status
<1>4. UNCHANGED <<page, promised>> => ViewsAgree'
  BY DEF OutreachInv, ViewsAgree, IsPage, IsView
<1> QED BY <1>1, <1>2, <1>3, <1>4

(* One row gets a new status, and perhaps another count of attempts.         *)
RowBecomes(i, ch, now) ==
    /\ status' = [status EXCEPT ![i][ch] = now]
    /\ attempts' = attempts \/ \E n \in 0 .. MaxAttempts : attempts' = [attempts EXCEPT ![i][ch] = n]

LEMMA RowOf ==
    ASSUME RowsAgree, NEW i \in Items, NEW ch \in Channels, NEW now \in Statuses, RowBecomes(i, ch, now)
    PROVE  /\ status' \in [Items -> [Channels -> Statuses]]
           /\ attempts' \in [Items -> [Channels -> 0 .. MaxAttempts]]
           /\ status'[i][ch] = now
           /\ \A j \in Items \ {i} : status'[j] = status[j]
           /\ \A j \in Items, c \in Channels : ~(j = i /\ c = ch) =>
                status'[j][c] = status[j][c] /\ attempts'[j][c] = attempts[j][c]
<1>1. /\ status \in [Items -> [Channels -> Statuses]]
      /\ attempts \in [Items -> [Channels -> 0 .. MaxAttempts]]
  BY DEF RowsAgree
<1>2. status' = [status EXCEPT ![i] = [status[i] EXCEPT ![ch] = now]]
  BY DEF RowBecomes
<1>3. /\ status' \in [Items -> [Channels -> Statuses]] /\ status'[i][ch] = now
      /\ \A j \in Items \ {i} : status'[j] = status[j]
      /\ \A j \in Items, c \in Channels : ~(j = i /\ c = ch) => status'[j][c] = status[j][c]
  BY <1>1, <1>2
<1>4. /\ attempts' \in [Items -> [Channels -> 0 .. MaxAttempts]]
      /\ \A j \in Items, c \in Channels : ~(j = i /\ c = ch) => attempts'[j][c] = attempts[j][c]
  <2>1. CASE attempts' = attempts
    BY <1>1, <2>1
  <2>2. ASSUME NEW n \in 0 .. MaxAttempts, attempts' = [attempts EXCEPT ![i][ch] = n]
        PROVE  <1>4!:
    <3>1. attempts' = [attempts EXCEPT ![i] = [attempts[i] EXCEPT ![ch] = n]]
      BY <2>2
    <3> QED BY <1>1, <3>1
  <2> QED BY <2>1, <2>2 DEF RowBecomes
<1> QED BY <1>3, <1>4

(* The row becomes the newest if it is the payslip's first.                  *)
LEMMA RowKept ==
    ASSUME RowsAgree, NEW i \in Items, NEW ch \in Channels, NEW now \in Statuses \ {"none"},
           RowBecomes(i, ch, now), UNCHANGED contact,
           Inserted(i, ch) \/ (newest' = newest /\ status[i][ch] # "none"),
           retry' \subseteq retry \cup {<<i, ch>>}, known' \subseteq known \cup {<<i, ch>>},
           <<i, ch>> \in retry' => \/ now = "sending"
                                   \/ now = "failed" /\ attempts'[i][ch] < MaxAttempts
    PROVE  RowsAgree'
<1>1. /\ status' \in [Items -> [Channels -> Statuses]]
      /\ attempts' \in [Items -> [Channels -> 0 .. MaxAttempts]]
      /\ status'[i][ch] = now
      /\ \A j \in Items \ {i} : status'[j] = status[j]
      /\ \A j \in Items, c \in Channels : ~(j = i /\ c = ch) =>
           status'[j][c] = status[j][c] /\ attempts'[j][c] = attempts[j][c]
  BY RowOf
<1>2. /\ newest \in [Items -> Channels \cup {"none"}]
      /\ retry \subseteq Pairs /\ known \subseteq Pairs
      /\ RetriesAreOpen /\ NewestIsOne /\ KnownHaveRows
      /\ contact \in [Items -> Contacts]
  BY DEF RowsAgree
<1>3. /\ newest' \in [Items -> Channels \cup {"none"}]
      /\ \A j \in Items \ {i} : newest'[j] = newest[j]
      /\ newest'[i] # "none"
  <2>1. CASE status[i][ch] = "none"
    <3>1. newest' = [newest EXCEPT ![i] = ch]
      BY <2>1 DEF Inserted
    <3> QED BY <1>2, <3>1, ChannelsAre
  <2>2. CASE status[i][ch] # "none"
    <3>1. newest' = newest
      BY <2>2 DEF Inserted
    <3>2. newest[i] # "none"
      BY <1>2, <2>2 DEF NewestIsOne
    <3> QED BY <1>2, <3>1, <3>2
  <2> QED BY <2>1, <2>2
<1>4. NewestIsOne'
  BY <1>1, <1>2, <1>3 DEF NewestIsOne
<1>5. retry' \subseteq Pairs /\ known' \subseteq Pairs
  BY <1>2 DEF Pairs
<1>6. RetriesAreOpen'
  <2>1. ASSUME NEW j \in Items, NEW c \in Channels, <<j, c>> \in retry'
        PROVE  \/ status'[j][c] = "sending"
               \/ status'[j][c] = "failed" /\ attempts'[j][c] < MaxAttempts
    <3>1. CASE j = i /\ c = ch
      BY <1>1, <2>1, <3>1
    <3>2. CASE ~(j = i /\ c = ch)
      <4>1. <<j, c>> \in retry
        BY <2>1, <3>2
      <4> QED BY <1>1, <1>2, <3>2, <4>1 DEF RetriesAreOpen
    <3> QED BY <3>1, <3>2
  <2> QED BY <2>1, Zenon DEF RetriesAreOpen
<1>7. KnownHaveRows'
  BY <1>1, <1>2 DEF KnownHaveRows
<1> QED BY <1>1, <1>2, <1>3, <1>4, <1>5, <1>6, <1>7 DEF RowsAgree

(* A row once there stays, so a sweep's rows are rows.                       *)
LEMMA RowsStay ==
    ASSUME RowsAgree, NEW i \in Items, NEW ch \in Channels, NEW now \in Statuses \ {"none"},
           RowBecomes(i, ch, now)
    PROVE  \A p \in Pairs : Status(p) # "none" => Status(p)' # "none"
<1>1. /\ status'[i][ch] = now
      /\ \A j \in Items, c \in Channels : ~(j = i /\ c = ch) => status'[j][c] = status[j][c]
  BY RowOf
<1> QED BY <1>1 DEF Status, Pairs

LEMMA SweepsStay ==
    ASSUME SweepsAgree, UNCHANGED sweep, \A p \in Pairs : Status(p) # "none" => Status(p)' # "none"
    PROVE  SweepsAgree'
<1>1. \A r \in Runs : sweep[r].due \subseteq Pairs
  BY DEF SweepsAgree
<1>2. \A r \in Runs : \A p \in sweep[r].due : RunOf[p[1]] = r /\ Status(p)' # "none"
  BY <1>1 DEF SweepsAgree
<1> QED BY <1>2 DEF SweepsAgree

(* Who has heard of a failure, or will.                                      *)
HeardOf(r, p) ==
    p \in reported \cup silent \cup sweep[r].due \/ p[1] \in tally[r].failed

LEMMA HeardStays ==
    ASSUME FinalFailureIsHeard, \A r \in Runs : FinalPairs(r)' \subseteq FinalPairs(r),
           \A r \in Runs : \A p \in FinalPairs(r) : HeardOf(r, p) => HeardOf(r, p)'
    PROVE  FinalFailureIsHeard'
BY DEF FinalFailureIsHeard, HeardOf

(* A step on one row: the others' failures are final as before, and what     *)
(* becomes of its own is said.                                               *)
LEMMA HeardKept ==
    ASSUME RowsAgree, FinalFailureIsHeard,
           NEW i \in Items, NEW ch \in Channels, NEW now \in Statuses, RowBecomes(i, ch, now),
           retry \ {<<i, ch>>} \subseteq retry',
           reported \ {<<i, ch>>} \subseteq reported', silent \ {<<i, ch>>} \subseteq silent',
           \A r \in Runs : sweep[r].due \subseteq sweep'[r].due
                             /\ tally[r].failed \subseteq tally'[r].failed,
           now = "failed" => <<i, ch>> \in retry' \/ HeardOf(RunOf[i], <<i, ch>>)'
    PROVE  FinalFailureIsHeard'
<1> SUFFICES ASSUME NEW r \in Runs, NEW p \in FinalPairs(r)' PROVE HeardOf(r, p)'
  BY DEF FinalFailureIsHeard, HeardOf
<1>1. /\ status'[i][ch] = now
      /\ \A j \in Items, c \in Channels : ~(j = i /\ c = ch) => status'[j][c] = status[j][c]
  BY RowOf
<1>2. /\ p \in Pairs /\ RunOf[p[1]] = r /\ status'[p[1]][p[2]] = "failed" /\ p \notin retry'
  BY DEF FinalPairs, FailedPairs, Status
<1>3. p[1] \in Items /\ p[2] \in Channels /\ p = <<p[1], p[2]>>
  BY <1>2 DEF Pairs
<1>4. CASE p[1] = i /\ p[2] = ch
  <2>1. now = "failed" /\ p = <<i, ch>>
    BY <1>1, <1>2, <1>3, <1>4
  <2>2. HeardOf(RunOf[i], <<i, ch>>)'
    BY <1>2, <2>1
  <2> QED BY <1>2, <1>4, <2>1, <2>2
<1>5. CASE ~(p[1] = i /\ p[2] = ch)
  <2>1. p # <<i, ch>> /\ status[p[1]][p[2]] = "failed"
    BY <1>1, <1>2, <1>3, <1>5
  <2>2. p \in FinalPairs(r)
    BY <1>2, <2>1 DEF FinalPairs, FailedPairs, Status
  <2>3. HeardOf(r, p)
    BY <2>2 DEF FinalFailureIsHeard, HeardOf
  <2> QED BY <2>1, <2>3 DEF HeardOf
<1> QED BY <1>4, <1>5

-----------------------------------------------------------------------------
(* The operator's steps *)

(* Nothing sent, nothing promised.                                           *)
LEMMA OutreachInitHolds == OutreachInit => OutreachInv
<1> SUFFICES ASSUME OutreachInit PROVE OutreachInv
  OBVIOUS
<1>1. RowsAgree
  BY OutreachBounds, ChannelsAre DEF OutreachInit, RowsAgree, Statuses, RetriesAreOpen, NewestIsOne,
     KnownHaveRows
<1>2. BatchesAgree
  BY DEF OutreachInit, BatchesAgree, BatchStatuses, BatchChannels, NoTally, Counts
<1>3. SweepsAgree
  BY DEF OutreachInit, SweepsAgree, NoSweep
<1>4. ViewsAgree
  BY DEF OutreachInit, ViewsAgree, IsPage, IsView, NoPage, Shown, BatchChannels
<1>5. FinalFailureIsHeard
  BY DEF OutreachInit, FinalFailureIsHeard, FinalPairs, FailedPairs, Status, Pairs
<1>6. PageStands /\ \A r \in Runs : PromiseStands(r)
  BY DEF OutreachInit, PageStands, PromiseStands, InFlight, NoPage
<1> QED BY <1>1, <1>2, <1>3, <1>4, <1>5, <1>6 DEF OutreachInv

(* The confirm page is made from the rows as they are; the batches under way *)
(* keep what they promised.                                                  *)
LEMMA ShowsStep ==
    ASSUME OutreachInv, NEW rs \in SUBSET Runs, NEW way \in BatchChannels \ {"none"},
           NEW only \in BOOLEAN, NEW later \in BOOLEAN, Shows(rs, way, only, later)
    PROVE  OutreachInv'
<1> DEFINE I == {j \in Items : RunOf[j] \in rs}
<1>1. /\ page' = [runs |-> rs, channel |-> way, onlyFailed |-> only, later |-> later,
                  shown |-> [i \in I |-> Category(i, way, only)], edited |-> {}, moved |-> {}]
      /\ UNCHANGED <<contact, rowVars, batchVars, sweep, promised, noticeVars>>
  BY DEF Shows
<1>2. /\ page'.runs = rs /\ page'.channel = way /\ page'.onlyFailed = only
      /\ DOMAIN page'.shown = I /\ \A i \in I : page'.shown[i] = Category(i, way, only)
      /\ {"runs", "channel", "onlyFailed", "later", "shown", "edited", "moved"} \subseteq DOMAIN page'
  BY <1>1
<1>3. I \subseteq Items
  OBVIOUS
<1> HIDE DEF I
<1>4. ViewsAgree'
  <2>1. IsPage(page')
    BY <1>2, <1>3 DEF IsPage, IsView
  <2> QED BY <1>1, <2>1 DEF OutreachInv, ViewsAgree
<1>5. PageStands'
  <2> SUFFICES ASSUME NEW i \in I
               PROVE  Stands(page', i, contact[i], status[i], page', {}, Items)
    BY <1>1, <1>2 DEF PageStands, rowVars
  <2> DEFINE view == page'
  <2>1. view.shown[i] = Category(i, view.channel, view.onlyFailed)
    BY <1>2
  <2> HIDE DEF view
  <2>2. Stands(view, i, contact[i], status[i], view, {}, Items) \/ i \notin Items
    BY <2>1, CategoryStands
  <2> QED BY <1>3, <2>2 DEF view
<1>6. \A r \in Runs : PromiseStands(r)'
  BY <1>1 DEF OutreachInv, PromiseStands, InFlight, Ahead, ItemsOf, rowVars, batchVars
<1>7. FinalFailureIsHeard'
  BY <1>1 DEF OutreachInv, FinalFailureIsHeard, FinalPairs, FailedPairs, Status, rowVars, batchVars,
     noticeVars
<1>8. RowsAgree' /\ BatchesAgree' /\ SweepsAgree'
  BY <1>1, Unchanged DEF rowVars
<1> QED BY <1>4, <1>5, <1>6, <1>7, <1>8 DEF OutreachInv

(* The button of the page, or a send without one: batches are queued for     *)
(* runs that have none under way, with what the page showed or with nothing. *)
Queues(rs, way, only, later, what) ==
    /\ Enqueued(rs, way, only, later, what) /\ \A r \in rs : ~InFlight(r)
    /\ \/ what.shown = <<>> /\ IsView(what) /\ page' = page
       \/ /\ what.shown = page.shown /\ what.edited = page.edited /\ what.moved = page.moved
          /\ IsView(what) /\ way = page.channel /\ only = page.onlyFailed
          /\ page' = NoPage

(* Queueing hands the page's promises to batches of runs that had none.      *)
LEMMA EnqueueStep ==
    ASSUME OutreachInv,
           \/ PostConfirmed
           \/ \E r \in Runs, way \in {"email", "whatsapp"}, action \in CONFIRM_ACTIONS :
                 PostDirect(r, way, action)
    PROVE  OutreachInv'
<1>0. \E rs \in SUBSET Runs, way \in BatchChannels \ {"none"}, only \in BOOLEAN :
        \E later, what : Queues(rs, way, only, later, what)
  <2>1. CASE PostConfirmed
    <3> DEFINE rs == {r \in page.runs : ~InFlight(r)}
               what == [shown |-> page.shown, edited |-> page.edited, moved |-> page.moved]
    <3>1. rs \in SUBSET Runs /\ page.channel \in BatchChannels \ {"none"} /\ page.onlyFailed \in BOOLEAN
      BY <2>1 DEF PostConfirmed, OutreachInv, ViewsAgree, IsPage
    <3>2. Queues(rs, page.channel, page.onlyFailed, page.later, what)
      BY <2>1 DEF PostConfirmed, Queues, IsView
    <3> HIDE DEF rs, what
    <3> QED BY <3>1, <3>2, Zenon
  <2>2. ASSUME NEW r \in Runs, NEW way \in {"email", "whatsapp"}, NEW action \in CONFIRM_ACTIONS,
               PostDirect(r, way, action)
        PROVE  <1>0!:
    <3> DEFINE only == action = "resend"
               later == action = "schedule"
    <3>1. {r} \in SUBSET Runs /\ way \in BatchChannels \ {"none"} /\ only \in BOOLEAN
      BY DEF BatchChannels
    <3>2. Queues({r}, way, only, later, Shown(<<>>))
      BY <2>2 DEF PostDirect, Queues, Shown, IsView
    <3> HIDE DEF only, later
    <3> QED BY <3>1, <3>2, Zenon
  <2> QED BY <2>1, <2>2
<1>a. PICK rs \in SUBSET Runs, way \in BatchChannels \ {"none"}, only \in BOOLEAN :
        \E later, what : Queues(rs, way, only, later, what)
  BY <1>0
<1>b. PICK later, what : Queues(rs, way, only, later, what)
  BY <1>a
<1>1. /\ Enqueued(rs, way, only, later, what) /\ \A r \in rs : ~InFlight(r)
      /\ \/ what.shown = <<>> /\ page' = page
         \/ /\ what.shown = page.shown /\ what.edited = page.edited /\ what.moved = page.moved
            /\ way = page.channel /\ only = page.onlyFailed
            /\ page' = NoPage
      /\ IsView(what)
      /\ UNCHANGED <<contact, rowVars, todo, tally, tried, sweep, noticeVars>>
  BY <1>b DEF Queues, Enqueued
<1>2. /\ \A r \in rs : /\ batch'[r].status \in {"scheduled", "queued"} /\ batch'[r].channel = way
                       /\ batch'[r].onlyFailed = only /\ promised'[r] = what
                       /\ batch'[r] \in [status : BatchStatuses, channel : BatchChannels,
                                         onlyFailed : BOOLEAN]
      /\ \A r \in Runs \ rs : batch'[r] = batch[r] /\ promised'[r] = promised[r]
      /\ batch' = [r \in Runs |-> batch'[r]] /\ promised' = [r \in Runs |-> promised'[r]]
  BY <1>1 DEF Enqueued, BatchStatuses
<1>3. BatchesAgree'
  <2>1. batch' \in [Runs -> [status : BatchStatuses, channel : BatchChannels, onlyFailed : BOOLEAN]]
    BY <1>2 DEF OutreachInv, BatchesAgree
  <2>2. \A r \in Runs : batch'[r].status # "none" => batch'[r].channel # "none"
    BY <1>2 DEF OutreachInv, BatchesAgree
  <2> QED BY <1>1, <2>1, <2>2 DEF OutreachInv, BatchesAgree, ItemsOf
<1>4. ViewsAgree'
  <2>1. IsPage(page')
    <3>1. CASE page' = page
      BY <3>1 DEF OutreachInv, ViewsAgree, IsPage, IsView
    <3>2. CASE page' = NoPage
      BY <3>2 DEF NoPage, BatchChannels, IsPage, IsView
    <3> QED BY <1>1, <3>1, <3>2
  <2>2. \A r \in Runs : IsView(promised'[r])
    BY <1>1, <1>2 DEF OutreachInv, ViewsAgree
  <2> QED BY <1>2, <2>1, <2>2 DEF ViewsAgree
<1>5. PageStands'
  BY <1>1 DEF OutreachInv, PageStands, NoPage, rowVars, Stands
<1>6. ASSUME NEW r \in rs PROVE PromiseStands(r)'
  <2>1. tried'[r] = {} /\ InFlight(r)' /\ Ahead(r)' = ItemsOf(r)
    BY <1>1, <1>2 DEF OutreachInv, PromiseStands, InFlight, Ahead, ItemsOf
  <2>2. ASSUME NEW j \in DOMAIN what.shown \cap ItemsOf(r)
        PROVE  Stands(what, j, contact[j], status[j], batch'[r], {}, ItemsOf(r))
    <3>1. /\ what.shown = page.shown /\ what.edited = page.edited /\ what.moved = page.moved
          /\ batch'[r].channel = page.channel /\ batch'[r].onlyFailed = page.onlyFailed
      BY <1>1, <1>2, <2>2
    <3>2. Stands(page, j, contact[j], status[j], page, {}, Items)
      BY <3>1 DEF OutreachInv, PageStands
    <3> QED BY <3>1, <3>2 DEF Stands
  <2>3. promised'[r] = what /\ contact' = contact /\ status' = status
    BY <1>1, <1>2 DEF rowVars
  <2> QED BY <2>1, <2>2, <2>3 DEF PromiseStands, ItemsOf
<1>7. ASSUME NEW r \in Runs \ rs PROVE PromiseStands(r)'
  <2>1. /\ batch'[r] = batch[r] /\ promised'[r] = promised[r] /\ tried'[r] = tried[r]
        /\ todo'[r] = todo[r] /\ contact' = contact /\ status' = status
    BY <1>1, <1>2 DEF rowVars
  <2> QED BY <2>1 DEF OutreachInv, PromiseStands, InFlight, Ahead, ItemsOf
<1>8. FinalFailureIsHeard'
  BY <1>1 DEF OutreachInv, FinalFailureIsHeard, FinalPairs, FailedPairs, Status, rowVars, noticeVars
<1>9. RowsAgree' /\ SweepsAgree'
  BY <1>1, Unchanged DEF rowVars
<1> QED BY <1>3, <1>4, <1>5, <1>6, <1>7, <1>8, <1>9 DEF OutreachInv

(* An operator settles an unconfirmed send, and so knows of it; a report     *)
(* makes a failure nobody hears of.                                          *)
LEMMA SettleStep ==
    ASSUME OutreachInv, NEW i \in Items, NEW ch \in Channels,
           ReportFails(i, ch) \/ \E sent \in BOOLEAN : Settle(i, ch, sent)
    PROVE  OutreachInv'
<1>1. PICK now \in {"sent", "failed"} :
        /\ status' = [status EXCEPT ![i][ch] = now] /\ status[i][ch] # "none"
        /\ retry' = retry \ {<<i, ch>>} /\ MovesAll(i)
        /\ reported \subseteq reported' /\ silent \subseteq silent'
        /\ now = "failed" => <<i, ch>> \in reported' \cup silent'
        /\ UNCHANGED <<contact, attempts, known, newest, batchVars, sweep>>
  <2>1. CASE ReportFails(i, ch)
    BY <2>1 DEF ReportFails, OutreachInv, RowsAgree, KnownHaveRows
  <2>2. CASE \E sent \in BOOLEAN : Settle(i, ch, sent)
    BY <2>2 DEF Settle
  <2> QED BY <2>1, <2>2
<1>2. RowBecomes(i, ch, now) /\ now \in Statuses \ {"none"}
  BY <1>1 DEF RowBecomes, Statuses
<1>3. /\ RowsAgree /\ SweepsAgree /\ ViewsAgree /\ BatchesAgree /\ FinalFailureIsHeard
      /\ PageStands /\ \A r \in Runs : PromiseStands(r)
  BY DEF OutreachInv
<1>4. RowsAgree'
  BY <1>1, <1>2, <1>3, RowKept
<1>5. SweepsAgree'
  BY <1>1, <1>2, <1>3, RowsStay, SweepsStay
<1>6. BatchesAgree'
  BY <1>1, Unchanged
<1>7. FinalFailureIsHeard'
  BY <1>1, <1>2, <1>3, HeardKept DEF HeardOf, batchVars
<1>8. /\ ViewsAgree' /\ Grows(page, page') /\ \A r \in Runs : Grows(promised[r], promised'[r])
      /\ i \in DOMAIN page.shown => i \in page'.moved
      /\ \A r \in Runs : i \in DOMAIN promised[r].shown => i \in promised'[r].moved
  BY <1>1, <1>3, MovesAllGrow
<1>9. \A j \in Items : SameSkips(status[j], status'[j]) \/ j = i
  BY <1>2, <1>3, RowOf DEF SameSkips
<1>10. PageStands'
  BY <1>1, <1>3, <1>8, <1>9, PageKept DEF ViewsAgree, IsPage
<1>11. \A r \in Runs : PromiseStands(r)'
  <2> TAKE r \in Runs
  <2>1. /\ batch' = batch /\ todo' = todo /\ tried' = tried /\ contact' = contact
        /\ Ahead(r)' = Ahead(r) /\ InFlight(r)' = InFlight(r)
    BY <1>1 DEF batchVars, Ahead, InFlight, ItemsOf
  <2>2. PromiseStands(r) /\ (~InFlight(r) => tried[r] = {})
    BY <1>3 DEF PromiseStands
  <2>3. \A j \in DOMAIN promised[r].shown \cap ItemsOf(r) :
          SameSkips(status[j], status'[j]) \/ j \in promised'[r].moved
    BY <1>8, <1>9 DEF ItemsOf
  <2> QED BY <1>3, <1>8, <2>1, <2>2, <2>3, PromiseKept
<1> QED BY <1>4, <1>5, <1>6, <1>7, <1>8, <1>10, <1>11 DEF OutreachInv

(* A contact is edited.                                                      *)
LEMMA EditStep ==
    ASSUME OutreachInv, NEW i \in Items, NEW c \in Contacts, EditContact(i, c) PROVE OutreachInv'
<1>1. /\ contact' = [contact EXCEPT ![i] = c]
      /\ page' = Edits(i, page) /\ promised' = [r \in Runs |-> Edits(i, promised[r])]
      /\ UNCHANGED <<rowVars, batchVars, sweep, noticeVars>>
  BY DEF EditContact
<1>2. /\ RowsAgree /\ SweepsAgree /\ ViewsAgree /\ BatchesAgree /\ FinalFailureIsHeard
      /\ PageStands /\ \A r \in Runs : PromiseStands(r)
  BY DEF OutreachInv
<1>3. contact' \in [Items -> Contacts] /\ \A j \in Items \ {i} : contact'[j] = contact[j]
  BY <1>1, <1>2 DEF RowsAgree
<1>4. RowsAgree'
  BY <1>1, <1>2, <1>3 DEF RowsAgree, RetriesAreOpen, NewestIsOne, KnownHaveRows, rowVars
<1>5. BatchesAgree' /\ SweepsAgree'
  BY <1>1, Unchanged DEF rowVars
<1>6. FinalFailureIsHeard'
  BY <1>1, <1>2 DEF FinalFailureIsHeard, FinalPairs, FailedPairs, Status, rowVars, batchVars, noticeVars
<1>7. /\ IsView(page) /\ \A r \in Runs : IsView(promised[r])
  BY <1>2 DEF ViewsAgree, IsPage
<1>8. Grows(page, page') /\ (i \in DOMAIN page.shown => i \in page'.edited)
  BY <1>1, <1>7, MarksGrow
<1>9. \A r \in Runs : Grows(promised[r], promised'[r])
                        /\ (i \in DOMAIN promised[r].shown => i \in promised'[r].edited)
  BY <1>1, <1>7, MarksGrow
<1>10. ViewsAgree'
  BY <1>1, <1>2, <1>8, <1>9, ViewsGrow
<1>11. \A j \in Items : SameSkips(status[j], status'[j])
  BY <1>1 DEF SameSkips, rowVars
<1>12. PageStands'
  BY <1>2, <1>3, <1>8, <1>11, PageKept DEF ViewsAgree, IsPage
<1>13. \A r \in Runs : PromiseStands(r)'
  <2> TAKE r \in Runs
  <2>1. /\ batch' = batch /\ todo' = todo /\ tried' = tried
        /\ Ahead(r)' = Ahead(r) /\ InFlight(r)' = InFlight(r)
    BY <1>1 DEF batchVars, Ahead, InFlight, ItemsOf
  <2>2. PromiseStands(r) /\ (~InFlight(r) => tried[r] = {})
    BY <1>2 DEF PromiseStands
  <2>3. \A j \in DOMAIN promised[r].shown \cap ItemsOf(r) :
          /\ SameSkips(status[j], status'[j])
          /\ contact'[j] = contact[j] \/ j \in promised'[r].edited
    BY <1>3, <1>9, <1>11 DEF ItemsOf
  <2> QED BY <1>2, <1>9, <2>1, <2>2, <2>3, PromiseKept
<1> QED BY <1>4, <1>5, <1>6, <1>10, <1>12, <1>13 DEF OutreachInv

-----------------------------------------------------------------------------
(* The worker's steps *)

(* A schedule comes due; a batch starts with all its payslips to do.         *)
LEMMA StartStep ==
    ASSUME OutreachInv, NEW r \in Runs, Activate(r) \/ StartBatch(r) PROVE OutreachInv'
<1>1. PICK now \in {"queued", "running"} :
        /\ batch' = [batch EXCEPT ![r].status = now] /\ batch[r].status \in {"scheduled", "queued"}
        /\ now = "queued" => todo' = todo
        /\ now = "running" => todo' = [todo EXCEPT ![r] = ItemsOf(r)]
        /\ UNCHANGED <<contact, rowVars, tally, tried, sweep, page, promised, noticeVars>>
  BY DEF Activate, StartBatch, Becomes
<1>2. /\ RowsAgree /\ SweepsAgree /\ ViewsAgree /\ BatchesAgree /\ FinalFailureIsHeard
      /\ PageStands /\ \A q \in Runs : PromiseStands(q)
  BY DEF OutreachInv
<1>3. /\ batch \in [Runs -> [status : BatchStatuses, channel : BatchChannels, onlyFailed : BOOLEAN]]
      /\ todo \in [Runs -> SUBSET Items]
  BY <1>2 DEF BatchesAgree
<1>4. /\ batch' \in [Runs -> [status : BatchStatuses, channel : BatchChannels, onlyFailed : BOOLEAN]]
      /\ batch'[r].status = now /\ batch'[r].channel = batch[r].channel
      /\ batch'[r].onlyFailed = batch[r].onlyFailed
      /\ \A q \in Runs \ {r} : batch'[q] = batch[q]
  BY <1>1, <1>3 DEF BatchStatuses
<1>5. /\ todo' \in [Runs -> SUBSET Items] /\ \A q \in Runs \ {r} : todo'[q] = todo[q]
      /\ todo'[r] = IF now = "running" THEN ItemsOf(r) ELSE todo[r]
  <2>1. ItemsOf(r) \in SUBSET Items
    BY DEF ItemsOf
  <2> QED BY <1>1, <1>3, <2>1
<1>6. BatchesAgree'
  <2>1. \A q \in Runs : batch'[q].status # "none" => batch'[q].channel # "none"
    BY <1>1, <1>2, <1>4 DEF BatchesAgree
  <2>2. \A q \in Runs : todo'[q] \subseteq ItemsOf(q)
    BY <1>2, <1>5 DEF BatchesAgree
  <2> QED BY <1>1, <1>2, <1>4, <1>5, <2>1, <2>2 DEF BatchesAgree, ItemsOf
<1>7. \A q \in Runs : PromiseStands(q)'
  <2> TAKE q \in Runs
  <2>1. InFlight(q)' = InFlight(q) /\ tried' = tried /\ contact' = contact /\ status' = status
        /\ promised' = promised /\ batch'[q].channel = batch[q].channel
        /\ batch'[q].onlyFailed = batch[q].onlyFailed
    BY <1>1, <1>4 DEF InFlight, rowVars
  <2>2. Ahead(q)' = Ahead(q)
    BY <1>1, <1>4, <1>5 DEF Ahead, ItemsOf
  <2>3. PromiseStands(q)
    BY <1>2
  <2>4. Grows(promised[q], promised'[q]) /\ \A j \in Items : SameSkips(status[j], status'[j])
    BY <2>1 DEF Grows, SameSkips
  <2>5. ~InFlight(q) => tried[q] = {}
    BY <2>3 DEF PromiseStands
  <2>6. \A j \in ItemsOf(q) : j \in Items
    BY DEF ItemsOf
  <2> QED BY <1>2, <2>1, <2>2, <2>3, <2>4, <2>5, <2>6, PromiseKept
<1>8. FinalFailureIsHeard'
  BY <1>1, <1>2 DEF FinalFailureIsHeard, FinalPairs, FailedPairs, Status, rowVars, noticeVars
<1>9. PageStands'
  BY <1>1, <1>2 DEF PageStands, rowVars
<1>10. RowsAgree' /\ SweepsAgree' /\ ViewsAgree'
  BY <1>1, Unchanged DEF rowVars
<1> QED BY <1>6, <1>7, <1>8, <1>9, <1>10 DEF OutreachInv

(* A recorded outcome is a step on one row, with a retry or without.         *)
LEMMA CappedIs ==
    ASSUME RowsAgree, NEW i \in Items, NEW ch \in Channels
    PROVE  Capped(attempts[i][ch]) \in 0 .. MaxAttempts
BY OutreachBounds DEF RowsAgree, Capped

Verdict(outcome) == IF outcome \in {"sent", "unknown"} THEN outcome ELSE "failed"

LEMMA RecordedIs ==
    ASSUME RowsAgree, NEW i \in Items, NEW ch \in Channels, NEW outcome \in Outcomes,
           NEW n \in 0 .. MaxAttempts, Recorded(i, ch, outcome, n)
    PROVE  /\ Verdict(outcome) \in Statuses \ {"none"}
           /\ RowBecomes(i, ch, Verdict(outcome))
           /\ retry' \subseteq retry \cup {<<i, ch>>} /\ retry \ {<<i, ch>>} \subseteq retry'
           /\ known' \subseteq known \cup {<<i, ch>>}
           /\ <<i, ch>> \in retry' => Verdict(outcome) = "failed" /\ attempts'[i][ch] < MaxAttempts
           /\ reported' = reported \ {<<i, ch>>} /\ silent' = silent \ {<<i, ch>>}
<1>1. Verdict(outcome) \in Statuses \ {"none"}
  BY DEF Verdict, Outcomes, Statuses
<1>2. /\ status' = [status EXCEPT ![i][ch] = Verdict(outcome)]
      /\ attempts' = [attempts EXCEPT ![i][ch] = n]
      /\ retry' = IF outcome = "retryable" /\ n < MaxAttempts THEN retry \cup {<<i, ch>>}
                                                             ELSE retry \ {<<i, ch>>}
      /\ known' \subseteq known \cup {<<i, ch>>}
      /\ reported' = reported \ {<<i, ch>>} /\ silent' = silent \ {<<i, ch>>}
  BY DEF Recorded, Verdict
<1>3. attempts'[i][ch] = n
  <2>1. attempts' = [attempts EXCEPT ![i] = [attempts[i] EXCEPT ![ch] = n]]
    BY <1>2
  <2> QED BY <2>1 DEF RowsAgree
<1>4. RowBecomes(i, ch, Verdict(outcome))
  BY <1>2 DEF RowBecomes
<1>5. outcome = "retryable" => Verdict(outcome) = "failed"
  BY DEF Verdict
<1> QED BY <1>1, <1>2, <1>3, <1>4, <1>5

(* The channel a batch sends a payslip over.                                 *)
LEMMA SentOver ==
    ASSUME BatchesAgree, NEW r \in Runs, batch[r].status = "running", NEW i \in Items
    PROVE  /\ ChannelOf(i, batch[r].channel) \in Channels
           /\ ChannelOf(i, batch[r].channel) = PlaceOf(contact[i], batch[r].channel)
           /\ SkippedNow(i, ChannelOf(i, batch[r].channel), batch[r].onlyFailed)
                <=> Skips(status[i], PlaceOf(contact[i], batch[r].channel), batch[r].onlyFailed)
           /\ batch[r].channel # "auto" => PlaceOf(contact[i], batch[r].channel) = batch[r].channel
<1>1. batch[r].channel \in {"sms", "auto", "email", "whatsapp"}
  BY DEF BatchesAgree, BatchChannels
<1>2. ChannelOf(i, batch[r].channel) \in Channels
  BY <1>1, ResolvesToChannel, ChannelsAre DEF ChannelOf
<1>3. ChannelOf(i, batch[r].channel) = PlaceOf(contact[i], batch[r].channel)
  BY DEF ChannelOf, PlaceOf
<1> QED BY <1>2, <1>3 DEF SkippedNow, Skips, PlaceOf

(* What a batch does with a payslip is what was shown of it.                 *)
LEMMA TriedAsShown ==
    ASSUME NEW view, NEW i, NEW c, NEW row, NEW row2, NEW b, NEW gone, NEW gone2, NEW open, NEW open2,
           Stands(view, i, c, row, b, gone, open),
           ~Skips(row, PlaceOf(c, b.channel), b.onlyFailed),
           i \in gone2 <=> i \in gone \/ ContactFor(PlaceOf(c, b.channel), c) # <<>>
    PROVE  Stands(view, i, c, row2, b, gone2, open2)
<1>1. b.channel # "auto" => PlaceOf(c, b.channel) = b.channel
  BY DEF PlaceOf
<1>2. WouldReach(c, row, b.channel, b.onlyFailed) <=> ContactFor(PlaceOf(c, b.channel), c) # <<>>
  BY DEF WouldReach
<1>3. WouldReach(c, row2, b.channel, b.onlyFailed) => ContactFor(PlaceOf(c, b.channel), c) # <<>>
  BY DEF WouldReach
<1> HIDE DEF WouldReach
<1> QED BY <1>1, <1>2, <1>3 DEF Stands

LEMMA SkippedAsShown ==
    ASSUME NEW view, NEW i, NEW c, NEW row, NEW b, NEW gone, NEW open, NEW open2,
           Stands(view, i, c, row, b, gone, open),
           Skips(row, PlaceOf(c, b.channel), b.onlyFailed)
    PROVE  Stands(view, i, c, row, b, gone, open2)
<1>1. ~WouldReach(c, row, b.channel, b.onlyFailed)
  BY DEF WouldReach
<1> HIDE DEF WouldReach
<1> QED BY <1>1 DEF Stands

(* The other payslips' rows and contacts stay, and so do the views of them.  *)
LEMMA OwnPageKept ==
    ASSUME ViewsAgree, PageStands, NEW i \in Items, UNCHANGED <<contact, promised>>,
           page' = Moves(i, page), \A j \in Items \ {i} : status'[j] = status[j]
    PROVE  PageStands' /\ ViewsAgree'
<1>1. IsView(page) /\ DOMAIN page.shown \subseteq Items
  BY DEF ViewsAgree, IsPage
<1>2. Grows(page, page') /\ (i \in DOMAIN page.shown => i \in page'.moved)
  BY <1>1, MarksGrow
<1>3. \A j \in DOMAIN page.shown : SameSkips(status[j], status'[j]) \/ j \in page'.moved
  BY <1>1, <1>2 DEF SameSkips
<1>4. PageStands'
  BY <1>2, <1>3, PageKept
<1>5. \A r \in Runs : Grows(promised[r], promised'[r])
  BY DEF Grows
<1> QED BY <1>2, <1>4, <1>5, ViewsGrow DEF ViewsAgree

LEMMA OthersPromise ==
    ASSUME BatchesAgree, NEW q \in Runs, PromiseStands(q),
           promised'[q] = promised[q], batch'[q] = batch[q], todo'[q] = todo[q], tried'[q] = tried[q],
           UNCHANGED contact, \A j \in ItemsOf(q) : status'[j] = status[j]
    PROVE  PromiseStands(q)'
<1>1. Grows(promised[q], promised'[q]) /\ Ahead(q)' = Ahead(q) /\ InFlight(q)' = InFlight(q)
  BY DEF Grows, Ahead, ItemsOf, InFlight
<1>2. \A j \in DOMAIN promised[q].shown \cap ItemsOf(q) : SameSkips(status[j], status'[j])
  BY DEF SameSkips
<1>3. ~InFlight(q) => tried[q] = {}
  BY DEF PromiseStands
<1> QED BY <1>1, <1>2, <1>3, PromiseKept

(* The send loop does with a payslip what a send would do, and keeps its     *)
(* count.                                                                    *)
LEMMA SendOneStep ==
    ASSUME OutreachInv, NEW r \in Runs, NEW i \in Items, NEW outcome \in Outcomes,
           SendOne(r, i, outcome)
    PROVE  OutreachInv'
<1> DEFINE ch == ChannelOf(i, batch[r].channel)
           skipped == SkippedNow(i, ch, batch[r].onlyFailed)
           reached == ReachedBy(r, i)
           n == Capped(attempts[i][ch])
<1>1. /\ batch[r].status = "running" /\ i \in todo[r]
      /\ todo' = [todo EXCEPT ![r] = @ \ {i}]
      /\ page' = Moves(i, page)
      /\ UNCHANGED <<contact, batch, promised, sweep, requests>>
  BY DEF SendOne
<1>2. skipped => /\ tally' = [tally EXCEPT ![r].skipped = @ \cup {i}]
                 /\ UNCHANGED <<rowVars, tried, noticeVars>>
  BY DEF SendOne
<1>3. ~skipped => /\ Recorded(i, ch, outcome, n) /\ Inserted(i, ch)
                  /\ tried' = IF reached THEN [tried EXCEPT ![r] = @ \cup {i}] ELSE tried
                  /\ tally' = CASE outcome = "sent" -> [tally EXCEPT ![r].sent = @ \cup {i}]
                                [] outcome = "unknown" -> [tally EXCEPT ![r].unknown = @ \cup {i}]
                                [] OTHER -> [tally EXCEPT ![r].failed = @ \cup {i}]
  BY DEF SendOne
<1>4. /\ RowsAgree /\ SweepsAgree /\ ViewsAgree /\ BatchesAgree /\ FinalFailureIsHeard
      /\ PageStands /\ \A q \in Runs : PromiseStands(q)
  BY DEF OutreachInv
<1>5. RunOf[i] = r
  BY <1>1, <1>4 DEF BatchesAgree, ItemsOf
<1>6. /\ ch \in Channels /\ n \in 0 .. MaxAttempts
      /\ skipped <=> Skips(status[i], PlaceOf(contact[i], batch[r].channel), batch[r].onlyFailed)
      /\ reached <=> ContactFor(PlaceOf(contact[i], batch[r].channel), contact[i]) # <<>>
  BY <1>1, <1>4, SentOver, CappedIs DEF ReachedBy
<1> HIDE DEF ch, skipped, reached, n
<1>7. ~skipped => /\ Verdict(outcome) \in Statuses \ {"none"} /\ RowBecomes(i, ch, Verdict(outcome))
                  /\ retry' \subseteq retry \cup {<<i, ch>>} /\ retry \ {<<i, ch>>} \subseteq retry'
                  /\ known' \subseteq known \cup {<<i, ch>>}
                  /\ <<i, ch>> \in retry' => Verdict(outcome) = "failed" /\ attempts'[i][ch] < MaxAttempts
                  /\ reported' = reported \ {<<i, ch>>} /\ silent' = silent \ {<<i, ch>>}
  BY <1>3, <1>4, <1>6, RecordedIs
<1>8. /\ todo \in [Runs -> SUBSET Items] /\ tried \in [Runs -> SUBSET Items]
      /\ tally \in [Runs -> Counts]
  BY <1>4 DEF BatchesAgree
<1>9. /\ todo' \in [Runs -> SUBSET Items] /\ todo'[r] = todo[r] \ {i}
      /\ \A q \in Runs \ {r} : todo'[q] = todo[q]
  BY <1>1, <1>8
<1>10. /\ tried' \in [Runs -> SUBSET Items]
       /\ \A q \in Runs \ {r} : tried'[q] = tried[q]
       /\ tried'[r] = IF ~skipped /\ reached THEN tried[r] \cup {i} ELSE tried[r]
  <2>1. CASE ~skipped /\ reached
    BY <1>3, <1>8, <2>1
  <2>2. CASE skipped \/ ~reached
    BY <1>2, <1>3, <1>8, <2>2
  <2> QED BY <2>1, <2>2
<1>11. /\ tally' \in [Runs -> Counts]
       /\ \A q \in Runs : tally[q].failed \subseteq tally'[q].failed
       /\ ~skipped /\ Verdict(outcome) = "failed" => i \in tally'[r].failed
  <2>1. CASE skipped
    <3>1. tally' = [tally EXCEPT ![r].skipped = @ \cup {i}]
      BY <1>2, <2>1
    <3>2. tally' \in [Runs -> Counts] /\ \A q \in Runs : tally[q].failed \subseteq tally'[q].failed
      BY <1>8, <3>1 DEF Counts
    <3> QED BY <2>1, <3>2
  <2>2. CASE ~skipped /\ outcome = "sent"
    <3>1. tally' = [tally EXCEPT ![r].sent = @ \cup {i}]
      BY <1>3, <2>2
    <3>2. tally' \in [Runs -> Counts] /\ \A q \in Runs : tally[q].failed \subseteq tally'[q].failed
      BY <1>8, <3>1 DEF Counts
    <3> QED BY <2>2, <3>2 DEF Verdict
  <2>3. CASE ~skipped /\ outcome = "unknown"
    <3>1. tally' = [tally EXCEPT ![r].unknown = @ \cup {i}]
      BY <1>3, <2>3
    <3>2. tally' \in [Runs -> Counts] /\ \A q \in Runs : tally[q].failed \subseteq tally'[q].failed
      BY <1>8, <3>1 DEF Counts
    <3> QED BY <2>3, <3>2 DEF Verdict
  <2>4. CASE ~skipped /\ outcome \notin {"sent", "unknown"}
    <3>1. tally' = [tally EXCEPT ![r].failed = @ \cup {i}]
      BY <1>3, <2>4
    <3> QED BY <1>8, <3>1 DEF Counts
  <2> QED BY <2>1, <2>2, <2>3, <2>4
<1>12. BatchesAgree'
  BY <1>1, <1>4, <1>8, <1>9, <1>10, <1>11 DEF BatchesAgree, ItemsOf
<1>13. \A j \in Items \ {i} : status'[j] = status[j]
  <2>1. CASE skipped
    BY <1>2, <2>1 DEF rowVars
  <2>2. CASE ~skipped
    BY <1>4, <1>6, <1>7, <2>2, RowOf
  <2> QED BY <2>1, <2>2
<1>14. RowsAgree' /\ SweepsAgree' /\ FinalFailureIsHeard'
  <2>1. CASE skipped
    <3>1. RowsAgree' /\ SweepsAgree'
      BY <1>1, <1>2, <2>1, Unchanged DEF rowVars
    <3>2. \A q \in Runs : FinalPairs(q)' = FinalPairs(q)
      BY <1>2, <2>1 DEF FinalPairs, FailedPairs, Status, rowVars
    <3>3. \A q \in Runs : \A p : HeardOf(q, p) => HeardOf(q, p)'
      BY <1>1, <1>2, <1>11, <2>1 DEF HeardOf, noticeVars
    <3> QED BY <1>4, <3>1, <3>2, <3>3, HeardStays
  <2>2. CASE ~skipped
    <3>1. RowsAgree'
      BY <1>1, <1>3, <1>4, <1>6, <1>7, <2>2, RowKept
    <3>2. SweepsAgree'
      BY <1>1, <1>4, <1>6, <1>7, <2>2, RowsStay, SweepsStay
    <3>3. FinalFailureIsHeard'
      BY <1>1, <1>4, <1>5, <1>6, <1>7, <1>11, <2>2, HeardKept DEF HeardOf, Statuses
    <3> QED BY <3>1, <3>2, <3>3
  <2> QED BY <2>1, <2>2
<1>15. PageStands' /\ ViewsAgree'
  BY <1>1, <1>4, <1>13, OwnPageKept
<1>16. ASSUME NEW q \in Runs \ {r} PROVE PromiseStands(q)'
  <2>1. \A j \in ItemsOf(q) : status'[j] = status[j]
    BY <1>5, <1>13 DEF ItemsOf
  <2> QED BY <1>1, <1>4, <1>9, <1>10, <2>1, OthersPromise
<1>17. PromiseStands(r)'
  <2>1. InFlight(r) /\ InFlight(r)' /\ Ahead(r) = todo[r] /\ Ahead(r)' = todo'[r]
    BY <1>1 DEF InFlight, Ahead
  <2> SUFFICES ASSUME NEW j \in DOMAIN promised[r].shown \cap ItemsOf(r)
               PROVE  Stands(promised[r], j, contact[j], status'[j], batch[r], tried'[r], todo'[r])
    BY <1>1, <2>1 DEF PromiseStands, ItemsOf
  <2>2. Stands(promised[r], j, contact[j], status[j], batch[r], tried[r], todo[r])
    BY <1>4, <2>1 DEF PromiseStands
  <2>3. CASE j # i
    <3>1. /\ status'[j] = status[j] /\ (j \in tried'[r] <=> j \in tried[r])
          /\ j \in todo'[r] <=> j \in todo[r]
      BY <1>9, <1>10, <1>13, <2>3 DEF ItemsOf
    <3> QED BY <2>2, <3>1 DEF Stands
  <2>4. CASE j = i /\ skipped
    <3>1. status'[i] = status[i] /\ tried'[r] = tried[r]
      BY <1>2, <1>10, <2>4 DEF rowVars
    <3> QED BY <1>6, <2>2, <2>4, <3>1, SkippedAsShown
  <2>5. CASE j = i /\ ~skipped
    <3>1. i \in tried'[r] <=> i \in tried[r]
            \/ ContactFor(PlaceOf(contact[i], batch[r].channel), contact[i]) # <<>>
      BY <1>6, <1>10, <2>5
    <3> QED BY <1>6, <2>2, <2>5, <3>1, TriedAsShown
  <2> QED BY <2>3, <2>4, <2>5
<1> QED BY <1>12, <1>14, <1>15, <1>16, <1>17 DEF OutreachInv

(* Where the loop stops, at most one row of the run was claimed.             *)
LEMMA StopsAtKeeps ==
    ASSUME OutreachInv, NEW r \in Runs, NEW at \in SUBSET Items, batch[r].status = "running",
           StopsAt(r, at), UNCHANGED <<contact, sweep>>
    PROVE  /\ RowsAgree' /\ SweepsAgree'
           /\ \A q \in Runs : FinalPairs(q)' \subseteq FinalPairs(q)
           /\ at \subseteq todo[r]
           /\ \A j \in Items \ at : status'[j] = status[j]
           /\ \A j \in at : ~Skips(status[j], PlaceOf(contact[j], batch[r].channel), batch[r].onlyFailed)
           /\ page' = page \/ \E i \in at : at = {i} /\ page' = Moves(i, page)
<1> DEFINE over(i) == ChannelOf(i, batch[r].channel)
<1>1. /\ RowsAgree /\ SweepsAgree /\ BatchesAgree
  BY DEF OutreachInv
<1>2. CASE at = {} /\ UNCHANGED <<rowVars, page>>
  <2>1. RowsAgree' /\ SweepsAgree'
    BY <1>2, Unchanged DEF rowVars
  <2>2. \A q \in Runs : FinalPairs(q)' = FinalPairs(q)
    BY <1>2 DEF FinalPairs, FailedPairs, Status, rowVars
  <2> QED BY <1>2, <2>1, <2>2 DEF rowVars
<1>3. ASSUME NEW i \in todo[r], at = {i}, ~SkippedNow(i, over(i), batch[r].onlyFailed),
             Claimed(i, over(i)), Inserted(i, over(i)), page' = Moves(i, page)
      PROVE  /\ RowsAgree' /\ SweepsAgree'
             /\ \A q \in Runs : FinalPairs(q)' \subseteq FinalPairs(q)
             /\ \A j \in Items \ at : status'[j] = status[j]
             /\ ~Skips(status[i], PlaceOf(contact[i], batch[r].channel), batch[r].onlyFailed)
  <2>1. i \in Items
    BY <1>1 DEF BatchesAgree
  <2>2. /\ over(i) \in Channels
        /\ ~Skips(status[i], PlaceOf(contact[i], batch[r].channel), batch[r].onlyFailed)
    BY <1>1, <1>3, <2>1, SentOver
  <2> HIDE DEF over
  <2>3. RowBecomes(i, over(i), "sending") /\ UNCHANGED <<retry, known>>
    BY <1>1, <1>3, <2>1, <2>2, CappedIs DEF Claimed, RowBecomes
  <2>4. "sending" \in Statuses \ {"none"}
    BY DEF Statuses
  <2>5. RowsAgree'
    BY <1>1, <1>3, <2>1, <2>2, <2>3, <2>4, RowKept
  <2>6. SweepsAgree'
    BY <1>1, <2>1, <2>2, <2>3, <2>4, RowsStay, SweepsStay
  <2>7. /\ status'[i][over(i)] = "sending"
        /\ \A j \in Items \ {i} : status'[j] = status[j]
        /\ \A j \in Items, c \in Channels : ~(j = i /\ c = over(i)) => status'[j][c] = status[j][c]
    BY <1>1, <2>1, <2>2, <2>3, <2>4, RowOf
  <2>8. \A q \in Runs : FinalPairs(q)' \subseteq FinalPairs(q)
    BY <2>3, <2>7 DEF FinalPairs, FailedPairs, Status, Pairs
  <2> QED BY <1>3, <2>2, <2>5, <2>6, <2>7, <2>8
<1> QED BY <1>2, <1>3 DEF StopsAt

(* A batch ends: the initiator hears of every failure in the summary, or, if *)
(* the loop raised, of every failure of the run; or its worker died, and the *)
(* failures of the summary go unheard.                                       *)
LEMMA ResetTallies ==
    ASSUME BatchesAgree, NEW r \in Runs, tally' = [tally EXCEPT ![r] = NoTally]
    PROVE  tally' \in [Runs -> Counts] /\ \A q \in Runs \ {r} : tally'[q] = tally[q]
<1>1. NoTally \in Counts /\ tally \in [Runs -> Counts]
  BY DEF NoTally, Counts, BatchesAgree
<1> HIDE DEF NoTally
<1> QED BY <1>1

LEMMA HeardAtEnd ==
    ASSUME OutreachInv, NEW r \in Runs, sweep' = sweep,
           reported \subseteq reported', silent \subseteq silent',
           \A q \in Runs \ {r} : tally'[q] = tally[q],
           \A q \in Runs : FinalPairs(q)' \subseteq FinalPairs(q),
           \A p \in FinalPairs(r) : p[1] \in tally[r].failed => p \in reported' \cup silent'
    PROVE  FinalFailureIsHeard'
<1>1. \A q \in Runs : \A p \in FinalPairs(q) : HeardOf(q, p) => HeardOf(q, p)'
  BY DEF HeardOf
<1> QED BY <1>1, HeardStays DEF OutreachInv

LEMMA CloseStep ==
    ASSUME OutreachInv, NEW r \in Runs, FinishBatch(r) \/ \E at \in SUBSET Items : BatchFails(r, at)
    PROVE  OutreachInv'
<1> DEFINE Ends(end, at) ==
             /\ batch[r].status = "running" /\ batch' = [batch EXCEPT ![r].status = end]
             /\ Closed(r) /\ StopsAt(r, at)
             /\ reported \subseteq reported'
             /\ \A p \in FinalPairs(r) : p[1] \in tally[r].failed => p \in reported'
             /\ UNCHANGED <<contact, sweep, silent, requests>>
<1>0. \E end \in {"completed", "failed"}, at \in SUBSET Items : Ends(end, at)
  <2>1. CASE FinishBatch(r)
    <3>1. StopsAt(r, {}) /\ {} \in SUBSET Items
      BY <2>1 DEF FinishBatch, StopsAt
    <3>2. ASSUME NEW p \in FinalPairs(r), p[1] \in tally[r].failed PROVE p \in reported'
      <4>1. Headline(tally[r]) \in {"failed", "partial"}
        BY <3>2 DEF Headline
      <4> QED BY <2>1, <3>2, <4>1 DEF FinishBatch
    <3>3. /\ batch[r].status = "running" /\ batch' = [batch EXCEPT ![r].status = "completed"]
          /\ Closed(r) /\ reported \subseteq reported' /\ UNCHANGED <<contact, sweep, silent, requests>>
      BY <2>1 DEF FinishBatch, Becomes
    <3>4. Ends("completed", {})
      BY <3>1, <3>2, <3>3
    <3> QED BY <3>1, <3>4
  <2>2. ASSUME NEW at \in SUBSET Items, BatchFails(r, at) PROVE Ends("failed", at)
    BY <2>2 DEF BatchFails, Becomes
  <2> HIDE DEF Ends
  <2> QED BY <2>1, <2>2
<1>1. PICK end \in {"completed", "failed"}, at \in SUBSET Items : Ends(end, at)
  BY <1>0
<1>2. /\ RowsAgree /\ SweepsAgree /\ ViewsAgree /\ BatchesAgree /\ FinalFailureIsHeard
      /\ PageStands /\ \A q \in Runs : PromiseStands(q)
  BY DEF OutreachInv
<1>3. /\ RowsAgree' /\ SweepsAgree'
      /\ \A q \in Runs : FinalPairs(q)' \subseteq FinalPairs(q)
      /\ at \subseteq todo[r] /\ \A j \in Items \ at : status'[j] = status[j]
      /\ page' = page \/ \E i \in at : at = {i} /\ page' = Moves(i, page)
  BY <1>1, StopsAtKeeps
<1>4. FinalFailureIsHeard'
  <2>1. \A q \in Runs \ {r} : tally'[q] = tally[q]
    BY <1>1, <1>2, ResetTallies DEF Closed
  <2> QED BY <1>1, <1>3, <2>1, HeardAtEnd
<1>5. BatchesAgree'
  <2>1. /\ batch' \in [Runs -> [status : BatchStatuses, channel : BatchChannels, onlyFailed : BOOLEAN]]
        /\ \A q \in Runs : batch'[q].channel = batch[q].channel
        /\ \A q \in Runs \ {r} : batch'[q] = batch[q]
    BY <1>1, <1>2 DEF BatchesAgree, BatchStatuses
  <2>2. \A q \in Runs : batch'[q].status # "none" => batch'[q].channel # "none"
    BY <1>1, <1>2, <2>1 DEF BatchesAgree
  <2>3. /\ todo' \in [Runs -> SUBSET Items] /\ \A q \in Runs : todo'[q] \subseteq ItemsOf(q)
        /\ tried' \in [Runs -> SUBSET Items]
    BY <1>1, <1>2 DEF BatchesAgree, Closed
  <2>4. tally' \in [Runs -> Counts]
    BY <1>1, <1>2, ResetTallies DEF Closed
  <2> QED BY <2>1, <2>2, <2>3, <2>4 DEF BatchesAgree, ItemsOf
<1>6. PageStands' /\ IsPage(page')
  <2>1. CASE at = {} /\ page' = page
    BY <1>1, <1>2, <1>3, <2>1 DEF PageStands, ViewsAgree, IsPage, IsView, RowsAgree
  <2>2. ASSUME NEW i \in Items, at \subseteq {i}, page' = Moves(i, page)
        PROVE  PageStands' /\ IsPage(page')
    <3>1. IsView(page) /\ DOMAIN page.shown \subseteq Items /\ IsPage(page)
      BY <1>2 DEF ViewsAgree, IsPage
    <3>2. Grows(page, page') /\ (i \in DOMAIN page.shown => i \in page'.moved)
      BY <2>2, <3>1, MarksGrow
    <3>3. \A j \in DOMAIN page.shown : SameSkips(status[j], status'[j]) \/ j \in page'.moved
      BY <1>3, <2>2, <3>1, <3>2 DEF SameSkips
    <3>4. PageStands'
      BY <1>1, <1>2, <3>2, <3>3, PageKept
    <3>5. IsPage(page')
      BY <3>1, <3>2 DEF IsPage, IsView, Grows
    <3> QED BY <3>4, <3>5
  <2>3. (at = {} /\ page' = page) \/ \E i \in at : at = {i} /\ page' = Moves(i, page)
    BY <1>1 DEF StopsAt
  <2> QED BY <2>1, <2>2, <2>3
<1>7. /\ promised' = [q \in Runs |-> promised'[q]] /\ \A q \in Runs : IsView(promised'[q])
      /\ \A q \in Runs \ {r} : promised'[q] = promised[q]
  BY <1>1, <1>2 DEF Closed, ViewsAgree, Shown, IsView
<1>8. ViewsAgree'
  BY <1>6, <1>7 DEF ViewsAgree
<1>9. ASSUME NEW q \in Runs \ {r} PROVE PromiseStands(q)'
  <2>1. batch'[q] = batch[q] /\ todo'[q] = todo[q] /\ tried'[q] = tried[q]
    BY <1>1, <1>2 DEF Closed, BatchesAgree
  <2>2. \A j \in ItemsOf(q) : status'[j] = status[j]
    BY <1>2, <1>3 DEF BatchesAgree, ItemsOf
  <2> QED BY <1>1, <1>2, <1>7, <2>1, <2>2, OthersPromise
<1>10. PromiseStands(r)'
  <2>1. tried'[r] = {} /\ ~InFlight(r)'
    BY <1>1, <1>2 DEF Closed, BatchesAgree, InFlight
  <2> QED BY <2>1 DEF PromiseStands
<1> QED BY <1>3, <1>4, <1>5, <1>6, <1>8, <1>9, <1>10 DEF OutreachInv

(* Queued again, a batch keeps its promise: what it set out to send was      *)
(* promised, and the rest is before it once more.                            *)
LEMMA RequeueStep ==
    ASSUME OutreachInv, NEW r \in Runs, NEW at \in SUBSET Items, Requeue(r, at)
    PROVE  OutreachInv'
<1> DEFINE fresh == {i \in at : ReachedBy(r, i)}
<1>1. /\ batch[r].status = "running" /\ batch' = [batch EXCEPT ![r].status = "queued"]
      /\ StopsAt(r, at)
      /\ tried' = [tried EXCEPT ![r] = @ \cup fresh]
      /\ todo' = [todo EXCEPT ![r] = {}]
      /\ tally' = [tally EXCEPT ![r] = NoTally]
      /\ silent' = silent \cup {p \in FinalPairs(r) : p[1] \in tally[r].failed}
      /\ UNCHANGED <<contact, sweep, promised, reported, requests>>
  BY DEF Requeue, Becomes
<1>2. /\ RowsAgree /\ SweepsAgree /\ ViewsAgree /\ BatchesAgree /\ FinalFailureIsHeard
      /\ PageStands /\ \A q \in Runs : PromiseStands(q)
  BY DEF OutreachInv
<1>3. /\ RowsAgree' /\ SweepsAgree'
      /\ \A q \in Runs : FinalPairs(q)' \subseteq FinalPairs(q)
      /\ at \subseteq todo[r] /\ \A j \in Items \ at : status'[j] = status[j]
      /\ \A j \in at : ~Skips(status[j], PlaceOf(contact[j], batch[r].channel), batch[r].onlyFailed)
      /\ page' = page \/ \E i \in at : at = {i} /\ page' = Moves(i, page)
  BY <1>1, StopsAtKeeps
<1>4. FinalFailureIsHeard'
  <2>1. \A q \in Runs \ {r} : tally'[q] = tally[q]
    BY <1>1, <1>2, ResetTallies
  <2> QED BY <1>1, <1>3, <2>1, HeardAtEnd
<1>5. /\ batch' \in [Runs -> [status : BatchStatuses, channel : BatchChannels, onlyFailed : BOOLEAN]]
      /\ batch'[r].status = "queued"
      /\ \A q \in Runs : batch'[q].channel = batch[q].channel
                           /\ batch'[q].onlyFailed = batch[q].onlyFailed
      /\ \A q \in Runs \ {r} : batch'[q] = batch[q]
  BY <1>1, <1>2 DEF BatchesAgree, BatchStatuses
<1>6. /\ tried' \in [Runs -> SUBSET Items] /\ tried'[r] = tried[r] \cup fresh
      /\ \A q \in Runs \ {r} : tried'[q] = tried[q]
      /\ todo' \in [Runs -> SUBSET Items] /\ \A q \in Runs \ {r} : todo'[q] = todo[q]
      /\ \A q \in Runs : todo'[q] \subseteq todo[q]
  BY <1>1, <1>2 DEF BatchesAgree
<1>7. BatchesAgree'
  <2>1. \A q \in Runs : batch'[q].status # "none" => batch'[q].channel # "none"
    BY <1>1, <1>2, <1>5 DEF BatchesAgree
  <2>2. \A q \in Runs : todo'[q] \subseteq ItemsOf(q)
    BY <1>2, <1>6 DEF BatchesAgree
  <2>3. tally' \in [Runs -> Counts]
    BY <1>1, <1>2, ResetTallies
  <2> QED BY <1>5, <1>6, <2>1, <2>2, <2>3 DEF BatchesAgree, ItemsOf
<1>8. PageStands' /\ ViewsAgree'
  <2>1. CASE at = {} /\ page' = page
    <3>1. PageStands'
      BY <1>1, <1>2, <1>3, <2>1 DEF PageStands, ViewsAgree, IsPage, RowsAgree
    <3> QED BY <1>1, <2>1, <3>1, Unchanged
  <2>2. ASSUME NEW i \in Items, at \subseteq {i}, page' = Moves(i, page)
        PROVE  PageStands' /\ ViewsAgree'
    <3>1. \A j \in Items \ {i} : status'[j] = status[j]
      BY <1>3, <2>2
    <3> QED BY <1>1, <1>2, <2>2, <3>1, OwnPageKept
  <2>3. (at = {} /\ page' = page) \/ \E i \in at : at = {i} /\ page' = Moves(i, page)
    BY <1>1 DEF StopsAt
  <2> QED BY <2>1, <2>2, <2>3
<1>9. ASSUME NEW q \in Runs \ {r} PROVE PromiseStands(q)'
  <2>1. \A j \in ItemsOf(q) : status'[j] = status[j]
    BY <1>2, <1>3 DEF BatchesAgree, ItemsOf
  <2> QED BY <1>1, <1>2, <1>5, <1>6, <2>1, OthersPromise
<1>10. PromiseStands(r)'
  <2>1. InFlight(r) /\ InFlight(r)' /\ Ahead(r) = todo[r] /\ Ahead(r)' = ItemsOf(r)
    BY <1>1, <1>5 DEF InFlight, Ahead, ItemsOf
  <2> SUFFICES ASSUME NEW j \in DOMAIN promised[r].shown \cap ItemsOf(r)
               PROVE  Stands(promised[r], j, contact[j], status'[j], batch'[r], tried'[r], ItemsOf(r))
    BY <1>1, <2>1 DEF PromiseStands, ItemsOf
  <2>2. Stands(promised[r], j, contact[j], status[j], batch[r], tried[r], todo[r])
    BY <1>2, <2>1 DEF PromiseStands
  <2>3. Stands(promised[r], j, contact[j], status'[j], batch[r], tried'[r], ItemsOf(r))
    <3>1. CASE j \notin at
      <4>1. status'[j] = status[j] /\ (j \in tried'[r] <=> j \in tried[r]) /\ j \in ItemsOf(r)
        BY <1>3, <1>6, <3>1 DEF ItemsOf
      <4> QED BY <2>2, <4>1 DEF Stands
    <3>2. CASE j \in at
      <4>1. ReachedBy(r, j) <=> ContactFor(PlaceOf(contact[j], batch[r].channel), contact[j]) # <<>>
        BY DEF ReachedBy, ChannelOf, PlaceOf
      <4>2. j \in tried'[r] <=> j \in tried[r]
              \/ ContactFor(PlaceOf(contact[j], batch[r].channel), contact[j]) # <<>>
        BY <1>6, <3>2, <4>1
      <4> QED BY <1>3, <2>2, <3>2, <4>2, TriedAsShown
    <3> QED BY <3>1, <3>2
  <2> QED BY <1>5, <2>3 DEF Stands
<1> QED BY <1>3, <1>4, <1>7, <1>8, <1>9, <1>10 DEF OutreachInv

(* A step on one row that marks every view of the payslip, and leaves the    *)
(* batches and contacts.                                                     *)
LEMMA MarkedPromises ==
    ASSUME OutreachInv, NEW i \in Items, MovesAll(i), UNCHANGED <<contact, batchVars>>,
           \A j \in Items \ {i} : status'[j] = status[j]
    PROVE  ViewsAgree' /\ PageStands' /\ \A r \in Runs : PromiseStands(r)'
<1>1. /\ ViewsAgree /\ BatchesAgree /\ PageStands /\ \A r \in Runs : PromiseStands(r)
  BY DEF OutreachInv
<1>2. /\ ViewsAgree' /\ Grows(page, page') /\ \A r \in Runs : Grows(promised[r], promised'[r])
      /\ i \in DOMAIN page.shown => i \in page'.moved
      /\ \A r \in Runs : i \in DOMAIN promised[r].shown => i \in promised'[r].moved
  BY <1>1, MovesAllGrow
<1>3. \A j \in Items : SameSkips(status[j], status'[j]) \/ j = i
  BY DEF SameSkips
<1>4. PageStands'
  BY <1>1, <1>2, <1>3, PageKept DEF ViewsAgree, IsPage
<1>5. ASSUME NEW r \in Runs PROVE PromiseStands(r)'
  <2>1. /\ batch' = batch /\ todo' = todo /\ tried' = tried /\ contact' = contact
        /\ Ahead(r)' = Ahead(r) /\ InFlight(r)' = InFlight(r)
    BY DEF batchVars, Ahead, InFlight, ItemsOf
  <2>2. PromiseStands(r) /\ (~InFlight(r) => tried[r] = {})
    BY <1>1 DEF PromiseStands
  <2>3. \A j \in DOMAIN promised[r].shown \cap ItemsOf(r) :
          SameSkips(status[j], status'[j]) \/ j \in promised'[r].moved
    BY <1>2, <1>3 DEF ItemsOf
  <2> QED BY <1>1, <1>2, <2>1, <2>2, <2>3, PromiseKept
<1> QED BY <1>2, <1>4, <1>5

(* Steps on no row, view or batch: what is told of grows by what a sweep     *)
(* counted.                                                                  *)
LEMMA SweepTells ==
    ASSUME OutreachInv, NEW r \in Runs, SweepStarts(r) \/ SweepNotifies(r) \/ SweepDies(r)
    PROVE  OutreachInv'
<1>1. /\ \/ SweepStarts(r)
         \/ /\ sweep' = [sweep EXCEPT ![r] = NoSweep]
            /\ Exhausted(r) \subseteq reported' \cup silent'
      /\ reported \subseteq reported' /\ silent \subseteq silent'
      /\ UNCHANGED <<contact, rowVars, batchVars, page, promised>>
  BY DEF SweepStarts, SweepNotifies, SweepDies, noticeVars
<1>2. /\ RowsAgree /\ SweepsAgree /\ ViewsAgree /\ BatchesAgree /\ FinalFailureIsHeard
      /\ PageStands /\ \A q \in Runs : PromiseStands(q)
  BY DEF OutreachInv
<1> DEFINE SweepRow == [due : SUBSET Pairs, left : SUBSET Pairs, at : SUBSET Pairs, reaches : BOOLEAN]
<1>3. sweep \in [Runs -> SweepRow]
  BY <1>2 DEF SweepsAgree
<1>4. /\ sweep' \in [Runs -> SweepRow] /\ \A q \in Runs \ {r} : sweep'[q] = sweep[q]
      /\ sweep'[r].left \cup sweep'[r].at \subseteq sweep'[r].due /\ sweep'[r].at = {}
      /\ \A p \in sweep'[r].due : RunOf[p[1]] = r /\ Status(p) # "none"
      /\ \A p \in FinalPairs(r) : p \in sweep[r].due => p \in reported' \cup silent' \cup sweep'[r].due
  <2>1. CASE SweepStarts(r)
    <3>1. PICK due \in SUBSET (FailedPairs(r) \cap retry) :
            sweep' = [sweep EXCEPT ![r].due = due, ![r].left = due]
      BY <2>1 DEF SweepStarts
    <3>2. sweep[r].due = {} /\ sweep[r].at = {}
      BY <2>1 DEF SweepStarts, NoSweep
    <3>3. due \subseteq Pairs /\ \A p \in due : RunOf[p[1]] = r /\ Status(p) # "none"
      BY DEF FailedPairs
    <3>4. sweep' \in [Runs -> SweepRow] /\ \A q \in Runs \ {r} : sweep'[q] = sweep[q]
      BY <1>3, <3>1, <3>3
    <3>5. sweep'[r].left = due /\ sweep'[r].due = due /\ sweep'[r].at = {}
      BY <1>3, <3>1, <3>2
    <3> QED BY <3>2, <3>3, <3>4, <3>5
  <2>2. CASE sweep' = [sweep EXCEPT ![r] = NoSweep] /\ Exhausted(r) \subseteq reported' \cup silent'
    <3>1. NoSweep \in SweepRow
      BY DEF NoSweep
    <3>2. sweep' \in [Runs -> SweepRow] /\ \A q \in Runs \ {r} : sweep'[q] = sweep[q]
      BY <1>3, <2>2, <3>1
    <3>3. sweep'[r].left = {} /\ sweep'[r].due = {} /\ sweep'[r].at = {}
      BY <1>3, <2>2 DEF NoSweep
    <3> QED BY <2>2, <3>2, <3>3 DEF Exhausted
  <2> QED BY <1>1, <2>1, <2>2
<1>5. SweepsAgree'
  <2>1. \A q \in Runs : \A p \in sweep'[q].due : RunOf[p[1]] = q /\ Status(p)' # "none"
    BY <1>1, <1>2, <1>4 DEF SweepsAgree, Status, rowVars
  <2>2. \A q \in Runs : /\ sweep'[q].left \cup sweep'[q].at \subseteq sweep'[q].due
                        /\ sweep'[q].at = {} \/ \E p : sweep'[q].at = {p}
    <3> TAKE q \in Runs
    <3>1. CASE q = r
      BY <1>4, <3>1
    <3>2. CASE q # r
      <4>1. sweep'[q] = sweep[q]
        BY <1>4, <3>2
      <4>2. sweep[q].left \cup sweep[q].at \subseteq sweep[q].due
        BY <1>2 DEF SweepsAgree
      <4>3. sweep[q].at = {} \/ \E p : sweep[q].at = {p}
        BY <1>2 DEF SweepsAgree
      <4> QED BY <4>1, <4>2, <4>3
    <3> QED BY <3>1, <3>2
  <2> QED BY <1>4, <2>1, <2>2 DEF SweepsAgree
<1>6. FinalFailureIsHeard'
  <2>1. \A q \in Runs : FinalPairs(q)' = FinalPairs(q)
    BY <1>1 DEF FinalPairs, FailedPairs, Status, rowVars
  <2>2. \A q \in Runs : \A p \in FinalPairs(q) : HeardOf(q, p) => HeardOf(q, p)'
    BY <1>1, <1>4 DEF HeardOf, batchVars
  <2> QED BY <1>2, <2>1, <2>2, HeardStays
<1>7. PageStands' /\ \A q \in Runs : PromiseStands(q)'
  BY <1>1, <1>2 DEF PageStands, PromiseStands, InFlight, Ahead, ItemsOf, rowVars, batchVars
<1>8. RowsAgree' /\ BatchesAgree' /\ ViewsAgree'
  BY <1>1, Unchanged
<1> QED BY <1>5, <1>6, <1>7, <1>8 DEF OutreachInv

(* The attempt of a sweep: the claim, and the outcome.                       *)
LEMMA SweepMoves ==
    ASSUME OutreachInv, NEW r \in Runs, NEW i \in Items, NEW ch \in Channels,
           SweepClaims(r, i, ch) \/ \E outcome \in Outcomes : SweepRecords(r, i, ch, outcome)
    PROVE  OutreachInv'
<1> DEFINE SweepRow == [due : SUBSET Pairs, left : SUBSET Pairs, at : SUBSET Pairs, reaches : BOOLEAN]
<1>1. /\ RowsAgree /\ SweepsAgree /\ ViewsAgree /\ BatchesAgree /\ FinalFailureIsHeard
      /\ PageStands /\ \A q \in Runs : PromiseStands(q)
  BY DEF OutreachInv
<1>2. /\ sweep \in [Runs -> SweepRow] /\ sweep[r].left \cup sweep[r].at \subseteq sweep[r].due
      /\ \A p \in sweep[r].due : RunOf[p[1]] = r /\ Status(p) # "none"
  BY <1>1 DEF SweepsAgree
<1>3. /\ <<i, ch>> \in sweep[r].due /\ RunOf[i] = r /\ status[i][ch] # "none"
      /\ <<i, ch>> \in Pairs
  <2>1. <<i, ch>> \in sweep[r].due
    BY <1>2 DEF SweepClaims, SweepRecords
  <2> QED BY <1>2, <2>1 DEF Status, Pairs
<1>4. /\ sweep' \in [Runs -> SweepRow] /\ \A q \in Runs \ {r} : sweep'[q] = sweep[q]
      /\ sweep'[r].due = sweep[r].due /\ sweep'[r].left \subseteq sweep[r].left
      /\ sweep'[r].at \in {{}, {<<i, ch>>}}
  <2>1. CASE SweepClaims(r, i, ch)
    <3>1. CASE status[i][ch] = "failed" /\ <<i, ch>> \in retry
      <4>1. /\ sweep' = [sweep EXCEPT ![r].left = @ \ {<<i, ch>>}, ![r].at = {<<i, ch>>},
                                      ![r].reaches = ContactFor(ch, contact[i]) # <<>>]
        BY <2>1, <3>1 DEF SweepClaims
      <4> DEFINE has == ContactFor(ch, contact[i]) # <<>>
                 rest == sweep[r].left \ {<<i, ch>>}
                 one == {<<i, ch>>}
      <4>2. has \in BOOLEAN /\ rest \in SUBSET Pairs /\ one \in SUBSET Pairs
        BY <1>2, <1>3
      <4>3. sweep' = [sweep EXCEPT ![r].left = rest, ![r].at = one, ![r].reaches = has]
        BY <4>1
      <4>4. rest \subseteq sweep[r].left
        OBVIOUS
      <4>5. /\ sweep' \in [Runs -> SweepRow]
            /\ sweep'[r].due = sweep[r].due /\ sweep'[r].left = rest /\ sweep'[r].at = one
            /\ \A q \in Runs \ {r} : sweep'[q] = sweep[q]
        <5> HIDE DEF has, rest, one
        <5> QED BY <1>2, <4>2, <4>3
      <4> QED BY <4>4, <4>5
    <3>2. CASE ~(status[i][ch] = "failed" /\ <<i, ch>> \in retry)
      <4>1. sweep' = [sweep EXCEPT ![r].left = @ \ {<<i, ch>>}] /\ sweep[r].at = {}
        BY <2>1, <3>2 DEF SweepClaims
      <4> QED BY <1>2, <4>1
    <3> QED BY <3>1, <3>2
  <2>2. ASSUME NEW outcome \in Outcomes, SweepRecords(r, i, ch, outcome)
        PROVE  <1>4!:
    <3>1. sweep' = [sweep EXCEPT ![r].at = {}, ![r].reaches = FALSE]
      BY <2>2 DEF SweepRecords
    <3> QED BY <1>2, <3>1
  <2> QED BY <2>1, <2>2
<1> HIDE DEF SweepRow
<1>5. ASSUME \A p \in Pairs : Status(p) # "none" => Status(p)' # "none"
      PROVE  SweepsAgree'
  <2>1. \A q \in Runs : sweep[q].due \subseteq Pairs
    BY <1>1 DEF SweepsAgree
  <2>2. \A q \in Runs : sweep'[q].due = sweep[q].due
    BY <1>4
  <2>3. \A q \in Runs : \A p \in sweep'[q].due : RunOf[p[1]] = q /\ Status(p)' # "none"
    BY <1>1, <1>5, <2>1, <2>2 DEF SweepsAgree
  <2>4. \A q \in Runs : /\ sweep'[q].left \cup sweep'[q].at \subseteq sweep'[q].due
                        /\ sweep'[q].at = {} \/ \E p : sweep'[q].at = {p}
    <3>1. sweep'[r].left \cup sweep'[r].at \subseteq sweep'[r].due
      BY <1>2, <1>3, <1>4
    <3>2. sweep'[r].at = {} \/ \E p : sweep'[r].at = {p}
      BY <1>4
    <3>3. \A q \in Runs \ {r} : /\ sweep'[q].left \cup sweep'[q].at \subseteq sweep'[q].due
                                /\ sweep'[q].at = {} \/ \E p : sweep'[q].at = {p}
      BY <1>1, <1>4 DEF SweepsAgree
    <3> QED BY <3>1, <3>2, <3>3
  <2> QED BY <1>4, <2>3, <2>4 DEF SweepsAgree, SweepRow
<1>6. \A q \in Runs : sweep[q].due \subseteq sweep'[q].due
  BY <1>4
<1>7. BatchesAgree'
  BY Unchanged DEF SweepClaims, SweepRecords
<1>8. CASE SweepClaims(r, i, ch) /\ ~(status[i][ch] = "failed" /\ <<i, ch>> \in retry)
  <2>1. UNCHANGED <<contact, rowVars, batchVars, noticeVars, page, promised>>
    BY <1>8 DEF SweepClaims, rowVars
  <2>2. RowsAgree' /\ ViewsAgree'
    BY <2>1, Unchanged
  <2>3. SweepsAgree'
    <3>1. \A p \in Pairs : Status(p) # "none" => Status(p)' # "none"
      BY <2>1 DEF Status, rowVars
    <3> QED BY <1>5, <3>1
  <2>4. FinalFailureIsHeard'
    <3>1. \A q \in Runs : FinalPairs(q)' = FinalPairs(q)
      BY <2>1 DEF FinalPairs, FailedPairs, Status, rowVars
    <3>2. \A q \in Runs : \A p \in FinalPairs(q) : HeardOf(q, p) => HeardOf(q, p)'
      BY <1>6, <2>1 DEF HeardOf, batchVars, noticeVars
    <3> QED BY <1>1, <3>1, <3>2, HeardStays
  <2>5. PageStands' /\ \A q \in Runs : PromiseStands(q)'
    BY <1>1, <2>1 DEF PageStands, PromiseStands, InFlight, Ahead, ItemsOf, rowVars, batchVars
  <2> QED BY <1>7, <2>2, <2>3, <2>4, <2>5 DEF OutreachInv
<1>9. ASSUME NEW now \in Statuses \ {"none"}, RowBecomes(i, ch, now), MovesAll(i),
             UNCHANGED <<contact, newest, batchVars>>,
             retry' \subseteq retry \cup {<<i, ch>>}, retry \ {<<i, ch>>} \subseteq retry',
             known' \subseteq known \cup {<<i, ch>>},
             <<i, ch>> \in retry' => \/ now = "sending"
                                     \/ now = "failed" /\ attempts'[i][ch] < MaxAttempts,
             reported \ {<<i, ch>>} \subseteq reported', silent \ {<<i, ch>>} \subseteq silent'
      PROVE  OutreachInv'
  <2>1. RowsAgree'
    BY <1>1, <1>3, <1>9, RowKept
  <2>2. SweepsAgree'
    BY <1>1, <1>5, <1>9, RowsStay
  <2>3. FinalFailureIsHeard'
    <3>1. <<i, ch>> \in sweep'[r].due
      BY <1>3, <1>4
    <3>2. HeardOf(RunOf[i], <<i, ch>>)'
      BY <1>3, <3>1 DEF HeardOf
    <3>3. \A q \in Runs : tally[q].failed \subseteq tally'[q].failed
      BY <1>9 DEF batchVars
    <3> QED BY <1>1, <1>6, <1>9, <3>2, <3>3, HeardKept
  <2>4. \A j \in Items \ {i} : status'[j] = status[j]
    BY <1>1, <1>9, RowOf
  <2>5. ViewsAgree' /\ PageStands' /\ \A q \in Runs : PromiseStands(q)'
    BY <1>9, <2>4, MarkedPromises
  <2> QED BY <1>7, <2>1, <2>2, <2>3, <2>5 DEF OutreachInv
<1>10. CASE SweepClaims(r, i, ch) /\ status[i][ch] = "failed" /\ <<i, ch>> \in retry
  <2>1. /\ Claimed(i, ch) /\ MovesAll(i) /\ UNCHANGED <<contact, newest, batchVars, noticeVars>>
    BY <1>10 DEF SweepClaims
  <2>2. RowBecomes(i, ch, "sending") /\ UNCHANGED <<retry, known>>
    BY <1>1, <2>1, CappedIs DEF Claimed, RowBecomes
  <2>3. "sending" \in Statuses \ {"none"}
    BY DEF Statuses
  <2> QED BY <1>9, <2>1, <2>2, <2>3 DEF noticeVars
<1>11. ASSUME NEW outcome \in Outcomes, SweepRecords(r, i, ch, outcome) PROVE OutreachInv'
  <2>1. /\ Recorded(i, ch, outcome, attempts[i][ch]) /\ MovesAll(i)
        /\ UNCHANGED <<contact, newest, batchVars>>
    BY <1>11 DEF SweepRecords
  <2>2. attempts[i][ch] \in 0 .. MaxAttempts
    BY <1>1 DEF RowsAgree
  <2>3. /\ Verdict(outcome) \in Statuses \ {"none"} /\ RowBecomes(i, ch, Verdict(outcome))
        /\ retry' \subseteq retry \cup {<<i, ch>>} /\ retry \ {<<i, ch>>} \subseteq retry'
        /\ known' \subseteq known \cup {<<i, ch>>}
        /\ <<i, ch>> \in retry' => Verdict(outcome) = "failed" /\ attempts'[i][ch] < MaxAttempts
        /\ reported' = reported \ {<<i, ch>>} /\ silent' = silent \ {<<i, ch>>}
    BY <1>1, <2>1, <2>2, RecordedIs
  <2> QED BY <1>9, <2>1, <2>3
<1> QED BY <1>8, <1>10, <1>11

(* A claim taken for dead is skipped by a send as before.                    *)
LEMMA RecoverStep ==
    ASSUME OutreachInv, NEW i \in Items, NEW ch \in Channels, RecoverStale(i, ch) PROVE OutreachInv'
<1>1. /\ status[i][ch] = "sending" /\ status' = [status EXCEPT ![i][ch] = "unknown"]
      /\ retry' = retry \ {<<i, ch>>}
      /\ UNCHANGED <<contact, attempts, known, newest, batchVars, sweep, page, promised, noticeVars>>
  BY DEF RecoverStale
<1>2. /\ RowsAgree /\ SweepsAgree /\ ViewsAgree /\ BatchesAgree /\ FinalFailureIsHeard
      /\ PageStands /\ \A r \in Runs : PromiseStands(r)
  BY DEF OutreachInv
<1>3. RowBecomes(i, ch, "unknown") /\ "unknown" \in Statuses \ {"none"}
  BY <1>1 DEF RowBecomes, Statuses
<1>4. RowsAgree'
  BY <1>1, <1>2, <1>3, RowKept
<1>5. SweepsAgree'
  BY <1>1, <1>2, <1>3, RowsStay, SweepsStay
<1>6. FinalFailureIsHeard'
  BY <1>1, <1>2, <1>3, HeardKept DEF batchVars, noticeVars
<1>7. BatchesAgree' /\ ViewsAgree'
  BY <1>1, Unchanged
<1>8. \A j \in Items : SameSkips(status[j], status'[j])
  <2> TAKE j \in Items
  <2>1. CASE j # i
    BY <1>2, <1>3, <2>1, RowOf DEF SameSkips
  <2>2. CASE j = i
    <3>1. status'[i] = [status[i] EXCEPT ![ch] = "unknown"] /\ status[i] \in [Channels -> Statuses]
      BY <1>1, <1>2 DEF RowsAgree
    <3>2. ASSUME NEW c \in Channels, NEW only \in BOOLEAN
          PROVE  Skips(status[i], c, only) <=> Skips(status'[i], c, only)
      <4>1. CASE c = ch
        BY <1>1, <3>1, <4>1 DEF Skips, SKIPPED_BY_SEND
      <4>2. CASE c # ch
        BY <3>1, <4>2 DEF Skips
      <4> QED BY <4>1, <4>2
    <3> QED BY <2>2, <3>2 DEF SameSkips
  <2> QED BY <2>1, <2>2
<1>9. Grows(page, page') /\ \A r \in Runs : Grows(promised[r], promised'[r])
  BY <1>1 DEF Grows
<1>10. PageStands'
  BY <1>1, <1>2, <1>8, <1>9, PageKept DEF ViewsAgree, IsPage
<1>11. ASSUME NEW r \in Runs PROVE PromiseStands(r)'
  <2>1. /\ batch' = batch /\ todo' = todo /\ tried' = tried /\ contact' = contact
        /\ Ahead(r)' = Ahead(r) /\ InFlight(r)' = InFlight(r)
    BY <1>1 DEF batchVars, Ahead, InFlight, ItemsOf
  <2>2. PromiseStands(r) /\ (~InFlight(r) => tried[r] = {})
    BY <1>2 DEF PromiseStands
  <2>3. \A j \in DOMAIN promised[r].shown \cap ItemsOf(r) : SameSkips(status[j], status'[j])
    BY <1>8 DEF ItemsOf
  <2> QED BY <1>2, <1>9, <2>1, <2>2, <2>3, PromiseKept
<1> QED BY <1>4, <1>5, <1>6, <1>7, <1>10, <1>11 DEF OutreachInv

(* Every step keeps the invariant.                                           *)
LEMMA OutreachStep == OutreachInv /\ [OutreachNext]_outreachVars => OutreachInv'
<1> SUFFICES ASSUME OutreachInv, [OutreachNext]_outreachVars PROVE OutreachInv'
  OBVIOUS
<1>1. CASE UNCHANGED outreachVars
  <2>1. UNCHANGED <<contact, rowVars, batchVars, sweep, page, promised, noticeVars>>
    BY <1>1 DEF outreachVars
  <2>2. RowsAgree' /\ BatchesAgree' /\ SweepsAgree' /\ ViewsAgree'
    BY <2>1, Unchanged DEF rowVars
  <2>3. FinalFailureIsHeard'
    BY <2>1 DEF OutreachInv, FinalFailureIsHeard, FinalPairs, FailedPairs, Status, rowVars, batchVars,
       noticeVars
  <2>4. PageStands' /\ \A r \in Runs : PromiseStands(r)'
    BY <2>1 DEF OutreachInv, PageStands, PromiseStands, InFlight, Ahead, ItemsOf, rowVars, batchVars
  <2> QED BY <2>2, <2>3, <2>4 DEF OutreachInv
<1>2. ASSUME NEW r \in Runs, NEW action \in CONFIRM_ACTIONS, NEW way \in {"sms", "auto"},
             ConfirmSend(r, way, action)
      PROVE  OutreachInv'
  <2> DEFINE only == action = "resend"
             later == action = "schedule"
  <2>1. /\ {r} \in SUBSET Runs /\ way \in BatchChannels \ {"none"} /\ Shows({r}, way, only, later)
        /\ only \in BOOLEAN /\ later \in BOOLEAN
    BY <1>2 DEF ConfirmSend, BatchChannels
  <2> HIDE DEF only, later
  <2> QED BY <2>1, ShowsStep
<1>3. ASSUME NEW rs \in SUBSET Runs, BulkConfirm(rs) PROVE OutreachInv'
  <2> DEFINE open == {r \in rs : ~InFlight(r)}
             no == FALSE
  <2>1. /\ open \in SUBSET Runs /\ "auto" \in BatchChannels \ {"none"} /\ no \in BOOLEAN
        /\ Shows(open, "auto", no, no)
    BY <1>3 DEF BulkConfirm, BatchChannels
  <2> HIDE DEF open, no
  <2> QED BY <2>1, ShowsStep
<1>4. CASE PostConfirmed \/ \E r \in Runs, way \in {"email", "whatsapp"},
                                action \in CONFIRM_ACTIONS : PostDirect(r, way, action)
  BY <1>4, EnqueueStep
<1>5. ASSUME NEW i \in Items, NEW ch \in Channels,
             ReportFails(i, ch) \/ \E sent \in BOOLEAN : Settle(i, ch, sent)
      PROVE  OutreachInv'
  BY <1>5, SettleStep
<1>6. CASE \E i \in Items, c \in Contacts : EditContact(i, c)
  BY <1>6, EditStep
<1>7. CASE Outside
  BY <1>2, <1>3, <1>4, <1>5, <1>6, <1>7 DEF Outside
<1>8. ASSUME NEW r \in Runs,
             \/ Activate(r) \/ StartBatch(r) \/ FinishBatch(r)
             \/ SweepStarts(r) \/ SweepNotifies(r) \/ SweepDies(r)
             \/ \E at \in SUBSET Items : BatchFails(r, at) \/ Requeue(r, at)
      PROVE  OutreachInv'
  BY <1>8, StartStep, CloseStep, RequeueStep, SweepTells
<1>9. CASE \E r \in Runs, i \in Items, outcome \in Outcomes : SendOne(r, i, outcome)
  BY <1>9, SendOneStep
<1>10. ASSUME NEW r \in Runs, NEW i \in Items, NEW ch \in Channels,
              SweepClaims(r, i, ch) \/ \E outcome \in Outcomes : SweepRecords(r, i, ch, outcome)
       PROVE  OutreachInv'
  BY <1>10, SweepMoves
<1>11. CASE \E i \in Items, ch \in Channels : RecoverStale(i, ch)
  BY <1>11, RecoverStep
<1>12. CASE Worker
  BY <1>8, <1>9, <1>10, <1>11, <1>12 DEF Worker
<1> QED BY <1>1, <1>7, <1>12 DEF OutreachNext

(* The inductive invariant of the rows, the notices and the views (notify.py, *)
(* confirm.py, service.distribute_run, process_due_retries).                 *)
THEOREM OutreachInvAlways == OutreachSpec => []OutreachInv
BY OutreachInitHolds, OutreachStep, PTL DEF OutreachSpec

(* The types of the rows around a send: a retry stands only on a row that    *)
(* failed and has attempts left, or is being retried, and the status page's  *)
(* newest row is there as soon as any is (service._mark_failed, status.py).  *)
THEOREM OutreachTypesAlways == OutreachSpec => []OutreachTypeOK
<1>1. OutreachInv => OutreachTypeOK
  <2> SUFFICES ASSUME OutreachInv PROVE OutreachTypeOK
    OBVIOUS
  <2>0. RowsAgree /\ BatchesAgree /\ SweepsAgree
    BY DEF OutreachInv
  <2>1. ASSUME NEW p \in retry
        PROVE  \/ Status(p) = "sending"
               \/ Status(p) = "failed" /\ attempts[p[1]][p[2]] < MaxAttempts
    <3>1. p[1] \in Items /\ p[2] \in Channels /\ p = <<p[1], p[2]>>
      BY <2>0 DEF RowsAgree, Pairs
    <3> QED BY <2>0, <2>1, <3>1 DEF RowsAgree, RetriesAreOpen, Status
  <2>2. ASSUME NEW p \in known PROVE Status(p) # "none"
    <3>1. p[1] \in Items /\ p[2] \in Channels /\ p = <<p[1], p[2]>>
      BY <2>0 DEF RowsAgree, Pairs
    <3> QED BY <2>0, <2>2, <3>1 DEF RowsAgree, KnownHaveRows, Status
  <2>3. ASSUME NEW r \in Runs
        PROVE  /\ batch[r].status \in {"none", "scheduled", "queued", "running", "completed", "failed"}
               /\ sweep[r].left \cup sweep[r].at \subseteq sweep[r].due
               /\ Cardinality(sweep[r].at) <= 1
    <3>1. batch[r].status \in BatchStatuses
      BY <2>0 DEF BatchesAgree
    <3>2. /\ sweep[r].left \cup sweep[r].at \subseteq sweep[r].due
          /\ sweep[r].at = {} \/ \E p : sweep[r].at = {p}
      BY <2>0 DEF SweepsAgree
    <3>3. Cardinality({}) = 0 /\ \A p : Cardinality({p}) = 1
      BY FS_EmptySet, FS_Singleton
    <3>4. Cardinality(sweep[r].at) <= 1
      <4> DEFINE at == sweep[r].at
      <4>1. at = {} \/ \E p : at = {p}
        BY <3>2
      <4>2. Cardinality(at) <= 1
        <5> HIDE DEF at
        <5>1. CASE at = {}
          BY <5>1, <3>3
        <5>2. ASSUME NEW p, at = {p} PROVE Cardinality(at) <= 1
          <6>1. Cardinality({p}) = 1
            BY <3>3
          <6> QED BY <5>2, <6>1
        <5> QED BY <4>1, <5>1, <5>2
      <4> QED BY <4>2
    <3> QED BY <3>1, <3>2, <3>4 DEF BatchStatuses
  <2>4. /\ contact \in [Items -> Contacts]
        /\ status \in [Items -> [Channels -> {"none", "sending", "sent", "failed", "unknown"}]]
        /\ attempts \in [Items -> [Channels -> 0 .. MaxAttempts]]
        /\ \A i \in Items : newest[i] = "none" <=> \A ch \in Channels : status[i][ch] = "none"
    BY <2>0 DEF RowsAgree, NewestIsOne, Statuses
  <2> QED BY <2>1, <2>2, <2>3, <2>4 DEF OutreachTypeOK
<1> QED BY <1>1, OutreachInvAlways, PTL

(* No payslip fails for good unheard, but by a report or with its process,   *)
(* for any payslips, runs, contacts and number of attempts                   *)
(* (notify_completion, notify_batch_failed, notify_retry_exhausted).         *)
THEOREM FinalFailureIsHeardAlways == OutreachSpec => []FinalFailureIsHeard
<1>1. OutreachInv => FinalFailureIsHeard
  BY DEF OutreachInv
<1> QED BY <1>1, OutreachInvAlways, PTL

(* What the confirm page showed is what its batch did, for any contacts,     *)
(* channel, outcomes and sequence of requests (confirm.send_preview,         *)
(* distribute_run).                                                          *)
THEOREM PreviewIsWhatIsSentAlways == OutreachSpec => PreviewIsWhatIsSent
<1> DEFINE AsShown(r, i) ==
             LET view == promised[r]
             IN  /\ i \notin view.edited \cup view.moved =>
                      (i \in tried[r] <=> view.shown[i] \in Reachable)
                 /\ i \notin view.moved /\ batch[r].channel # "auto" =>
                      (view.shown[i] = "skipped" => i \notin tried[r])
                 /\ i \notin view.edited =>
                      (view.shown[i] \in {"no_contact", "invalid"} => i \notin tried[r])
           Kept == \A r \in Runs : batch[r].status = "running" /\ batch'[r].status = "completed" =>
                     \A i \in DOMAIN promised[r].shown \cap ItemsOf(r) : AsShown(r, i)
<1>1. OutreachInv /\ [OutreachNext]_outreachVars => [Kept]_outreachVars
  <2> SUFFICES ASSUME OutreachInv, OutreachNext, NEW r \in Runs,
                      batch[r].status = "running", batch'[r].status = "completed",
                      NEW i \in DOMAIN promised[r].shown \cap ItemsOf(r)
               PROVE  AsShown(r, i)
    OBVIOUS
  <2>1. todo[r] = {}
    <3>1. /\ batch \in [Runs -> [status : BatchStatuses, channel : BatchChannels,
                                 onlyFailed : BOOLEAN]]
          /\ batch' # batch
      BY DEF OutreachInv, BatchesAgree
    <3>2. CASE Outside
      <4>1. CASE PostConfirmed
        BY <4>1 DEF PostConfirmed, Enqueued, InFlight
      <4>2. ASSUME NEW q \in Runs, NEW way, NEW action, PostDirect(q, way, action)
            PROVE  FALSE
        BY <4>2 DEF PostDirect, Enqueued, InFlight
      <4>3. ASSUME NEW rs, NEW way, NEW only, NEW later, Shows(rs, way, only, later)
            PROVE  FALSE
        BY <3>1, <4>3 DEF Shows, batchVars
      <4>4. ASSUME NEW j, NEW ch, ReportFails(j, ch) \/ \E sent \in BOOLEAN : Settle(j, ch, sent)
            PROVE  FALSE
        BY <3>1, <4>4 DEF Settle, ReportFails, batchVars
      <4>5. ASSUME NEW j, NEW c, EditContact(j, c)
            PROVE  FALSE
        BY <3>1, <4>5 DEF EditContact, batchVars
      <4> QED BY <3>2, <4>1, <4>2, <4>3, <4>4, <4>5 DEF Outside, ConfirmSend, BulkConfirm
    <3>3. CASE Worker
      <4>1. \E q \in Runs : \/ Activate(q) \/ StartBatch(q) \/ FinishBatch(q)
                            \/ \E at \in SUBSET Items : BatchFails(q, at) \/ Requeue(q, at)
        <5>1. \A q, j, outcome : SendOne(q, j, outcome) => batch' = batch
          BY DEF SendOne
        <5>2. \A q : SweepStarts(q) \/ SweepNotifies(q) \/ SweepDies(q) => batch' = batch
          BY DEF SweepStarts, SweepNotifies, SweepDies, batchVars
        <5>3. \A q, j, ch : SweepClaims(q, j, ch) => batch' = batch
          BY DEF SweepClaims, batchVars
        <5>4. \A q, j, ch, outcome : SweepRecords(q, j, ch, outcome) => batch' = batch
          BY DEF SweepRecords, batchVars
        <5>5. \A j, ch : RecoverStale(j, ch) => batch' = batch
          BY DEF RecoverStale, batchVars
        <5> QED BY <3>1, <3>3, <5>1, <5>2, <5>3, <5>4, <5>5 DEF Worker
      <4>2. PICK q \in Runs : \/ Activate(q) \/ StartBatch(q) \/ FinishBatch(q)
                              \/ \E at \in SUBSET Items : BatchFails(q, at) \/ Requeue(q, at)
        BY <4>1
      <4>3. q = r /\ FinishBatch(q)
        BY <3>1, <4>2 DEF Activate, StartBatch, FinishBatch, BatchFails, Requeue, Becomes
      <4> QED BY <4>3 DEF FinishBatch
    <3> QED BY <3>2, <3>3 DEF OutreachNext
  <2>2. Stands(promised[r], i, contact[i], status[i], batch[r], tried[r], {})
    <3>1. InFlight(r) /\ Ahead(r) = {}
      BY <2>1 DEF InFlight, Ahead
    <3> QED BY <3>1 DEF OutreachInv, PromiseStands
  <2> QED BY <2>2 DEF Stands
<1> QED BY <1>1, OutreachInvAlways, PTL DEF OutreachSpec, PreviewIsWhatIsSent

(* The counter of requests is a number: it tells a request from a step of    *)
(* the worker.                                                               *)
RequestsAreCounted == requests \in Nat

(* No step spoils the counter of requests.                                   *)
LEMMA RequestsCount == OutreachSpec => []RequestsAreCounted
<1>1. OutreachInit => RequestsAreCounted
  BY DEF OutreachInit, RequestsAreCounted
<1>2. RequestsAreCounted /\ [OutreachNext]_outreachVars => RequestsAreCounted'
  <2> SUFFICES ASSUME RequestsAreCounted, [OutreachNext]_outreachVars
               PROVE  requests' = requests \/ Request
    BY DEF Request, RequestsAreCounted
  <2>1. Outside => requests' = requests \/ Request
    BY DEF Outside, ConfirmSend, BulkConfirm, Shows, PostConfirmed, PostDirect, Settle, ReportFails,
       EditContact
  <2>2. Worker => requests' = requests
    <3>1. \A r : (\/ Activate(r) \/ StartBatch(r) \/ FinishBatch(r)
                  \/ SweepStarts(r) \/ SweepNotifies(r) \/ SweepDies(r)) => requests' = requests
      BY DEF Activate, StartBatch, FinishBatch, SweepStarts, SweepNotifies, SweepDies
    <3>2. \A r, at : BatchFails(r, at) \/ Requeue(r, at) => requests' = requests
      BY DEF BatchFails, Requeue
    <3>3. \A r, i, outcome : SendOne(r, i, outcome) => requests' = requests
      BY DEF SendOne
    <3>4. \A r, i, ch : SweepClaims(r, i, ch) => requests' = requests
      BY DEF SweepClaims
    <3>5. \A r, i, ch, outcome : SweepRecords(r, i, ch, outcome) => requests' = requests
      BY DEF SweepRecords
    <3>6. \A i, ch : RecoverStale(i, ch) => requests' = requests
      BY DEF RecoverStale
    <3> QED BY <3>1, <3>2, <3>3, <3>4, <3>5, <3>6 DEF Worker
  <2> QED BY <2>1, <2>2 DEF OutreachNext, outreachVars
<1> QED BY <1>1, <1>2, PTL DEF OutreachSpec

(* What a page at rest shows, and that it is at rest, depends on its batch   *)
(* and on the newest row of each payslip.                                    *)
LEMMA RestStays ==
    ASSUME NEW r \in Runs, AtRest(r), batch'[r] = batch[r],
           \A i \in ItemsOf(r) :
             /\ newest'[i] = newest[i]
             /\ newest[i] # "none" => /\ status'[i][newest[i]] = status[i][newest[i]]
                                      /\ <<i, newest[i]>> \in retry' => <<i, newest[i]>> \in retry
    PROVE  AtRest(r)' /\ \A i \in ItemsOf(r) : ShownStatus(i)' = ShownStatus(i)
<1>1. \A i \in ItemsOf(r) : ShownStatus(i)' = ShownStatus(i)
  BY DEF ShownStatus
<1>2. ItemsOf(r)' = ItemsOf(r)
  BY DEF ItemsOf
<1>3. ~Live(r)'
  BY <1>2 DEF AtRest, Live
<1> QED BY <1>1, <1>2, <1>3 DEF AtRest

(* A step on a row no page of the run shows.                                 *)
LEMMA RestBesides ==
    ASSUME OutreachInv, NEW r \in Runs, AtRest(r), batch'[r] = batch[r],
           NEW i \in Items, NEW ch \in Channels, NEW now \in Statuses, RowBecomes(i, ch, now),
           retry' \subseteq retry \cup {<<i, ch>>},
           \/ RunOf[i] # r /\ \A j \in Items \ {i} : newest'[j] = newest[j]
           \/ newest' = newest /\ newest[i] # ch
    PROVE  AtRest(r)' /\ \A j \in ItemsOf(r) : ShownStatus(j)' = ShownStatus(j)
<1>1. \A j \in Items, c \in Channels : ~(j = i /\ c = ch) => status'[j][c] = status[j][c]
  BY RowOf DEF OutreachInv
<1>2. ASSUME NEW j \in ItemsOf(r)
      PROVE  /\ newest'[j] = newest[j]
             /\ newest[j] # "none" => /\ status'[j][newest[j]] = status[j][newest[j]]
                                      /\ <<j, newest[j]>> \in retry' => <<j, newest[j]>> \in retry
  <2>1. j \in Items /\ RunOf[j] = r /\ newest[j] \in Channels \cup {"none"}
    BY DEF ItemsOf, OutreachInv, RowsAgree
  <2>2. newest'[j] = newest[j]
    BY <2>1
  <2>3. ~(j = i /\ newest[j] = ch)
    BY <2>1
  <2> QED BY <1>1, <2>1, <2>2, <2>3
<1> QED BY <1>2, RestStays

(* A status page at rest is not out of date: without a request, only work it *)
(* polls for, or an attempt it shows, changes what it shows                  *)
(* (status.delivery_status_context).                                         *)
THEOREM StillPageIsFinalAlways == OutreachSpec => StillPageIsFinal
<1> DEFINE Quiet(r) == AtRest(r)' /\ \A i \in ItemsOf(r) : ShownStatus(i)' = ShownStatus(i)
           Still == \A r \in Runs :
                      AtRest(r) /\ ~Overrun(r) /\ requests' = requests /\ ~PostConfirmed => Quiet(r)
<1>1. OutreachInv /\ RequestsAreCounted /\ [OutreachNext]_outreachVars => [Still]_outreachVars
  <2> SUFFICES ASSUME OutreachInv, RequestsAreCounted, OutreachNext, NEW r \in Runs,
                      AtRest(r), ~Overrun(r), requests' = requests, ~PostConfirmed
               PROVE  Quiet(r)
    OBVIOUS
  <2>0. RowsAgree /\ BatchesAgree /\ SweepsAgree
    BY DEF OutreachInv
  <2>a. ASSUME UNCHANGED <<status, retry, newest>>, batch'[r] = batch[r] PROVE Quiet(r)
    BY <2>a, RestStays
  <2>b. batch[r].status \notin {"scheduled", "queued", "running"}
    BY DEF AtRest, Live
  <2>1. Worker
    <3>1. ~Request
      BY DEF Request, RequestsAreCounted
    <3> QED BY <3>1 DEF OutreachNext, Outside, ConfirmSend, BulkConfirm, Shows, PostDirect, Settle,
               ReportFails, EditContact
  <2>2. ASSUME NEW q \in Runs, \/ Activate(q) \/ StartBatch(q) \/ FinishBatch(q)
                               \/ SweepStarts(q) \/ SweepNotifies(q) \/ SweepDies(q)
        PROVE  Quiet(r)
    <3>1. UNCHANGED rowVars
      BY <2>2 DEF Activate, StartBatch, FinishBatch, SweepStarts, SweepNotifies, SweepDies
    <3>2. batch'[r] = batch[r]
      <4>1. CASE SweepStarts(q) \/ SweepNotifies(q) \/ SweepDies(q)
        BY <4>1 DEF SweepStarts, SweepNotifies, SweepDies, batchVars
      <4>2. CASE Activate(q) \/ StartBatch(q) \/ FinishBatch(q)
        <5>1. q # r
          BY <2>b, <4>2 DEF Activate, StartBatch, FinishBatch
        <5>2. \E now : batch' = [batch EXCEPT ![q].status = now]
          BY <4>2 DEF Activate, StartBatch, FinishBatch, Becomes
        <5> QED BY <2>0, <5>1, <5>2 DEF BatchesAgree
      <4> QED BY <2>2, <4>1, <4>2
    <3> QED BY <2>a, <3>1, <3>2 DEF rowVars
  <2>3. ASSUME NEW q \in Runs, NEW i \in todo[q], batch[q].status = "running",
               NEW now \in Statuses, RowBecomes(i, ChannelOf(i, batch[q].channel), now),
               Inserted(i, ChannelOf(i, batch[q].channel)), batch'[r] = batch[r],
               retry' \subseteq retry \cup {<<i, ChannelOf(i, batch[q].channel)>>}
        PROVE  Quiet(r)
    <3> DEFINE ch == ChannelOf(i, batch[q].channel)
    <3>1. i \in Items /\ RunOf[i] = q /\ q # r
      BY <2>0, <2>3, <2>b DEF BatchesAgree, ItemsOf
    <3>2. ch \in Channels
      BY <2>0, <2>3, <3>1, SentOver
    <3> HIDE DEF ch
    <3>3. \A j \in Items \ {i} : newest'[j] = newest[j]
      BY <2>0, <2>3 DEF Inserted, RowsAgree
    <3> QED BY <2>3, <3>1, <3>2, <3>3, RestBesides DEF ch
  <2>4. ASSUME NEW q \in Runs, NEW at \in SUBSET Items, BatchFails(q, at) \/ Requeue(q, at)
        PROVE  Quiet(r)
    <3>1. /\ batch[q].status = "running" /\ StopsAt(q, at)
          /\ \E now : batch' = [batch EXCEPT ![q].status = now]
      BY <2>4 DEF BatchFails, Requeue, Becomes
    <3>2. batch'[r] = batch[r]
      BY <2>0, <2>b, <3>1 DEF BatchesAgree
    <3>3. CASE UNCHANGED rowVars
      BY <2>a, <3>2, <3>3 DEF rowVars
    <3>4. ASSUME NEW i \in todo[q], Claimed(i, ChannelOf(i, batch[q].channel)),
                 Inserted(i, ChannelOf(i, batch[q].channel))
          PROVE  Quiet(r)
      <4>1. i \in Items
        BY <2>0 DEF BatchesAgree
      <4>2. RowBecomes(i, ChannelOf(i, batch[q].channel), "sending") /\ "sending" \in Statuses
        <5>1. ChannelOf(i, batch[q].channel) \in Channels
          BY <2>0, <3>1, <4>1, SentOver
        <5> QED BY <2>0, <3>4, <4>1, <5>1, CappedIs DEF Claimed, RowBecomes, Statuses
      <4>3. retry' = retry
        BY <3>4 DEF Claimed
      <4> QED BY <2>3, <3>1, <3>2, <3>4, <4>2, <4>3
    <3> QED BY <3>1, <3>3, <3>4 DEF StopsAt
  <2>5. ASSUME NEW q \in Runs, NEW i \in Items, NEW outcome \in Outcomes, SendOne(q, i, outcome)
        PROVE  Quiet(r)
    <3> DEFINE ch == ChannelOf(i, batch[q].channel)
    <3>1. batch[q].status = "running" /\ i \in todo[q] /\ batch' = batch
      BY <2>5 DEF SendOne
    <3>2. CASE UNCHANGED rowVars
      BY <2>a, <3>1, <3>2 DEF rowVars
    <3>3. CASE Recorded(i, ch, outcome, Capped(attempts[i][ch])) /\ Inserted(i, ch)
      <4>1. ch \in Channels
        BY <2>0, <3>1, SentOver
      <4>2. Capped(attempts[i][ch]) \in 0 .. MaxAttempts
        BY <2>0, <4>1, CappedIs
      <4>3. /\ Verdict(outcome) \in Statuses /\ RowBecomes(i, ch, Verdict(outcome))
            /\ retry' \subseteq retry \cup {<<i, ch>>}
        BY <2>0, <3>3, <4>1, <4>2, RecordedIs
      <4> QED BY <2>3, <3>1, <3>3, <4>3
    <3> QED BY <2>5, <3>2, <3>3 DEF SendOne
  <2>6. ASSUME NEW i \in Items, NEW ch \in Channels, NEW now \in Statuses, RowBecomes(i, ch, now),
               RunOf[i] = r => newest[i] # ch,
               retry' \subseteq retry \cup {<<i, ch>>}, UNCHANGED <<newest, batch>>
        PROVE  Quiet(r)
    BY <2>6, RestBesides
  <2>7. ASSUME NEW q \in Runs, NEW i \in Items, NEW ch \in Channels, SweepClaims(q, i, ch)
        PROVE  Quiet(r)
    <3>1. UNCHANGED <<newest, batch>>
      BY <2>7 DEF SweepClaims, batchVars
    <3>2. CASE ~(status[i][ch] = "failed" /\ <<i, ch>> \in retry)
      <4>1. UNCHANGED <<status, retry>>
        BY <2>7, <3>2 DEF SweepClaims
      <4> QED BY <2>a, <3>1, <4>1
    <3>3. CASE status[i][ch] = "failed" /\ <<i, ch>> \in retry
      <4>1. Claimed(i, ch)
        BY <2>7, <3>3 DEF SweepClaims
      <4>2. RowBecomes(i, ch, "sending") /\ retry' = retry /\ "sending" \in Statuses
        BY <2>0, <4>1, CappedIs DEF Claimed, RowBecomes, Statuses
      <4>3. RunOf[i] = r => newest[i] # ch
        BY <3>3, ChannelsAre DEF AtRest, Live, ItemsOf
      <4> QED BY <2>6, <3>1, <4>2, <4>3
    <3> QED BY <3>2, <3>3
  <2>8. ASSUME NEW q \in Runs, NEW i \in Items, NEW ch \in Channels, NEW outcome \in Outcomes,
               SweepRecords(q, i, ch, outcome)
        PROVE  Quiet(r)
    <3>1. /\ <<i, ch>> \in sweep[q].at /\ Recorded(i, ch, outcome, attempts[i][ch])
          /\ UNCHANGED <<newest, batch>>
      BY <2>8 DEF SweepRecords, batchVars
    <3>2. attempts[i][ch] \in 0 .. MaxAttempts
      BY <2>0 DEF RowsAgree
    <3>3. /\ Verdict(outcome) \in Statuses /\ RowBecomes(i, ch, Verdict(outcome))
          /\ retry' \subseteq retry \cup {<<i, ch>>}
      BY <2>0, <3>1, <3>2, RecordedIs
    <3>4. RunOf[i] = q
      <4>1. <<i, ch>> \in sweep[q].due
        BY <2>0, <3>1 DEF SweepsAgree
      <4>2. RunOf[<<i, ch>>[1]] = q
        BY <2>0, <4>1 DEF SweepsAgree
      <4> QED BY <4>2
    <3>5. q = r => status[i][ch] = "sending"
      BY <3>1 DEF Overrun, Status
    <3>6. RunOf[i] = r => newest[i] # ch
      BY <3>4, <3>5, ChannelsAre DEF AtRest, ShownStatus, ItemsOf
    <3> QED BY <2>6, <3>1, <3>3, <3>6
  <2>9. ASSUME NEW i \in Items, NEW ch \in Channels, RecoverStale(i, ch) PROVE Quiet(r)
    <3>1. /\ status[i][ch] = "sending" /\ RowBecomes(i, ch, "unknown") /\ "unknown" \in Statuses
          /\ retry' \subseteq retry /\ UNCHANGED <<newest, batch>>
      BY <2>9 DEF RecoverStale, RowBecomes, Statuses, batchVars
    <3>2. RunOf[i] = r => newest[i] # ch
      BY <3>1, ChannelsAre DEF AtRest, ShownStatus, ItemsOf
    <3> QED BY <2>6, <3>1, <3>2
  <2> HIDE DEF Quiet
  <2> QED BY <2>1, <2>2, <2>4, <2>5, <2>7, <2>8, <2>9 DEF Worker
<1> QED BY <1>1, OutreachInvAlways, RequestsCount, PTL DEF OutreachSpec, StillPageIsFinal

-----------------------------------------------------------------------------
(* The nonce of a send *)

USE DEF PCs, NoSummary

(* Between its claim and its answer a request owns its nonce. *)
Active(q) == pc[q] \in {"run", "insert", "read", "store", "undo"}

(* The part of a request's way on which no batch counts as its own. *)
Fresh(q) == pc[q] \in {"run", "insert", "undo"}

(* What run_fn returns is a batch there is, once the request has committed it. *)
SummariesNameBatches ==
    \A q \in Requests : pc[q] \in {"read", "store"} => summary[q].batch \in 1..Len(batches)

(* The unique column at work: whoever is active holds the claim of its       *)
(* nonce, alone.                                                             *)
OneOwner ==
    /\ \A q \in Requests : Active(q) => key[KeyOf[q]] = "claimed"
    /\ \A p, q \in Requests : KeyOf[p] = KeyOf[q] /\ Active(p) /\ Active(q) => p = q

(* The batches of a nonce that no failed request left behind: one at most,   *)
(* none while it is unclaimed or its owner has yet to commit, and the        *)
(* owner's own while it reads it back.                                       *)
BatchesOfKeys ==
    /\ \A b, c \in 1..Len(batches) \ lost :
         batches[b].key = batches[c].key /\ batches[b].key \in Keys => b = c
    /\ \A b \in 1..Len(batches) \ lost, k \in Keys : batches[b].key = k => key[k] # "absent"
    /\ \A b \in 1..Len(batches) \ lost, q \in Requests :
         batches[b].key = KeyOf[q] => ~Fresh(q) /\ (pc[q] = "read" => b = summary[q].batch)

(* Whoever was told of a batch was told of the stored one. *)
AnswersAreStored ==
    \A q \in Requests : answer[q] # 0 =>
        key[KeyOf[q]] = "stored" /\ answer[q] = response[KeyOf[q]]

(* A claim has its owner, unless a crash or a dated summary took it. *)
ClaimsHaveOwners ==
    \A k \in Keys : key[k] = "claimed" =>
        crashes > 0 \/ \E q \in Requests : KeyOf[q] = k /\ (Active(q) \/ summary[q].dated)

RequestInv ==
    /\ RequestTypeOK /\ SummariesNameBatches
    /\ OneOwner /\ BatchesOfKeys /\ AnswersAreStored /\ ClaimsHaveOwners

-----------------------------------------------------------------------------
(* Every batch of the run is a row of the table. *)
LEMMA RowsTyped ==
    RequestTypeOK => \A b \in 1..Len(batches) :
        batches[b] \in [open : BOOLEAN, dated : BOOLEAN, key : Keys \cup {"schedule"}]
<1> DEFINE Row == [open : BOOLEAN, dated : BOOLEAN, key : Keys \cup {"schedule"}]
<1>1. RequestTypeOK => batches \in Seq(Row)
  BY DEF RequestTypeOK
<1>2. batches \in Seq(Row) => \A b \in 1..Len(batches) : batches[b] \in Row
  <2> HIDE DEF Row
  <2> QED OBVIOUS
<1> QED BY <1>1, <1>2

(* No step, of any request, of the worker or of the schedule route, breaks   *)
(* the types, the "response iff stored" of the IdempotencyKey row, or the    *)
(* summary a request is about to store.                                      *)
LEMMA TypeStep ==
    RequestTypeOK /\ SummariesNameBatches /\ OneOwner /\ [RequestNext]_requestVars
        => RequestTypeOK' /\ SummariesNameBatches'
<1> SUFFICES ASSUME RequestTypeOK, SummariesNameBatches, OneOwner, [RequestNext]_requestVars
             PROVE  RequestTypeOK' /\ SummariesNameBatches'
  OBVIOUS
<1> USE KeyOfAssumption, RequestBounds DEF RequestTypeOK, SummariesNameBatches, Goto
<1>1. ASSUME NEW q \in Requests, ClaimKey(q) PROVE RequestTypeOK' /\ SummariesNameBatches'
  BY <1>1 DEF ClaimKey
<1>2. ASSUME NEW q \in Requests, ReplayExisting(q) PROVE RequestTypeOK' /\ SummariesNameBatches'
  BY <1>2 DEF ReplayExisting
<1>3. ASSUME NEW q \in Requests, EnqueueLoads(q) PROVE RequestTypeOK' /\ SummariesNameBatches'
  <2>1. CASE Open = {}
    BY <1>3, <2>1 DEF EnqueueLoads
  <2>2. CASE Open # {}
    <3>1. PICK b \in Open : summary' = [summary EXCEPT ![q] = [batch |-> b, dated |-> batches[b].dated]]
      BY <1>3, <2>2 DEF EnqueueLoads
    <3>2. b \in 1..Len(batches)
      BY DEF Open
    <3>a. batches[b].dated \in BOOLEAN
      BY <3>2, RowsTyped
    <3>3. /\ pc' = [pc EXCEPT ![q] = "store"]
          /\ UNCHANGED <<key, response, batches, answer, lost, crashes>>
      BY <1>3, <2>2 DEF EnqueueLoads
    <3> HIDE DEF Open
    <3> QED BY <3>1, <3>2, <3>a, <3>3
  <2> QED BY <2>1, <2>2
<1>4. ASSUME NEW q \in Requests, EnqueueCommits(q) PROVE RequestTypeOK' /\ SummariesNameBatches'
  BY <1>4 DEF EnqueueCommits
<1>12. ASSUME NEW q \in Requests, EnqueueReads(q) PROVE RequestTypeOK' /\ SummariesNameBatches'
  BY <1>12 DEF EnqueueReads
<1>5. ASSUME NEW q \in Requests, RunRaises(q) PROVE RequestTypeOK' /\ SummariesNameBatches'
  <2>1. /\ pc' = [pc EXCEPT ![q] = "undo"] /\ summary' = [summary EXCEPT ![q] = NoSummary]
        /\ UNCHANGED <<key, response, batches, answer, crashes>>
    BY <1>5 DEF RunRaises
  <2>2. lost' \subseteq 1..Len(batches)
    BY <1>5 DEF RunRaises
  <2> QED BY <2>1, <2>2
<1>6. ASSUME NEW q \in Requests, ReleaseKey(q) PROVE RequestTypeOK' /\ SummariesNameBatches'
  BY <1>6 DEF ReleaseKey, OneOwner, Active
<1>7. ASSUME NEW q \in Requests, StoreResponse(q) PROVE RequestTypeOK' /\ SummariesNameBatches'
  <2>1. CASE summary[q].dated
    BY <1>7, <2>1 DEF StoreResponse
  <2>2. CASE ~summary[q].dated
    <3>1. summary[q].batch \in 1..MaxBatches
      BY <1>7 DEF StoreResponse
    <3>2. /\ key' = [key EXCEPT ![KeyOf[q]] = "stored"]
          /\ response' = [response EXCEPT ![KeyOf[q]] = summary[q].batch]
          /\ answer' = [answer EXCEPT ![q] = summary[q].batch]
          /\ pc' = [pc EXCEPT ![q] = "done"]
          /\ UNCHANGED <<batches, summary, lost, crashes>>
      BY <1>7, <2>2 DEF StoreResponse
    <3>3. \A k \in Keys : key'[k] = "stored" <=> response'[k] # 0
      BY <3>1, <3>2
    <3>4. response' \in [Keys -> 0..MaxBatches] /\ answer' \in [Requests -> 0..MaxBatches]
      BY <3>1, <3>2
    <3>5. SummariesNameBatches'
      BY <3>2
    <3>6. key' \in [Keys -> {"absent", "claimed", "stored"}] /\ pc' \in [Requests -> PCs]
      BY <3>2
    <3> QED BY <3>2, <3>3, <3>4, <3>5, <3>6
  <2> QED BY <2>1, <2>2
<1>8. ASSUME NEW q \in Requests, RequestDies(q) PROVE RequestTypeOK' /\ SummariesNameBatches'
  BY <1>8 DEF RequestDies
<1>9. CASE ScheduleBatch
  BY <1>9 DEF ScheduleBatch
<1>10. ASSUME NEW b \in 1..MaxBatches, BatchFinishes(b)
       PROVE  RequestTypeOK' /\ SummariesNameBatches'
  <2> DEFINE Row == [open : BOOLEAN, dated : BOOLEAN, key : Keys \cup {"schedule"}]
  <2>1. b \in 1..Len(batches) /\ batches \in Seq(Row)
    BY <1>10 DEF BatchFinishes, Open
  <2>2. batches' = [batches EXCEPT ![b] = [batches[b] EXCEPT !.open = FALSE]]
    BY <1>10 DEF BatchFinishes
  <2>3. [batches[b] EXCEPT !.open = FALSE] \in Row
    BY <2>1, RowsTyped
  <2>4. batches' \in Seq(Row) /\ Len(batches') = Len(batches)
    <3> HIDE DEF Row
    <3> QED BY <2>1, <2>2, <2>3
  <2>5. UNCHANGED <<key, response, pc, summary, answer, lost, crashes>>
    BY <1>10 DEF BatchFinishes
  <2> QED BY <2>4, <2>5
<1>11. CASE UNCHANGED requestVars
  BY <1>11 DEF requestVars
<1> QED
  BY <1>1, <1>2, <1>3, <1>4, <1>5, <1>6, <1>7, <1>8, <1>9, <1>10, <1>11, <1>12 DEF RequestNext

-----------------------------------------------------------------------------
(* OneOwner is preserved: only ClaimKey makes a request active, and it finds *)
(* the nonce absent, so nobody else was active under it.                     *)
LEMMA OwnerStep ==
    RequestTypeOK /\ OneOwner /\ [RequestNext]_requestVars => OneOwner'
<1> SUFFICES ASSUME RequestTypeOK, OneOwner, [RequestNext]_requestVars PROVE OneOwner'
  OBVIOUS
<1> USE KeyOfAssumption DEF OneOwner, Active, Goto
<1>0. key \in [Keys -> {"absent", "claimed", "stored"}] /\ pc \in [Requests -> PCs]
  BY DEF RequestTypeOK
<1>1. ASSUME NEW q \in Requests, ClaimKey(q) PROVE OneOwner'
  BY <1>0, <1>1 DEF ClaimKey
<1>2. ASSUME NEW q \in Requests, ReplayExisting(q) PROVE OneOwner'
  BY <1>0, <1>2 DEF ReplayExisting
<1>3. ASSUME NEW q \in Requests, EnqueueLoads(q) PROVE OneOwner'
  BY <1>0, <1>3 DEF EnqueueLoads
<1>4. ASSUME NEW q \in Requests, EnqueueCommits(q) PROVE OneOwner'
  BY <1>0, <1>4 DEF EnqueueCommits
<1>12. ASSUME NEW q \in Requests, EnqueueReads(q) PROVE OneOwner'
  BY <1>0, <1>12 DEF EnqueueReads
<1>5. ASSUME NEW q \in Requests, RunRaises(q) PROVE OneOwner'
  BY <1>0, <1>5 DEF RunRaises
<1>6. ASSUME NEW q \in Requests, ReleaseKey(q) PROVE OneOwner'
  BY <1>0, <1>6 DEF ReleaseKey
<1>7. ASSUME NEW q \in Requests, StoreResponse(q) PROVE OneOwner'
  BY <1>0, <1>7 DEF StoreResponse
<1>8. ASSUME NEW q \in Requests, RequestDies(q) PROVE OneOwner'
  BY <1>0, <1>8 DEF RequestDies
<1>9. CASE ScheduleBatch
  BY <1>9 DEF ScheduleBatch
<1>10. ASSUME NEW b \in 1..MaxBatches, BatchFinishes(b) PROVE OneOwner'
  BY <1>10 DEF BatchFinishes
<1>11. CASE UNCHANGED requestVars
  BY <1>11 DEF requestVars
<1> QED
  BY <1>1, <1>2, <1>3, <1>4, <1>5, <1>6, <1>7, <1>8, <1>9, <1>10, <1>11, <1>12 DEF RequestNext

-----------------------------------------------------------------------------
(* BatchesOfKeys is preserved: EnqueueCommits appends under a nonce of which *)
(* the request is the one owner, and a nonce is released only by an owner    *)
(* that has committed nothing.                                               *)
LEMMA BatchesStep ==
    RequestTypeOK /\ OneOwner /\ BatchesOfKeys /\ [RequestNext]_requestVars => BatchesOfKeys'
<1> SUFFICES ASSUME RequestTypeOK, OneOwner, BatchesOfKeys, [RequestNext]_requestVars
             PROVE  BatchesOfKeys'
  OBVIOUS
<1> USE KeyOfAssumption, KeysAssumption DEF BatchesOfKeys, Fresh, Goto
<1>0. /\ key \in [Keys -> {"absent", "claimed", "stored"}] /\ pc \in [Requests -> PCs]
      /\ batches \in Seq([open : BOOLEAN, dated : BOOLEAN, key : Keys \cup {"schedule"}])
      /\ summary \in [Requests -> [batch : 0..MaxBatches, dated : BOOLEAN]]
      /\ lost \subseteq 1..Len(batches)
  BY DEF RequestTypeOK
<1>1. ASSUME NEW q \in Requests, ClaimKey(q) PROVE BatchesOfKeys'
  BY <1>0, <1>1 DEF ClaimKey
<1>2. ASSUME NEW q \in Requests, ReplayExisting(q) PROVE BatchesOfKeys'
  BY <1>0, <1>2 DEF ReplayExisting
<1>3. ASSUME NEW q \in Requests, EnqueueLoads(q) PROVE BatchesOfKeys'
  BY <1>0, <1>3 DEF EnqueueLoads
<1>4. ASSUME NEW q \in Requests, EnqueueCommits(q) PROVE BatchesOfKeys'
  <2>1. /\ batches' = Append(batches, [open |-> TRUE, dated |-> FALSE, key |-> KeyOf[q]])
        /\ pc[q] = "insert" /\ pc' = [pc EXCEPT ![q] = "read"]
        /\ summary' = [summary EXCEPT ![q] = [batch |-> Len(batches) + 1, dated |-> FALSE]]
        /\ key' = key /\ lost' = lost
    BY <1>4 DEF EnqueueCommits
  <2>2. /\ Len(batches') = Len(batches) + 1
        /\ batches'[Len(batches) + 1].key = KeyOf[q]
        /\ \A b \in 1..Len(batches) : batches'[b] = batches[b]
    BY <1>0, <2>1
  <2>3. key[KeyOf[q]] = "claimed"
        /\ \A p \in Requests : KeyOf[p] = KeyOf[q] /\ (Fresh(p) \/ pc[p] = "read") => p = q
    BY <2>1 DEF OneOwner, Active
  <2>4. 1..Len(batches') \ lost' = (1..Len(batches) \ lost) \cup {Len(batches) + 1}
    BY <1>0, <2>1, <2>2
  <2>5. \A b \in 1..Len(batches) \ lost : batches[b].key # KeyOf[q] /\ b # Len(batches) + 1
    BY <1>0, <2>1
  <2>6. KeyOf[q] \in Keys
    OBVIOUS
  <2>7. \A b, c \in 1..Len(batches') \ lost' :
           batches'[b].key = batches'[c].key /\ batches'[b].key \in Keys => b = c
    BY <2>2, <2>4, <2>5
  <2>8. \A b \in 1..Len(batches') \ lost', k \in Keys : batches'[b].key = k => key'[k] # "absent"
    BY <2>1, <2>2, <2>3, <2>4
  <2>9. ASSUME NEW b \in 1..Len(batches') \ lost', NEW p \in Requests, batches'[b].key = KeyOf[p]
        PROVE  ~Fresh(p)' /\ (pc'[p] = "read" => b = summary'[p].batch)
    <3>1. CASE p = q
      BY <1>0, <2>1, <2>2, <2>4, <2>5, <2>9, <3>1
    <3>2. CASE p # q
      BY <1>0, <2>1, <2>2, <2>3, <2>4, <2>9, <3>2
    <3> QED BY <3>1, <3>2
  <2> QED BY <2>7, <2>8, <2>9
<1>12. ASSUME NEW q \in Requests, EnqueueReads(q) PROVE BatchesOfKeys'
  BY <1>0, <1>12 DEF EnqueueReads
<1>5. ASSUME NEW q \in Requests, RunRaises(q) PROVE BatchesOfKeys'
  BY <1>0, <1>5 DEF RunRaises
<1>6. ASSUME NEW q \in Requests, ReleaseKey(q) PROVE BatchesOfKeys'
  BY <1>0, <1>6 DEF ReleaseKey
<1>7. ASSUME NEW q \in Requests, StoreResponse(q) PROVE BatchesOfKeys'
  BY <1>0, <1>7 DEF StoreResponse
<1>8. ASSUME NEW q \in Requests, RequestDies(q) PROVE BatchesOfKeys'
  BY <1>0, <1>8 DEF RequestDies
<1>9. CASE ScheduleBatch
  <2>1. /\ batches' = Append(batches, [open |-> TRUE, dated |-> TRUE, key |-> "schedule"])
        /\ pc' = pc /\ key' = key /\ lost' = lost /\ summary' = summary
    BY <1>9 DEF ScheduleBatch
  <2>2. /\ Len(batches') = Len(batches) + 1
        /\ batches'[Len(batches) + 1].key = "schedule"
        /\ \A b \in 1..Len(batches) : batches'[b] = batches[b]
    BY <1>0, <2>1
  <2>3. 1..Len(batches') = 1..Len(batches) \cup {Len(batches) + 1}
    BY <1>0, <2>2
  <2>4. Len(batches) + 1 \notin 1..Len(batches)
    BY <1>0
  <2> QED BY <2>1, <2>2, <2>3, <2>4
<1>10. ASSUME NEW b \in 1..MaxBatches, BatchFinishes(b) PROVE BatchesOfKeys'
  <2>1. /\ b \in 1..Len(batches)
        /\ batches' = [batches EXCEPT ![b] = [batches[b] EXCEPT !.open = FALSE]]
        /\ pc' = pc /\ key' = key /\ lost' = lost /\ summary' = summary
    BY <1>10 DEF BatchFinishes, Open
  <2>2. Len(batches') = Len(batches) /\ \A c \in 1..Len(batches) : batches'[c].key = batches[c].key
    BY <1>0, <2>1
  <2> QED BY <1>0, <2>1, <2>2
<1>11. CASE UNCHANGED requestVars
  BY <1>11 DEF requestVars
<1> QED
  BY <1>1, <1>2, <1>3, <1>4, <1>5, <1>6, <1>7, <1>8, <1>9, <1>10, <1>11, <1>12 DEF RequestNext
-----------------------------------------------------------------------------
(* AnswersAreStored is preserved: a stored nonce has no active request, so   *)
(* nobody rewrites or deletes the response that was given out.               *)
LEMMA AnswersStep ==
    RequestTypeOK /\ OneOwner /\ AnswersAreStored /\ [RequestNext]_requestVars
        => AnswersAreStored'
<1> SUFFICES ASSUME RequestTypeOK, OneOwner, AnswersAreStored, [RequestNext]_requestVars
             PROVE  AnswersAreStored'
  OBVIOUS
<1> USE KeyOfAssumption DEF AnswersAreStored, Goto
<1>0. /\ key \in [Keys -> {"absent", "claimed", "stored"}]
      /\ response \in [Keys -> 0..MaxBatches]
      /\ \A k \in Keys : key[k] = "stored" <=> response[k] # 0
      /\ answer \in [Requests -> 0..MaxBatches]
      /\ \A q \in Requests : Active(q) => key[KeyOf[q]] = "claimed"
  BY DEF RequestTypeOK, OneOwner
<1>1. ASSUME NEW q \in Requests, ClaimKey(q) PROVE AnswersAreStored'
  BY <1>0, <1>1 DEF ClaimKey
<1>2. ASSUME NEW q \in Requests, ReplayExisting(q) PROVE AnswersAreStored'
  BY <1>0, <1>2 DEF ReplayExisting
<1>3. ASSUME NEW q \in Requests, EnqueueLoads(q) PROVE AnswersAreStored'
  BY <1>0, <1>3 DEF EnqueueLoads
<1>4. ASSUME NEW q \in Requests, EnqueueCommits(q) PROVE AnswersAreStored'
  BY <1>0, <1>4 DEF EnqueueCommits
<1>12. ASSUME NEW q \in Requests, EnqueueReads(q) PROVE AnswersAreStored'
  BY <1>0, <1>12 DEF EnqueueReads
<1>5. ASSUME NEW q \in Requests, RunRaises(q) PROVE AnswersAreStored'
  BY <1>0, <1>5 DEF RunRaises
<1>6. ASSUME NEW q \in Requests, ReleaseKey(q) PROVE AnswersAreStored'
  BY <1>0, <1>6 DEF ReleaseKey, Active
<1>7. ASSUME NEW q \in Requests, StoreResponse(q) PROVE AnswersAreStored'
  BY <1>0, <1>7 DEF StoreResponse, Active
<1>8. ASSUME NEW q \in Requests, RequestDies(q) PROVE AnswersAreStored'
  BY <1>0, <1>8 DEF RequestDies
<1>9. CASE ScheduleBatch
  BY <1>9 DEF ScheduleBatch
<1>10. ASSUME NEW b \in 1..MaxBatches, BatchFinishes(b) PROVE AnswersAreStored'
  BY <1>10 DEF BatchFinishes
<1>11. CASE UNCHANGED requestVars
  BY <1>11 DEF requestVars
<1> QED
  BY <1>1, <1>2, <1>3, <1>4, <1>5, <1>6, <1>7, <1>8, <1>9, <1>10, <1>11, <1>12 DEF RequestNext

-----------------------------------------------------------------------------
(* ClaimsHaveOwners is preserved: an owner that stops being one has stored   *)
(* its answer, released the nonce, crashed, or holds a dated summary.        *)
LEMMA ClaimsStep ==
    RequestTypeOK /\ OneOwner /\ ClaimsHaveOwners /\ [RequestNext]_requestVars
        => ClaimsHaveOwners'
<1> SUFFICES ASSUME RequestTypeOK, OneOwner, ClaimsHaveOwners, [RequestNext]_requestVars,
                    NEW k \in Keys, key'[k] = "claimed", ~(crashes' > 0)
             PROVE  \E p \in Requests : KeyOf[p] = k /\ (Active(p)' \/ summary'[p].dated)
  BY DEF ClaimsHaveOwners
<1> DEFINE Owned == \E p \in Requests : KeyOf[p] = k /\ (Active(p)' \/ summary'[p].dated)
<1> USE KeyOfAssumption DEF Active, Goto
<1>0. /\ key \in [Keys -> {"absent", "claimed", "stored"}] /\ pc \in [Requests -> PCs]
      /\ summary \in [Requests -> [batch : 0..MaxBatches, dated : BOOLEAN]]
      /\ crashes \in Nat
  BY RequestBounds DEF RequestTypeOK
<1>a. ASSUME key[k] = "claimed", crashes' = crashes
      PROVE  \E p \in Requests : KeyOf[p] = k /\ (Active(p) \/ summary[p].dated)
  BY <1>a DEF ClaimsHaveOwners
<1>1. ASSUME NEW q \in Requests, ClaimKey(q) PROVE Owned
  BY <1>0, <1>a, <1>1 DEF ClaimKey
<1>2. ASSUME NEW q \in Requests, ReplayExisting(q) PROVE Owned
  BY <1>0, <1>a, <1>2 DEF ReplayExisting
<1>3. ASSUME NEW q \in Requests, EnqueueLoads(q) PROVE Owned
  BY <1>0, <1>a, <1>3 DEF EnqueueLoads
<1>4. ASSUME NEW q \in Requests, EnqueueCommits(q) PROVE Owned
  BY <1>0, <1>a, <1>4 DEF EnqueueCommits
<1>12. ASSUME NEW q \in Requests, EnqueueReads(q) PROVE Owned
  BY <1>0, <1>a, <1>12 DEF EnqueueReads
<1>5. ASSUME NEW q \in Requests, RunRaises(q) PROVE Owned
  BY <1>0, <1>a, <1>5 DEF RunRaises
<1>6. ASSUME NEW q \in Requests, ReleaseKey(q) PROVE Owned
  BY <1>0, <1>a, <1>6 DEF ReleaseKey
<1>7. ASSUME NEW q \in Requests, StoreResponse(q) PROVE Owned
  BY <1>0, <1>a, <1>7 DEF StoreResponse
<1>8. ASSUME NEW q \in Requests, RequestDies(q) PROVE Owned
  BY <1>0, <1>a, <1>8 DEF RequestDies
<1>9. CASE ScheduleBatch
  BY <1>a, <1>9 DEF ScheduleBatch
<1>10. ASSUME NEW b \in 1..MaxBatches, BatchFinishes(b) PROVE Owned
  BY <1>a, <1>10 DEF BatchFinishes
<1>11. CASE UNCHANGED requestVars
  BY <1>a, <1>11 DEF requestVars
<1> QED
  BY <1>1, <1>2, <1>3, <1>4, <1>5, <1>6, <1>7, <1>8, <1>9, <1>10, <1>11, <1>12 DEF RequestNext

-----------------------------------------------------------------------------
(* The inductive invariant holds throughout. *)
THEOREM RequestInvAlways == RequestSpec => []RequestInv
<1>1. RequestInit => RequestInv
  BY KeyOfAssumption, RequestBounds
     DEF RequestInit, RequestInv, RequestTypeOK, SummariesNameBatches, OneOwner, Active,
         BatchesOfKeys, Fresh, AnswersAreStored, ClaimsHaveOwners
<1>2. RequestInv /\ [RequestNext]_requestVars => RequestInv'
  BY TypeStep, OwnerStep, BatchesStep, AnswersStep, ClaimsStep DEF RequestInv
<1> QED BY <1>1, <1>2, PTL DEF RequestSpec

(* However a press of "Send payslips" is repeated, retried or interrupted,   *)
(* its nonce creates at most one batch and all who are told of one are told  *)
(* of the same (idempotency.replay_or_run around enqueue_distribution).      *)
THEOREM OneBatchAlways == RequestSpec => []OneBatchPerNonce
<1>1. RequestInv => OneBatchPerNonce
  <2> SUFFICES ASSUME RequestInv PROVE OneBatchPerNonce
    OBVIOUS
  <2>1. ASSUME NEW k \in Keys
        PROVE  Cardinality({b \in 1..Len(batches) \ lost : batches[b].key = k}) <= 1
    <3> DEFINE B == {b \in 1..Len(batches) \ lost : batches[b].key = k}
    <3>1. B = {} \/ \E b : B = {b}
      BY DEF RequestInv, BatchesOfKeys
    <3>2. Cardinality({}) = 0 /\ \A b : Cardinality({b}) = 1
      BY FS_EmptySet, FS_Singleton
    <3>3. Cardinality(B) <= 1
      <4> HIDE DEF B
      <4> QED BY <3>1, <3>2
    <3> QED BY <3>3
  <2>2. ASSUME NEW p \in Requests, NEW q \in Requests,
               KeyOf[p] = KeyOf[q], answer[p] # 0, answer[q] # 0
        PROVE  answer[p] = answer[q]
    BY <2>2 DEF RequestInv, AnswersAreStored
  <2> QED BY <2>1, <2>2 DEF OneBatchPerNonce
<1> QED BY <1>1, RequestInvAlways, PTL

(* A nonce is never claimed with nobody at work on it, except after a crash  *)
(* or a summary with a scheduled time, which replay_or_run cannot store.     *)
THEOREM ClaimsResolvedAlways == RequestSpec => []ClaimsAreResolved
<1>1. RequestInv => ClaimsAreResolved
  BY DEF RequestInv, ClaimsHaveOwners, ClaimsAreResolved, Active
<1> QED BY <1>1, RequestInvAlways, PTL

-----------------------------------------------------------------------------
(* The three together *)

(* What the run explores behaves, in each of its parts, as that part's own   *)
(* specification says: the theorems above are about the run's states.        *)
LEMMA RunIsItsParts == Spec => RequestSpec /\ OutreachSpec /\ LinksSpec
<1>1. Init => RequestInit /\ OutreachInit /\ LinksInit
  BY DEF Init
<1>2. [Next]_<<part, requestVars, outreachVars, payslipVars>> => [RequestNext]_requestVars
  BY DEF Next, RequestMoves, OutreachMoves, LinksMoves
<1>3. [Next]_<<part, requestVars, outreachVars, payslipVars>> => [OutreachNext]_outreachVars
  BY DEF Next, RequestMoves, OutreachMoves, LinksMoves
<1>4. [Next]_<<part, requestVars, outreachVars, payslipVars>> => [LinksNext]_payslipVars
  BY DEF Next, RequestMoves, OutreachMoves, LinksMoves
<1> QED BY <1>1, <1>2, <1>3, <1>4, PTL DEF Spec, RequestSpec, OutreachSpec, LinksSpec

(* Types hold in every state, for any constants: a key has a response if and *)
(* only if it is stored (idempotency.py), a retry stands on a failed row     *)
(* with attempts left (service.py), a delivery has one claim, and no SMS     *)
(* takes more than one part (render.py).                                     *)
THEOREM SendingTypesAlways == Spec => []TypeOK
<1>1. RequestInv => RequestTypeOK
  BY DEF RequestInv
<1>2. RequestTypeOK /\ OutreachTypeOK /\ LinksTypeOK => TypeOK
  BY DEF TypeOK
<1> QED BY <1>1, <1>2, RunIsItsParts, RequestInvAlways, OutreachTypesAlways, LinksTypesAlways, PTL
=============================================================================
