--------------------------- MODULE LimiterProofs ---------------------------
(***************************************************************************)
(* Proofs about Limiters, for any number of threads, addresses and          *)
(* processes and for all limits: the failed sign-ins of a subscriber stay   *)
(* bounded, requests and sends keep their rates.                            *)
(*                                                                          *)
(* The entry of an address forgets when its failures were made, so a bound  *)
(* on the failures within a window needs what the entry still says of them: *)
(* which were made before its round began, that a round without a lock has  *)
(* fewer than the limit, and that a lock outlasts every failure it was set  *)
(* for.                                                                     *)
(***************************************************************************)
EXTENDS Limiters, Least, FiniteSetTheorems, SequenceTheorems, TLAPS

(* Stamps, oldest first.                                                     *)
OldestFirst(ages) == \A i, j \in DOMAIN ages : i < j => ages[i] >= ages[j]

KeyOf(r) == RateLimitKey(ClientIp(r))

-----------------------------------------------------------------------------
(* Sign-ins *)

Entry == [failures : Nat, age : 0 .. Window, left : NoLock .. Lockout]

(* A key has no entry, or one that is locked, or was, from the limit on.     *)
EntryShape(e) ==
    \/ e = <<>>
    \/ \E x \in Entry : e = <<x>> /\ (x.left = NoLock <=> x.failures < LOGIN_MAX_ATTEMPTS)

LoginShapes ==
    /\ entry = [k \in Keys |-> entry[k]]
    /\ \A k \in Keys : EntryShape(entry[k])
    /\ pc \in [Threads -> {"idle", "verify"}]
    /\ attempt = [t \in Threads |-> attempt[t]]
    /\ \A t \in Threads : pc[t] = "verify" =>
         \E r \in Requests, u \in Accounts :
           attempt[t] = <<{KeyOf(r), AccountKey(u)}, AccountKey(u), Subscriber(r)>>
    /\ guesses \in [Subscribers -> Seq(0 .. Window - 1)]
    /\ \A s \in Subscribers : OldestFirst(guesses[s])

(* The threads past the check with a sign-in of subscriber s.                *)
Verifying(s) == {t \in Threads : pc[t] = "verify" /\ attempt[t][3] = s}

(* Failures of the round before the entry's, at most one round short of a    *)
(* lock, are older than the entry; the others are counted in it.             *)
TwoRounds(e, made) ==
    \E before \in 0 .. LOGIN_MAX_ATTEMPTS - 1 :
      /\ before <= Len(made)
      /\ Len(made) - before <= e.failures
      /\ \A i \in 1 .. before : made[i] >= e.age

(* What the entry of an address, or its absence, says of the failures its    *)
(* subscriber made within the window; verifying: those on their way.         *)
Vouches(e, made, verifying) ==
    /\ e = <<>> => Len(made) < LOGIN_MAX_ATTEMPTS
    /\ e # <<>> =>
         /\ e[1].left = NoLock => TwoRounds(e[1], made)
         /\ e[1].left = 0 => made = <<>>
         /\ e[1].left > 0 =>
              /\ Len(made) + Cardinality(verifying)
                   <= 2 * (LOGIN_MAX_ATTEMPTS - 1) + Cardinality(Threads)
              /\ \A i \in DOMAIN made : made[i] >= Lockout - e[1].left

FailuresAreAccounted ==
    \A r \in Requests :
      Vouches(entry[KeyOf(r)], guesses[Subscriber(r)], Verifying(Subscriber(r)))

LoginInv == LoginShapes /\ FailuresAreAccounted

-----------------------------------------------------------------------------
(* Requests and sends *)

RequestShapes ==
    /\ hits \in [IpKeys -> Seq(0 .. Window)]
    /\ \A k \in IpKeys : OldestFirst(hits[k])
    /\ served = [s \in Subscribers |-> served[s]]

(* What an address was counted is what its subscriber was served, as far as  *)
(* the window goes, however the table was cleared.                           *)
CountedIsServed ==
    \A r \in Requests :
      /\ served[Subscriber(r)] = Recent(hits[KeyOf(r)])
      /\ Len(served[Subscriber(r)]) <= PerWindow

RequestsInv == RequestShapes /\ CountedIsServed

(* Slots are given in order, and the next free one lies an interval after    *)
(* each of them.                                                             *)
SlotsInv ==
    /\ next \in [Processes -> Nat]
    /\ slots \in [Processes -> Seq(Int)]
    /\ \A p \in Processes, i \in Nat : i \in DOMAIN slots[p] =>
         next[p] - slots[p][i] >= MinInterval
    /\ \A p \in Processes : \A i, j \in DOMAIN slots[p] :
         i < j => slots[p][j] - slots[p][i] >= MinInterval

-----------------------------------------------------------------------------
(* Tails of sequences *)

(* Indices that include every one below them are the first so many.          *)
LEMMA PrefixOf ==
    ASSUME NEW n \in Nat, NEW D \in SUBSET (1 .. n),
           \A j \in D : \A i \in 1 .. n : i < j => i \in D
    PROVE  \E d \in 0 .. n : D = 1 .. d /\ Cardinality(D) = d
<1> DEFINE out == (1 .. n) \ D
<1>1. PICK d \in 0 .. n : D = 1 .. d
  <2>1. CASE out = {}
    <3>1. \A i \in 1 .. n : i \in D
      BY <2>1
    <3>2. D = 1 .. n
      BY <3>1
    <3>3. n \in 0 .. n
      OBVIOUS
    <3> QED BY <3>2, <3>3
  <2>2. CASE out # {}
    <3>1. PICK m \in out : \A y \in out : m <= y
      <4>1. out \in SUBSET Nat
        OBVIOUS
      <4> HIDE DEF out
      <4> QED BY <2>2, <4>1, LeastExists
    <3>2. m \in 1 .. n /\ m \notin D /\ m - 1 \in 0 .. n
      BY <3>1
    <3>3. \A i \in 1 .. m - 1 : i \in D
      BY <3>1, <3>2
    <3>4. \A i \in D : i \in 1 .. m - 1
      BY <3>2
    <3> QED BY <3>2, <3>3, <3>4
  <2> QED BY <2>1, <2>2
<1>2. Cardinality(1 .. d) = d
  BY FS_Interval
<1> QED BY <1>1, <1>2

(* Of stamps, oldest first, those from an age up come first.                 *)
LEMMA HighFirst ==
    ASSUME NEW ages \in Seq(Int), OldestFirst(ages), NEW limit \in Int
    PROVE  \E d \in 0 .. Len(ages) :
             /\ Cardinality({i \in DOMAIN ages : ages[i] >= limit}) = d
             /\ \A i \in 1 .. d : ages[i] >= limit
             /\ \A i \in d + 1 .. Len(ages) : ages[i] < limit
<1> DEFINE high == {i \in DOMAIN ages : ages[i] >= limit}
<1>1. Len(ages) \in Nat /\ DOMAIN ages = 1 .. Len(ages) /\ \A i \in 1 .. Len(ages) : ages[i] \in Int
  BY LenProperties, ElementOfSeq
<1>2. high \in SUBSET (1 .. Len(ages)) /\ \A j \in high : \A i \in 1 .. Len(ages) : i < j => i \in high
  BY <1>1 DEF OldestFirst
<1>3. PICK d \in 0 .. Len(ages) : high = 1 .. d /\ Cardinality(high) = d
  <2> HIDE DEF high
  <2> QED BY <1>1, <1>2, PrefixOf
<1>4. \A i \in 1 .. d : ages[i] >= limit
  BY <1>3
<1>5. \A i \in d + 1 .. Len(ages) : ages[i] < limit
  <2> SUFFICES ASSUME NEW i \in d + 1 .. Len(ages) PROVE ages[i] < limit
    OBVIOUS
  <2>1. i \notin 1 .. d /\ i \in 1 .. Len(ages)
    BY <1>1
  <2> QED BY <1>1, <1>3, <2>1
<1> QED BY <1>3, <1>4, <1>5

(* A tail of stamps.                                                         *)
LEMMA TailOf ==
    ASSUME NEW S, NEW s \in Seq(S), NEW d \in 0 .. Len(s)
    PROVE  LET t == SubSeq(s, d + 1, Len(s))
           IN  /\ Len(t) = Len(s) - d /\ DOMAIN t = 1 .. Len(s) - d
               /\ \A i \in 1 .. Len(s) - d : i + d \in 1 .. Len(s) /\ t[i] = s[i + d]
               /\ \A T : (\A i \in d + 1 .. Len(s) : s[i] \in T) => t \in Seq(T)
<1> DEFINE t == SubSeq(s, d + 1, Len(s))
<1>1. Len(s) \in Nat /\ \A i \in 1 .. Len(s) : s[i] \in S
  BY LenProperties, ElementOfSeq
<1>2. ASSUME NEW T, \A i \in d + 1 .. Len(s) : s[i] \in T
      PROVE  /\ t \in Seq(T)
             /\ Len(t) = IF d + 1 <= Len(s) THEN Len(s) - (d + 1) + 1 ELSE 0
             /\ \A i \in 1 .. Len(s) - (d + 1) + 1 : t[i] = s[d + 1 + i - 1]
  BY <1>1, <1>2, SubSeqProperties
<1>3. \A i \in d + 1 .. Len(s) : s[i] \in S
  BY <1>1
<1>4. /\ t \in Seq(S) /\ Len(t) = Len(s) - d
      /\ \A i \in 1 .. Len(s) - (d + 1) + 1 : t[i] = s[d + 1 + i - 1]
  BY <1>1, <1>2, <1>3
<1>5. DOMAIN t = 1 .. Len(s) - d
  BY <1>4, LenProperties
<1>6. \A i \in 1 .. Len(s) - d : i + d \in 1 .. Len(s) /\ t[i] = s[i + d]
  <2> SUFFICES ASSUME NEW i \in 1 .. Len(s) - d PROVE i + d \in 1 .. Len(s) /\ t[i] = s[i + d]
    OBVIOUS
  <2>1. d + 1 + i - 1 = i + d /\ i \in 1 .. Len(s) - (d + 1) + 1
    BY <1>1
  <2>2. t[i] = s[d + 1 + i - 1]
    BY <1>4, <2>1
  <2> HIDE DEF t
  <2> QED BY <1>1, <2>1, <2>2
<1> QED BY <1>2, <1>4, <1>5, <1>6

(* What the window leaves of the stamps, and what a tick makes of them.      *)
LEMMA RecentIs ==
    ASSUME NEW ages \in Seq(0 .. Window), OldestFirst(ages)
    PROVE  \E d \in 0 .. Len(ages) :
             /\ \A i \in 1 .. d : ages[i] >= Window
             /\ \A i \in d + 1 .. Len(ages) : ages[i] < Window
             /\ Recent(ages) \in Seq(0 .. Window - 1) /\ OldestFirst(Recent(ages))
             /\ Len(Recent(ages)) = Len(ages) - d
             /\ \A i \in 1 .. Len(ages) - d : i + d \in 1 .. Len(ages) /\ Recent(ages)[i] = ages[i + d]
<1>0. Window \in Int /\ ages \in Seq(Int)
  BY LimitsAssumption, SeqMonotonic
<1>1. PICK d \in 0 .. Len(ages) :
             /\ Cardinality({i \in DOMAIN ages : ages[i] >= Window}) = d
             /\ \A i \in 1 .. d : ages[i] >= Window
             /\ \A i \in d + 1 .. Len(ages) : ages[i] < Window
  BY <1>0, HighFirst
<1>2. Recent(ages) = SubSeq(ages, d + 1, Len(ages))
  BY <1>1 DEF Recent
<1>3. Len(ages) \in Nat /\ DOMAIN ages = 1 .. Len(ages) /\ \A i \in 1 .. Len(ages) : ages[i] \in 0 .. Window
  BY LenProperties, ElementOfSeq
<1>4. /\ Len(Recent(ages)) = Len(ages) - d /\ DOMAIN Recent(ages) = 1 .. Len(ages) - d
      /\ \A i \in 1 .. Len(ages) - d : i + d \in 1 .. Len(ages) /\ Recent(ages)[i] = ages[i + d]
      /\ (\A i \in d + 1 .. Len(ages) : ages[i] \in 0 .. Window - 1) => Recent(ages) \in Seq(0 .. Window - 1)
  BY <1>2, TailOf
<1>5. \A i \in d + 1 .. Len(ages) : ages[i] \in 0 .. Window - 1
  BY <1>0, <1>1, <1>3
<1>6. OldestFirst(Recent(ages))
  <2> SUFFICES ASSUME NEW i \in 1 .. Len(ages) - d, NEW j \in 1 .. Len(ages) - d, i < j
               PROVE  Recent(ages)[i] >= Recent(ages)[j]
    BY <1>4 DEF OldestFirst
  <2>1. i + d \in DOMAIN ages /\ j + d \in DOMAIN ages /\ i + d < j + d
    BY <1>3, <1>4
  <2>2. ages[i + d] >= ages[j + d]
    BY <2>1 DEF OldestFirst
  <2> QED BY <1>4, <2>2
<1> QED BY <1>1, <1>4, <1>5, <1>6

LEMMA AgedIs ==
    ASSUME NEW ages \in Seq(0 .. Window), OldestFirst(ages)
    PROVE  /\ Aged(ages, Window) \in Seq(0 .. Window) /\ OldestFirst(Aged(ages, Window))
           /\ Len(Aged(ages, Window)) = Len(ages)
           /\ \A i \in 1 .. Len(ages) :
                Aged(ages, Window)[i] = IF ages[i] < Window THEN ages[i] + 1 ELSE Window
<1>0. Window \in Nat
  BY LimitsAssumption
<1>1. Len(ages) \in Nat /\ DOMAIN ages = 1 .. Len(ages) /\ \A i \in 1 .. Len(ages) : ages[i] \in 0 .. Window
  BY LenProperties, ElementOfSeq
<1>2. Aged(ages, Window) = [i \in 1 .. Len(ages) |-> IF ages[i] < Window THEN ages[i] + 1 ELSE Window]
  BY <1>1 DEF Aged
<1>3. \A i \in 1 .. Len(ages) : (IF ages[i] < Window THEN ages[i] + 1 ELSE Window) \in 0 .. Window
  BY <1>0, <1>1
<1>4. Aged(ages, Window) \in Seq(0 .. Window) /\ Len(Aged(ages, Window)) = Len(ages)
  BY <1>1, <1>2, <1>3
<1>5. OldestFirst(Aged(ages, Window))
  BY <1>0, <1>1, <1>2 DEF OldestFirst
<1> QED BY <1>2, <1>4, <1>5

(* Stamps all in the window lose none.                                       *)
LEMMA AllRecent ==
    ASSUME NEW ages \in Seq(0 .. Window - 1), OldestFirst(ages)
    PROVE  ages \in Seq(0 .. Window) /\ Recent(ages) = ages
<1>1. ages \in Seq(0 .. Window)
  BY LimitsAssumption, SeqMonotonic
<1>2. Len(ages) \in Nat /\ \A i \in 1 .. Len(ages) : ages[i] \in 0 .. Window - 1
  BY LenProperties, ElementOfSeq
<1>3. PICK d \in 0 .. Len(ages) :
             /\ \A i \in 1 .. d : ages[i] >= Window
             /\ Recent(ages) \in Seq(0 .. Window - 1)
             /\ Len(Recent(ages)) = Len(ages) - d
             /\ \A i \in 1 .. Len(ages) - d : Recent(ages)[i] = ages[i + d]
  BY <1>1, RecentIs
<1>4. d = 0
  BY <1>2, <1>3, LimitsAssumption
<1>5. Len(Recent(ages)) = Len(ages) /\ \A i \in 1 .. Len(ages) : Recent(ages)[i] = ages[i]
  BY <1>2, <1>3, <1>4
<1> QED BY <1>1, <1>3, <1>5, SeqEqual

(* Stamps none of which is in the window leave none.                         *)
LEMMA NoneRecent ==
    ASSUME NEW ages \in Seq(0 .. Window), OldestFirst(ages),
           ages = <<>> \/ ages[Len(ages)] >= Window
    PROVE  Recent(ages) = <<>>
<1>1. Len(ages) \in Nat /\ DOMAIN ages = 1 .. Len(ages) /\ \A i \in 1 .. Len(ages) : ages[i] \in 0 .. Window
  BY LenProperties, ElementOfSeq
<1>2. PICK d \in 0 .. Len(ages) :
             /\ \A i \in d + 1 .. Len(ages) : ages[i] < Window
             /\ Recent(ages) \in Seq(0 .. Window - 1)
             /\ Len(Recent(ages)) = Len(ages) - d
  BY RecentIs
<1>3. d = Len(ages)
  <2>0. d \in Int /\ d <= Len(ages) /\ Len(ages) \in Int
    BY <1>1
  <2> SUFFICES ASSUME d < Len(ages) PROVE FALSE
    BY <2>0
  <2>1. Len(ages) \in d + 1 .. Len(ages) /\ Len(ages) \in 1 .. Len(ages) /\ ages # <<>>
    BY <1>1
  <2>2. ages[Len(ages)] < Window /\ ages[Len(ages)] >= Window /\ ages[Len(ages)] \in Int
    BY <1>1, <1>2, <2>1
  <2> QED BY <2>2, LimitsAssumption
<1>4. Len(Recent(ages)) = 0
  BY <1>1, <1>2, <1>3
<1> QED BY <1>2, <1>4, EmptySeq

(* What has left the window does not come back: it may be forgotten before   *)
(* a tick or after it.                                                       *)
LEMMA ForgottenSooner ==
    ASSUME NEW ages \in Seq(0 .. Window), OldestFirst(ages)
    PROVE  Recent(Aged(Recent(ages), Window)) = Recent(Aged(ages, Window))
<1> DEFINE kept == Recent(ages)
           late == Aged(ages, Window)
           lateKept == Aged(kept, Window)
<1>0. Window \in Nat \ {0}
  BY LimitsAssumption
<1>1. Len(ages) \in Nat /\ \A i \in 1 .. Len(ages) : ages[i] \in 0 .. Window
  BY LenProperties, ElementOfSeq
<1>2. PICK d \in 0 .. Len(ages) :
             /\ \A i \in 1 .. d : ages[i] >= Window
             /\ \A i \in d + 1 .. Len(ages) : ages[i] < Window
             /\ kept \in Seq(0 .. Window - 1) /\ OldestFirst(kept)
             /\ Len(kept) = Len(ages) - d
             /\ \A i \in 1 .. Len(ages) - d : i + d \in 1 .. Len(ages) /\ kept[i] = ages[i + d]
  BY RecentIs
<1>3. kept \in Seq(0 .. Window)
  BY <1>2, AllRecent
<1>4. /\ late \in Seq(0 .. Window) /\ OldestFirst(late) /\ Len(late) = Len(ages)
      /\ \A i \in 1 .. Len(ages) : late[i] = IF ages[i] < Window THEN ages[i] + 1 ELSE Window
  BY AgedIs
<1>5. /\ lateKept \in Seq(0 .. Window) /\ OldestFirst(lateKept) /\ Len(lateKept) = Len(kept)
      /\ \A i \in 1 .. Len(kept) : lateKept[i] = IF kept[i] < Window THEN kept[i] + 1 ELSE Window
  BY <1>2, <1>3, AgedIs
<1> HIDE DEF kept, late, lateKept
<1>6. PICK m \in 0 .. Len(late) :
             /\ \A i \in 1 .. m : late[i] >= Window
             /\ \A i \in m + 1 .. Len(late) : late[i] < Window
             /\ Recent(late) \in Seq(0 .. Window - 1)
             /\ Len(Recent(late)) = Len(late) - m
             /\ \A i \in 1 .. Len(late) - m : Recent(late)[i] = late[i + m]
  BY <1>4, RecentIs
<1>t. \A i \in 1 .. Len(late) : late[i] \in Int
  BY <1>4, ElementOfSeq, <1>0
<1>7. PICK n \in 0 .. Len(lateKept) :
             /\ \A i \in 1 .. n : lateKept[i] >= Window
             /\ \A i \in n + 1 .. Len(lateKept) : lateKept[i] < Window
             /\ Recent(lateKept) \in Seq(0 .. Window - 1)
             /\ Len(Recent(lateKept)) = Len(lateKept) - n
             /\ \A i \in 1 .. Len(lateKept) - n : Recent(lateKept)[i] = lateKept[i + n]
  BY <1>5, RecentIs
<1>8. \A i \in 1 .. Len(ages) - d : i + d \in 1 .. Len(ages) /\ lateKept[i] = late[i + d]
  <2> SUFFICES ASSUME NEW i \in 1 .. Len(ages) - d
               PROVE  i + d \in 1 .. Len(ages) /\ lateKept[i] = late[i + d]
    OBVIOUS
  <2>1. i \in 1 .. Len(kept) /\ i + d \in 1 .. Len(ages) /\ kept[i] = ages[i + d]
    BY <1>2
  <2> QED BY <1>4, <1>5, <2>1
<1>9. d <= m
  <2> SUFFICES ASSUME m < d PROVE FALSE
    BY <1>1, <1>2, <1>4, <1>6
  <2>1. m + 1 \in 1 .. d /\ m + 1 \in 1 .. Len(ages) /\ m + 1 \in m + 1 .. Len(late)
    BY <1>1, <1>2, <1>4, <1>6
  <2>2. ages[m + 1] >= Window /\ ages[m + 1] \in Int
    BY <1>1, <1>2, <2>1
  <2>3. late[m + 1] = Window
    BY <1>0, <1>4, <2>1, <2>2
  <2>4. late[m + 1] < Window
    BY <1>6, <2>1
  <2> QED BY <1>0, <2>3, <2>4
<1>10. n = m - d
  <2>1. CASE n < m - d
    <3>1. n + 1 \in 1 .. Len(ages) - d /\ n + 1 \in n + 1 .. Len(lateKept) /\ n + 1 + d \in 1 .. m
      BY <1>1, <1>2, <1>4, <1>5, <1>6, <1>7, <2>1
    <3>2. lateKept[n + 1] < Window /\ late[n + 1 + d] >= Window /\ lateKept[n + 1] = late[n + 1 + d]
      BY <1>6, <1>7, <1>8, <3>1
    <3> QED BY <1>0, <1>t, <1>8, <1>4, <3>1, <3>2
  <2>2. CASE n > m - d
    <3>1. n \in 1 .. Len(ages) - d /\ n \in 1 .. n /\ n + d \in m + 1 .. Len(late)
      BY <1>1, <1>2, <1>4, <1>5, <1>6, <1>7, <1>9, <2>2
    <3>2. lateKept[n] >= Window /\ late[n + d] < Window /\ lateKept[n] = late[n + d]
      BY <1>6, <1>7, <1>8, <3>1
    <3> QED BY <1>0, <1>t, <1>8, <1>4, <3>1, <3>2
  <2> QED BY <1>1, <1>2, <1>4, <1>6, <1>7, <2>1, <2>2
<1>11. Len(Recent(lateKept)) = Len(Recent(late))
  BY <1>1, <1>2, <1>4, <1>5, <1>6, <1>7, <1>10
<1>12. ASSUME NEW i \in 1 .. Len(Recent(lateKept)) PROVE Recent(lateKept)[i] = Recent(late)[i]
  <2>1. i \in 1 .. Len(late) - m /\ i \in 1 .. Len(lateKept) - n /\ i + n \in 1 .. Len(ages) - d
    BY <1>1, <1>2, <1>4, <1>5, <1>6, <1>7, <1>10, <1>12
  <2>2. Recent(lateKept)[i] = lateKept[i + n] /\ Recent(late)[i] = late[i + m]
    BY <1>6, <1>7, <2>1
  <2>3. lateKept[i + n] = late[i + n + d] /\ i + n + d = i + m
    BY <1>1, <1>2, <1>4, <1>6, <1>7, <1>8, <1>10, <2>1
  <2> QED BY <2>2, <2>3
<1>13. Recent(lateKept) = Recent(late)
  BY <1>6, <1>7, <1>11, <1>12, SeqEqual
<1> QED BY <1>13 DEF kept, late, lateKept

-----------------------------------------------------------------------------
(* Requests *)

(* The key of a request is an address of the table.                          *)
LEMMA KeyIsTracked ==
    ASSUME NEW r \in Requests PROVE KeyOf(r) \in IpKeys /\ KeyOf(r) \in Keys /\ Subscriber(r) \in Subscribers
BY DEF KeyOf, IpKeys, Keys, Subscribers

(* An address has one subscriber, and a subscriber one address.              *)
LEMMA OneKeyEach ==
    ASSUME NEW q \in Requests, NEW r \in Requests
    PROVE  KeyOf(q) = KeyOf(r) <=> Subscriber(q) = Subscriber(r)
<1>1. ASSUME NEW x \in Requests PROVE KeyOf(x)[2] = Subscriber(x)
  BY DEF KeyOf, RateLimitKey, Subscriber
<1>2. Subscriber(q) = Subscriber(r) => KeyOf(q) = KeyOf(r)
  BY SubscribersAssumption DEF KeyOf
<1> QED BY <1>1, <1>2

(* A request let through is counted and served alike, in a table from which  *)
(* some idle addresses were dropped.                                         *)
LEMMA LetThroughStep ==
    ASSUME RequestsInv, NEW r \in Requests, NEW kept,
           kept = [k \in IpKeys |-> kept[k]],
           \A k \in IpKeys : kept[k] = hits[k] \/ (kept[k] = <<>> /\ Idle(k)),
           Len(Recent(kept[KeyOf(r)])) < PerWindow,
           LetThrough(r, [kept EXCEPT ![KeyOf(r)] = Append(Recent(@), 0)])
    PROVE  RequestsInv'
<1>0. Window \in Nat \ {0} /\ PerWindow \in Nat
  BY LimitsAssumption
<1>1. <<>> \in Seq(0 .. Window) /\ OldestFirst(<<>>) /\ Recent(<<>>) = <<>>
  <2>1. <<>> \in Seq(0 .. Window) /\ OldestFirst(<<>>)
    BY EmptySeq DEF OldestFirst
  <2> QED BY <2>1, NoneRecent
<1>2. \A k \in IpKeys : /\ kept[k] \in Seq(0 .. Window) /\ OldestFirst(kept[k])
                        /\ Recent(kept[k]) = Recent(hits[k])
  <2> SUFFICES ASSUME NEW k \in IpKeys
               PROVE  /\ kept[k] \in Seq(0 .. Window) /\ OldestFirst(kept[k])
                      /\ Recent(kept[k]) = Recent(hits[k])
    OBVIOUS
  <2>1. hits[k] \in Seq(0 .. Window) /\ OldestFirst(hits[k])
    BY DEF RequestsInv, RequestShapes
  <2>2. CASE kept[k] = hits[k]
    BY <2>1, <2>2
  <2>3. CASE kept[k] = <<>> /\ Idle(k)
    <3>1. Recent(hits[k]) = <<>>
      BY <2>1, <2>3, NoneRecent DEF Idle
    <3> QED BY <1>1, <2>3, <3>1
  <2> QED BY <2>2, <2>3
<1> DEFINE new == Append(Recent(kept[KeyOf(r)]), 0)
           s == Subscriber(r)
<1>3. /\ hits' = [k \in IpKeys |-> IF k = KeyOf(r) THEN new ELSE kept[k]]
      /\ served' = [x \in Subscribers |-> IF x = s THEN Append(served[s], 0) ELSE served[x]]
  BY KeyIsTracked DEF LetThrough, RequestsInv, RequestShapes
<1>4. /\ Recent(kept[KeyOf(r)]) \in Seq(0 .. Window - 1) /\ OldestFirst(Recent(kept[KeyOf(r)]))
  BY <1>2, KeyIsTracked, RecentIs
<1>5. new \in Seq(0 .. Window - 1) /\ Len(new) = Len(Recent(kept[KeyOf(r)])) + 1 /\ OldestFirst(new)
  <2> DEFINE old == Recent(kept[KeyOf(r)])
  <2>1. Len(old) \in Nat /\ DOMAIN old = 1 .. Len(old) /\ \A i \in 1 .. Len(old) : old[i] \in 0 .. Window - 1
    BY <1>4, LenProperties, ElementOfSeq
  <2> HIDE DEF old
  <2>2. old \in Seq(0 .. Window - 1) /\ OldestFirst(old)
    BY <1>4 DEF old
  <2>3. /\ Append(old, 0) \in Seq(0 .. Window - 1) /\ Len(Append(old, 0)) = Len(old) + 1
        /\ DOMAIN Append(old, 0) = 1 .. Len(old) + 1
        /\ \A i \in 1 .. Len(old) : Append(old, 0)[i] = old[i]
        /\ Append(old, 0)[Len(old) + 1] = 0
    BY <1>0, <2>1, <2>2
  <2>4. OldestFirst(Append(old, 0))
    <3> SUFFICES ASSUME NEW i \in 1 .. Len(old) + 1, NEW j \in 1 .. Len(old) + 1, i < j
                 PROVE  Append(old, 0)[i] >= Append(old, 0)[j]
      BY <2>3 DEF OldestFirst
    <3>1. i \in 1 .. Len(old) /\ Append(old, 0)[i] = old[i] /\ old[i] \in 0 .. Window - 1
      BY <2>1, <2>3
    <3>2. CASE j = Len(old) + 1
      BY <1>0, <2>3, <3>1, <3>2
    <3>3. CASE j \in 1 .. Len(old)
      BY <2>1, <2>2, <2>3, <3>1, <3>3 DEF OldestFirst
    <3> QED BY <2>1, <3>2, <3>3
  <2> QED BY <2>3, <2>4 DEF old
<1>6. Recent(new) = new /\ new \in Seq(0 .. Window)
  BY <1>5, AllRecent
<1> HIDE DEF new
<1>7. RequestShapes'
  BY <1>2, <1>3, <1>5, <1>6 DEF RequestShapes, OldestFirst
<1>8. CountedIsServed'
  <2> SUFFICES ASSUME NEW q \in Requests
               PROVE  /\ served'[Subscriber(q)] = Recent(hits'[KeyOf(q)])
                      /\ Len(served'[Subscriber(q)]) <= PerWindow
    BY DEF CountedIsServed, Recent
  <2>1. served[Subscriber(q)] = Recent(hits[KeyOf(q)]) /\ Len(served[Subscriber(q)]) <= PerWindow
    BY DEF RequestsInv, CountedIsServed
  <2>2. KeyOf(q) \in IpKeys /\ Subscriber(q) \in Subscribers
    BY KeyIsTracked
  <2>3. CASE Subscriber(q) = s
    <3>1. KeyOf(q) = KeyOf(r)
      BY <2>3, OneKeyEach
    <3>2. served'[Subscriber(q)] = new
      BY <1>2, <1>3, <2>1, <2>2, <2>3, <3>1 DEF new
    <3>3. Len(Recent(kept[KeyOf(r)])) \in Nat
      BY <1>4, LenProperties
    <3>4. Len(new) <= PerWindow
      BY <1>0, <1>5, <3>3
    <3> QED BY <1>3, <1>6, <2>2, <3>1, <3>2, <3>4
  <2>4. CASE Subscriber(q) # s
    <3>1. KeyOf(q) # KeyOf(r)
      BY <2>4, OneKeyEach
    <3>2. served'[Subscriber(q)] = served[Subscriber(q)] /\ hits'[KeyOf(q)] = kept[KeyOf(q)]
      BY <1>3, <2>2, <2>4, <3>1
    <3> QED BY <1>2, <2>1, <2>2, <3>2
  <2> QED BY <2>3, <2>4
<1> QED BY <1>7, <1>8 DEF RequestsInv

(* The counts of requests are kept by every step.                            *)
LEMMA RequestsStep == ASSUME RequestsInv, [Next]_vars PROVE RequestsInv'
<1>1. CASE UNCHANGED requestVars
  BY <1>1 DEF RequestsInv, RequestShapes, CountedIsServed, requestVars, OldestFirst, Recent
<1>2. ASSUME NEW r \in Requests, Allow(r) PROVE RequestsInv'
  <2> DEFINE kept == IF Cardinality(Tracked) < MaxTracked THEN hits
                     ELSE [j \in IpKeys |-> IF Idle(j) THEN <<>> ELSE hits[j]]
  <2>1. /\ Len(Recent(kept[KeyOf(r)])) < PerWindow
        /\ LetThrough(r, [kept EXCEPT ![KeyOf(r)] = Append(Recent(@), 0)])
    BY <1>2 DEF Allow, KeyOf
  <2>2. /\ kept = [k \in IpKeys |-> kept[k]]
        /\ \A k \in IpKeys : kept[k] = hits[k] \/ (kept[k] = <<>> /\ Idle(k))
    BY DEF RequestsInv, RequestShapes
  <2> HIDE DEF kept
  <2> QED BY <2>1, <2>2, LetThroughStep
<1>3. ASSUME NEW r \in Requests, AllowAccessRequest(r) PROVE RequestsInv'
  <2> DEFINE full == Cardinality(Tracked) >= MaxTracked /\ hits[KeyOf(r)] = <<>>
             kept == IF full THEN [j \in IpKeys |-> IF Idle(j) THEN <<>> ELSE hits[j]] ELSE hits
  <2>1. /\ Len(Recent(hits[KeyOf(r)])) < PerWindow
        /\ LetThrough(r, [kept EXCEPT ![KeyOf(r)] = Append(Recent(@), 0)])
    BY <1>3 DEF AllowAccessRequest, KeyOf
  <2>2. /\ kept = [k \in IpKeys |-> kept[k]]
        /\ \A k \in IpKeys : kept[k] = hits[k] \/ (kept[k] = <<>> /\ Idle(k))
        /\ kept[KeyOf(r)] = hits[KeyOf(r)]
    BY KeyIsTracked DEF RequestsInv, RequestShapes, Idle
  <2> HIDE DEF kept
  <2> QED BY <2>1, <2>2, LetThroughStep
<1>4. CASE Tick
  <2>1. /\ hits' = [k \in IpKeys |-> Aged(hits[k], Window)]
        /\ served' = [s \in Subscribers |-> Recent(Aged(served[s], Window))]
    BY <1>4 DEF Tick
  <2>2. \A k \in IpKeys : hits[k] \in Seq(0 .. Window) /\ OldestFirst(hits[k])
    BY DEF RequestsInv, RequestShapes
  <2>3. \A k \in IpKeys : Aged(hits[k], Window) \in Seq(0 .. Window) /\ OldestFirst(Aged(hits[k], Window))
    BY <2>2, AgedIs
  <2>4. RequestShapes'
    BY <2>1, <2>3 DEF RequestShapes, OldestFirst
  <2>5. CountedIsServed'
    <3> SUFFICES ASSUME NEW q \in Requests
                 PROVE  /\ served'[Subscriber(q)] = Recent(hits'[KeyOf(q)])
                        /\ Len(served'[Subscriber(q)]) <= PerWindow
      BY DEF CountedIsServed, Recent
    <3> DEFINE h == hits[KeyOf(q)]
    <3>1. served[Subscriber(q)] = Recent(h) /\ Len(served[Subscriber(q)]) <= PerWindow
      BY DEF RequestsInv, CountedIsServed
    <3>2. KeyOf(q) \in IpKeys /\ Subscriber(q) \in Subscribers /\ h \in Seq(0 .. Window) /\ OldestFirst(h)
      BY <2>2, KeyIsTracked
    <3>3. /\ served'[Subscriber(q)] = Recent(Aged(Recent(h), Window))
          /\ Recent(hits'[KeyOf(q)]) = Recent(Aged(h, Window))
      BY <2>1, <3>1, <3>2
    <3>4. /\ Recent(h) \in Seq(0 .. Window) /\ OldestFirst(Recent(h))
      BY <3>2, RecentIs, AllRecent
    <3>5. Len(Recent(Aged(Recent(h), Window))) <= Len(Recent(h)) /\ Len(Recent(h)) \in Nat
          /\ Len(Recent(Aged(Recent(h), Window))) \in Nat
      <4> DEFINE a == Aged(Recent(h), Window)
      <4>1. a \in Seq(0 .. Window) /\ OldestFirst(a) /\ Len(a) = Len(Recent(h)) /\ Len(a) \in Nat
        BY <3>4, AgedIs, LenProperties
      <4> HIDE DEF a
      <4>2. PICK d \in 0 .. Len(a) : Len(Recent(a)) = Len(a) - d
        BY <4>1, RecentIs
      <4> QED BY <4>1, <4>2 DEF a
    <3> QED BY <3>1, <3>2, <3>3, <3>5, ForgottenSooner, LimitsAssumption
  <2> QED BY <2>4, <2>5 DEF RequestsInv
<1>5. CASE \E t \in Threads : \/ \E r \in Requests, u \in Accounts : Login(t, r, u)
                             \/ WrongPassword(t) \/ RightPassword(t)
  BY <1>1, <1>5 DEF Login, WrongPassword, RightPassword
<1>6. CASE (\E p \in Processes : Throttle(p)) \/ CheckSla \/ WorkerRaises \/ Restart \/ RowsChange
  BY <1>1, <1>6 DEF Throttle, CheckSla, WorkerRaises, Restart, RowsChange
<1>7. CASE UNCHANGED vars
  BY <1>1, <1>7 DEF vars
<1> QED BY <1>2, <1>3, <1>4, <1>5, <1>6, <1>7 DEF Next

-----------------------------------------------------------------------------
(* Sends *)

(* The slots of a process, a tick later: those that are kept lie one tick    *)
(* nearer, and the kept ones are the last.                                   *)
LEMMA LaterIs ==
    ASSUME NEW given \in Seq(Int),
           \A i, j \in DOMAIN given : i < j => given[j] - given[i] >= MinInterval
    PROVE  \E d \in 0 .. Len(given) :
             /\ Later(given) \in Seq(Int) /\ DOMAIN Later(given) = 1 .. Len(given) - d
             /\ \A i \in 1 .. Len(given) - d :
                  /\ i + d \in DOMAIN given /\ given[i + d] > 1 - MinInterval
                  /\ Later(given)[i] = given[i + d] - 1
<1> DEFINE past == {i \in DOMAIN given : given[i] <= 1 - MinInterval}
           late == [i \in DOMAIN given |-> given[i] - 1]
<1>0. MinInterval \in Nat \ {0}
  BY LimitsAssumption
<1>1. Len(given) \in Nat /\ DOMAIN given = 1 .. Len(given) /\ \A i \in 1 .. Len(given) : given[i] \in Int
  BY LenProperties, ElementOfSeq
<1>2. past \in SUBSET (1 .. Len(given)) /\ \A j \in past : \A i \in 1 .. Len(given) : i < j => i \in past
  <2>1. past \in SUBSET (1 .. Len(given))
    BY <1>1
  <2> SUFFICES ASSUME NEW j \in past, NEW i \in 1 .. Len(given), i < j PROVE i \in past
    BY <2>1
  <2>2. given[j] - given[i] >= MinInterval /\ given[j] <= 1 - MinInterval
    BY <1>1
  <2> QED BY <1>0, <1>1, <2>1, <2>2
<1>3. PICK d \in 0 .. Len(given) : past = 1 .. d /\ Cardinality(past) = d
  <2> HIDE DEF past
  <2> QED BY <1>1, <1>2, PrefixOf
<1>4. late \in Seq(Int) /\ Len(late) = Len(given) /\ \A i \in 1 .. Len(given) : late[i] = given[i] - 1
  BY <1>1
<1>5. Later(given) = SubSeq(late, d + 1, Len(late))
  BY <1>3, <1>4 DEF Later
<1>6. /\ DOMAIN Later(given) = 1 .. Len(given) - d
      /\ \A i \in 1 .. Len(given) - d : i + d \in 1 .. Len(given) /\ Later(given)[i] = late[i + d]
      /\ (\A i \in d + 1 .. Len(late) : late[i] \in Int) => Later(given) \in Seq(Int)
  <2> HIDE DEF late
  <2> QED BY <1>4, <1>5, TailOf
<1>7. \A i \in d + 1 .. Len(late) : late[i] \in Int
  BY <1>1, <1>4
<1>8. ASSUME NEW i \in 1 .. Len(given) - d
      PROVE  /\ i + d \in DOMAIN given /\ given[i + d] > 1 - MinInterval
             /\ Later(given)[i] = given[i + d] - 1
  <2>1. i + d \in 1 .. Len(given) /\ i + d \notin 1 .. d
    BY <1>1, <1>6
  <2>2. ~(given[i + d] <= 1 - MinInterval)
    BY <1>1, <1>3, <2>1
  <2>3. given[i + d] \in Int /\ late[i + d] = given[i + d] - 1
    BY <1>1, <1>4, <2>1
  <2>4. Later(given)[i] = late[i + d]
    BY <1>6
  <2>5. given[i + d] > 1 - MinInterval
    BY <1>0, <2>2, <2>3
  <2> HIDE DEF late
  <2> QED BY <1>1, <2>1, <2>3, <2>4, <2>5
<1> QED BY <1>6, <1>7, <1>8

(* Slots stay apart, and the next free one behind them.                      *)
LEMMA SlotsStep == ASSUME SlotsInv, [Next]_vars PROVE SlotsInv'
<1>0. MinInterval \in Nat \ {0}
  BY LimitsAssumption
<1>1. CASE UNCHANGED sendVars
  BY <1>1 DEF SlotsInv, sendVars
<1>2. ASSUME NEW p \in Processes, Throttle(p) PROVE SlotsInv'
  <2> DEFINE old == slots[p]
  <2>1. /\ slots' = [x \in Processes |-> IF x = p THEN Append(old, next[p]) ELSE slots[x]]
        /\ next' = [x \in Processes |-> IF x = p THEN next[p] + MinInterval ELSE next[x]]
    BY <1>2 DEF Throttle, SlotsInv
  <2>2. old \in Seq(Int) /\ next[p] \in Nat
    BY DEF SlotsInv
  <2>3. Len(old) \in Nat /\ DOMAIN old = 1 .. Len(old) /\ \A i \in 1 .. Len(old) : old[i] \in Int
    BY <2>2, LenProperties, ElementOfSeq
  <2>4. /\ \A i \in 1 .. Len(old) : next[p] - old[i] >= MinInterval
        /\ \A i, j \in 1 .. Len(old) : i < j => old[j] - old[i] >= MinInterval
    <3>1. /\ \A i \in Nat : i \in DOMAIN old => next[p] - old[i] >= MinInterval
          /\ \A i, j \in DOMAIN old : i < j => old[j] - old[i] >= MinInterval
      BY DEF SlotsInv
    <3> HIDE DEF old
    <3>2. \A i \in 1 .. Len(old) : i \in Nat /\ i \in DOMAIN old
      BY <2>3
    <3>3. \A i \in 1 .. Len(old) : next[p] - old[i] >= MinInterval
      BY <3>1, <3>2
    <3>4. \A i, j \in 1 .. Len(old) : i < j => old[j] - old[i] >= MinInterval
      BY <3>1, <3>2
    <3> QED BY <3>3, <3>4
  <2> HIDE DEF old
  <2>5. /\ Append(old, next[p]) \in Seq(Int) /\ DOMAIN Append(old, next[p]) = 1 .. Len(old) + 1
        /\ \A i \in 1 .. Len(old) : Append(old, next[p])[i] = old[i]
        /\ Append(old, next[p])[Len(old) + 1] = next[p]
    BY <2>2, <2>3
  <2>6. \A i \in 1 .. Len(old) + 1 : next[p] + MinInterval - Append(old, next[p])[i] >= MinInterval
    BY <1>0, <2>2, <2>3, <2>4, <2>5
  <2>7. \A i, j \in 1 .. Len(old) + 1 :
           i < j => Append(old, next[p])[j] - Append(old, next[p])[i] >= MinInterval
    <3> SUFFICES ASSUME NEW i \in 1 .. Len(old) + 1, NEW j \in 1 .. Len(old) + 1, i < j
                 PROVE  Append(old, next[p])[j] - Append(old, next[p])[i] >= MinInterval
      OBVIOUS
    <3>1. i \in 1 .. Len(old) /\ (j \in 1 .. Len(old) \/ j = Len(old) + 1)
      BY <2>3
    <3> QED BY <2>3, <2>4, <2>5, <3>1
  <2> HIDE DEF old
  <2>8. slots' \in [Processes -> Seq(Int)] /\ next' \in [Processes -> Nat]
    BY <1>0, <2>1, <2>2, <2>5 DEF SlotsInv
  <2>9. ASSUME NEW x \in Processes
        PROVE  /\ \A i \in Nat : i \in DOMAIN slots'[x] => next'[x] - slots'[x][i] >= MinInterval
               /\ \A i, j \in DOMAIN slots'[x] : i < j => slots'[x][j] - slots'[x][i] >= MinInterval
    <3>1. CASE x = p
      <4>1. slots'[x] = Append(old, next[p]) /\ next'[x] = next[p] + MinInterval
        BY <2>1, <3>1
      <4> DEFINE new == Append(old, next[p])
      <4>2. /\ DOMAIN new = 1 .. Len(old) + 1
            /\ \A i \in 1 .. Len(old) + 1 : next[p] + MinInterval - new[i] >= MinInterval
            /\ \A i, j \in 1 .. Len(old) + 1 : i < j => new[j] - new[i] >= MinInterval
        BY <2>5, <2>6, <2>7
      <4>3. slots'[x] = new
        BY <4>1
      <4> HIDE DEF new
      <4>4. ASSUME NEW i \in DOMAIN new PROVE next'[x] - new[i] >= MinInterval
        <5>1. i \in 1 .. Len(old) + 1 /\ next[p] + MinInterval - new[i] >= MinInterval
          BY <4>2
        <5>2. next'[x] = next[p] + MinInterval /\ next[p] \in Nat
          BY <2>2, <4>1
        <5>3. new[i] \in Int
          BY <2>3, <2>5, <5>1, ElementOfSeq DEF new
        <5> QED BY <1>0, <5>1, <5>2, <5>3
      <4>5. \A i, j \in DOMAIN new : i < j => new[j] - new[i] >= MinInterval
        BY <4>2
      <4> QED BY <4>3, <4>4, <4>5
    <3>2. CASE x # p
      BY <2>1, <3>2 DEF SlotsInv
    <3> QED BY <3>1, <3>2
  <2> QED BY <2>8, <2>9 DEF SlotsInv
<1>3. CASE Tick
  <2>1. /\ slots' = [p \in Processes |-> Later(slots[p])]
        /\ next' = [p \in Processes |-> Down(next[p])]
    BY <1>3 DEF Tick
  <2>2. ASSUME NEW p \in Processes
        PROVE  /\ Later(slots[p]) \in Seq(Int) /\ Down(next[p]) \in Nat
               /\ \A i \in Nat : i \in DOMAIN Later(slots[p]) => Down(next[p]) - Later(slots[p])[i] >= MinInterval
               /\ \A i, j \in DOMAIN Later(slots[p]) :
                     i < j => Later(slots[p])[j] - Later(slots[p])[i] >= MinInterval
    <3> DEFINE g == slots[p]
               l == Later(g)
    <3>1. /\ g \in Seq(Int) /\ next[p] \in Nat
          /\ \A i, j \in DOMAIN g : i < j => g[j] - g[i] >= MinInterval
          /\ \A i \in Nat : i \in DOMAIN g => next[p] - g[i] >= MinInterval
      BY DEF SlotsInv
    <3>2. Len(g) \in Nat /\ DOMAIN g = 1 .. Len(g) /\ \A i \in 1 .. Len(g) : g[i] \in Int
      BY <3>1, LenProperties, ElementOfSeq
    <3> HIDE DEF g
    <3>3. PICK d \in 0 .. Len(g) :
             /\ l \in Seq(Int) /\ DOMAIN l = 1 .. Len(g) - d
             /\ \A i \in 1 .. Len(g) - d :
                  i + d \in DOMAIN g /\ g[i + d] > 1 - MinInterval /\ l[i] = g[i + d] - 1
      BY <3>1, LaterIs
    <3> HIDE DEF l
    <3>4. Down(next[p]) \in Nat
      BY <3>1 DEF Down
    <3>5. ASSUME NEW i \in 1 .. Len(g) - d PROVE Down(next[p]) - l[i] >= MinInterval
      <4>1. i + d \in 1 .. Len(g) /\ i + d \in Nat /\ g[i + d] \in Int
        BY <3>2, <3>3
      <4>2. next[p] - g[i + d] >= MinInterval /\ g[i + d] > 1 - MinInterval /\ l[i] = g[i + d] - 1
        BY <3>1, <3>2, <3>3, <4>1
      <4> QED BY <1>0, <3>1, <4>1, <4>2 DEF Down
    <3>6. ASSUME NEW i \in 1 .. Len(g) - d, NEW j \in 1 .. Len(g) - d, i < j
          PROVE  l[j] - l[i] >= MinInterval
      <4>1. i + d \in DOMAIN g /\ j + d \in DOMAIN g /\ i + d < j + d
        BY <3>2, <3>3, <3>6
      <4>2. g[j + d] - g[i + d] >= MinInterval /\ g[i + d] \in Int /\ g[j + d] \in Int
        BY <3>1, <3>2, <4>1
      <4> QED BY <1>0, <3>3, <4>2
    <3> QED BY <3>3, <3>4, <3>5, <3>6 DEF l, g
  <2> QED BY <2>1, <2>2 DEF SlotsInv
<1>4. CASE \/ \E t \in Threads : \/ \E r \in Requests, u \in Accounts : Login(t, r, u)
                                 \/ WrongPassword(t) \/ RightPassword(t)
           \/ \E r \in Requests : Allow(r) \/ AllowAccessRequest(r)
           \/ CheckSla \/ WorkerRaises \/ Restart \/ RowsChange
  BY <1>1, <1>4 DEF Login, WrongPassword, RightPassword, Allow, AllowAccessRequest, LetThrough,
                    CheckSla, WorkerRaises, Restart, RowsChange
<1>5. CASE UNCHANGED vars
  BY <1>1, <1>5 DEF vars
<1> QED BY <1>2, <1>3, <1>4, <1>5 DEF Next

(* No subscriber gets more requests through in a window than the limit, and  *)
(* the slots of a process lie the minimum interval apart, for any addresses, *)
(* processes, threads and limits (request_limit.allow,                       *)
(* access_requests._allow, throttle).                                        *)
THEOREM RatesAreKeptAlways == Spec => []RatesAreKept
<1>0. PerWindow \in Nat /\ Window \in Nat \ {0}
  BY LimitsAssumption
<1>1. Init => RequestsInv /\ SlotsInv
  <2> SUFFICES ASSUME Init PROVE RequestsInv /\ SlotsInv
    OBVIOUS
  <2>1. /\ <<>> \in Seq(0 .. Window) /\ <<>> \in Seq(Int) /\ OldestFirst(<<>>) /\ Len(<<>>) = 0
        /\ DOMAIN <<>> = {}
    BY EmptySeq DEF OldestFirst
  <2>2. Recent(<<>>) = <<>>
    BY <2>1, NoneRecent
  <2>3. RequestShapes
    BY <2>1 DEF Init, RequestShapes
  <2>4. CountedIsServed
    BY <1>0, <2>1, <2>2, KeyIsTracked DEF Init, CountedIsServed
  <2>5. SlotsInv
    BY <2>1 DEF Init, SlotsInv
  <2> QED BY <2>3, <2>4, <2>5 DEF RequestsInv
<1>2. RequestsInv /\ SlotsInv /\ [Next]_vars => (RequestsInv /\ SlotsInv)'
  BY RequestsStep, SlotsStep
<1>3. RequestsInv /\ SlotsInv => RatesAreKept
  <2> SUFFICES ASSUME RequestsInv, SlotsInv PROVE RatesAreKept
    OBVIOUS
  <2>1. ASSUME NEW s \in Subscribers PROVE Len(served[s]) <= PerWindow
    <3>1. PICK r \in Requests : s = Subscriber(r)
      BY DEF Subscribers
    <3> QED BY <3>1 DEF RequestsInv, CountedIsServed
  <2> QED BY <2>1 DEF SlotsInv, RatesAreKept
<1> QED BY <1>1, <1>2, <1>3, PTL DEF Spec

-----------------------------------------------------------------------------
(* Sign-ins *)

(* A failure more at the end of the stamps.                                  *)
LEMMA FailureAdded ==
    ASSUME NEW made \in Seq(0 .. Window - 1), OldestFirst(made)
    PROVE  /\ Append(made, 0) \in Seq(0 .. Window - 1) /\ OldestFirst(Append(made, 0))
           /\ Len(Append(made, 0)) = Len(made) + 1 /\ DOMAIN Append(made, 0) = 1 .. Len(made) + 1
           /\ \A i \in 1 .. Len(made) : Append(made, 0)[i] = made[i]
           /\ \A i \in 1 .. Len(made) + 1 : Append(made, 0)[i] \in Nat
<1>0. Window \in Nat \ {0}
  BY LimitsAssumption
<1>1. Len(made) \in Nat /\ DOMAIN made = 1 .. Len(made) /\ \A i \in 1 .. Len(made) : made[i] \in 0 .. Window - 1
  BY LenProperties, ElementOfSeq
<1>2. /\ Append(made, 0) \in Seq(0 .. Window - 1) /\ Len(Append(made, 0)) = Len(made) + 1
      /\ DOMAIN Append(made, 0) = 1 .. Len(made) + 1
      /\ \A i \in 1 .. Len(made) : Append(made, 0)[i] = made[i]
      /\ Append(made, 0)[Len(made) + 1] = 0
  BY <1>0, <1>1
<1>3. \A i \in 1 .. Len(made) + 1 : Append(made, 0)[i] \in Nat
  BY <1>0, <1>1, <1>2
<1>4. OldestFirst(Append(made, 0))
  <2> SUFFICES ASSUME NEW i \in 1 .. Len(made) + 1, NEW j \in 1 .. Len(made) + 1, i < j
               PROVE  Append(made, 0)[i] >= Append(made, 0)[j]
    BY <1>2 DEF OldestFirst
  <2>1. i \in 1 .. Len(made) /\ Append(made, 0)[i] = made[i] /\ made[i] \in 0 .. Window - 1
    BY <1>1, <1>2
  <2>2. CASE j = Len(made) + 1
    BY <1>0, <1>2, <2>1, <2>2
  <2>3. CASE j \in 1 .. Len(made)
    BY <1>1, <1>2, <2>1, <2>3 DEF OldestFirst
  <2> QED BY <1>1, <2>2, <2>3
<1> QED BY <1>2, <1>3, <1>4

(* What an entry vouches for keeps the failures within the bound.            *)
LEMMA VouchedIsBounded ==
    ASSUME NEW e, EntryShape(e), NEW made \in Seq(0 .. Window - 1),
           NEW verifying \in SUBSET Threads, Vouches(e, made, verifying)
    PROVE  Len(made) <= 2 * (LOGIN_MAX_ATTEMPTS - 1) + Cardinality(Threads)
<1>0. LOGIN_MAX_ATTEMPTS \in Nat \ {0} /\ Len(made) \in Nat
  BY LimitsAssumption, LenProperties
<1>1. Cardinality(Threads) \in Nat /\ Cardinality(verifying) \in Nat
  BY ThreadsAssumption, FS_Subset, FS_CardinalityType
<1>2. CASE e = <<>>
  BY <1>0, <1>1, <1>2 DEF Vouches
<1>3. CASE e # <<>>
  <2>1. PICK x \in Entry : e = <<x>> /\ (x.left = NoLock <=> x.failures < LOGIN_MAX_ATTEMPTS)
    BY <1>3 DEF EntryShape
  <2>2. e[1] = x /\ x.failures \in Nat /\ x.left \in Int /\ (x.left = NoLock \/ x.left = 0 \/ x.left > 0)
    BY <2>1, LimitsAssumption DEF Entry, NoLock
  <2>3. CASE x.left = NoLock
    <3>1. TwoRounds(x, made)
      BY <1>3, <2>2, <2>3 DEF Vouches
    <3>2. PICK before \in 0 .. LOGIN_MAX_ATTEMPTS - 1 : Len(made) - before <= x.failures
      BY <3>1 DEF TwoRounds
    <3> QED BY <1>0, <1>1, <2>1, <2>2, <2>3, <3>2
  <2>4. CASE x.left = 0
    <3>1. made = <<>>
      BY <1>3, <2>2, <2>4 DEF Vouches, NoLock
    <3> QED BY <1>0, <1>1, <3>1
  <2>5. CASE x.left > 0
    <3>1. Len(made) + Cardinality(verifying) <= 2 * (LOGIN_MAX_ATTEMPTS - 1) + Cardinality(Threads)
      BY <1>3, <2>2, <2>5 DEF Vouches, NoLock
    <3> QED BY <1>0, <1>1, <3>1
  <2> QED BY <2>2, <2>3, <2>4, <2>5
<1> QED BY <1>2, <1>3

(* A thread more or less past the check: only a locked entry tells.          *)
LEMMA VouchesForFewer ==
    ASSUME NEW e, NEW made, NEW v \in SUBSET Threads, NEW w \in SUBSET Threads, Vouches(e, made, v),
           EntryShape(e), Len(made) \in Nat,
           w \subseteq v \/ ~(e # <<>> /\ e[1].left > 0)
    PROVE  Vouches(e, made, w)
<1>1. CASE ~(e # <<>> /\ e[1].left > 0)
  BY <1>1 DEF Vouches
<1>2. CASE e # <<>> /\ e[1].left > 0 /\ w \subseteq v
  <2>1. PICK x \in Entry : e = <<x>>
    BY <1>2 DEF EntryShape
  <2>2. e[1].left \in Int /\ e[1].left # NoLock /\ e[1].left # 0
    BY <1>2, <2>1, LimitsAssumption DEF Entry, NoLock
  <2>3. IsFiniteSet(v) /\ Cardinality(v) \in Nat /\ Cardinality(w) \in Nat /\ Cardinality(w) <= Cardinality(v)
    BY <1>2, ThreadsAssumption, FS_Subset, FS_CardinalityType
  <2>4. /\ Len(made) + Cardinality(v) <= 2 * (LOGIN_MAX_ATTEMPTS - 1) + Cardinality(Threads)
        /\ \A i \in DOMAIN made : made[i] >= Lockout - e[1].left
    BY <1>2, <2>2 DEF Vouches
  <2>5. Cardinality(Threads) \in Nat /\ LOGIN_MAX_ATTEMPTS \in Nat
    BY ThreadsAssumption, FS_CardinalityType, LimitsAssumption
  <2>6. Len(made) + Cardinality(w) <= 2 * (LOGIN_MAX_ATTEMPTS - 1) + Cardinality(Threads)
    BY <2>3, <2>4, <2>5
  <2> QED BY <1>2, <2>2, <2>4, <2>6 DEF Vouches
<1> QED BY <1>1, <1>2

(* An entry whose round is over vouches for less than a round.               *)
LEMMA StaleVouches ==
    ASSUME NEW x \in Entry, x.left = NoLock <=> x.failures < LOGIN_MAX_ATTEMPTS,
           NEW made \in Seq(0 .. Window - 1), NEW verifying,
           Vouches(<<x>>, made, verifying), x.left = 0 \/ (x.left = NoLock /\ x.age >= Window)
    PROVE  Len(made) < LOGIN_MAX_ATTEMPTS
<1>0. /\ LOGIN_MAX_ATTEMPTS \in Nat \ {0} /\ Len(made) \in Nat /\ Window \in Nat
      /\ \A i \in 1 .. Len(made) : made[i] \in 0 .. Window - 1
  BY LimitsAssumption, LenProperties, ElementOfSeq
<1>1. <<x>> # <<>> /\ <<x>>[1] = x /\ x.failures \in Nat /\ x.age \in Int
  BY DEF Entry
<1>2. CASE x.left = 0
  <2>1. made = <<>>
    BY <1>1, <1>2 DEF Vouches, NoLock
  <2> QED BY <1>0, <2>1
<1>3. CASE x.left = NoLock /\ x.age >= Window
  <2>1. TwoRounds(x, made)
    BY <1>1, <1>3 DEF Vouches
  <2>2. PICK before \in 0 .. LOGIN_MAX_ATTEMPTS - 1 :
          before <= Len(made) /\ Len(made) - before <= x.failures /\ \A i \in 1 .. before : made[i] >= x.age
    BY <2>1 DEF TwoRounds
  <2>3. before = 0
    <3> SUFFICES ASSUME before > 0 PROVE FALSE
      BY <1>0, <2>2
    <3>1. 1 \in 1 .. before /\ 1 \in 1 .. Len(made)
      BY <1>0, <2>2
    <3>2. made[1] >= x.age /\ made[1] \in 0 .. Window - 1
      BY <1>0, <2>2, <3>1
    <3> QED BY <1>0, <1>1, <1>3, <3>2
  <2> QED BY <1>0, <1>1, <1>3, <2>2, <2>3
<1> QED BY <1>2, <1>3

(* Dropping the entries of a full table forgets nothing that counts.         *)
LEMMA PruneKeeps ==
    ASSUME LoginShapes, NEW k \in Keys
    PROVE  /\ EntryShape(Prune(entry)[k])
           /\ \A made \in Seq(0 .. Window - 1) : \A v \in SUBSET Threads :
                Vouches(entry[k], made, v) => Vouches(Prune(entry)[k], made, v)
<1>1. EntryShape(entry[k])
  BY DEF LoginShapes
<1>2. CASE Prune(entry)[k] = entry[k]
  BY <1>1, <1>2
<1>3. CASE Prune(entry)[k] = <<>> /\ entry[k] # <<>> /\ entry[k][1].left <= 0 /\ entry[k][1].age >= Window
  <2>1. EntryShape(Prune(entry)[k])
    BY <1>3 DEF EntryShape
  <2>2. PICK x \in Entry : entry[k] = <<x>> /\ (x.left = NoLock <=> x.failures < LOGIN_MAX_ATTEMPTS)
    BY <1>1, <1>3 DEF EntryShape
  <2>3. x.left <= 0 /\ x.age >= Window /\ (x.left = 0 \/ x.left = NoLock)
    BY <1>3, <2>2, LimitsAssumption DEF Entry, NoLock
  <2>4. ASSUME NEW made \in Seq(0 .. Window - 1), NEW v \in SUBSET Threads, Vouches(entry[k], made, v)
        PROVE  Vouches(Prune(entry)[k], made, v)
    <3>1. Len(made) < LOGIN_MAX_ATTEMPTS
      BY <2>2, <2>3, <2>4, StaleVouches
    <3> QED BY <1>3, <3>1 DEF Vouches
  <2> QED BY <2>1, <2>4
<1>4. \/ Prune(entry)[k] = entry[k]
      \/ Prune(entry)[k] = <<>> /\ entry[k] # <<>> /\ entry[k][1].left <= 0 /\ entry[k][1].age >= Window
  BY DEF Prune
<1> QED BY <1>2, <1>3, <1>4

(* A failure is counted as it is made: the entry goes on vouching, be it     *)
(* the first of a round, the next, the one that locks, or one that was past  *)
(* the check when the lock came.                                             *)
LEMMA CountedVouches ==
    ASSUME NEW e, EntryShape(e), NEW made \in Seq(0 .. Window - 1), OldestFirst(made),
           NEW v \in SUBSET Threads, NEW t \in v, Vouches(e, made, v)
    PROVE  Vouches(Counted(e), Append(made, 0), v \ {t})
<1> DEFINE more == Append(made, 0)
           stale == \/ e = <<>>
                    \/ e[1].left = NoLock /\ e[1].age >= Window
                    \/ e[1].left = 0
           failures == IF stale THEN 1 ELSE e[1].failures + 1
           new == [failures |-> failures,
                   age |-> IF stale THEN 0 ELSE e[1].age,
                   left |-> IF failures >= LOGIN_MAX_ATTEMPTS THEN Lockout
                            ELSE IF stale THEN NoLock ELSE e[1].left]
<1>0. /\ LOGIN_MAX_ATTEMPTS \in Nat \ {0} /\ Len(made) \in Nat /\ Window \in Nat \ {0} /\ Lockout \in Nat \ {0}
      /\ Cardinality(Threads) \in Nat
  BY LimitsAssumption, LenProperties, ThreadsAssumption, FS_CardinalityType
<1>1. /\ Cardinality(v) \in Nat /\ Cardinality(v) <= Cardinality(Threads)
      /\ Cardinality(v \ {t}) = Cardinality(v) - 1
  BY ThreadsAssumption, FS_Subset, FS_CardinalityType, FS_RemoveElement
<1>2. Counted(e) = <<new>> /\ <<new>> # <<>> /\ <<new>>[1] = new
  BY DEF Counted
<1>3. /\ more \in Seq(0 .. Window - 1) /\ Len(more) = Len(made) + 1 /\ DOMAIN more = 1 .. Len(made) + 1
      /\ \A i \in 1 .. Len(made) : more[i] = made[i]
      /\ \A i \in 1 .. Len(made) + 1 : more[i] \in Nat
  BY FailureAdded
<1>4. ASSUME new.left = Lockout,
             Len(made) + Cardinality(v) <= 2 * (LOGIN_MAX_ATTEMPTS - 1) + Cardinality(Threads)
      PROVE  Vouches(Counted(e), more, v \ {t})
  <2> HIDE DEF more, new
  <2>1. /\ Len(more) + Cardinality(v \ {t}) <= 2 * (LOGIN_MAX_ATTEMPTS - 1) + Cardinality(Threads)
        /\ \A i \in DOMAIN more : more[i] >= Lockout - new.left
    BY <1>0, <1>1, <1>3, <1>4
  <2>2. new.left # NoLock /\ new.left # 0
    BY <1>0, <1>4 DEF NoLock
  <2> QED BY <1>2, <2>1, <2>2 DEF Vouches
<1>5. ASSUME new.left = NoLock, TwoRounds(new, more)
      PROVE  Vouches(Counted(e), more, v \ {t})
  <2> HIDE DEF more, new
  <2> QED BY <1>2, <1>5 DEF Vouches, NoLock
<1>6. ASSUME stale, Len(made) < LOGIN_MAX_ATTEMPTS PROVE Vouches(Counted(e), more, v \ {t})
  <2>1. /\ new.failures = 1 /\ new.age = 0
        /\ new.left = IF 1 >= LOGIN_MAX_ATTEMPTS THEN Lockout ELSE NoLock
    BY <1>6
  <2> HIDE DEF new
  <2>2. CASE 1 >= LOGIN_MAX_ATTEMPTS
    BY <1>0, <1>1, <1>4, <1>6, <2>1, <2>2
  <2>3. CASE ~(1 >= LOGIN_MAX_ATTEMPTS)
    <3>1. TwoRounds(new, more)
      <4>1. Len(made) \in 0 .. LOGIN_MAX_ATTEMPTS - 1
        BY <1>0, <1>6
      <4>2. /\ Len(made) <= Len(more) /\ Len(more) - Len(made) <= new.failures
            /\ \A i \in 1 .. Len(made) : more[i] >= new.age
        <5> HIDE DEF more
        <5> QED BY <1>0, <1>3, <2>1
      <4> HIDE DEF more
      <4> QED BY <4>1, <4>2 DEF TwoRounds
    <3> QED BY <1>5, <2>1, <2>3, <3>1
  <2> QED BY <2>2, <2>3
<1>7. CASE e = <<>>
  BY <1>6, <1>7 DEF Vouches
<1>8. CASE e # <<>>
  <2>1. PICK x \in Entry : e = <<x>> /\ (x.left = NoLock <=> x.failures < LOGIN_MAX_ATTEMPTS)
    BY <1>8 DEF EntryShape
  <2>2. /\ e[1] = x /\ x.failures \in Nat /\ x.left \in Int /\ x.age \in 0 .. Window
        /\ x.left = NoLock \/ x.left = 0 \/ x.left > 0
    BY <1>0, <2>1 DEF Entry, NoLock
  <2>3. CASE x.left = 0 \/ (x.left = NoLock /\ x.age >= Window)
    <3>1. Len(made) < LOGIN_MAX_ATTEMPTS
      BY <2>1, <2>3, StaleVouches
    <3> QED BY <1>6, <2>2, <2>3, <3>1
  <2>4. CASE x.left = NoLock /\ ~(x.age >= Window)
    <3>1. ~stale
      BY <1>8, <2>2, <2>4 DEF NoLock
    <3>2. /\ new.failures = x.failures + 1 /\ new.age = x.age
          /\ new.left = IF x.failures + 1 >= LOGIN_MAX_ATTEMPTS THEN Lockout ELSE NoLock
      BY <2>2, <2>4, <3>1
    <3>3. TwoRounds(x, made)
      BY <1>8, <2>2, <2>4 DEF Vouches
    <3>4. PICK before \in 0 .. LOGIN_MAX_ATTEMPTS - 1 :
            before <= Len(made) /\ Len(made) - before <= x.failures /\ \A i \in 1 .. before : made[i] >= x.age
      BY <3>3 DEF TwoRounds
    <3> HIDE DEF new
    <3>5. CASE x.failures + 1 >= LOGIN_MAX_ATTEMPTS
      BY <1>0, <1>1, <1>4, <2>1, <2>2, <2>4, <3>2, <3>4, <3>5
    <3>6. CASE ~(x.failures + 1 >= LOGIN_MAX_ATTEMPTS)
      <4> HIDE DEF more
      <4>1. /\ before <= Len(more) /\ Len(more) - before <= new.failures
            /\ \A i \in 1 .. before : more[i] >= new.age
        <5>1. before <= Len(more) /\ Len(more) - before <= new.failures
          <6>1. Len(more) = Len(made) + 1 /\ new.failures = x.failures + 1
            BY <1>3, <3>2
          <6>2. before \in Int /\ before <= Len(made) /\ Len(made) - before <= x.failures
            BY <1>0, <3>4
          <6>3. Len(made) \in Int /\ x.failures \in Int
            BY <1>0, <2>2
          <6> QED BY <6>1, <6>2, <6>3
        <5>2. ASSUME NEW i \in 1 .. before PROVE more[i] >= new.age
          <6>1. i \in 1 .. Len(made) /\ made[i] >= x.age
            BY <1>0, <3>4
          <6> QED BY <1>3, <3>2, <6>1
        <5> QED BY <5>1, <5>2
      <4>2. TwoRounds(new, more)
        BY <4>1 DEF TwoRounds
      <4> QED BY <1>5, <3>2, <3>6, <4>2 DEF more
    <3> QED BY <3>5, <3>6
  <2>5. CASE x.left > 0
    <3>1. ~stale
      BY <1>8, <2>2, <2>5 DEF NoLock
    <3>2. x.failures + 1 >= LOGIN_MAX_ATTEMPTS
      BY <1>0, <2>1, <2>2, <2>5 DEF NoLock
    <3>3. new.left = Lockout
      BY <2>2, <3>1, <3>2
    <3>4. Len(made) + Cardinality(v) <= 2 * (LOGIN_MAX_ATTEMPTS - 1) + Cardinality(Threads)
      BY <1>8, <2>2, <2>5 DEF Vouches
    <3> HIDE DEF new
    <3> QED BY <1>4, <3>3, <3>4
  <2>6. \/ x.left = 0 \/ (x.left = NoLock /\ x.age >= Window)
        \/ x.left = NoLock /\ ~(x.age >= Window)
        \/ x.left > 0
    BY <2>2
  <2> QED BY <2>3, <2>4, <2>5, <2>6, Zenon
<1> QED BY <1>7, <1>8

(* A counted entry is an entry.                                              *)
LEMMA CountedShape == ASSUME NEW e, EntryShape(e) PROVE EntryShape(Counted(e))
<1>0. LOGIN_MAX_ATTEMPTS \in Nat \ {0} /\ Window \in Nat \ {0} /\ Lockout \in Nat \ {0}
  BY LimitsAssumption
<1> DEFINE new == Counted(e)[1]
<1>1. Counted(e) = <<new>>
  BY DEF Counted
<1>2. CASE e = <<>>
  <2>1. new = [failures |-> 1, age |-> 0, left |-> IF 1 >= LOGIN_MAX_ATTEMPTS THEN Lockout ELSE NoLock]
    BY <1>2 DEF Counted
  <2>2. new \in Entry /\ (new.left = NoLock <=> new.failures < LOGIN_MAX_ATTEMPTS)
    BY <1>0, <2>1 DEF Entry, NoLock
  <2> QED BY <1>1, <2>2 DEF EntryShape
<1>3. CASE e # <<>>
  <2>1. PICK x \in Entry : e = <<x>> /\ (x.left = NoLock <=> x.failures < LOGIN_MAX_ATTEMPTS)
    BY <1>3 DEF EntryShape
  <2>2. e[1] = x /\ x.failures \in Nat /\ x.left \in NoLock .. Lockout /\ x.age \in 0 .. Window
    BY <2>1 DEF Entry
  <2>3. CASE (x.left = NoLock /\ x.age >= Window) \/ x.left = 0
    <3>1. new = [failures |-> 1, age |-> 0, left |-> IF 1 >= LOGIN_MAX_ATTEMPTS THEN Lockout ELSE NoLock]
      BY <1>3, <2>2, <2>3 DEF Counted
    <3>2. new \in Entry /\ (new.left = NoLock <=> new.failures < LOGIN_MAX_ATTEMPTS)
      BY <1>0, <3>1 DEF Entry, NoLock
    <3> QED BY <1>1, <3>2 DEF EntryShape
  <2>4. CASE ~((x.left = NoLock /\ x.age >= Window) \/ x.left = 0)
    <3>1. new = [failures |-> x.failures + 1, age |-> x.age,
                 left |-> IF x.failures + 1 >= LOGIN_MAX_ATTEMPTS THEN Lockout ELSE x.left]
      BY <1>3, <2>2, <2>4 DEF Counted
    <3>2. new \in Entry /\ (new.left = NoLock <=> new.failures < LOGIN_MAX_ATTEMPTS)
      BY <1>0, <2>1, <2>2, <3>1 DEF Entry, NoLock
    <3> QED BY <1>1, <3>2 DEF EntryShape
  <2> QED BY <2>3, <2>4
<1> QED BY <1>2, <1>3

(* What a tick leaves of failures within the window.                         *)
LEMMA LaterFailures ==
    ASSUME NEW made \in Seq(0 .. Window - 1), OldestFirst(made)
    PROVE  \E d \in 0 .. Len(made) :
             LET late == Recent(Aged(made, Window))
             IN  /\ late \in Seq(0 .. Window - 1) /\ OldestFirst(late) /\ Len(late) = Len(made) - d
                 /\ \A i \in 1 .. Len(made) - d : i + d \in 1 .. Len(made) /\ late[i] = made[i + d] + 1
<1>0. Window \in Nat \ {0}
  BY LimitsAssumption
<1>1. /\ Len(made) \in Nat /\ \A i \in 1 .. Len(made) : made[i] \in 0 .. Window - 1
      /\ made \in Seq(0 .. Window)
  BY AllRecent, LenProperties, ElementOfSeq
<1> DEFINE a == Aged(made, Window)
<1>2. /\ a \in Seq(0 .. Window) /\ OldestFirst(a) /\ Len(a) = Len(made)
      /\ \A i \in 1 .. Len(made) : a[i] = IF made[i] < Window THEN made[i] + 1 ELSE Window
  BY <1>1, AgedIs
<1>3. \A i \in 1 .. Len(made) : a[i] = made[i] + 1
  <2> HIDE DEF a
  <2> QED BY <1>0, <1>1, <1>2
<1> HIDE DEF a
<1>4. PICK d \in 0 .. Len(a) :
        /\ Recent(a) \in Seq(0 .. Window - 1) /\ OldestFirst(Recent(a))
        /\ Len(Recent(a)) = Len(a) - d
        /\ \A i \in 1 .. Len(a) - d : i + d \in 1 .. Len(a) /\ Recent(a)[i] = a[i + d]
  BY <1>2, RecentIs
<1>5. \A i \in 1 .. Len(made) - d : i + d \in 1 .. Len(made) /\ Recent(a)[i] = made[i + d] + 1
  BY <1>2, <1>3, <1>4
<1> QED BY <1>2, <1>4, <1>5 DEF a

(* An entry a tick later.                                                    *)
OneTickOlder(x) ==
    [x EXCEPT !.age = IF @ < Window THEN @ + 1 ELSE @, !.left = Down(@)]

LEMMA OlderShape ==
    ASSUME NEW x \in Entry, x.left = NoLock <=> x.failures < LOGIN_MAX_ATTEMPTS
    PROVE  LET y == OneTickOlder(x)
           IN  /\ EntryShape(<<y>>) /\ y.failures = x.failures /\ y.age \in Nat /\ y.age <= x.age + 1
               /\ y.left = IF x.left > 0 THEN x.left - 1 ELSE x.left
<1> DEFINE y == OneTickOlder(x)
<1>0. /\ LOGIN_MAX_ATTEMPTS \in Nat \ {0} /\ Window \in Nat \ {0} /\ Lockout \in Nat \ {0}
  BY LimitsAssumption
<1>1. x.failures \in Nat /\ x.left \in NoLock .. Lockout /\ x.age \in 0 .. Window
  BY <1>0 DEF Entry, NoLock
<1>2. y = [failures |-> x.failures, age |-> IF x.age < Window THEN x.age + 1 ELSE x.age, left |-> Down(x.left)]
  <2>1. /\ x = [failures |-> x.failures, age |-> x.age, left |-> x.left]
        /\ DOMAIN x = {"failures", "age", "left"}
    BY DEF Entry
  <2> DEFINE older == IF x.age < Window THEN x.age + 1 ELSE x.age
             ahead == Down(x.left)
  <2>2. y = [[x EXCEPT !.age = older] EXCEPT !.left = ahead]
    BY <2>1 DEF OneTickOlder
  <2> HIDE DEF older, ahead, y
  <2>3. [x EXCEPT !.age = older] = [failures |-> x.failures, age |-> older, left |-> x.left]
    BY <2>1
  <2>4. [[failures |-> x.failures, age |-> older, left |-> x.left] EXCEPT !.left = ahead]
          = [failures |-> x.failures, age |-> older, left |-> ahead]
    OBVIOUS
  <2> QED BY <2>2, <2>3, <2>4 DEF older, ahead
<1>3. y \in Entry /\ (y.left = NoLock <=> y.failures < LOGIN_MAX_ATTEMPTS)
  BY <1>0, <1>1, <1>2 DEF Entry, Down, NoLock
<1>4. y.failures = x.failures /\ y.age <= x.age + 1 /\ y.left = (IF x.left > 0 THEN x.left - 1 ELSE x.left)
      /\ y.age \in Nat
  BY <1>0, <1>1, <1>2 DEF Down
<1> HIDE DEF y
<1> QED BY <1>3, <1>4 DEF EntryShape, y

(* The clock keeps what an entry vouches for: the failures grow old with it, *)
(* and none is left of those a lock was set for when the lock ends.          *)
LEMMA TickVouches ==
    ASSUME NEW x \in Entry, x.left = NoLock <=> x.failures < LOGIN_MAX_ATTEMPTS,
           NEW made \in Seq(0 .. Window - 1), OldestFirst(made), NEW v \in SUBSET Threads,
           Vouches(<<x>>, made, v)
    PROVE  /\ EntryShape(<<OneTickOlder(x)>>)
           /\ Vouches(<<OneTickOlder(x)>>, Recent(Aged(made, Window)), v)
<1> DEFINE late == Recent(Aged(made, Window))
           y == OneTickOlder(x)
<1>0. /\ LOGIN_MAX_ATTEMPTS \in Nat \ {0} /\ Len(made) \in Nat /\ Window \in Nat \ {0} /\ Lockout \in Nat \ {0}
      /\ Lockout >= Window /\ Cardinality(Threads) \in Nat /\ Cardinality(v) \in Nat
  BY LimitsAssumption, LenProperties, ThreadsAssumption, FS_CardinalityType, FS_Subset
<1>1. /\ x.failures \in Nat /\ x.left \in NoLock .. Lockout /\ x.age \in 0 .. Window
      /\ x.left = NoLock \/ x.left = 0 \/ x.left > 0
  BY <1>0 DEF Entry, NoLock
<1>4. /\ y.failures = x.failures /\ y.age <= x.age + 1 /\ y.left = (IF x.left > 0 THEN x.left - 1 ELSE x.left)
      /\ y.age \in Nat /\ EntryShape(<<y>>)
  BY OlderShape
<1>5. EntryShape(<<y>>) /\ <<y>> # <<>> /\ <<y>>[1] = y /\ <<x>> # <<>> /\ <<x>>[1] = x
  BY <1>4
<1>6. PICK d \in 0 .. Len(made) :
        /\ late \in Seq(0 .. Window - 1) /\ Len(late) = Len(made) - d
        /\ \A i \in 1 .. Len(made) - d : i + d \in 1 .. Len(made) /\ late[i] = made[i + d] + 1
  BY LaterFailures
<1>7. DOMAIN late = 1 .. Len(made) - d /\ \A i \in 1 .. Len(made) : made[i] \in 0 .. Window - 1
  BY <1>6, LenProperties, ElementOfSeq
<1>m. DOMAIN made = 1 .. Len(made)
  BY LenProperties
<1> HIDE DEF late, y
<1>8. CASE x.left = NoLock
  <2>1. TwoRounds(x, made)
    BY <1>5, <1>8 DEF Vouches
  <2>2. PICK before \in 0 .. LOGIN_MAX_ATTEMPTS - 1 :
          before <= Len(made) /\ Len(made) - before <= x.failures /\ \A i \in 1 .. before : made[i] >= x.age
    BY <2>1 DEF TwoRounds
  <2> DEFINE b == IF before <= d THEN 0 ELSE before - d
  <2>3. b \in 0 .. LOGIN_MAX_ATTEMPTS - 1 /\ b <= Len(late) /\ Len(late) - b <= y.failures
    <3>1. before \in Nat /\ d \in Nat /\ d <= Len(made) /\ before <= LOGIN_MAX_ATTEMPTS - 1 /\ x.failures \in Int
      BY <1>0, <1>1, <1>6, <2>2
    <3>2. Len(late) = Len(made) - d /\ y.failures = x.failures
      BY <1>4, <1>6
    <3>3. CASE before <= d
      BY <1>0, <2>2, <3>1, <3>2, <3>3
    <3>4. CASE ~(before <= d)
      BY <1>0, <2>2, <3>1, <3>2, <3>4
    <3> QED BY <3>3, <3>4
  <2>4. ASSUME NEW i \in 1 .. b PROVE late[i] >= y.age
    <3>1. before > d /\ i \in 1 .. before - d
      BY <2>4, <1>0, <1>6, <2>2
    <3>2. i + d \in 1 .. before /\ i \in 1 .. Len(made) - d /\ i + d \in 1 .. Len(made)
      BY <1>0, <1>6, <2>2, <3>1
    <3>3. made[i + d] >= x.age /\ late[i] = made[i + d] + 1 /\ made[i + d] \in Int
      BY <1>6, <1>7, <2>2, <3>2
    <3>4. x.age \in Int /\ y.age \in Int /\ y.age <= x.age + 1
      BY <1>1, <1>4
    <3> QED BY <3>3, <3>4
  <2> HIDE DEF b
  <2>5. TwoRounds(y, late)
    BY <2>3, <2>4 DEF TwoRounds
  <2>6. y.left = NoLock
    BY <1>4, <1>8 DEF NoLock
  <2>7. Vouches(<<y>>, late, v)
    BY <1>5, <2>5, <2>6 DEF Vouches, NoLock
  <2> QED BY <1>5, <2>7 DEF late, y
<1>9. CASE x.left = 0
  <2>1. made = <<>>
    BY <1>5, <1>9 DEF Vouches
  <2>2. Len(late) = 0
    BY <1>0, <1>6, <2>1
  <2>3. late = <<>>
    BY <1>6, <2>2, EmptySeq
  <2>4. y.left = 0
    BY <1>4, <1>9
  <2>5. Vouches(<<y>>, late, v)
    BY <1>5, <2>3, <2>4 DEF Vouches, NoLock
  <2> QED BY <1>5, <2>5 DEF late, y
<1>10. CASE x.left > 0
  <2>1. /\ Len(made) + Cardinality(v) <= 2 * (LOGIN_MAX_ATTEMPTS - 1) + Cardinality(Threads)
        /\ \A i \in 1 .. Len(made) : made[i] >= Lockout - x.left
    BY <1>5, <1>10, <1>m DEF Vouches
  <2>2. y.left = x.left - 1 /\ x.left \in Int
    BY <1>1, <1>4, <1>10 DEF NoLock
  <2>3. ASSUME NEW i \in 1 .. Len(made) - d PROVE late[i] >= Lockout - y.left /\ late[i] \in 0 .. Window - 1
    <3>1. i + d \in 1 .. Len(made) /\ late[i] = made[i + d] + 1 /\ made[i + d] \in Int
      BY <1>6, <1>7
    <3>2. made[i + d] >= Lockout - x.left
      BY <2>1, <3>1
    <3>3. late[i] \in 0 .. Window - 1
      BY <1>6, <1>7, ElementOfSeq
    <3>4. Lockout \in Int /\ x.left \in Int /\ y.left = x.left - 1
      BY <1>0, <2>2
    <3>5. late[i] >= Lockout - y.left
      BY <3>1, <3>2, <3>4
    <3> QED BY <3>3, <3>5
  <2>4. CASE y.left > 0
    <3>1. Len(late) + Cardinality(v) <= 2 * (LOGIN_MAX_ATTEMPTS - 1) + Cardinality(Threads)
      BY <1>0, <1>6, <2>1
    <3>2. \A i \in DOMAIN late : late[i] >= Lockout - y.left
      BY <1>7, <2>3
    <3>3. y.left # NoLock /\ y.left # 0
      BY <2>2, <2>4 DEF NoLock
    <3>4. Vouches(<<y>>, late, v)
      BY <1>5, <3>1, <3>2, <3>3 DEF Vouches
    <3> QED BY <1>5, <3>4 DEF late, y
  <2>5. CASE ~(y.left > 0)
    <3>1. y.left = 0
      BY <1>10, <2>2, <2>5
    <3>2. d = Len(made)
      <4> SUFFICES ASSUME d < Len(made) PROVE FALSE
        BY <1>0, <1>6
      <4>1. 1 \in 1 .. Len(made) - d
        BY <1>0, <1>6
      <4>2. late[1] >= Lockout - y.left /\ late[1] \in 0 .. Window - 1
        BY <2>3, <4>1
      <4> QED BY <1>0, <3>1, <4>2
    <3>3. Len(late) = 0
      BY <1>0, <1>6, <3>2
    <3>4. late = <<>>
      BY <1>6, <3>3, EmptySeq
    <3>5. Vouches(<<y>>, late, v)
      BY <1>5, <3>1, <3>4 DEF Vouches, NoLock
    <3> QED BY <1>5, <3>5 DEF late, y
  <2> QED BY <2>4, <2>5
<1> QED BY <1>1, <1>8, <1>9, <1>10

(* The key of an address is not the key of an account.                       *)
LEMMA AddressIsNoAccount ==
    ASSUME NEW r \in Requests, NEW u \in Accounts
    PROVE  KeyOf(r) # AccountKey(u) /\ AccountKey(u) \in Keys
<1>1. ClientIp(r)[1] \in {4, 6}
  BY SubscribersAssumption
<1>2. KeyOf(r)[1] = ClientIp(r)[1]
  BY DEF KeyOf, RateLimitKey
<1>3. AccountKey(u)[1] = 0
  BY DEF AccountKey
<1> QED BY <1>1, <1>2, <1>3 DEF Keys

(* The bookkeeping of sign-ins is kept by every step.                        *)
LEMMA LoginStep == ASSUME LoginInv, [Next]_vars PROVE LoginInv'
<1>s. /\ entry = [k \in Keys |-> entry[k]]
      /\ \A k \in Keys : EntryShape(entry[k])
      /\ pc \in [Threads -> {"idle", "verify"}]
      /\ attempt = [t \in Threads |-> attempt[t]]
      /\ guesses \in [Subscribers -> Seq(0 .. Window - 1)]
      /\ \A s \in Subscribers : OldestFirst(guesses[s]) /\ guesses[s] \in Seq(0 .. Window - 1)
  BY DEF LoginInv, LoginShapes
<1>a. \A t \in Threads : pc[t] = "verify" =>
         \E r \in Requests, u \in Accounts :
           attempt[t] = <<{KeyOf(r), AccountKey(u)}, AccountKey(u), Subscriber(r)>>
  BY DEF LoginInv, LoginShapes
<1>v. \A r \in Requests :
        Vouches(entry[KeyOf(r)], guesses[Subscriber(r)], Verifying(Subscriber(r)))
  BY DEF LoginInv, FailuresAreAccounted
<1>f. \A s : Verifying(s) \in SUBSET Threads /\ Verifying(s)' \in SUBSET Threads
  BY DEF Verifying
<1>g. \A s \in Subscribers : Len(guesses[s]) \in Nat
  BY <1>s, LenProperties
<1>1. CASE UNCHANGED loginVars
  BY <1>1 DEF LoginInv, LoginShapes, FailuresAreAccounted, Vouches, TwoRounds, Verifying, loginVars,
              OldestFirst, EntryShape
<1>2. ASSUME NEW t \in Threads, NEW r \in Requests, NEW u \in Accounts, Login(t, r, u)
      PROVE  LoginInv'
  <2> DEFINE mine == <<{KeyOf(r), AccountKey(u)}, AccountKey(u), Subscriber(r)>>
  <2>1. /\ pc[t] = "idle" /\ ~Locked(KeyOf(r))
        /\ pc' = [pc EXCEPT ![t] = "verify"] /\ attempt' = [attempt EXCEPT ![t] = mine]
        /\ entry' = entry /\ guesses' = guesses
    BY <1>2 DEF Login, Blocked, KeyOf
  <2>2. LoginShapes'
    <3>1. /\ pc' \in [Threads -> {"idle", "verify"}] /\ attempt' = [x \in Threads |-> attempt'[x]]
          /\ \A x \in Threads : x # t => pc'[x] = pc[x] /\ attempt'[x] = attempt[x]
          /\ attempt'[t] = mine
      BY <1>s, <2>1
    <3>2. ASSUME NEW x \in Threads, pc'[x] = "verify"
          PROVE  \E q \in Requests, w \in Accounts :
                   attempt'[x] = <<{KeyOf(q), AccountKey(w)}, AccountKey(w), Subscriber(q)>>
      <4>1. CASE x = t
        BY <3>1, <4>1
      <4>2. CASE x # t
        BY <1>a, <3>1, <3>2, <4>2
      <4> QED BY <4>1, <4>2
    <3> QED BY <1>s, <2>1, <3>1, <3>2 DEF LoginShapes, OldestFirst, EntryShape
  <2>3. ASSUME NEW q \in Requests
        PROVE  Vouches(entry'[KeyOf(q)], guesses'[Subscriber(q)], Verifying(Subscriber(q))')
    <3>1. KeyOf(q) \in Keys /\ Subscriber(q) \in Subscribers
      BY KeyIsTracked
    <3>2. CASE Subscriber(q) = Subscriber(r)
      <4>1. KeyOf(q) = KeyOf(r)
        BY <3>2, OneKeyEach
      <4>2. ~(entry[KeyOf(q)] # <<>> /\ entry[KeyOf(q)][1].left > 0)
        BY <2>1, <4>1 DEF Locked
      <4>3. Vouches(entry[KeyOf(q)], guesses[Subscriber(q)], Verifying(Subscriber(q))')
        BY <1>f, <1>g, <1>s, <1>v, <3>1, <4>2, VouchesForFewer
      <4> QED BY <2>1, <4>3
    <3>3. CASE Subscriber(q) # Subscriber(r)
      <4>1. Verifying(Subscriber(q))' \subseteq Verifying(Subscriber(q))
        BY <1>s, <2>1, <3>3 DEF Verifying
      <4>2. Vouches(entry[KeyOf(q)], guesses[Subscriber(q)], Verifying(Subscriber(q))')
        BY <1>f, <1>g, <1>s, <1>v, <3>1, <4>1, VouchesForFewer
      <4> QED BY <2>1, <4>2
    <3> QED BY <3>2, <3>3
  <2>4. FailuresAreAccounted'
    BY <2>3 DEF FailuresAreAccounted, Vouches, TwoRounds
  <2> QED BY <2>2, <2>4 DEF LoginInv
<1>3. ASSUME NEW t \in Threads, WrongPassword(t) PROVE LoginInv'
  <2>1. PICK r \in Requests, u \in Accounts :
          attempt[t] = <<{KeyOf(r), AccountKey(u)}, AccountKey(u), Subscriber(r)>>
    BY <1>3, <1>a DEF WrongPassword
  <2> DEFINE s == Subscriber(r)
             keys == {KeyOf(r), AccountKey(u)}
             pruned == Prune(entry)
  <2>2. /\ attempt[t][1] = keys /\ attempt[t][3] = s /\ pc[t] = "verify"
        /\ entry' = [k \in Keys |-> IF k \in keys THEN Counted(pruned[k]) ELSE pruned[k]]
        /\ guesses' = [guesses EXCEPT ![s] = Append(@, 0)]
        /\ pc' = [pc EXCEPT ![t] = "idle"] /\ attempt' = [attempt EXCEPT ![t] = <<>>]
    BY <1>3, <2>1 DEF WrongPassword, RegisterFailure
  <2>3. s \in Subscribers /\ KeyOf(r) \in Keys
    BY KeyIsTracked
  <2>4. /\ guesses'[s] = Append(guesses[s], 0)
        /\ \A x \in Subscribers : x # s => guesses'[x] = guesses[x]
        /\ guesses' = [x \in Subscribers |-> guesses'[x]]
    BY <1>s, <2>2, <2>3
  <2>5. Append(guesses[s], 0) \in Seq(0 .. Window - 1) /\ OldestFirst(Append(guesses[s], 0))
    BY <1>s, <2>3, FailureAdded
  <2> HIDE DEF keys, pruned, s
  <2>6. /\ \A x \in Subscribers : guesses'[x] \in Seq(0 .. Window - 1) /\ OldestFirst(guesses'[x])
        /\ guesses' \in [Subscribers -> Seq(0 .. Window - 1)]
    BY <1>s, <2>4, <2>5
  <2>7. \A k \in Keys : EntryShape(pruned[k])
    BY PruneKeeps DEF pruned, LoginInv
  <2>8. \A k \in Keys : EntryShape(entry'[k])
    BY <2>2, <2>7, CountedShape
  <2>9. /\ pc' \in [Threads -> {"idle", "verify"}] /\ attempt' = [x \in Threads |-> attempt'[x]]
        /\ pc'[t] = "idle" /\ \A x \in Threads : x # t => pc'[x] = pc[x] /\ attempt'[x] = attempt[x]
    BY <1>s, <2>2
  <2>10. LoginShapes'
    <3>1. entry' = [k \in Keys |-> entry'[k]]
      BY <2>2
    <3>2. ASSUME NEW x \in Threads, pc'[x] = "verify"
          PROVE  \E q \in Requests, w \in Accounts :
                   attempt'[x] = <<{KeyOf(q), AccountKey(w)}, AccountKey(w), Subscriber(q)>>
      <4>1. x # t
        BY <2>9, <3>2
      <4> QED BY <1>a, <2>9, <3>2, <4>1
    <3> QED BY <2>6, <2>8, <2>9, <3>1, <3>2 DEF LoginShapes, OldestFirst, EntryShape
  <2>11. Verifying(s)' = Verifying(s) \ {t} /\ t \in Verifying(s)
    BY <2>2, <2>9 DEF Verifying
  <2>12. ASSUME NEW q \in Requests
         PROVE  Vouches(entry'[KeyOf(q)], guesses'[Subscriber(q)], Verifying(Subscriber(q))')
    <3>1. KeyOf(q) \in Keys /\ Subscriber(q) \in Subscribers
      BY KeyIsTracked
    <3>2. Vouches(pruned[KeyOf(q)], guesses[Subscriber(q)], Verifying(Subscriber(q)))
      BY <1>f, <1>s, <1>v, <3>1, PruneKeeps DEF pruned, LoginInv
    <3>3. CASE Subscriber(q) = s
      <4>1. KeyOf(q) = KeyOf(r)
        BY <3>3, OneKeyEach DEF s
      <4>2. entry'[KeyOf(q)] = Counted(pruned[KeyOf(q)])
        BY <2>2, <3>1, <4>1 DEF keys
      <4>3. Vouches(Counted(pruned[KeyOf(q)]), Append(guesses[s], 0), Verifying(s) \ {t})
        BY <1>f, <1>s, <2>3, <2>7, <2>11, <3>1, <3>2, <3>3, CountedVouches
      <4> QED BY <2>4, <2>11, <3>3, <4>2, <4>3
    <3>4. CASE Subscriber(q) # s
      <4>1. KeyOf(q) # KeyOf(r)
        BY <3>4, OneKeyEach DEF s
      <4>2. KeyOf(q) \notin keys
        BY <4>1, AddressIsNoAccount DEF keys
      <4>3. entry'[KeyOf(q)] = pruned[KeyOf(q)] /\ guesses'[Subscriber(q)] = guesses[Subscriber(q)]
        BY <2>2, <2>4, <3>1, <3>4, <4>2
      <4>4. Verifying(Subscriber(q))' \subseteq Verifying(Subscriber(q))
        BY <2>9 DEF Verifying
      <4>5. Vouches(pruned[KeyOf(q)], guesses[Subscriber(q)], Verifying(Subscriber(q))')
        BY <1>f, <1>g, <2>7, <3>1, <3>2, <4>4, VouchesForFewer
      <4> QED BY <4>3, <4>5
    <3> QED BY <3>3, <3>4
  <2>13. FailuresAreAccounted'
    BY <2>12 DEF FailuresAreAccounted, Vouches, TwoRounds
  <2> QED BY <2>10, <2>13 DEF LoginInv
<1>4. ASSUME NEW t \in Threads, RightPassword(t) PROVE LoginInv'
  <2>1. PICK r \in Requests, u \in Accounts :
          attempt[t] = <<{KeyOf(r), AccountKey(u)}, AccountKey(u), Subscriber(r)>>
    BY <1>4, <1>a DEF RightPassword
  <2>2. /\ entry' = [entry EXCEPT ![AccountKey(u)] = <<>>] /\ guesses' = guesses
        /\ pc' = [pc EXCEPT ![t] = "idle"] /\ attempt' = [attempt EXCEPT ![t] = <<>>]
    BY <1>4, <2>1 DEF RightPassword
  <2>3. /\ pc' \in [Threads -> {"idle", "verify"}] /\ attempt' = [x \in Threads |-> attempt'[x]]
        /\ pc'[t] = "idle" /\ \A x \in Threads : x # t => pc'[x] = pc[x] /\ attempt'[x] = attempt[x]
    BY <1>s, <2>2
  <2>4. /\ entry' = [k \in Keys |-> entry'[k]]
        /\ \A k \in Keys : entry'[k] = IF k = AccountKey(u) THEN <<>> ELSE entry[k]
    BY <1>s, <2>2
  <2>5. \A k \in Keys : EntryShape(entry'[k])
    BY <1>s, <2>4 DEF EntryShape
  <2>6. LoginShapes'
    <3>1. ASSUME NEW x \in Threads, pc'[x] = "verify"
          PROVE  \E q \in Requests, w \in Accounts :
                   attempt'[x] = <<{KeyOf(q), AccountKey(w)}, AccountKey(w), Subscriber(q)>>
      <4>1. x # t
        BY <2>3, <3>1
      <4> QED BY <1>a, <2>3, <3>1, <4>1
    <3> QED BY <1>s, <2>2, <2>3, <2>4, <2>5, <3>1 DEF LoginShapes, OldestFirst, EntryShape
  <2>7. ASSUME NEW q \in Requests
        PROVE  Vouches(entry'[KeyOf(q)], guesses'[Subscriber(q)], Verifying(Subscriber(q))')
    <3>1. KeyOf(q) \in Keys /\ Subscriber(q) \in Subscribers
      BY KeyIsTracked
    <3>2. entry'[KeyOf(q)] = entry[KeyOf(q)]
      BY <2>4, <3>1, AddressIsNoAccount
    <3>3. Verifying(Subscriber(q))' \subseteq Verifying(Subscriber(q))
      BY <2>3 DEF Verifying
    <3>4. Vouches(entry[KeyOf(q)], guesses[Subscriber(q)], Verifying(Subscriber(q))')
      BY <1>f, <1>g, <1>s, <1>v, <3>1, <3>3, VouchesForFewer
    <3> QED BY <2>2, <3>2, <3>4
  <2>8. FailuresAreAccounted'
    BY <2>7 DEF FailuresAreAccounted, Vouches, TwoRounds
  <2> QED BY <2>6, <2>8 DEF LoginInv
<1>5. CASE Tick
  <2>1. /\ entry' = [k \in Keys |-> IF entry[k] = <<>> THEN <<>> ELSE <<OneTickOlder(entry[k][1])>>]
        /\ guesses' = [s \in Subscribers |-> Recent(Aged(guesses[s], Window))]
        /\ pc' = pc /\ attempt' = attempt
    BY <1>5 DEF Tick, OneTickOlder
  <2>2. \A s \in Subscribers : guesses'[s] \in Seq(0 .. Window - 1) /\ OldestFirst(guesses'[s])
    BY <1>s, <2>1, LaterFailures
  <2>3. \A k \in Keys : EntryShape(entry'[k])
    <3> SUFFICES ASSUME NEW k \in Keys PROVE EntryShape(entry'[k])
      OBVIOUS
    <3>1. CASE entry[k] = <<>>
      BY <2>1, <3>1 DEF EntryShape
    <3>2. CASE entry[k] # <<>>
      <4>1. PICK x \in Entry : entry[k] = <<x>> /\ (x.left = NoLock <=> x.failures < LOGIN_MAX_ATTEMPTS)
        BY <1>s, <3>2 DEF EntryShape
      <4>2. entry'[k] = <<OneTickOlder(x)>>
        BY <2>1, <3>2, <4>1
      <4> QED BY <4>1, <4>2, OlderShape
    <3> QED BY <3>1, <3>2
  <2>4. LoginShapes'
    <3>1. guesses' \in [Subscribers -> Seq(0 .. Window - 1)] /\ entry' = [k \in Keys |-> entry'[k]]
      BY <2>1, <2>2
    <3> QED BY <1>a, <1>s, <2>1, <2>2, <2>3, <3>1 DEF LoginShapes, OldestFirst, EntryShape
  <2>5. ASSUME NEW q \in Requests
        PROVE  Vouches(entry'[KeyOf(q)], guesses'[Subscriber(q)], Verifying(Subscriber(q))')
    <3> DEFINE e == entry[KeyOf(q)]
               made == guesses[Subscriber(q)]
               v == Verifying(Subscriber(q))
    <3>1. /\ KeyOf(q) \in Keys /\ Subscriber(q) \in Subscribers /\ made \in Seq(0 .. Window - 1)
          /\ OldestFirst(made) /\ v \in SUBSET Threads /\ Vouches(e, made, v) /\ EntryShape(e)
      BY <1>f, <1>s, <1>v, KeyIsTracked
    <3>2. guesses'[Subscriber(q)] = Recent(Aged(made, Window)) /\ Verifying(Subscriber(q))' = v
      BY <2>1, <3>1 DEF Verifying
    <3>3. entry'[KeyOf(q)] = IF e = <<>> THEN <<>> ELSE <<OneTickOlder(e[1])>>
      BY <2>1, <3>1
    <3> HIDE DEF e, made, v
    <3>4. CASE e = <<>>
      <4>1. Len(made) < LOGIN_MAX_ATTEMPTS /\ Len(made) \in Nat /\ LOGIN_MAX_ATTEMPTS \in Nat
        BY <3>1, <3>4, LenProperties, LimitsAssumption DEF Vouches
      <4>2. PICK d \in 0 .. Len(made) : Len(Recent(Aged(made, Window))) = Len(made) - d
        BY <3>1, LaterFailures
      <4>3. Len(Recent(Aged(made, Window))) < LOGIN_MAX_ATTEMPTS
        BY <4>1, <4>2
      <4>4. Vouches(<<>>, Recent(Aged(made, Window)), v)
        BY <4>3 DEF Vouches
      <4> QED BY <3>2, <3>3, <3>4, <4>4
    <3>5. CASE e # <<>>
      <4>1. PICK x \in Entry : e = <<x>> /\ (x.left = NoLock <=> x.failures < LOGIN_MAX_ATTEMPTS)
        BY <3>1, <3>5 DEF EntryShape
      <4>2. Vouches(<<OneTickOlder(x)>>, Recent(Aged(made, Window)), v)
        BY <3>1, <4>1, TickVouches
      <4>3. entry'[KeyOf(q)] = <<OneTickOlder(x)>>
        BY <3>3, <3>5, <4>1
      <4> QED BY <3>2, <4>2, <4>3
    <3> QED BY <3>4, <3>5
  <2>6. FailuresAreAccounted'
    BY <2>5 DEF FailuresAreAccounted, Vouches, TwoRounds
  <2> QED BY <2>4, <2>6 DEF LoginInv
<1>6. CASE \/ \E r \in Requests : Allow(r) \/ AllowAccessRequest(r)
           \/ \E p \in Processes : Throttle(p)
           \/ CheckSla \/ WorkerRaises \/ Restart \/ RowsChange
  BY <1>1, <1>6 DEF Allow, AllowAccessRequest, LetThrough, Throttle, CheckSla, WorkerRaises, Restart, RowsChange
<1>7. CASE UNCHANGED vars
  BY <1>1, <1>7 DEF vars
<1> QED BY <1>2, <1>3, <1>4, <1>5, <1>6, <1>7 DEF Next

(* Within any window a subscriber's failed sign-ins stay below two rounds of *)
(* the limit and one per thread, for any number of threads and addresses and *)
(* all limits whose lock outlasts the window (login_throttle.py, auth.login).*)
THEOREM GuessesAreBoundedAlways == Spec => []GuessesAreBounded
<1>1. Init => LoginInv
  <2> SUFFICES ASSUME Init PROVE LoginInv
    OBVIOUS
  <2>1. <<>> \in Seq(0 .. Window - 1) /\ OldestFirst(<<>>) /\ Len(<<>>) = 0
    BY EmptySeq DEF OldestFirst
  <2>2. LoginShapes
    BY <2>1 DEF Init, LoginShapes, EntryShape
  <2>3. ASSUME NEW r \in Requests PROVE entry[KeyOf(r)] = <<>> /\ guesses[Subscriber(r)] = <<>>
    BY KeyIsTracked DEF Init
  <2>4. FailuresAreAccounted
    BY <2>1, <2>3, LimitsAssumption DEF FailuresAreAccounted, Vouches
  <2> QED BY <2>2, <2>4 DEF LoginInv
<1>2. LoginInv /\ [Next]_vars => LoginInv'
  BY LoginStep
<1>3. LoginInv => GuessesAreBounded
  <2> SUFFICES ASSUME LoginInv, NEW s \in Subscribers
               PROVE  Len(guesses[s]) <= 2 * (LOGIN_MAX_ATTEMPTS - 1) + Cardinality(Threads)
    BY DEF GuessesAreBounded
  <2>1. PICK r \in Requests : s = Subscriber(r)
    BY DEF Subscribers
  <2>2. /\ EntryShape(entry[KeyOf(r)]) /\ guesses[s] \in Seq(0 .. Window - 1)
        /\ Verifying(s) \in SUBSET Threads /\ Vouches(entry[KeyOf(r)], guesses[s], Verifying(s))
    BY <2>1, KeyIsTracked DEF LoginInv, LoginShapes, FailuresAreAccounted, Verifying
  <2> QED BY <2>2, VouchedIsBounded
<1> QED BY <1>1, <1>2, <1>3, PTL DEF Spec
=============================================================================
