----------------------------- MODULE AlarmProofs -----------------------------
(***************************************************************************)
(* Proofs about the alarm manager, and about it and its application        *)
(* together, for every capacity, buffer and horizon.                       *)
(*                                                                         *)
(* What the application does to the alarms are steps of the alarm manager, *)
(* except for the restart after a failed assertion: AlarmInv carries over, *)
(* and with it and AppInv "Delete" and "Edit" remove the alarm chosen.     *)
(***************************************************************************)
EXTENDS AlarmApp, SequenceTheorems, TLAPS

Increasing(s) == \A i, j \in 1..Len(s) : i < j => s[i] < s[j]

-----------------------------------------------------------------------------
(***************************************************************************)
(* Ordered sequences of epochs.                                            *)
(***************************************************************************)
\* A stretch of an ordered list is ordered.
LEMMA SubSeqIncreasing ==
  ASSUME NEW s \in Seq(Epoch), Increasing(s), NEW m \in Int, NEW n \in Int,
         1 <= m, n <= Len(s)
  PROVE  /\ SubSeq(s, m, n) \in Seq(Epoch)
         /\ Len(SubSeq(s, m, n)) = IF m <= n THEN n - m + 1 ELSE 0
         /\ \A i \in 1..(n - m + 1) : SubSeq(s, m, n)[i] = s[m + i - 1]
         /\ Increasing(SubSeq(s, m, n))
<1>1. \A i \in m..n : s[i] \in Epoch
  BY ElementOfSeq
<1>2. /\ SubSeq(s, m, n) \in Seq(Epoch)
      /\ Len(SubSeq(s, m, n)) = IF m <= n THEN n - m + 1 ELSE 0
      /\ \A i \in 1..(n - m + 1) : SubSeq(s, m, n)[i] = s[m + i - 1]
  BY <1>1, SubSeqProperties
<1> DEFINE t == SubSeq(s, m, n)
<1>3. ASSUME NEW i \in 1..Len(t), NEW j \in 1..Len(t), i < j PROVE t[i] < t[j]
  <2>1. i \in 1..(n - m + 1) /\ j \in 1..(n - m + 1)
    BY <1>2
  <2>2. t[i] = s[m + i - 1] /\ t[j] = s[m + j - 1]
    BY <1>2, <2>1
  <2>3. m + i - 1 \in 1..Len(s) /\ m + j - 1 \in 1..Len(s) /\ m + i - 1 < m + j - 1
    BY <1>3, <2>1, LenProperties
  <2> QED BY <2>2, <2>3 DEF Increasing
<1> QED BY <1>2, <1>3 DEF Increasing

\* Two ordered lists, the first before the second, make an ordered list.
LEMMA ConcatIncreasing ==
  ASSUME NEW s \in Seq(Epoch), NEW t \in Seq(Epoch), Increasing(s), Increasing(t),
         \A i \in 1..Len(s), j \in 1..Len(t) : s[i] < t[j]
  PROVE  /\ s \o t \in Seq(Epoch)
         /\ Len(s \o t) = Len(s) + Len(t)
         /\ \A i \in 1..Len(s) : (s \o t)[i] = s[i]
         /\ \A i \in 1..Len(t) : (s \o t)[Len(s) + i] = t[i]
         /\ Increasing(s \o t)
<1> DEFINE u == s \o t
<1>1. Len(s) \in Nat /\ Len(t) \in Nat
  BY LenProperties
<1>2. /\ u \in Seq(Epoch)
      /\ Len(u) = Len(s) + Len(t)
      /\ \A i \in 1..(Len(s) + Len(t)) : u[i] = IF i <= Len(s) THEN s[i] ELSE t[i - Len(s)]
  BY ConcatProperties
<1> HIDE DEF u
<1>3. \A i \in 1..Len(s) : u[i] = s[i]
  BY <1>1, <1>2
<1>4. ASSUME NEW i \in 1..Len(t) PROVE u[Len(s) + i] = t[i]
  <2>1. /\ Len(s) + i \in 1..(Len(s) + Len(t)) /\ ~(Len(s) + i <= Len(s))
        /\ (Len(s) + i) - Len(s) = i
    BY <1>1
  <2> QED BY <1>2, <2>1
<1>5. ASSUME NEW i \in 1..Len(u), NEW j \in 1..Len(u), i < j PROVE u[i] < u[j]
  <2>1. CASE j <= Len(s)
    BY <1>1, <1>2, <1>3, <1>5, <2>1 DEF Increasing
  <2>2. CASE i <= Len(s) /\ j > Len(s)
    <3>1. j - Len(s) \in 1..Len(t) /\ Len(s) + (j - Len(s)) = j /\ i \in 1..Len(s)
      BY <1>1, <1>2, <2>2
    <3>2. u[j] = t[j - Len(s)]
      BY <1>4, <3>1
    <3> QED BY <1>3, <3>1, <3>2
  <2>3. CASE i > Len(s)
    <3>1. /\ j - Len(s) \in 1..Len(t) /\ Len(s) + (j - Len(s)) = j
          /\ i - Len(s) \in 1..Len(t) /\ Len(s) + (i - Len(s)) = i
          /\ i - Len(s) < j - Len(s)
      BY <1>1, <1>2, <1>5, <2>3
    <3>2. u[j] = t[j - Len(s)] /\ u[i] = t[i - Len(s)]
      BY <1>4, <3>1
    <3> QED BY <3>1, <3>2 DEF Increasing
  <2> QED BY <1>1, <1>2, <2>1, <2>2, <2>3
<1> QED BY <1>2, <1>3, <1>4, <1>5 DEF u, Increasing

\* Deleting an alarm keeps the list ordered, and its first alarm unless that is the one.
LEMMA RemoveIncreasing ==
  ASSUME NEW s \in Seq(Epoch), Increasing(s), NEW k \in 1..Len(s)
  PROVE  /\ RemoveAt(s, k) \in Seq(Epoch)
         /\ Len(RemoveAt(s, k)) = Len(s) - 1
         /\ k > 1 => RemoveAt(s, k)[1] = s[1]
         /\ k = 1 => RemoveAt(s, k) = Tail(s)
         /\ Increasing(RemoveAt(s, k))
<1> DEFINE a == SubSeq(s, 1, k - 1)
           b == SubSeq(s, k + 1, Len(s))
<1>1. Len(s) \in Nat /\ k \in Int /\ k - 1 \in Int /\ k + 1 \in Int /\ Len(s) \in Int
      /\ 1 <= k + 1 /\ k - 1 <= Len(s) /\ 1 <= 1 /\ Len(s) <= Len(s)
  BY LenProperties
<1>2. /\ a \in Seq(Epoch) /\ Len(a) = k - 1 /\ Increasing(a)
      /\ \A i \in 1..(k - 1) : a[i] = s[i]
  BY <1>1, SubSeqIncreasing
<1>3. /\ b \in Seq(Epoch) /\ Len(b) = Len(s) - k /\ Increasing(b)
      /\ \A i \in 1..(Len(s) - k) : b[i] = s[k + i]
  BY <1>1, SubSeqIncreasing
<1>4. RemoveAt(s, k) = a \o b
  BY DEF RemoveAt
<1> HIDE DEF a, b
<1>5. ASSUME NEW i \in 1..Len(a), NEW j \in 1..Len(b) PROVE a[i] < b[j]
  <2>1. a[i] = s[i] /\ b[j] = s[k + j]
    BY <1>2, <1>3
  <2>2. i \in 1..Len(s) /\ k + j \in 1..Len(s) /\ i < k + j
    BY <1>1, <1>2, <1>3
  <2> QED BY <2>1, <2>2 DEF Increasing
<1>6. /\ a \o b \in Seq(Epoch) /\ Len(a \o b) = Len(a) + Len(b) /\ Increasing(a \o b)
      /\ \A i \in 1..Len(a) : (a \o b)[i] = a[i]
  BY <1>2, <1>3, <1>5, ConcatIncreasing
<1>7. k > 1 => (a \o b)[1] = s[1]
  BY <1>1, <1>2, <1>6
<1>8. k = 1 => a \o b = Tail(s)
  <2>1. SUFFICES ASSUME k = 1 PROVE a \o b = Tail(s)
    OBVIOUS
  <2>2. a = <<>>
    BY <1>2, <2>1, EmptySeq
  <2>3. a \o b = b
    BY <1>3, <2>2, ConcatEmptySeq
  <2>4. s # <<>> /\ Tail(s) = SubSeq(s, 2, Len(s))
    BY <1>1, <2>1
  <2> QED BY <2>1, <2>3, <2>4 DEF b
<1> QED BY <1>1, <1>2, <1>3, <1>4, <1>6, <1>7, <1>8, SMTT(40)

\* The insertion loop keeps the list ordered.
LEMMA InsertIncreasing ==
  ASSUME NEW s \in Seq(Epoch), Increasing(s), NEW e \in Epoch, NEW k \in 0..Len(s),
         k > 0 => s[k] <= e, \A i \in (k + 1)..Len(s) : s[i] > e,
         \A i \in 1..Len(s) : s[i] # e
  PROVE  /\ InsertAt(s, k + 1, e) \in Seq(Epoch)
         /\ Len(InsertAt(s, k + 1, e)) = Len(s) + 1
         /\ InsertAt(s, k + 1, e)[1] = IF k = 0 THEN e ELSE s[1]
         /\ Increasing(InsertAt(s, k + 1, e))
<1> DEFINE a == SubSeq(s, 1, k)
           b == SubSeq(s, k + 1, Len(s))
           c == a \o <<e>>
<1>1. Len(s) \in Nat /\ Len(s) \in Int /\ k \in Int /\ k + 1 \in Int /\ (k + 1) - 1 = k
      /\ 1 <= k + 1 /\ k <= Len(s) /\ Len(s) <= Len(s) /\ 1 <= 1
  BY LenProperties
<1>2. /\ a \in Seq(Epoch) /\ Len(a) = k /\ Increasing(a)
      /\ \A i \in 1..k : a[i] = s[i]
  BY <1>1, SubSeqIncreasing
<1>3. /\ b \in Seq(Epoch) /\ Len(b) = Len(s) - k /\ Increasing(b)
      /\ \A i \in 1..(Len(s) - k) : b[i] = s[k + i]
  BY <1>1, SubSeqIncreasing
<1>4. InsertAt(s, k + 1, e) = c \o b
  BY <1>1 DEF InsertAt
<1> HIDE DEF a, b, c
<1>5. <<e>> \in Seq(Epoch) /\ Len(<<e>>) = 1 /\ <<e>>[1] = e /\ Increasing(<<e>>)
  BY DEF Increasing
<1>6. \A i \in 1..Len(s) : s[i] \in Int
  BY AlarmAssumption, ElementOfSeq DEF Epoch
<1>7. e \in Int
  BY AlarmAssumption DEF Epoch
<1>8. ASSUME NEW i \in 1..k PROVE s[i] < e
  <2>1. k \in 1..Len(s) /\ i \in 1..Len(s) /\ s[k] <= e /\ s[k] # e /\ s[k] \in Int /\ s[i] \in Int
    BY <1>1, <1>6
  <2>2. i < k => s[i] < s[k]
    BY <2>1 DEF Increasing
  <2> QED BY <1>1, <1>7, <2>1, <2>2
<1>9. ASSUME NEW i \in 1..Len(a), NEW j \in 1..Len(<<e>>) PROVE a[i] < <<e>>[j]
  BY <1>2, <1>5, <1>8
<1>10. /\ c \in Seq(Epoch) /\ Len(c) = k + 1 /\ Increasing(c)
       /\ \A i \in 1..k : c[i] = s[i]
       /\ c[k + 1] = e
  <2>1. /\ c \in Seq(Epoch) /\ Len(c) = Len(a) + Len(<<e>>) /\ Increasing(c)
        /\ \A i \in 1..Len(a) : c[i] = a[i]
        /\ \A i \in 1..Len(<<e>>) : c[Len(a) + i] = <<e>>[i]
    BY <1>2, <1>5, <1>9, ConcatIncreasing DEF c
  <2> QED BY <1>1, <1>2, <1>5, <2>1
<1>11. ASSUME NEW i \in 1..Len(c), NEW j \in 1..Len(b) PROVE c[i] < b[j]
  <2>1. k + j \in 1..Len(s) /\ k + j \in (k + 1)..Len(s) /\ b[j] = s[k + j]
    BY <1>1, <1>3
  <2>2. CASE i = k + 1
    BY <1>6, <1>7, <1>10, <2>1, <2>2
  <2>3. CASE i \in 1..k
    <3>1. c[i] = s[i] /\ i \in 1..Len(s) /\ i < k + j
      BY <1>1, <1>10, <2>3
    <3> QED BY <2>1, <3>1 DEF Increasing
  <2> QED BY <1>1, <1>10, <2>2, <2>3
<1>12. /\ c \o b \in Seq(Epoch) /\ Len(c \o b) = Len(c) + Len(b) /\ Increasing(c \o b)
       /\ \A i \in 1..Len(c) : (c \o b)[i] = c[i]
  BY <1>3, <1>10, <1>11, ConcatIncreasing
<1>13. (c \o b)[1] = IF k = 0 THEN e ELSE s[1]
  BY <1>1, <1>10, <1>12
<1>14. Len(c \o b) = Len(s) + 1
  BY <1>1, <1>3, <1>10, <1>12
<1> HIDE DEF c
<1> QED BY <1>4, <1>12, <1>13, <1>14, Zenon

-----------------------------------------------------------------------------
\* What a timeout l must satisfy for a list that begins with epoch e at time now; before
\* the first synchronisation only that it is not too long.
Armed(e, now, l) ==
  /\ l \in Nat
  /\ l <= e - now \/ l <= Buffer
  /\ now # NoTime => l >= e - now

\* List s, clock now, timeout l, callback f and revalidation r agree.
Matched(s, now, l, f, r) ==
  /\ s \in Seq(Epoch) /\ Increasing(s) /\ Len(s) <= MaxAlarms
  /\ l \in Int /\ l >= Off
  /\ s # <<>> => \/ l = Off /\ f
                 \/ l # Off /\ (r \/ now = MaxEpoch \/ Armed(s[1], now, l))

\* schedule_next_alarm_internal arms the timer for the first alarm: never early, and
\* late by no more than the buffer.
LEMMA NextTimeoutArmed ==
  ASSUME NEW s, s[1] \in Int, NEW now \in Int
  PROVE  Armed(s[1], now, NextTimeout(s, now))
BY AlarmAssumption DEF Armed, NextTimeout

\* The first alarm of a list that is not empty is an epoch.
LEMMA FirstAlarm ==
  ASSUME NEW s \in Seq(Epoch), s # <<>>
  PROVE  s[1] \in Epoch /\ s[1] \in Int /\ Len(s) >= 1
BY AlarmAssumption DEF Epoch

\* A list whose first alarm has just changed, and the timer with it.
LEMMA RearmMatched ==
  ASSUME NEW s \in Seq(Epoch), Increasing(s), Len(s) <= MaxAlarms, NEW now \in Int, NEW f, NEW r
  PROVE  Matched(s, now, Rearm(s, now), f, r)
<1>1. CASE s = <<>>
  BY <1>1 DEF Matched, Rearm, Off
<1>2. CASE s # <<>>
  <2>1. Rearm(s, now) = NextTimeout(s, now) /\ Armed(s[1], now, NextTimeout(s, now))
    BY <1>2, FirstAlarm, NextTimeoutArmed DEF Rearm
  <2>2. Rearm(s, now) \in Int /\ Rearm(s, now) >= Off /\ Rearm(s, now) # Off
    BY <2>1 DEF Armed, Off
  <2> QED BY <2>1, <2>2 DEF Matched
<1> QED BY <1>1, <1>2

\* Dropping the first alarm leaves an ordered list.
LEMMA TailIncreasing ==
  ASSUME NEW s \in Seq(Epoch), Increasing(s), s # <<>>
  PROVE  Tail(s) \in Seq(Epoch) /\ Increasing(Tail(s)) /\ Len(Tail(s)) = Len(s) - 1
<1>1. 1 \in 1..Len(s)
  BY FirstAlarm
<1> QED BY <1>1, RemoveIncreasing

\* discard_expired_alarms keeps the rest of the list in order.
LEMMA DiscardedMatched ==
  ASSUME NEW s \in Seq(Epoch), Increasing(s), Len(s) <= MaxAlarms, NEW now \in Int,
         NEW t, Discarded(s, now, t), NEW f, NEW r
  PROVE  Matched(t, now, Rearm(t, now), f, r)
<1>1. PICK k \in 0..Len(s) : t = SubSeq(s, k + 1, Len(s))
  BY DEF Discarded
<1>2. Len(s) \in Nat /\ MaxAlarms \in Nat
  BY AlarmAssumption
<1>3. t \in Seq(Epoch) /\ Increasing(t) /\ Len(t) <= Len(s)
  BY <1>1, <1>2, SubSeqIncreasing
<1> QED BY <1>2, <1>3, RearmMatched

\* alarm_manager_delete_alarm
LEMMA DeleteMatched ==
  ASSUME NEW s, NEW now \in Int, NEW l, NEW f, NEW r, Matched(s, now, l, f, r),
         NEW k \in 1..Len(s)
  PROVE  Matched(RemoveAt(s, k), now, IF k = 1 THEN Rearm(Tail(s), now) ELSE l, f, r)
<1>1. s \in Seq(Epoch) /\ Increasing(s) /\ Len(s) \in Nat /\ Len(s) <= MaxAlarms /\ MaxAlarms \in Nat
  BY AlarmAssumption DEF Matched
<1>2. /\ RemoveAt(s, k) \in Seq(Epoch) /\ Increasing(RemoveAt(s, k))
      /\ Len(RemoveAt(s, k)) = Len(s) - 1
      /\ k > 1 => RemoveAt(s, k)[1] = s[1]
      /\ k = 1 => RemoveAt(s, k) = Tail(s)
  BY <1>1, RemoveIncreasing
<1>3. CASE k = 1
  <2>. s # <<>>
    BY <1>1
  <2>1. Tail(s) \in Seq(Epoch) /\ Increasing(Tail(s)) /\ Len(Tail(s)) <= MaxAlarms
    BY <1>1, TailIncreasing
  <2>2. Matched(Tail(s), now, Rearm(Tail(s), now), f, r)
    BY <2>1, RearmMatched
  <2> QED BY <1>2, <1>3, <2>2
<1>4. CASE k # 1
  <2>1. s # <<>> /\ k > 1
    BY <1>1, <1>4
  <2> QED BY <1>1, <1>2, <1>4, <2>1 DEF Matched
<1> QED BY <1>3, <1>4

\* alarm_manager_create_alarm, once the list has room.
LEMMA InsertMatched ==
  ASSUME NEW s, NEW now \in Int, NEW l, NEW f, NEW r, Matched(s, now, l, f, r),
         Len(s) < MaxAlarms, NEW e \in Epoch, NEW k \in 0..Len(s),
         k > 0 => s[k] <= e, \A i \in (k + 1)..Len(s) : s[i] > e,
         \A i \in 1..Len(s) : s[i] # e
  PROVE  Matched(InsertAt(s, k + 1, e), now,
                 IF k = 0 THEN NextTimeout(<<e>>, now) ELSE l, f, r)
<1> DEFINE t == InsertAt(s, k + 1, e)
<1>1. s \in Seq(Epoch) /\ Increasing(s) /\ Len(s) \in Nat /\ MaxAlarms \in Nat
  BY AlarmAssumption DEF Matched
<1>2. /\ t \in Seq(Epoch) /\ Increasing(t) /\ Len(t) = Len(s) + 1
      /\ t[1] = IF k = 0 THEN e ELSE s[1]
  BY <1>1, InsertIncreasing
<1> SUFFICES Matched(t, now, IF k = 0 THEN NextTimeout(<<e>>, now) ELSE l, f, r)
  OBVIOUS
<1> HIDE DEF t
<1>3. e \in Int /\ <<e>>[1] = e /\ Len(t) <= MaxAlarms
  BY <1>1, <1>2, AlarmAssumption DEF Epoch
<1>4. CASE k = 0
  <2>1. Armed(t[1], now, NextTimeout(<<e>>, now))
    BY <1>2, <1>3, <1>4, NextTimeoutArmed
  <2>2. /\ NextTimeout(<<e>>, now) \in Int /\ NextTimeout(<<e>>, now) >= Off
        /\ NextTimeout(<<e>>, now) # Off
    BY <2>1 DEF Armed, Off
  <2> QED BY <1>2, <1>3, <1>4, <2>1, <2>2 DEF Matched
<1>5. CASE k # 0
  <2>1. s # <<>>
    BY <1>1, <1>5
  <2> QED BY <1>2, <1>3, <1>5, <2>1 DEF Matched
<1> QED BY <1>4, <1>5

-----------------------------------------------------------------------------
(***************************************************************************)
(* The operations on the state.                                            *)
(***************************************************************************)
\* The part of the invariant that ties the list, the clock and the timer together.
MatchedNow == Matched(alarms, clock, left, firing, revalidate)

\* The invariant gives it.
LEMMA AlarmInvMatched == AlarmInv => MatchedNow
<1> SUFFICES ASSUME AlarmInv PROVE MatchedNow
  OBVIOUS
<1>1. /\ alarms \in Seq(Epoch) /\ left \in Int /\ left >= Off /\ clock \in Int
      /\ Buffer \in Int /\ Off = -1
  BY AlarmAssumption DEF AlarmInv, TypeOK, Epoch, NoTime, Off
<1>2. Increasing(alarms) /\ Len(alarms) <= MaxAlarms
  BY DEF AlarmInv, AlarmsSorted, Increasing
<1>3. ASSUME alarms # <<>>, left # Off, ~revalidate, clock # MaxEpoch
      PROVE  Armed(alarms[1], clock, left)
  <2>1. \/ clock = NoTime /\ (left <= alarms[1] \/ left <= Buffer)
        \/ /\ clock # NoTime
           /\ left >= alarms[1] - clock /\ (left <= alarms[1] - clock \/ left <= Buffer)
    BY <1>3 DEF AlarmInv, TimerMatchesFirstAlarm
  <2>2. left \in Nat /\ alarms[1] \in Int
    BY <1>1, <1>3, FirstAlarm
  <2> QED BY <1>1, <2>1, <2>2 DEF Armed, NoTime
<1>4. alarms # <<>> => left # Off \/ firing
  BY DEF AlarmInv, TimerMatchesFirstAlarm
<1> QED BY <1>1, <1>2, <1>3, <1>4 DEF MatchedNow, Matched

\* Making room in a full list keeps its first alarm, unless it was the only one.
LEMMA KeptMatched ==
  ASSUME AlarmInv
  PROVE  /\ Matched(Kept, clock, left, firing, revalidate)
         /\ Len(Kept) < MaxAlarms
         /\ \A i \in 1..Len(Kept) : i \in 1..Len(alarms) /\ Kept[i] = alarms[i]
<1>1. Matched(alarms, clock, left, firing, revalidate)
  BY AlarmInvMatched DEF MatchedNow
<1> DEFINE n == IF Len(alarms) = MaxAlarms THEN MaxAlarms - 1 ELSE Len(alarms)
<1>2. /\ alarms \in Seq(Epoch) /\ Increasing(alarms) /\ Len(alarms) <= MaxAlarms
      /\ Len(alarms) \in Nat /\ MaxAlarms \in Nat /\ MaxAlarms > 0
  BY <1>1, AlarmAssumption DEF Matched
<1>3. n \in Nat /\ n \in Int /\ n <= Len(alarms) /\ n < MaxAlarms /\ Kept = SubSeq(alarms, 1, n)
  BY <1>2 DEF Kept
<1> HIDE DEF n
<1>4. /\ Kept \in Seq(Epoch) /\ Increasing(Kept) /\ Len(Kept) = n
      /\ \A i \in 1..n : Kept[i] = alarms[i]
  BY <1>2, <1>3, SubSeqIncreasing
<1>5. Kept # <<>> => alarms # <<>> /\ Kept[1] = alarms[1]
  <2>1. SUFFICES ASSUME Kept # <<>> PROVE alarms # <<>> /\ Kept[1] = alarms[1]
    OBVIOUS
  <2>2. n >= 1
    BY <1>4, <2>1, FirstAlarm
  <2> QED BY <1>2, <1>3, <1>4, <2>2
<1>6. Matched(Kept, clock, left, firing, revalidate)
  BY <1>1, <1>2, <1>3, <1>4, <1>5 DEF Matched
<1> QED BY <1>2, <1>3, <1>4, <1>6

\* Creating an alarm leaves the list matched with the timer.
LEMMA InsertStep ==
  ASSUME AlarmInv, NEW e \in Epoch \cup {NoTime}, InsertAlarm(e)
  PROVE  Matched(alarms', clock, left', firing, revalidate)
<1>1. clock \in Int /\ Acceptable(e)
  BY AlarmAssumption DEF AlarmInv, TypeOK, Epoch, NoTime, InsertAlarm
<1>2. e \in Epoch
  BY <1>1, AlarmAssumption DEF Acceptable, NoTime, Epoch, AlarmInv, TypeOK
<1>4. PICK k \in 0..Len(Kept) :
        /\ k > 0 => Kept[k] <= e
        /\ \A i \in (k + 1)..Len(Kept) : Kept[i] > e
        /\ alarms' = InsertAt(Kept, k + 1, e)
        /\ left' = IF k = 0 THEN NextTimeout(<<e>>, clock) ELSE left
  BY DEF InsertAlarm
<1>5. \A i \in 1..Len(Kept) : Kept[i] # e
  BY <1>1, KeptMatched DEF Acceptable
<1>6. Matched(InsertAt(Kept, k + 1, e), clock,
              IF k = 0 THEN NextTimeout(<<e>>, clock) ELSE left, firing, revalidate)
  BY <1>1, <1>2, <1>4, <1>5, KeptMatched, InsertMatched
<1> QED BY <1>4, <1>6

\* Deleting, wherever other tasks have left the index pointing.
LEMMA DeleteStep ==
  ASSUME AlarmInv, NEW i, DeleteAt(i)
  PROVE  Matched(alarms', clock, left', firing, revalidate) /\ alarms # <<>>
<1>1. clock \in Int /\ Matched(alarms, clock, left, firing, revalidate) /\ alarms \in Seq(Epoch)
  BY AlarmAssumption, AlarmInvMatched DEF AlarmInv, TypeOK, Epoch, NoTime, MatchedNow
<1>2. i \in 1..Len(alarms)
  BY DEF DeleteAt
<1>3. /\ alarms' = RemoveAt(alarms, i)
      /\ left' = IF i = 1 THEN Rearm(Tail(alarms), clock) ELSE left
  BY DEF DeleteAt
<1>4. Matched(RemoveAt(alarms, i), clock, IF i = 1 THEN Rearm(Tail(alarms), clock) ELSE left,
              firing, revalidate)
  BY <1>1, <1>2, DeleteMatched
<1>5. alarms # <<>>
  BY <1>1, <1>2
<1> QED BY <1>3, <1>4, <1>5

-----------------------------------------------------------------------------
(***************************************************************************)
(* Every step keeps the invariant.                                         *)
(***************************************************************************)
\* The types of the variables that Matched does not speak of.
RestOK ==
  /\ clock \in Epoch \cup {NoTime}
  /\ firing \in BOOLEAN /\ revalidate \in BOOLEAN
  /\ edit \in [step : {"idle", "delete", "create", "rollback"},
               index : Nat, old : Epoch \cup {NoTime}, new : Epoch \cup {NoTime}]
  /\ syncs \in 0..MaxSyncs

\* One case per action.
LEMMA AlarmInvStep == AlarmInv /\ [Next]_vars => AlarmInv'
<1> SUFFICES ASSUME AlarmInv, [Next]_vars PROVE AlarmInv'
  OBVIOUS
<1> DEFINE Edit == [step : {"idle", "delete", "create", "rollback"},
                    index : Nat, old : Epoch \cup {NoTime}, new : Epoch \cup {NoTime}]
<1>1. SUFFICES RestOK' /\ MatchedNow'
  <2> SUFFICES ASSUME RestOK', MatchedNow' PROVE AlarmInv'
    OBVIOUS
  <2>1. /\ alarms' \in Seq(Epoch) /\ left' \in Int /\ left' >= Off
        /\ Increasing(alarms') /\ Len(alarms') <= MaxAlarms
    BY DEF MatchedNow, Matched
  <2>2. TypeOK'
    BY <2>1 DEF RestOK, TypeOK
  <2>3. AlarmsSorted'
    BY <2>1 DEF AlarmsSorted, Increasing
  <2>4. TimerMatchesFirstAlarm'
    <3>1. SUFFICES ASSUME alarms' # <<>>
          PROVE  /\ left' # Off \/ firing'
                 /\ left' # Off /\ ~revalidate' =>
                      \/ clock' = NoTime /\ (left' <= alarms'[1] \/ left' <= Buffer)
                      \/ /\ clock' # NoTime
                         /\ left' >= alarms'[1] - clock'
                         /\ left' <= alarms'[1] - clock' \/ left' <= Buffer
                      \/ clock' = MaxEpoch
      BY DEF TimerMatchesFirstAlarm
    <3>2. \/ left' = Off /\ firing'
          \/ left' # Off /\ (revalidate' \/ clock' = MaxEpoch \/ Armed(alarms'[1], clock', left'))
      BY <3>1 DEF MatchedNow, Matched
    <3>3. alarms'[1] \in Int
      BY <2>1, <3>1, FirstAlarm
    <3> QED BY <3>2, <3>3 DEF Armed, NoTime
  <2> QED BY <2>2, <2>3, <2>4 DEF AlarmInv
<1>2. /\ alarms \in Seq(Epoch) /\ Increasing(alarms) /\ Len(alarms) <= MaxAlarms
      /\ left \in Int /\ left >= Off /\ MaxAlarms \in Nat
      /\ clock \in Epoch \cup {NoTime} /\ clock \in Int
      /\ Matched(alarms, clock, left, firing, revalidate)
  BY AlarmAssumption, AlarmInvMatched DEF AlarmInv, TypeOK, Epoch, NoTime, MatchedNow, Matched
<1>3. /\ firing \in BOOLEAN /\ revalidate \in BOOLEAN /\ edit \in Edit /\ syncs \in 0..MaxSyncs
  BY DEF AlarmInv, TypeOK
<1>4. NoEdit \in Edit
  BY DEF NoEdit
<1>5. \A e \in Epoch : e # NoTime /\ e \in Int
  BY AlarmAssumption DEF Epoch, NoTime
<1>6. ASSUME NEW e \in Epoch, alarm_manager_create_alarm(e) PROVE RestOK' /\ MatchedNow'
  <2>1. /\ clock' = clock /\ firing' = firing /\ revalidate' = revalidate
        /\ edit' = edit /\ syncs' = syncs /\ InsertAlarm(e)
    BY <1>6 DEF alarm_manager_create_alarm
  <2>2. Matched(alarms', clock, left', firing, revalidate)
    BY <2>1, InsertStep
  <2> QED BY <1>2, <1>3, <2>1, <2>2 DEF RestOK, MatchedNow
<1>7. ASSUME NEW i \in 1..MaxAlarms, alarm_manager_delete_alarm(i) PROVE RestOK' /\ MatchedNow'
  <2>1. /\ clock' = clock /\ firing' = firing /\ revalidate' = revalidate
        /\ edit' = edit /\ syncs' = syncs /\ DeleteAt(i)
    BY <1>7 DEF alarm_manager_delete_alarm
  <2>2. alarms # <<>> /\ Matched(alarms', clock, left', firing, revalidate)
    BY <2>1, DeleteStep
  <2> QED BY <1>2, <1>3, <2>1, <2>2 DEF RestOK, MatchedNow
<1>8. ASSUME NEW i \in 1..MaxAlarms, NEW e \in Epoch, BeginEdit(i, e) PROVE RestOK' /\ MatchedNow'
  <2>1. /\ UNCHANGED <<alarms, clock, left, firing, revalidate, syncs>>
        /\ edit' = [step |-> "delete", index |-> i, old |-> alarms[i], new |-> e]
        /\ i \in 1..Len(alarms)
    BY <1>8 DEF BeginEdit
  <2>2. alarms[i] \in Epoch
    BY <1>2, <2>1
  <2>3. edit' \in Edit
    BY <2>1, <2>2
  <2> QED BY <1>2, <1>3, <2>1, <2>3 DEF RestOK, MatchedNow
<1>9. ASSUME EditDelete PROVE RestOK' /\ MatchedNow'
  <2>1. UNCHANGED <<clock, firing, revalidate, syncs>>
    BY <1>9 DEF EditDelete
  <2>2. CASE DeleteAt(edit.index) /\ edit' = [edit EXCEPT !.step = "create"]
    <3>1. alarms # <<>> /\ Matched(alarms', clock, left', firing, revalidate)
      BY <2>2, DeleteStep
    <3>2. edit' \in Edit
      BY <1>3, <2>2
    <3> QED BY <1>2, <1>3, <2>1, <3>1, <3>2 DEF RestOK, MatchedNow
  <2>3. CASE edit' = NoEdit /\ UNCHANGED <<alarms, left>>
    BY <1>2, <1>3, <1>4, <2>1, <2>3 DEF RestOK, MatchedNow
  <2> QED BY <1>9, <2>2, <2>3 DEF EditDelete
<1>10. ASSUME EditCreate PROVE RestOK' /\ MatchedNow'
  <2>1. UNCHANGED <<clock, firing, revalidate, syncs>> /\ edit.new \in Epoch \cup {NoTime}
    BY <1>3, <1>10 DEF EditCreate
  <2>2. CASE InsertAlarm(edit.new) /\ edit' = NoEdit
    <3>1. Matched(alarms', clock, left', firing, revalidate)
      BY <2>1, <2>2, InsertStep
    <3> QED BY <1>2, <1>3, <1>4, <2>1, <2>2, <3>1 DEF RestOK, MatchedNow
  <2>3. CASE edit' = [edit EXCEPT !.step = "rollback"] /\ UNCHANGED <<alarms, left>>
    <3>1. edit' \in Edit
      BY <1>3, <2>3
    <3> QED BY <1>2, <1>3, <2>1, <2>3, <3>1 DEF RestOK, MatchedNow
  <2> QED BY <1>10, <2>2, <2>3 DEF EditCreate
<1>11. ASSUME EditRollback PROVE RestOK' /\ MatchedNow'
  <2>1. /\ UNCHANGED <<clock, firing, revalidate, syncs>> /\ edit' = NoEdit
        /\ edit.old \in Epoch \cup {NoTime}
    BY <1>3, <1>11 DEF EditRollback
  <2>2. CASE InsertAlarm(edit.old)
    <3>1. Matched(alarms', clock, left', firing, revalidate)
      BY <2>1, <2>2, InsertStep
    <3> QED BY <1>2, <1>3, <1>4, <2>1, <3>1 DEF RestOK, MatchedNow
  <2>3. CASE UNCHANGED <<alarms, left>>
    BY <1>2, <1>3, <1>4, <2>1, <2>3 DEF RestOK, MatchedNow
  <2> QED BY <1>11, <2>2, <2>3 DEF EditRollback
<1>12. ASSUME Expire PROVE RestOK' /\ MatchedNow'
  BY <1>2, <1>3, <1>12 DEF Expire, RestOK, MatchedNow, Matched, Off
<1>13. ASSUME alarm_fired_cb PROVE RestOK' /\ MatchedNow'
  <2>1. UNCHANGED <<clock, edit, revalidate, syncs>> /\ firing' = FALSE /\ firing
    BY <1>13 DEF alarm_fired_cb
  <2>2. CASE alarms = <<>>
    <3>1. alarms' = alarms /\ left' = left
      BY <1>13, <2>2 DEF alarm_fired_cb
    <3> QED BY <1>2, <1>3, <2>1, <2>2, <3>1 DEF RestOK, MatchedNow, Matched
  <2>3. CASE alarms # <<>>
    <3>1. alarms' = Tail(alarms)
      BY <1>13, <2>3 DEF alarm_fired_cb
    <3>2. Tail(alarms) \in Seq(Epoch) /\ Increasing(Tail(alarms)) /\ Len(Tail(alarms)) <= MaxAlarms
      BY <1>2, <2>3, TailIncreasing
    <3>3. CASE Tail(alarms) = <<>>
      <4>1. left' = left
        BY <1>13, <2>3, <3>3 DEF alarm_fired_cb
      <4> QED BY <1>2, <1>3, <2>1, <3>1, <3>2, <3>3, <4>1
              DEF RestOK, MatchedNow, Matched
    <3>4. CASE Tail(alarms) # <<>>
      <4>1. left' = Rearm(Tail(alarms), clock)
        BY <1>13, <2>3, <3>4 DEF alarm_fired_cb, Rearm
      <4>2. Matched(Tail(alarms), clock, Rearm(Tail(alarms), clock), FALSE, revalidate)
        BY <1>2, <3>2, RearmMatched
      <4> QED BY <1>2, <1>3, <2>1, <3>1, <4>1, <4>2 DEF RestOK, MatchedNow
    <3> QED BY <3>3, <3>4
  <2> QED BY <2>2, <2>3
<1>14. ASSUME Second PROVE RestOK' /\ MatchedNow'
  <2>1. /\ UNCHANGED <<alarms, firing, edit, revalidate, syncs>> /\ left # 0
        /\ clock' = IF clock \in {NoTime, MaxEpoch} THEN clock ELSE clock + 1
        /\ left' = IF left > 0 THEN left - 1 ELSE left
    BY <1>14 DEF Second
  <2>2. clock' \in Epoch \cup {NoTime} /\ clock' \in Int /\ (clock' = NoTime => clock = NoTime)
    BY <1>2, <2>1, AlarmAssumption DEF Epoch, NoTime
  <2>3. left' \in Int /\ left' >= Off /\ (left' = Off <=> left = Off)
    BY <1>2, <2>1 DEF Off
  <2>4. ASSUME alarms # <<>>, left # Off, ~revalidate, clock # MaxEpoch
        PROVE  Armed(alarms[1], clock', left')
    <3>1. Armed(alarms[1], clock, left)
      BY <1>2, <2>4 DEF Matched
    <3>2. clock' = (IF clock = NoTime THEN clock ELSE clock + 1) /\ left' = left - 1
      BY <1>2, <2>1, <2>4 DEF Off
    <3>3. alarms[1] \in Int /\ Buffer \in Int /\ left \in Nat \ {0}
      BY <1>2, <2>1, <2>4, <3>1, FirstAlarm, AlarmAssumption DEF Armed
    <3> QED BY <1>2, <3>1, <3>2, <3>3 DEF Armed, NoTime
  <2>5. clock = MaxEpoch => clock' = MaxEpoch
    BY <2>1
  <2>6. RestOK'
    BY <1>3, <2>1, <2>2 DEF RestOK
  <2>7. MatchedNow'
    BY <1>2, <2>1, <2>3, <2>4, <2>5 DEF MatchedNow, Matched
  <2> QED BY <2>6, <2>7
<1>15. ASSUME alarm_manager_revalidate PROVE RestOK' /\ MatchedNow'
  <2>1. /\ UNCHANGED <<clock, firing, edit, syncs>> /\ revalidate' = FALSE
        /\ Discarded(alarms, clock, alarms') /\ left' = Rearm(alarms', clock)
    BY <1>15 DEF alarm_manager_revalidate
  <2>2. Matched(alarms', clock, Rearm(alarms', clock), firing, FALSE)
    BY <1>2, <2>1, DiscardedMatched
  <2> QED BY <1>2, <1>3, <2>1, <2>2 DEF RestOK, MatchedNow
<1>16. ASSUME NEW e \in Epoch, SetClock(e) PROVE RestOK' /\ MatchedNow'
  <2>1. /\ UNCHANGED <<alarms, left, firing, edit>> /\ clock' = e /\ revalidate' = TRUE
        /\ syncs' = syncs + 1 /\ syncs < MaxSyncs
    BY <1>16 DEF SetClock
  <2>2. syncs' \in 0..MaxSyncs
    BY <1>3, <2>1, AlarmAssumption
  <2>3. RestOK'
    BY <1>3, <1>5, <2>1, <2>2 DEF RestOK
  <2>4. MatchedNow'
    BY <1>2, <2>1 DEF MatchedNow, Matched
  <2> QED BY <2>3, <2>4
<1>17. ASSUME NEW e \in Epoch, DeepSleep(e) PROVE RestOK' /\ MatchedNow'
  <2>1. Sorted(alarms) = alarms
    <3>1. \A i \in 1..(Len(alarms) - 1) : alarms[i] <= alarms[i + 1]
      <4> SUFFICES ASSUME NEW i \in 1..(Len(alarms) - 1) PROVE alarms[i] <= alarms[i + 1]
        OBVIOUS
      <4>1. i \in 1..Len(alarms) /\ i + 1 \in 1..Len(alarms) /\ i < i + 1
        BY <1>2
      <4>2. alarms[i] < alarms[i + 1]
        BY <1>2, <4>1 DEF Increasing
      <4>3. alarms[i] \in Epoch /\ alarms[i + 1] \in Epoch
        BY <1>2, <4>1, ElementOfSeq
      <4> QED BY <1>5, <4>2, <4>3
    <3> QED BY <3>1 DEF Sorted
  <2>2. /\ UNCHANGED <<edit, revalidate, syncs>> /\ clock' = e /\ firing' = FALSE
        /\ Discarded(alarms, e, alarms') /\ left' = Rearm(alarms', e)
    BY <1>17, <2>1 DEF DeepSleep
  <2>3. Matched(alarms', e, Rearm(alarms', e), FALSE, revalidate)
    BY <1>2, <1>5, <2>2, DiscardedMatched
  <2> QED BY <1>3, <1>5, <2>2, <2>3 DEF RestOK, MatchedNow
<1>18. ASSUME DeepSleepWithoutTime PROVE RestOK' /\ MatchedNow'
  <2>1. /\ UNCHANGED <<clock, edit, revalidate, syncs>>
        /\ alarms' = <<>> /\ left' = Off /\ firing' = FALSE
    BY <1>18 DEF DeepSleepWithoutTime
  <2>2. alarms' \in Seq(Epoch) /\ Len(alarms') = 0 /\ Increasing(alarms')
    BY <2>1, EmptySeq DEF Increasing
  <2>3. MatchedNow'
    BY <1>2, <2>1, <2>2 DEF MatchedNow, Matched, Off
  <2> QED BY <1>2, <1>3, <2>1, <2>3 DEF RestOK
<1>19. ASSUME UNCHANGED vars PROVE RestOK' /\ MatchedNow'
  BY <1>2, <1>3, <1>19 DEF vars, RestOK, MatchedNow
<1> QED
  BY <1>6, <1>7, <1>8, <1>9, <1>10, <1>11, <1>12, <1>13, <1>14, <1>15, <1>16, <1>17, <1>18,
     <1>19
  DEF Next, Ui

\* A watch without alarms and without the time: at cold boot and after a panic.
Empty ==
  /\ alarms = <<>> /\ clock = NoTime /\ left = Off /\ firing = FALSE
  /\ edit = NoEdit /\ revalidate = FALSE /\ syncs \in 0..MaxSyncs

\* Without alarms the timer has nothing to agree with.
LEMMA EmptyAlarmInv == Empty => AlarmInv
<1> SUFFICES ASSUME Empty PROVE AlarmInv
  OBVIOUS
<1>1. alarms = <<>> /\ Len(alarms) = 0
  BY DEF Empty
<1>2. TypeOK
  <2>1. alarms \in Seq(Epoch)
    BY <1>1, EmptySeq
  <2>. clock \in Epoch \cup {NoTime} /\ firing \in BOOLEAN /\ revalidate \in BOOLEAN
    BY DEF Empty
  <2>2. left \in Int /\ left >= Off /\ syncs \in 0..MaxSyncs
    BY AlarmAssumption DEF Empty, Off
  <2>3. edit \in [step : {"idle", "delete", "create", "rollback"},
                  index : Nat, old : Epoch \cup {NoTime}, new : Epoch \cup {NoTime}]
    BY DEF Empty, NoEdit
  <2> QED BY <2>1, <2>2, <2>3 DEF TypeOK
<1>3. AlarmsSorted
  BY <1>1, AlarmAssumption DEF AlarmsSorted
<1> QED BY <1>1, <1>2, <1>3 DEF AlarmInv, TimerMatchesFirstAlarm

\* Cold boot: no alarms, and nothing armed.
LEMMA AlarmInvInit == Init => AlarmInv
<1>1. Init => Empty
  BY AlarmAssumption DEF Init, Empty
<1> QED BY <1>1, EmptyAlarmInv

\* Everything at once.
THEOREM AlarmInvCorrect == Spec => []AlarmInv
BY AlarmInvInit, AlarmInvStep, PTL DEF Spec

\* The alarm list stays within its array and strictly ordered, for every capacity.
THEOREM AlarmsSortedCorrect == Spec => []AlarmsSorted
<1>1. AlarmInv => AlarmsSorted
  BY DEF AlarmInv
<1> QED BY <1>1, AlarmInvCorrect, PTL

\* Whatever edits, callbacks, synchronisations and deep sleep do, a list that is not
\* empty has its timer running or its callback on the way, and a revalidated timer is
\* never early and late by no more than the buffer; before the first synchronisation the
\* first alarm waits no longer than the seconds of its epoch.
THEOREM TimerCorrect == Spec => []TimerMatchesFirstAlarm
<1>1. AlarmInv => TimerMatchesFirstAlarm
  BY DEF AlarmInv
<1> QED BY <1>1, AlarmInvCorrect, PTL

-----------------------------------------------------------------------------
(* The alarm manager's part of a step                                      *)

\* popup_sel_cb calls alarm_manager_delete_alarm or leaves the alarms alone.
LEMMA DeleteSelectedStep ==
  ASSUME NEW option, popup_sel_cb(option)
  PROVE  \/ UNCHANGED vars
         \/ selected \in 1..Len(alarms) /\ alarm_manager_delete_alarm(selected)
<1>1. edit.step = "idle" /\ UNCHANGED <<clock, firing, edit, revalidate, syncs>>
  BY DEF popup_sel_cb, Ready
<1>2. UNCHANGED <<alarms, left>> \/ DeleteAt(selected)
  BY DEF popup_sel_cb, DeleteSelected
<1>3. DeleteAt(selected) => selected \in 1..Len(alarms)
  BY DEF DeleteAt
<1> QED BY <1>1, <1>2, <1>3 DEF alarm_manager_delete_alarm, vars

\* Every step of the application is one of the alarm manager, or a restart.
LEMMA AppStepsAlarms ==
  ASSUME AlarmInv, [AppNext]_avars
  PROVE  [Next]_vars \/ Empty'
<1>1. CASE Panic
  BY <1>1 DEF Panic, Empty, AlarmInv, TypeOK
<1>2. CASE \E option \in {"Edit", "Copy", "Delete"} : popup_sel_cb(option)
  <2>1. selected \in 1..Len(alarms) => selected \in 1..MaxAlarms
    BY AlarmAssumption, LenProperties DEF AlarmInv, AlarmsSorted, TypeOK
  <2> QED BY <1>2, <2>1, DeleteSelectedStep DEF Next, Ui
<1>3. CASE \E e \in Epoch : on_btn_clicked_cb(e)
  BY <1>3 DEF on_btn_clicked_cb, Next, Ui
<1>4. CASE OtherTask
  BY <1>4 DEF OtherTask, Next
<1>5. CASE OtherApp
  BY <1>5 DEF OtherApp, Next
<1>6. CASE Reboot
  BY <1>6 DEF Reboot, Next
<1>7. CASE \/ draw_alarm_app_ui \/ delete_alarm_app_ui
           \/ invalidate_and_repopulate_alarm_list
           \/ \E i \in 1..MaxAlarms : open_alarm_change_popup(i)
           \/ dismiss_popup \/ add_alarm_click_cb \/ CancelCreate
           \/ AlarmScreen \/ FocusCreator \/ UNCHANGED avars
  BY <1>7 DEF draw_alarm_app_ui, delete_alarm_app_ui, invalidate_and_repopulate_alarm_list,
              open_alarm_change_popup, dismiss_popup, add_alarm_click_cb, CancelCreate,
              AlarmScreen, FocusCreator, avars
<1> QED BY <1>1, <1>2, <1>3, <1>4, <1>5, <1>6, <1>7 DEF AppNext, App

\* The alarm manager is left in order by the application and by a restart.
LEMMA AppAlarmInvStep == AlarmInv /\ [AppNext]_avars => AlarmInv'
<1>1. AlarmInv /\ [AppNext]_avars => [Next]_vars \/ Empty'
  BY AppStepsAlarms
<1>2. Empty' => AlarmInv'
  BY EmptyAlarmInv, PTL
<1> QED BY <1>1, <1>2, AlarmInvStep

\* List, clock and timer agree also when the application is what drives the manager.
THEOREM AppAlarmInvCorrect == AppSpec => []AlarmInv
<1>1. AppInit => AlarmInv
  BY AlarmInvInit DEF AppInit
<1> QED BY <1>1, AppAlarmInvStep, PTL DEF AppSpec

-----------------------------------------------------------------------------
(* The application's own part                                              *)

\* The application starts closed.
LEMMA AppInvInit == AppInit => AppInv
<1> SUFFICES ASSUME AppInit PROVE AppInv
  OBVIOUS
<1>1. snapshot \in Seq(Epoch) /\ Len(snapshot) <= MaxAlarms
  BY AlarmAssumption, EmptySeq DEF AppInit
<1>2. selected \in 0..MaxAlarms
  BY AlarmAssumption DEF AppInit
<1>3. page \in Pages /\ statics \subseteq Pointers /\ drawn \in BOOLEAN
      /\ listLast \in BOOLEAN /\ rang \in BOOLEAN /\ refresh \in BOOLEAN
      /\ assertion \in BOOLEAN /\ stale \in BOOLEAN /\ astray \in BOOLEAN
  BY Zenon DEF AppInit, Pages
<1>4. AppTypeOK
  BY <1>1, <1>2, <1>3 DEF AppTypeOK
<1>5. NoAssertionFails /\ ShowsAlarms /\ SelectionValid
  BY DEF AppInit, NoAssertionFails, ShowsAlarms, SelectionValid
<1> QED BY <1>4, <1>5 DEF AppInv

\* What populate_alarms_list copies is a list of the alarm manager.
LEMMA PopulatedTyped ==
  ASSUME AlarmInv, populate_alarms_list
  PROVE  /\ snapshot' \in Seq(Epoch) /\ Len(snapshot') <= MaxAlarms
         /\ drawn' \in BOOLEAN /\ listLast' \in BOOLEAN /\ stale' \in BOOLEAN
         /\ snapshot' = alarms /\ stale' = FALSE
<1>1. snapshot' = alarms /\ stale' = FALSE /\ listLast' \in BOOLEAN
  BY DEF populate_alarms_list
<1>2. drawn' \in BOOLEAN
  BY DEF populate_alarms_list
<1>3. alarms \in Seq(Epoch) /\ Len(alarms) <= MaxAlarms
  BY DEF AlarmInv, TypeOK, AlarmsSorted
<1> QED BY <1>1, <1>2, <1>3

\* draw_modify_alarm_page from the list or the popup: either it opens its page, or it
\* fails because the page had lost the focus.
LEMMA CreatorDrawn ==
  ASSUME AppInv, page \in {"list", "popup"}, ~assertion, draw_modify_alarm_page
  PROVE  \/ /\ assertion' = TRUE /\ astray
            /\ UNCHANGED <<page, statics, listLast>>
         \/ /\ page' = "create" /\ listLast' = FALSE /\ assertion' = FALSE
            /\ statics' \subseteq Pointers /\ "background" \in statics'
            /\ "dangling" \notin statics' /\ "popup" \notin statics'
<1>1. CASE CreatorSet
  BY <1>1 DEF draw_modify_alarm_page, CreatorSet, AppInv, NoAssertionFails
<1>2. CASE ~CreatorSet
  <2>1. /\ page' = "create" /\ listLast' = FALSE /\ UNCHANGED assertion
        /\ statics' = (statics \ {"popup"}) \cup {"background"}
    BY <1>2 DEF draw_modify_alarm_page
  <2>2. statics \subseteq Pointers /\ "dangling" \notin statics /\ assertion \in BOOLEAN
    BY <1>2 DEF CreatorSet, AppInv, AppTypeOK
  <2> QED BY <2>1, <2>2 DEF Pointers
<1> QED BY <1>1, <1>2

\* Every callback of the application, and everything else that happens meanwhile, keeps
\* screen, pointers and alarms in step.
LEMMA AppInvStep == AlarmInv /\ AppInv /\ [AppNext]_avars => AppInv'
<1> SUFFICES ASSUME AlarmInv, AppInv, [AppNext]_avars PROVE AppInv'
  OBVIOUS
<1> USE DEF AppInv, AppTypeOK, NoAssertionFails, ShowsAlarms, SelectionValid, Pages, Pointers
<1>1. CASE draw_alarm_app_ui
  <2>1. ~drawn /\ ~refresh /\ statics \subseteq {"dangling"} /\ ~assertion
    BY <1>1 DEF draw_alarm_app_ui, Ready
  <2>2. CASE /\ page' = "list"
             /\ statics' = statics \cup {"change_list", "all_alarms_snapshot"}
             /\ assertion' = (drawn \/ {"change_list", "all_alarms_snapshot"} \cap statics # {})
             /\ populate_alarms_list
    <3>1. ~assertion'
      BY <2>1, <2>2
    <3> QED BY <1>1, <2>1, <2>2, <3>1, PopulatedTyped DEF draw_alarm_app_ui, vars
  <2>3. CASE /\ page' = "blank"
             /\ \E got \in {{}, {"change_list"}} : statics' = statics \cup got
             /\ assertion' = ("change_list" \in statics)
             /\ UNCHANGED <<snapshot, drawn, listLast, stale>>
    <3>1. assertion' = FALSE
      BY <2>1, <2>3
    <3>2. statics' \subseteq {"dangling", "change_list"} /\ ("dangling" \in statics' => "dangling" \in statics)
      BY <2>1, <2>3
    <3>3. UNCHANGED <<rang, selected, refresh, astray>>
      BY <1>1 DEF draw_alarm_app_ui
    <3> QED BY <2>1, <2>3, <3>1, <3>2, <3>3
  <2> QED BY <1>1, <2>2, <2>3 DEF draw_alarm_app_ui
<1>2. CASE delete_alarm_app_ui
  <2>1. snapshot' \in Seq(Epoch) /\ Len(snapshot') <= MaxAlarms
    BY <1>2, AlarmAssumption, EmptySeq DEF delete_alarm_app_ui
  <2>2. /\ page' = "closed" /\ drawn' = FALSE /\ listLast' = FALSE /\ stale' = FALSE
        /\ ~refresh /\ ~assertion /\ page \in {"list", "blank"}
        /\ UNCHANGED <<rang, selected, refresh, assertion, astray>>
        /\ statics' = IF CreatorSet THEN {"dangling"} ELSE {}
    BY <1>2 DEF delete_alarm_app_ui, Ready, Left
  <2>3. "dangling" \in statics' => astray'
    BY <2>2 DEF CreatorSet
  <2>4. "popup" \notin statics' /\ "background" \notin statics'
        /\ statics' \subseteq {"dangling"}
    BY <2>2
  <2> QED BY <2>1, <2>2, <2>3, <2>4
<1>3. CASE invalidate_and_repopulate_alarm_list
  BY <1>3, PopulatedTyped DEF invalidate_and_repopulate_alarm_list, vars
<1>4. ASSUME NEW i \in 1..MaxAlarms, open_alarm_change_popup(i) PROVE AppInv'
  <2>1. /\ page = "list" /\ ~refresh /\ ~assertion /\ i \in 1..Len(snapshot)
        /\ "popup" \notin statics /\ assertion' = FALSE
        /\ UNCHANGED <<alarms, listLast, rang, snapshot, drawn, refresh, stale, astray>>
    BY <1>4 DEF open_alarm_change_popup, Ready, vars
  <2>2. CASE UNCHANGED <<page, selected, statics>>
    BY <2>1, <2>2
  <2>3. CASE page' = "popup" /\ selected' = i /\ statics' = statics \cup {"popup"}
    <3>1. selected' \in 0..MaxAlarms /\ selected' \in 1..Len(snapshot')
      BY <2>1, <2>3, AlarmAssumption
    <3> QED BY <2>1, <2>3, <3>1
  <2> QED BY <1>4, <2>2, <2>3 DEF open_alarm_change_popup
<1>5. CASE dismiss_popup
  BY <1>5, AlarmAssumption DEF dismiss_popup, Ready, vars
<1>6. ASSUME NEW option \in {"Edit", "Copy", "Delete"}, popup_sel_cb(option) PROVE AppInv'
  <2>1. /\ page = "popup" /\ ~refresh /\ ~assertion
        /\ selected' = 0 /\ refresh' = (option # "Copy" /\ ~assertion')
        /\ option = "Copy" \/ assertion' => UNCHANGED alarms
        /\ UNCHANGED <<rang, snapshot, drawn, stale, astray>>
    BY <1>6 DEF popup_sel_cb, Ready
  <2>2. selected' \in 0..MaxAlarms
    BY <2>1, AlarmAssumption
  <2>3. CASE /\ page' = (IF "background" \in statics THEN "create" ELSE "list")
             /\ statics' = statics \ {"popup"}
             /\ UNCHANGED <<listLast, assertion>>
             /\ option = "Delete"
    BY <2>1, <2>2, <2>3
  <2>4. CASE draw_modify_alarm_page
    BY <2>1, <2>2, <2>4, CreatorDrawn
  <2> QED BY <1>6, <2>3, <2>4 DEF popup_sel_cb
<1>7. CASE add_alarm_click_cb
  <2>1. /\ page = "list" /\ ~refresh /\ ~assertion /\ draw_modify_alarm_page
        /\ UNCHANGED <<alarms, rang, snapshot, drawn, selected, refresh, stale, astray>>
    BY <1>7 DEF add_alarm_click_cb, Ready, vars
  <2> QED BY <2>1, CreatorDrawn
<1>8. CASE CancelCreate
  BY <1>8 DEF CancelCreate, CreatorClosed, Ready, vars
<1>9. ASSUME NEW e \in Epoch, on_btn_clicked_cb(e) PROVE AppInv'
  BY <1>9 DEF on_btn_clicked_cb, CreatorClosed, Ready
<1>10. CASE AlarmScreen
  BY <1>10 DEF AlarmScreen, vars
<1>11. CASE FocusCreator
  BY <1>11 DEF FocusCreator, Ready, vars
<1>12. CASE OtherTask
  BY <1>12 DEF OtherTask
<1>13. CASE OtherApp
  BY <1>13 DEF OtherApp, appVars
<1>14. CASE Reboot \/ Panic
  <2>1. AppGone
    BY <1>14 DEF Reboot, Panic
  <2>2. snapshot' \in Seq(Epoch) /\ Len(snapshot') <= MaxAlarms /\ selected' \in 0..MaxAlarms
    BY <2>1, AlarmAssumption, EmptySeq DEF AppGone
  <2> QED BY <2>1, <2>2 DEF AppGone
<1>15. CASE UNCHANGED avars
  BY <1>15 DEF avars, vars, appVars
<1> QED BY <1>1, <1>2, <1>3, <1>4, <1>5, <1>6, <1>7, <1>8, <1>9, <1>10, <1>11, <1>12,
           <1>13, <1>14, <1>15 DEF AppNext, App

\* Screen, pointers and alarms stay in step, for every capacity of the list.
THEOREM AppInvCorrect == AppSpec => []AppInv
<1>1. AppInit => AlarmInv
  BY AlarmInvInit DEF AppInit
<1> QED BY <1>1, AppInvInit, AppAlarmInvStep, AppInvStep, PTL DEF AppSpec

-----------------------------------------------------------------------------
(* What a choice in the popup removes                                      *)

\* An element of a list is in its set.
LEMMA ElementInSet ==
  ASSUME NEW s \in Seq(Epoch), NEW i \in 1..Len(s)
  PROVE  s[i] \in ToSet(s)
<1>1. i \in DOMAIN s
  BY LenProperties
<1> QED BY <1>1, Zenon DEF ToSet

\* RemoveAt takes nothing from a list but the element at the position.
LEMMA RemovedElement ==
  ASSUME NEW s \in Seq(Epoch), NEW k \in 1..Len(s)
  PROVE  ToSet(s) \ ToSet(RemoveAt(s, k)) \subseteq {s[k]}
<1> DEFINE a == SubSeq(s, 1, k - 1)
           b == SubSeq(s, k + 1, Len(s))
<1>1. Len(s) \in Nat /\ k \in Nat /\ 1 <= k /\ k <= Len(s)
  BY LenProperties
<1>2. a \in Seq(Epoch) /\ Len(a) = k - 1 /\ \A i \in 1..(k - 1) : a[i] = s[i]
  <2>1. \A i \in 1..(k - 1) : s[i] \in Epoch
    BY <1>1, ElementOfSeq
  <2> QED BY <1>1, <2>1, SubSeqProperties
<1>3. b \in Seq(Epoch) /\ Len(b) = Len(s) - k /\ \A i \in 1..(Len(s) - k) : b[i] = s[k + i]
  <2>1. \A i \in (k + 1)..Len(s) : s[i] \in Epoch
    BY <1>1, ElementOfSeq
  <2> QED BY <1>1, <2>1, SubSeqProperties
<1>4. RemoveAt(s, k) = a \o b
  BY DEF RemoveAt
<1> HIDE DEF a, b
<1>5. /\ a \o b \in Seq(Epoch) /\ Len(a \o b) = Len(a) + Len(b)
      /\ \A i \in 1..(Len(a) + Len(b)) :
           (a \o b)[i] = IF i <= Len(a) THEN a[i] ELSE b[i - Len(a)]
  BY <1>2, <1>3, ConcatProperties
<1>6. ASSUME NEW j \in 1..Len(s), j # k PROVE s[j] \in ToSet(a \o b)
  <2>1. CASE j < k
    <3>1. j \in 1..Len(a \o b) /\ (a \o b)[j] = s[j]
      BY <1>1, <1>2, <1>5, <2>1
    <3>2. (a \o b)[j] \in ToSet(a \o b)
      BY <1>5, <3>1, ElementInSet
    <3> QED BY <3>1, <3>2
  <2>2. CASE j > k
    <3>1. j - 1 \in 1..(Len(a) + Len(b)) /\ ~(j - 1 <= Len(a)) /\ (j - 1) - Len(a) = j - k
      BY <1>1, <1>2, <1>3, <2>2
    <3>2. j - 1 \in 1..Len(a \o b) /\ (a \o b)[j - 1] = b[j - k]
      BY <1>5, <3>1
    <3>3. b[j - k] = s[j]
      BY <1>1, <1>3, <2>2
    <3>4. (a \o b)[j - 1] \in ToSet(a \o b)
      BY <1>5, <3>2, ElementInSet
    <3> QED BY <3>2, <3>3, <3>4
  <2> QED BY <1>1, <1>6, <2>1, <2>2
<1> QED BY <1>4, <1>6, SMTT(40) DEF ToSet

\* Of the steps that leave the popup only a choice in it touches the alarms.
LEMMA DeletesChosenStep ==
  ASSUME AlarmInv, AppInv, AppNext,
         page = "popup", page' \in {"list", "create"}, ~stale
  PROVE  ToSet(alarms) \ ToSet(alarms') \subseteq {snapshot[selected]}
<1>1. CASE \E option \in {"Edit", "Copy", "Delete"} : popup_sel_cb(option)
  <2>1. /\ snapshot = alarms /\ alarms \in Seq(Epoch)
    BY <1>1 DEF popup_sel_cb, Ready, AppInv, ShowsAlarms, AlarmInv, TypeOK
  <2>2. alarms' = alarms \/ (selected \in 1..Len(alarms) /\ alarms' = RemoveAt(alarms, selected))
    BY <1>1, DeleteSelectedStep DEF vars, alarm_manager_delete_alarm, DeleteAt
  <2> QED BY <2>1, <2>2, RemovedElement
<1>2. CASE dismiss_popup
  BY <1>2 DEF dismiss_popup, vars
<1>3. CASE AlarmScreen
  BY <1>3 DEF AlarmScreen
<1>4. CASE OtherTask \/ invalidate_and_repopulate_alarm_list
  BY <1>4 DEF OtherTask, invalidate_and_repopulate_alarm_list
<1>5. CASE Reboot \/ Panic
  BY <1>5 DEF Reboot, Panic, AppGone
<1>6. CASE OtherApp
  BY <1>6 DEF OtherApp
<1>7. CASE \/ draw_alarm_app_ui \/ delete_alarm_app_ui
           \/ \E i \in 1..MaxAlarms : open_alarm_change_popup(i)
           \/ add_alarm_click_cb \/ CancelCreate \/ FocusCreator
           \/ \E e \in Epoch : on_btn_clicked_cb(e)
  BY <1>7 DEF draw_alarm_app_ui, delete_alarm_app_ui, open_alarm_change_popup,
              add_alarm_click_cb, CancelCreate, FocusCreator, on_btn_clicked_cb, Ready
<1> QED BY <1>1, <1>2, <1>3, <1>4, <1>5, <1>6, <1>7 DEF AppNext, App

\* For every list: the alarm that goes is the one the user chose, as long as no other
\* task has changed the list since it was drawn (popup_sel_cb).
THEOREM DeletesChosenCorrect == AppSpec => DeletesChosen
<1> DEFINE Chosen == page = "popup" /\ page' \in {"list", "create"} /\ ~stale =>
                       ToSet(alarms) \ ToSet(alarms') \subseteq {snapshot[selected]}
<1>1. AlarmInv /\ AppInv /\ [AppNext]_avars => [Chosen]_avars
  BY DeletesChosenStep
<1>2. AppSpec => [][Chosen]_avars
  BY <1>1, AppAlarmInvCorrect, AppInvCorrect, PTL DEF AppSpec
<1> QED BY <1>2 DEF DeletesChosen

=============================================================================
