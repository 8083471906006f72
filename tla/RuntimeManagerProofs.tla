------------------------ MODULE RuntimeManagerProofs ------------------------
(***************************************************************************)
(* Proofs about RuntimeManager, for every pool, queue size and set of      *)
(* work items.                                                             *)
(***************************************************************************)
EXTENDS RuntimeManager, SequenceTheorems, FiniteSetTheorems, TLAPS

-----------------------------------------------------------------------------
(***************************************************************************)
(* Sequences.                                                              *)
(***************************************************************************)
\* Sending to a bounded queue yields a queue of the same items.
LEMMA FitType ==
  ASSUME NEW S, NEW s \in Seq(S), NEW cap \in Nat
  PROVE  Fit(s, cap) \in Seq(S)
<1>1. CASE Len(s) <= cap
  BY <1>1 DEF Fit
<1>2. CASE ~(Len(s) <= cap)
  <2>1. \A i \in 1..cap : s[i] \in S
    BY <1>2, LenProperties
  <2>2. SubSeq(s, 1, cap) \in Seq(S)
    BY <2>1, SubSeqProperties
  <2> QED BY <1>2, <2>2 DEF Fit
<1> QED BY <1>1, <1>2

\* Unregistering a hook leaves a list of hooks.
LEMMA RemoveAtType ==
  ASSUME NEW S, NEW s \in Seq(S), NEW k \in 1..Len(s)
  PROVE  RemoveAt(s, k) \in Seq(S)
<1>1. k \in Int /\ Len(s) \in Int
  BY LenProperties
<1>2. SubSeq(s, 1, k - 1) \in Seq(S)
  BY <1>1, LenProperties, SubSeqProperties
<1>3. SubSeq(s, k + 1, Len(s)) \in Seq(S)
  BY <1>1, LenProperties, SubSeqProperties
<1> QED BY <1>2, <1>3, ConcatProperties DEF RemoveAt

\* What an item's presence in a queue becomes when the queue's head is received, ...
LEMMA TailContains ==
  ASSUME NEW S, NEW s \in Seq(S), s # <<>>, NEW x
  PROVE  /\ Contains(s, x) <=> Head(s) = x \/ Contains(Tail(s), x)
         /\ AtMostOnce(s, x) => /\ AtMostOnce(Tail(s), x)
                                /\ ~(Head(s) = x /\ Contains(Tail(s), x))
<1> DEFINE n == Len(s)
<1>1. /\ n \in Nat /\ n > 0 /\ Head(s) = s[1]
      /\ Len(Tail(s)) = n - 1 /\ \A k \in 1..(n - 1) : Tail(s)[k] = s[k + 1]
  BY HeadTailProperties, LenProperties, EmptySeq
<1>2. ASSUME NEW j \in 1..n, s[j] = x PROVE Head(s) = x \/ Contains(Tail(s), x)
  <2>1. CASE j = 1
    BY <1>1, <1>2, <2>1
  <2>2. CASE j # 1
    <3>1. j - 1 \in 1..(n - 1) /\ Tail(s)[j - 1] = x
      BY <1>1, <1>2, <2>2
    <3> QED BY <1>1, <3>1 DEF Contains
  <2> QED BY <2>1, <2>2
<1>3. ASSUME Head(s) = x \/ Contains(Tail(s), x) PROVE Contains(s, x)
  <2>1. CASE Head(s) = x
    <3>1. 1 \in 1..n /\ s[1] = x
      BY <1>1, <2>1
    <3> QED BY <3>1 DEF Contains
  <2>2. CASE Contains(Tail(s), x)
    <3>1. PICK k \in 1..(n - 1) : Tail(s)[k] = x
      BY <1>1, <2>2 DEF Contains
    <3>2. k + 1 \in 1..n /\ s[k + 1] = x
      BY <1>1, <3>1
    <3> QED BY <3>2 DEF Contains
  <2> QED BY <1>3, <2>1, <2>2
<1>4. ASSUME AtMostOnce(s, x) PROVE AtMostOnce(Tail(s), x)
  <2>1. ASSUME NEW j \in 1..(n - 1), NEW k \in 1..(n - 1), Tail(s)[j] = x, Tail(s)[k] = x
        PROVE  j = k
    <3>1. j + 1 \in 1..n /\ k + 1 \in 1..n /\ s[j + 1] = x /\ s[k + 1] = x
      BY <1>1, <2>1
    <3>2. j + 1 = k + 1
      BY <1>4, <3>1 DEF AtMostOnce
    <3> QED BY <3>2
  <2> QED BY <1>1, <2>1 DEF AtMostOnce
<1>5. ASSUME AtMostOnce(s, x), Head(s) = x, Contains(Tail(s), x) PROVE FALSE
  <2>1. PICK k \in 1..(n - 1) : Tail(s)[k] = x
    BY <1>1, <1>5 DEF Contains
  <2>2. 1 \in 1..n /\ k + 1 \in 1..n /\ s[1] = x /\ s[k + 1] = x /\ 1 # k + 1
    BY <1>1, <1>5, <2>1
  <2> QED BY <1>5, <2>2 DEF AtMostOnce
<1> QED BY <1>2, <1>3, <1>4, <1>5 DEF Contains

\* ... when another queue is drained into it, ...
LEMMA ConcatContains ==
  ASSUME NEW S, NEW s \in Seq(S), NEW r \in Seq(S), NEW x
  PROVE  /\ Contains(s \o r, x) <=> Contains(s, x) \/ Contains(r, x)
         /\ AtMostOnce(s, x) /\ AtMostOnce(r, x) /\ ~(Contains(s, x) /\ Contains(r, x))
              => AtMostOnce(s \o r, x)
<1> DEFINE m == Len(s)
           n == Len(r)
           c == s \o r
<1>1. /\ m \in Nat /\ n \in Nat /\ Len(c) = m + n
      /\ \A k \in 1..(m + n) : c[k] = IF k <= m THEN s[k] ELSE r[k - m]
  BY ConcatProperties, LenProperties
<1> HIDE DEF c, m, n
<1>2. ASSUME NEW k \in 1..(m + n), c[k] = x
      PROVE  \/ k \in 1..m /\ s[k] = x
             \/ k - m \in 1..n /\ r[k - m] = x
  BY <1>1, <1>2
<1>3. ASSUME NEW k \in 1..m, s[k] = x PROVE k \in 1..(m + n) /\ c[k] = x
  BY <1>1, <1>3
<1>4. ASSUME NEW k \in 1..n, r[k] = x PROVE k + m \in 1..(m + n) /\ c[k + m] = x
  BY <1>1, <1>4
<1>5. Contains(c, x) <=> Contains(s, x) \/ Contains(r, x)
  BY <1>1, <1>2, <1>3, <1>4 DEF Contains, m, n
<1>6. ASSUME AtMostOnce(s, x), AtMostOnce(r, x), ~(Contains(s, x) /\ Contains(r, x)),
             NEW j \in 1..(m + n), NEW k \in 1..(m + n), c[j] = x, c[k] = x
      PROVE  j = k
  <2>1. \A a \in 1..m, b \in 1..m : s[a] = x /\ s[b] = x => a = b
    BY <1>6 DEF AtMostOnce, m
  <2>2. \A a \in 1..n, b \in 1..n : r[a] = x /\ r[b] = x => a = b
    BY <1>6 DEF AtMostOnce, n
  <2>3. \A a \in 1..m, b \in 1..n : ~(s[a] = x /\ r[b] = x)
    BY <1>6 DEF Contains, m, n
  <2>4. /\ \/ j \in 1..m /\ s[j] = x
           \/ j - m \in 1..n /\ r[j - m] = x
        /\ \/ k \in 1..m /\ s[k] = x
           \/ k - m \in 1..n /\ r[k - m] = x
    BY <1>2, <1>6
  <2>5. j \in Int /\ k \in Int /\ m \in Int /\ (j - m = k - m => j = k)
    BY <1>1
  <2> QED BY <2>1, <2>2, <2>3, <2>4, <2>5
<1>7. AtMostOnce(s, x) /\ AtMostOnce(r, x) /\ ~(Contains(s, x) /\ Contains(r, x))
        => AtMostOnce(c, x)
  BY <1>1, <1>6 DEF AtMostOnce
<1> QED BY <1>5, <1>7 DEF c

\* ... when a caller appends to it, ...
LEMMA AppendContains ==
  ASSUME NEW S, NEW s \in Seq(S), NEW e \in S, NEW x
  PROVE  /\ Contains(Append(s, e), x) <=> Contains(s, x) \/ e = x
         /\ AtMostOnce(s, x) /\ ~(Contains(s, x) /\ e = x) => AtMostOnce(Append(s, e), x)
<1> DEFINE n == Len(s)
           c == Append(s, e)
<1>1. /\ n \in Nat /\ Len(c) = n + 1 /\ c[n + 1] = e
      /\ \A k \in 1..n : c[k] = s[k]
  BY AppendProperties, LenProperties
<1> HIDE DEF c, n
<1>2. ASSUME NEW k \in 1..(n + 1), c[k] = x
      PROVE  (k \in 1..n /\ s[k] = x) \/ (k = n + 1 /\ e = x)
  BY <1>1, <1>2
<1>3. ASSUME NEW k \in 1..n, s[k] = x PROVE k \in 1..(n + 1) /\ c[k] = x
  BY <1>1, <1>3
<1>4. n + 1 \in 1..(n + 1)
  BY <1>1
<1>5. Contains(c, x) <=> Contains(s, x) \/ e = x
  BY <1>1, <1>2, <1>3, <1>4 DEF Contains, n
<1>6. ASSUME AtMostOnce(s, x), ~(Contains(s, x) /\ e = x) PROVE AtMostOnce(c, x)
  <2>1. \A a \in 1..n, b \in 1..n : s[a] = x /\ s[b] = x => a = b
    BY <1>6 DEF AtMostOnce, n
  <2>2. \A a \in 1..n : ~(s[a] = x /\ e = x)
    BY <1>6 DEF Contains, n
  <2> QED BY <1>1, <1>2, <2>1, <2>2 DEF AtMostOnce
<1> QED BY <1>5, <1>6 DEF c

\* ... and when it is cut to the capacity of the queue it is sent to.
LEMMA FitContains ==
  ASSUME NEW S, NEW s \in Seq(S), NEW cap \in Nat, NEW x
  PROVE  /\ Contains(s, x) <=> Contains(Fit(s, cap), x) \/ x \in Spill(s, cap)
         /\ AtMostOnce(s, x) => /\ AtMostOnce(Fit(s, cap), x)
                                /\ ~(Contains(Fit(s, cap), x) /\ x \in Spill(s, cap))
         /\ Len(Fit(s, cap)) <= cap
<1> DEFINE n == Len(s)
           f == Fit(s, cap)
<1>1. n \in Nat
  BY LenProperties
<1>2. Len(f) \in Nat /\ Len(f) <= n /\ Len(f) <= cap /\ \A k \in 1..Len(f) : f[k] = s[k]
  <2>1. CASE n <= cap
    BY <1>1, <2>1 DEF Fit
  <2>2. CASE ~(n <= cap)
    <3>1. \A i \in 1..cap : s[i] \in S
      BY <1>1, <2>2, LenProperties
    <3>2. /\ Len(SubSeq(s, 1, cap)) = cap
          /\ \A k \in 1..cap : SubSeq(s, 1, cap)[k] = s[k]
      BY <3>1, SubSeqProperties
    <3> QED BY <1>1, <2>2, <3>2 DEF Fit
  <2> QED BY <2>1, <2>2
<1>3. n > cap => Len(f) = cap
  <2> SUFFICES ASSUME n > cap PROVE Len(f) = cap
    OBVIOUS
  <2>1. \A i \in 1..cap : s[i] \in S
    BY <1>1, LenProperties
  <2>2. Len(SubSeq(s, 1, cap)) = cap
    BY <2>1, SubSeqProperties
  <2> QED BY <1>1, <2>2 DEF Fit
<1>4. n <= cap => Len(f) = n
  BY DEF Fit
<1>5. x \in Spill(s, cap) <=> \E k \in (cap + 1)..n : s[k] = x
  BY DEF Spill
<1>6. Contains(s, x) <=> \E k \in 1..n : s[k] = x
  BY DEF Contains
<1>7. Contains(f, x) <=> \E k \in 1..Len(f) : f[k] = x
  BY DEF Contains
<1>8. AtMostOnce(s, x) <=> \A j, k \in 1..n : s[j] = x /\ s[k] = x => j = k
  BY DEF AtMostOnce
<1>9. AtMostOnce(f, x) <=> \A j, k \in 1..Len(f) : f[j] = x /\ f[k] = x => j = k
  BY DEF AtMostOnce
<1> HIDE DEF f, n
<1>10. Contains(s, x) <=> Contains(f, x) \/ x \in Spill(s, cap)
  <2>1. ASSUME NEW k \in 1..n, s[k] = x
        PROVE  (k \in 1..Len(f) /\ f[k] = x) \/ k \in (cap + 1)..n
    BY <1>1, <1>2, <1>3, <1>4, <2>1
  <2>2. ASSUME NEW k \in (cap + 1)..n PROVE k \in 1..n
    BY <1>1
  <2>3. ASSUME NEW k \in 1..Len(f), f[k] = x PROVE k \in 1..n /\ s[k] = x
    BY <1>1, <1>2, <2>3
  <2> QED BY <1>5, <1>6, <1>7, <2>1, <2>2, <2>3
<1>11. ASSUME AtMostOnce(s, x) PROVE AtMostOnce(f, x)
  BY <1>1, <1>2, <1>8, <1>9, <1>11
<1>12. ASSUME AtMostOnce(s, x), Contains(f, x), x \in Spill(s, cap) PROVE FALSE
  <2>1. PICK k \in (cap + 1)..n : s[k] = x
    BY <1>5, <1>12
  <2>2. PICK j \in 1..Len(f) : f[j] = x
    BY <1>7, <1>12
  <2>3. j \in 1..n /\ k \in 1..n /\ s[j] = x /\ j # k
    BY <1>1, <1>2, <2>1, <2>2
  <2> QED BY <1>8, <1>12, <2>1, <2>3
<1> QED BY <1>2, <1>10, <1>11, <1>12 DEF f

-----------------------------------------------------------------------------
(***************************************************************************)
(* Type correctness.                                                       *)
(***************************************************************************)
\* What set_runtime_state(SLEEP) does to the queues is well typed.
LEMMA EnterSleepType ==
  ASSUME TypeOK, NEW by \in Actor, NEW uq \in Seq(Item), NEW dropped,
         EnterSleep(by, uq, dropped)
  PROVE  /\ queue' \in [Type -> Seq(Item)]
         /\ fate' \in [Work -> {"new", "live", "done", "lost"}]
         /\ pending' \in [Type -> Seq(Work)]
         /\ runtime_state' \in RuntimeState
         /\ armed' \in SUBSET WindowTimer
         /\ sleepBy' \in Actor \cup {"none"}
         /\ sleepStep' \in {"check", "exchange", "delete", "suspend"}
<1> DEFINE u == uq \o pending["user"]
           s == queue["system"] \o pending["system"]
<1>1. u \in Seq(Item) /\ s \in Seq(Item)
  <2>1. \A t \in Type : pending[t] \in Seq(Item) /\ queue[t] \in Seq(Item)
    BY SeqMonotonic DEF TypeOK, PoolTypeOK, Item
  <2> QED BY <2>1, ConcatProperties DEF Type
<1>2. Fit(u, QueueCap) \in Seq(Item) /\ Fit(s, QueueCap) \in Seq(Item)
  BY <1>1, FitType, RuntimeAssumption
<1>3. queue' \in [Type -> Seq(Item)]
  BY <1>2 DEF EnterSleep
<1>4. fate' \in [Work -> {"new", "live", "done", "lost"}]
  BY DEF EnterSleep, LoseItems, TypeOK, PoolTypeOK
<1>5. pending' \in [Type -> Seq(Work)]
  BY DEF EnterSleep
<1> QED BY <1>3, <1>4, <1>5 DEF EnterSleep, RuntimeState, SLEEP

\* A worker's own steps.
LEMMA WorkerTypes ==
  ASSUME TypeOK, NEW w \in Workers, WorkerStep(w)
  PROVE  TypeOK'
<1> USE DEF TypeOK, PoolTypeOK, CountedPC, WorkerPC
<1>1. TypeOf(w) \in Type
  BY DEF TypeOf, Type
<1>2. CASE Receive(w) /\ UNCHANGED rtVars
  <2>1. /\ Head(queue[TypeOf(w)]) \in Item
        /\ Tail(queue[TypeOf(w)]) \in Seq(Item)
    BY <1>1, <1>2, HeadTailProperties DEF Receive
  <2> QED BY <1>1, <1>2, <2>1 DEF Receive, rtVars
<1>3. CASE Count(w) /\ UNCHANGED rtVars
  BY <1>3 DEF Count, rtVars
<1>4. CASE ArmWatchdog(w) /\ UNCHANGED rtVars
  BY <1>4 DEF ArmWatchdog, watchdog_start_user_work, rtVars
<1>5. CASE StartHandler(w) /\ UNCHANGED rtVars
  BY <1>5 DEF StartHandler, rtVars
<1>6. CASE FinishHandler(w) /\ UNCHANGED rtVars
  BY <1>6 DEF FinishHandler, rtVars
<1>7. CASE StopWatchdog(w) /\ UNCHANGED rtVars
  BY <1>7 DEF StopWatchdog, watchdog_stop_user_work, rtVars
<1>8. CASE Uncount(w) /\ UNCHANGED rtVars
  BY <1>8 DEF Uncount, rtVars
<1>9. CASE ResetSettlement(w)
  BY <1>9 DEF ResetSettlement, UnchangedByWorker
<1>10. CASE EvaluateLast(w)
  BY <1>10 DEF EvaluateLast, EvaluateEarlyCurfew, UnchangedByWorker, WindowTimer
<1> QED BY <1>2, <1>3, <1>4, <1>5, <1>6, <1>7, <1>8, <1>9, <1>10 DEF WorkerStep, PoolStep

\* The tasks an actor has marked are finitely many workers.
LEMMA FiniteWorkers ==
  /\ IsFiniteSet(Workers)
  /\ \A S \in SUBSET Workers : IsFiniteSet(S) /\ Cardinality(S) \in Nat
<1>1. IsFiniteSet(Workers)
  BY PoolAssumption, FS_Union DEF Workers
<1> QED BY <1>1, FS_Subset, FS_CardinalityType

\* The deletion and re-creation of the marked workers.
LEMMA RecoverTypes ==
  ASSUME PoolTypeOK, NEW a \in Actor, RecoverVictims(a)
  PROVE  /\ pc' \in [Workers -> WorkerPC]
         /\ item' \in [Workers -> Item \cup {NoItem}]
         /\ working' \in [Workers -> BOOLEAN]
         /\ abort_flag' \in [Workers -> BOOLEAN]
         /\ suspended' \in [Workers -> BOOLEAN]
         /\ active_workers' \in Int
         /\ overrun' \in Nat
         /\ victims' \in [Actor -> SUBSET Workers]
         /\ fate' \in [Work -> {"new", "live", "done", "lost"}]
<1> USE DEF PoolTypeOK, RecoverVictims
<1>1. Cardinality(victims[a]) \in Nat /\ Cardinality(victims[a] \ Counted) \in Nat
  BY FiniteWorkers
<1>2. active_workers' \in Int /\ overrun' \in Nat
  BY <1>1
<1>3. pc' \in [Workers -> WorkerPC]
  BY DEF WorkerPC
<1>4. fate' \in [Work -> {"new", "live", "done", "lost"}]
  BY DEF LoseItems
<1>5. victims' \in [Actor -> SUBSET Workers]
  OBVIOUS
<1>6. /\ item' \in [Workers -> Item \cup {NoItem}]
      /\ working' \in [Workers -> BOOLEAN]
      /\ abort_flag' \in [Workers -> BOOLEAN]
      /\ suspended' \in [Workers -> BOOLEAN]
  OBVIOUS
<1> QED BY <1>2, <1>3, <1>4, <1>5, <1>6

\* The transition to SLEEP.
LEMMA SleepTypes ==
  ASSUME TypeOK, SleepTransition
  PROVE  TypeOK'
<1> USE DEF TypeOK
<1>1. sleepBy \in Actor
  BY DEF SleepTransition, SleepCheck, SleepExchange, SleepRecover, SleepSuspend
<1>2. CASE SleepCheck
  BY <1>2 DEF SleepCheck, StopTimersOf, PoolTypeOK
<1>3. CASE SleepExchange
  BY <1>1, <1>3 DEF SleepExchange, MarkVictims, PoolTypeOK
<1>4. CASE SleepRecover
  <2>1. /\ pc' \in [Workers -> WorkerPC]
        /\ item' \in [Workers -> Item \cup {NoItem}]
        /\ working' \in [Workers -> BOOLEAN]
        /\ abort_flag' \in [Workers -> BOOLEAN]
        /\ suspended' \in [Workers -> BOOLEAN]
        /\ active_workers' \in Int
        /\ overrun' \in Nat
        /\ victims' \in [Actor -> SUBSET Workers]
        /\ fate' \in [Work -> {"new", "live", "done", "lost"}]
    BY <1>1, <1>4, RecoverTypes DEF SleepRecover
  <2> QED BY <1>4, <2>1 DEF SleepRecover, PoolTypeOK
<1>5. CASE SleepSuspend
  <2>1. suspended' \in [Workers -> BOOLEAN]
    BY <1>5 DEF SleepSuspend, worker_pool_suspend_all
  <2>2. shutdown_sem' \in BOOLEAN /\ cb' \in Callback /\ main' \in MainPC
    BY <1>5 DEF SleepSuspend, Callback, MainPC
  <2>3. cb' \in {"soft", "hard"} => cbWorker' \in UserWorkers
    BY <1>5 DEF SleepSuspend
  <2> QED BY <1>5, <2>1, <2>2, <2>3 DEF SleepSuspend, PoolTypeOK
<1> QED BY <1>2, <1>3, <1>4, <1>5 DEF SleepTransition

\* The beginning of the curfew.
LEMMA CurfewTypes ==
  ASSUME TypeOK, runtime_manager_begin_curfew_unsafe
  PROVE  /\ queue' \in [Type -> Seq(Item)]
         /\ fate' \in [Work -> {"new", "live", "done", "lost"}]
         /\ pending' \in [Type -> Seq(Work)]
         /\ runtime_state' \in RuntimeState
         /\ armed' \in SUBSET WindowTimer
         /\ sleepBy' \in Actor \cup {"none"}
         /\ sleepStep' \in {"check", "exchange", "delete", "suspend"}
         /\ cb' \in {"idle", "sleep"}
<1>1. CASE window_hooks = <<>> /\ ~worker_pool_has_work
  <2>1. EnterSleep("timer", queue["user"], {}) /\ cb' = "sleep"
    BY <1>1 DEF runtime_manager_begin_curfew_unsafe
  <2>2. "timer" \in Actor /\ queue["user"] \in Seq(Item)
    BY DEF Actor, Type, TypeOK, PoolTypeOK
  <2> QED BY <2>1, <2>2, EnterSleepType
<1>2. CASE ~(window_hooks = <<>> /\ ~worker_pool_has_work)
  <2>1. window_hooks \in Seq(Item)
    BY SeqMonotonic DEF TypeOK, Item
  <2>2. queue["system"] \o window_hooks \in Seq(Item)
    BY <2>1, ConcatProperties DEF TypeOK, PoolTypeOK, Type
  <2>3. Fit(queue["system"] \o window_hooks, QueueCap) \in Seq(Item)
    BY <2>2, FitType, RuntimeAssumption
  <2> QED BY <1>2, <2>3, ZenonT(60)
        DEF runtime_manager_begin_curfew_unsafe, TypeOK, PoolTypeOK, RuntimeState,
            GRACE, WindowTimer
<1> QED BY <1>1, <1>2

\* The callbacks of the window timers and of the work tick.
LEMMA WindowCallbackTypes ==
  ASSUME TypeOK,
         \/ work_window_expiry_cb \/ grace_period_expiry_cb
         \/ curfew_settlement_expiry_cb \/ start_work_cb
  PROVE  TypeOK'
<1> DEFINE Touched ==
      /\ queue' \in [Type -> Seq(Item)]
      /\ fate' \in [Work -> {"new", "live", "done", "lost"}]
      /\ pending' \in [Type -> Seq(Work)]
      /\ runtime_state' \in RuntimeState
      /\ armed' \in SUBSET WindowTimer
      /\ sleepBy' \in Actor \cup {"none"}
      /\ sleepStep' \in {"check", "exchange", "delete", "suspend"}
      /\ cb' \in {"idle", "sleep"}
<1>1. ASSUME Touched, UnchangedByWindow, fault' \in BOOLEAN,
             abort_flag' \in [Workers -> BOOLEAN], suspended' \in [Workers -> BOOLEAN]
      PROVE  TypeOK'
  BY <1>1 DEF UnchangedByWindow, TypeOK, PoolTypeOK, Callback
<1>2. ASSUME CallbackDone PROVE Touched
  BY <1>2 DEF CallbackDone, TypeOK, PoolTypeOK
<1>3. ASSUME NEW uq \in Seq(Item), NEW d, EnterSleep("timer", uq, d), cb' = "sleep"
      PROVE  Touched
  BY <1>3, EnterSleepType DEF Actor
<1>4. queue["user"] \in Seq(Item)
  BY DEF TypeOK, PoolTypeOK, Type
<1>5. CASE work_window_expiry_cb
  <2>1. Touched
    BY <1>2, <1>5, CurfewTypes DEF work_window_expiry_cb
  <2> QED BY <1>1, <1>5, <2>1 DEF work_window_expiry_cb, AssertPoolUp, TypeOK, PoolTypeOK
<1>6. CASE grace_period_expiry_cb
  <2>1. Touched
    <3>1. <<>> \in Seq(Item)
      OBVIOUS
    <3> QED BY <1>2, <1>3, <1>6, <3>1 DEF grace_period_expiry_cb
  <2> QED BY <1>1, <1>6, <2>1 DEF grace_period_expiry_cb, watchdog_force_all_cooperative_abort,
        AssertPoolUp, TypeOK, PoolTypeOK
<1>7. CASE curfew_settlement_expiry_cb
  <2>1. Touched
    BY <1>2, <1>3, <1>4, <1>7, CurfewTypes DEF curfew_settlement_expiry_cb
  <2> QED BY <1>1, <1>7, <2>1 DEF curfew_settlement_expiry_cb, TypeOK, PoolTypeOK
<1>8. CASE start_work_cb
  <2>1. Touched
    BY <1>8 DEF start_work_cb, TypeOK, PoolTypeOK, RuntimeState, WindowTimer
  <2> QED BY <1>1, <1>8, <2>1
        DEF start_work_cb, AssertPoolUp, worker_pool_resume_all, TypeOK, PoolTypeOK
<1> QED BY <1>5, <1>6, <1>7, <1>8

\* The esp_timer task dispatching a timer, and the watchdog callbacks.
LEMMA TimerTypes ==
  ASSUME TypeOK, Expire \/ SoftAbort \/ HardAbort \/ HardRecover
  PROVE  TypeOK'
<1> USE DEF TypeOK, Callback
<1>1. ASSUME NEW t \in WindowTimer, ExpireWindowTimer(t) PROVE TypeOK'
  BY <1>1 DEF ExpireWindowTimer, UnchangedByDispatch, PoolTypeOK, WindowTimer
<1>2. CASE ExpireTick
  BY <1>2 DEF ExpireTick, UnchangedByDispatch, PoolTypeOK
<1>3. ASSUME NEW w \in UserWorkers, ExpireSoft(w) \/ ExpireHard(w) PROVE TypeOK'
  BY <1>3 DEF ExpireSoft, ExpireHard, UnchangedByDispatch, PoolTypeOK
<1>4. CASE SoftAbort
  BY <1>4 DEF SoftAbort, worker_soft_abort_cb, FailAssertion, UnchangedByWatchdog, PoolTypeOK
<1>5. CASE HardAbort
  <2>1. PoolTypeOK'
    <3>1. CASE FailAssertion
      BY <3>1 DEF FailAssertion, PoolTypeOK
    <3>2. CASE worker_hard_abort_cb(cbWorker)
      <4>1. cbWorker \in Workers
        BY <1>5 DEF HardAbort, Workers
      <4>2. {w \in {cbWorker} : working[w]} \in SUBSET Workers
        BY <4>1
      <4>3. victims' \in [Actor -> SUBSET Workers]
        BY <3>2, <4>2 DEF worker_hard_abort_cb, MarkVictims, PoolTypeOK
      <4>4. working' \in [Workers -> BOOLEAN] /\ abort_flag' \in [Workers -> BOOLEAN]
        BY <3>2 DEF worker_hard_abort_cb, MarkVictims, PoolTypeOK
      <4> QED BY <3>2, <4>3, <4>4 DEF worker_hard_abort_cb, PoolTypeOK
    <3> QED BY <1>5, <3>1, <3>2 DEF HardAbort
  <2> QED BY <1>5, <2>1 DEF HardAbort, UnchangedByWatchdog
<1>6. CASE HardRecover
  <2>1. PoolTypeOK'
    <3>1. RecoverVictims("timer") /\ "timer" \in Actor
      BY <1>6 DEF HardRecover, RecoverStalledWorker, Actor
    <3> QED BY <1>6, <3>1, RecoverTypes DEF HardRecover, RecoverStalledWorker, PoolTypeOK
  <2> QED BY <1>6, <2>1 DEF HardRecover, UnchangedByWatchdog
<1> QED BY <1>1, <1>2, <1>3, <1>4, <1>5, <1>6 DEF Expire

\* The public interface.
LEMMA CallTypes ==
  ASSUME TypeOK, Call
  PROVE  TypeOK'
<1>1. ASSUME NEW i \in Work, Schedule(i) PROVE TypeOK'
  <2>1. ItemType(i) \in Type
    BY DEF ItemType, Type
  <2>2. i \in Item
    BY DEF Item
  <2>3. /\ queue' \in [Type -> Seq(Item)]
        /\ pending' \in [Type -> Seq(Work)]
        /\ fate' \in [Work -> {"new", "live", "done", "lost"}]
    <3>1. Append(queue[ItemType(i)], i) \in Seq(Item)
      BY <2>1, <2>2, AppendProperties DEF TypeOK, PoolTypeOK
    <3>2. Append(pending[ItemType(i)], i) \in Seq(Work)
      BY <2>1, AppendProperties DEF TypeOK
    <3> QED BY <1>1, <2>1, <3>1, <3>2, ZenonT(60) DEF Schedule, TypeOK, PoolTypeOK
  <2> QED BY <1>1, <2>3 DEF Schedule, UnchangedByCall, TypeOK, PoolTypeOK
<1>2. ASSUME NEW h \in Hooks, runtime_manager_register_hook(h) PROVE TypeOK'
  BY <1>2, AppendProperties DEF runtime_manager_register_hook, UnchangedByCall, TypeOK, PoolTypeOK
<1>3. ASSUME NEW h \in Hooks, runtime_manager_unregister_hook(h) PROVE TypeOK'
  BY <1>3, RemoveAtType DEF runtime_manager_unregister_hook, UnchangedByCall, TypeOK, PoolTypeOK
<1>4. ASSUME NEW s \in Active, SetActiveState(s) PROVE TypeOK'
  BY <1>4 DEF SetActiveState, UnchangedByCall, TypeOK, PoolTypeOK
<1> QED BY <1>1, <1>2, <1>3, <1>4 DEF Call

\* runtime_manager_deinit.
LEMMA ShutdownTypes ==
  ASSUME TypeOK, Shutdown
  PROVE  TypeOK'
<1> USE DEF MainPC, UnchangedByShutdown
<1>1. CASE BeginShutdown
  <2>1. PoolTypeOK'
    BY <1>1 DEF BeginShutdown, poolVars, TypeOK, PoolTypeOK
  <2>2. window_hooks' \in Seq(Hooks)
    BY <1>1, EmptySeq DEF BeginShutdown
  <2> QED BY <1>1, <2>1, <2>2 DEF BeginShutdown, TypeOK
<1>2. CASE AwaitShutdown
  BY <1>2 DEF AwaitShutdown, poolVars, TypeOK, PoolTypeOK
<1>3. CASE ForceSleep
  <2>1. queue["user"] \in Seq(Item) /\ "main" \in Actor
    BY DEF TypeOK, PoolTypeOK, Type, Actor
  <2>2. /\ queue' \in [Type -> Seq(Item)]
        /\ fate' \in [Work -> {"new", "live", "done", "lost"}]
        /\ pending' \in [Type -> Seq(Work)]
        /\ runtime_state' \in RuntimeState
        /\ armed' \in SUBSET WindowTimer
        /\ sleepBy' \in Actor \cup {"none"}
        /\ sleepStep' \in {"check", "exchange", "delete", "suspend"}
    <3>1. CASE EnterSleep("main", queue["user"], {})
      BY <2>1, <3>1, EnterSleepType
    <3>2. CASE UNCHANGED <<queue, fate, runtime_state, armed, pending, sleepBy, sleepStep>>
      BY <3>2 DEF TypeOK, PoolTypeOK
    <3> QED BY <1>3, <3>1, <3>2 DEF ForceSleep
  <2> QED BY <1>3, <2>2 DEF ForceSleep, TypeOK, PoolTypeOK
<1>4. CASE StopPool
  <2>1. fault' \in BOOLEAN
    BY <1>4 DEF StopPool
  <2>2. PoolTypeOK'
    BY <1>4, <2>1 DEF StopPool, PoolDeinit, LoseItems, TypeOK, PoolTypeOK, WorkerPC
  <2> QED BY <1>4, <2>2 DEF StopPool, TypeOK
<1>5. CASE ReleaseRuntime
  BY <1>5 DEF ReleaseRuntime, LoseItems, TypeOK, PoolTypeOK
<1> QED BY <1>1, <1>2, <1>3, <1>4, <1>5 DEF Shutdown

\* The runtime manager, its pool and its watchdog keep their state well typed; in
\* particular a watchdog callback always has a user worker to act on.
THEOREM TypeCorrect == Spec => []TypeOK
<1>1. Init => TypeOK
  <2> SUFFICES ASSUME Init PROVE TypeOK
    OBVIOUS
  <2>1. queue \in [Type -> Seq(Item)] /\ pending \in [Type -> Seq(Work)]
    BY EmptySeq DEF Init, PoolInit
  <2>2. PoolTypeOK
    <3>1. /\ pc \in [Workers -> WorkerPC] /\ item \in [Workers -> Item \cup {NoItem}]
          /\ fate \in [Work -> {"new", "live", "done", "lost"}]
      BY DEF Init, PoolInit, WorkerPC
    <3>2. /\ working \in [Workers -> BOOLEAN] /\ abort_flag \in [Workers -> BOOLEAN]
          /\ suspended \in [Workers -> BOOLEAN] /\ fault \in BOOLEAN
      BY DEF Init, PoolInit
    <3>3. victims \in [Actor -> SUBSET Workers]
      BY DEF Init, PoolInit
    <3> QED BY <2>1, <3>1, <3>2, <3>3 DEF Init, PoolInit, PoolTypeOK
  <2>3. window_hooks \in Seq(Hooks)
    BY EmptySeq DEF Init
  <2> QED BY <2>1, <2>2, <2>3
        DEF Init, TypeOK, Active, RuntimeState, SLEEP, Callback, MainPC
<1>2. TypeOK /\ [Next]_vars => TypeOK'
  <2> SUFFICES ASSUME TypeOK, [Next]_vars PROVE TypeOK'
    OBVIOUS
  <2>1. CASE UNCHANGED vars
    BY <2>1 DEF vars, poolVars, rtVars, TypeOK, PoolTypeOK
  <2> QED
    BY <2>1, WorkerTypes, SleepTypes, WindowCallbackTypes, TimerTypes, CallTypes,
       ShutdownTypes DEF Next, TimerCallback
<1> QED BY <1>1, <1>2, PTL DEF Spec

-----------------------------------------------------------------------------
(***************************************************************************)
(* The counter of active workers.                                          *)
(***************************************************************************)
\* A step that leaves the counter alone and moves no worker into or out of the
\* counted region keeps it exact.
LEMMA CountKept ==
  ASSUME ActiveWorkersExact, Counted' = Counted, UNCHANGED <<active_workers, overrun>>
  PROVE  ActiveWorkersExact'
BY DEF ActiveWorkersExact

\* Recovery decrements once per deleted task, and one time too often for each task
\* that had already left the counted region.
LEMMA RecoverCount ==
  ASSUME TypeOK, ActiveWorkersExact, NEW a \in Actor, RecoverVictims(a)
  PROVE  ActiveWorkersExact'
<1> DEFINE V == victims[a]
<1>1. V \in SUBSET Workers
  BY DEF TypeOK, PoolTypeOK
<1>2. Counted' = Counted \ V
  BY <1>1 DEF Counted, CountedPC, RecoverVictims, TypeOK, PoolTypeOK
<1>3. IsFiniteSet(Counted) /\ IsFiniteSet(V)
  BY <1>1, FiniteWorkers DEF Counted
<1>4. Cardinality(Counted \ V) = Cardinality(Counted) - Cardinality(Counted \cap V)
  BY <1>3, FS_Difference
<1>5. Cardinality(V \ Counted) = Cardinality(V) - Cardinality(V \cap Counted)
  BY <1>3, FS_Difference
<1>6. V \cap Counted = Counted \cap V
  OBVIOUS
<1>7. /\ Cardinality(Counted) \in Nat /\ Cardinality(V) \in Nat
      /\ Cardinality(Counted \cap V) \in Nat
  BY <1>3, FS_Intersection, FS_CardinalityType
<1>8. /\ active_workers' = active_workers - Cardinality(V)
      /\ overrun' = overrun + Cardinality(V \ Counted)
  BY DEF RecoverVictims
<1>9. active_workers \in Int /\ overrun \in Nat
  BY DEF TypeOK, PoolTypeOK
<1>10. Cardinality(Counted') = Cardinality(Counted) - Cardinality(Counted \cap V)
  BY <1>2, <1>4
<1>11. overrun' = overrun + (Cardinality(V) - Cardinality(Counted \cap V))
  BY <1>5, <1>6, <1>8
<1>12. active_workers = Cardinality(Counted) - overrun
  BY DEF ActiveWorkersExact
<1>13. active_workers' = Cardinality(Counted') - overrun'
  BY ONLY <1>7, <1>8, <1>9, <1>10, <1>11, <1>12
<1> QED BY <1>13 DEF ActiveWorkersExact

\* atomic_fetch_add and atomic_fetch_sub match the region they delimit.
LEMMA WorkerCount ==
  ASSUME TypeOK, ActiveWorkersExact, NEW w \in Workers, WorkerStep(w)
  PROVE  ActiveWorkersExact'
<1> USE DEF TypeOK, PoolTypeOK
<1>1. Counted \in SUBSET Workers /\ IsFiniteSet(Counted) /\ Cardinality(Counted) \in Nat
  BY FiniteWorkers DEF Counted
<1>2. active_workers \in Int /\ overrun \in Int
  OBVIOUS
<1>3. CASE Count(w)
  <2>1. w \notin Counted /\ Counted' = Counted \cup {w}
    BY <1>3 DEF Count, Counted, CountedPC
  <2>2. Cardinality(Counted \cup {w}) = Cardinality(Counted) + 1
    BY <1>1, <2>1, FS_AddElement
  <2>3. active_workers' = active_workers + 1 /\ overrun' = overrun
    BY <1>3 DEF Count
  <2> QED BY ONLY <1>1, <1>2, <2>1, <2>2, <2>3, ActiveWorkersExact DEF ActiveWorkersExact
<1>4. CASE Uncount(w)
  <2>1. w \in Counted /\ Counted' = Counted \ {w}
    BY <1>4 DEF Uncount, Counted, CountedPC
  <2>2. Cardinality(Counted \ {w}) = Cardinality(Counted) - 1
    BY <1>1, <2>1, FS_RemoveElement
  <2>3. active_workers' = active_workers - 1 /\ overrun' = overrun
    BY <1>4 DEF Uncount
  <2> QED BY ONLY <1>1, <1>2, <2>1, <2>2, <2>3, ActiveWorkersExact DEF ActiveWorkersExact
<1>5. ASSUME \/ Receive(w) \/ ArmWatchdog(w) \/ StartHandler(w) \/ FinishHandler(w)
             \/ StopWatchdog(w) \/ ResetSettlement(w) \/ EvaluateLast(w)
      PROVE  ActiveWorkersExact'
  <2>1. Counted' = Counted
    BY <1>5 DEF Receive, ArmWatchdog, StartHandler, FinishHandler, StopWatchdog,
                ResetSettlement, EvaluateLast, Counted, CountedPC
  <2>2. UNCHANGED <<active_workers, overrun>>
    BY <1>5 DEF Receive, ArmWatchdog, StartHandler, FinishHandler, StopWatchdog,
                ResetSettlement, EvaluateLast
  <2> QED BY <2>1, <2>2, CountKept
<1> QED BY <1>3, <1>4, <1>5 DEF WorkerStep, PoolStep

\* The counter that decides whether the system is idle is exact up to the tasks that
\* outran their deletion, for every pool and every interleaving of its workers with
\* the watchdog, the window timers and the shutdown.
THEOREM ActiveWorkersCorrect == Spec => []ActiveWorkersExact
<1>1. Init => ActiveWorkersExact
  <2> SUFFICES ASSUME Init PROVE ActiveWorkersExact
    OBVIOUS
  <2>1. Counted = {}
    BY DEF Init, PoolInit, Counted, CountedPC
  <2> QED BY <2>1, FS_EmptySet DEF Init, PoolInit, ActiveWorkersExact
<1>2. TypeOK /\ ActiveWorkersExact /\ [Next]_vars => ActiveWorkersExact'
  <2> SUFFICES ASSUME TypeOK, ActiveWorkersExact, [Next]_vars PROVE ActiveWorkersExact'
    OBVIOUS
  <2>1. ASSUME UNCHANGED <<pc, active_workers, overrun>> PROVE ActiveWorkersExact'
    BY <2>1, CountKept DEF Counted
  <2>2. CASE UNCHANGED vars
    BY <2>1, <2>2 DEF vars, poolVars
  <2>3. CASE SleepTransition
    <3>1. CASE SleepCheck \/ SleepExchange \/ SleepSuspend
      BY <2>1, <3>1 DEF SleepCheck, SleepExchange, SleepSuspend
    <3>2. CASE SleepRecover
      BY <3>2, RecoverCount DEF SleepRecover, TypeOK
    <3> QED BY <2>3, <3>1, <3>2 DEF SleepTransition
  <2>4. CASE TimerCallback
    <3>1. CASE \/ work_window_expiry_cb \/ grace_period_expiry_cb
               \/ curfew_settlement_expiry_cb \/ start_work_cb
      BY <2>1, <3>1 DEF work_window_expiry_cb, grace_period_expiry_cb,
         curfew_settlement_expiry_cb, start_work_cb, UnchangedByWindow
    <3>2. CASE SoftAbort \/ HardAbort
      BY <2>1, <3>2 DEF SoftAbort, HardAbort, worker_soft_abort_cb, worker_hard_abort_cb,
         FailAssertion
    <3>3. CASE HardRecover
      BY <3>3, RecoverCount DEF HardRecover, RecoverStalledWorker, Actor
    <3> QED BY <2>4, <3>1, <3>2, <3>3 DEF TimerCallback
  <2>5. CASE Expire
    BY <2>1, <2>5 DEF Expire, ExpireWindowTimer, ExpireTick, ExpireSoft, ExpireHard,
       UnchangedByDispatch
  <2>6. CASE Call
    BY <2>1, <2>6 DEF Call, Schedule, runtime_manager_register_hook,
       runtime_manager_unregister_hook, SetActiveState, UnchangedByCall
  <2>7. CASE Shutdown
    <3>1. CASE BeginShutdown \/ AwaitShutdown \/ ForceSleep \/ ReleaseRuntime
      BY <2>1, <3>1 DEF BeginShutdown, AwaitShutdown, ForceSleep, ReleaseRuntime, poolVars
    <3>2. CASE StopPool
      <4>1. Counted' = {} /\ active_workers' = 0 /\ overrun' = 0
        BY <3>2 DEF StopPool, PoolDeinit, Counted, CountedPC
      <4> QED BY <4>1, FS_EmptySet DEF ActiveWorkersExact
    <3> QED BY <2>7, <3>1, <3>2 DEF Shutdown
  <2> QED BY <2>2, <2>3, <2>4, <2>5, <2>6, <2>7, WorkerCount DEF Next
<1> QED BY <1>1, <1>2, TypeCorrect, PTL DEF Spec

-----------------------------------------------------------------------------
(***************************************************************************)
(* The lock and the window timers.                                         *)
(***************************************************************************)
\* Worker steps never touch the transition to SLEEP, and a pool without tasks
\* takes none.
LEMMA WorkerLock ==
  ASSUME TypeOK, LockInv, NEW w \in Workers, WorkerStep(w)
  PROVE  LockInv'
<1>1. UNCHANGED <<runtime_state, cb, sleepBy, main, fault>>
  BY DEF WorkerStep, PoolStep, rtVars, UnchangedByWorker, Receive, Count, ArmWatchdog,
     StartHandler, FinishHandler, StopWatchdog, Uncount, ResetSettlement, EvaluateLast
<1>2. pc[w] # "none" /\ ~fault
  BY DEF WorkerStep, PoolStep, CanRun, Receive, Count, ArmWatchdog,
     StartHandler, FinishHandler, StopWatchdog, Uncount, ResetSettlement, EvaluateLast
<1>3. PoolUp
  BY <1>2 DEF LockInv
<1> QED BY <1>1, <1>3 DEF LockInv, PoolUp

\* The lock is held exactly by the task that puts the runtime to sleep, and the pool
\* that worker_pool_deinit tore down stays empty.
THEOREM LockCorrect == Spec => []LockInv
<1>1. Init => LockInv
  BY DEF Init, LockInv, PoolUp, SLEEP
<1>2. TypeOK /\ LockInv /\ [Next]_vars => LockInv'
  <2> SUFFICES ASSUME TypeOK, LockInv, [Next]_vars PROVE LockInv'
    OBVIOUS
  <2> USE DEF LockInv, PoolUp
  <2>1. CASE UNCHANGED vars
    BY <2>1 DEF vars, poolVars, rtVars
  <2>2. CASE SleepTransition
    <3>1. CASE SleepCheck \/ SleepExchange
      BY <3>1 DEF SleepCheck, SleepExchange
    <3>2. CASE SleepRecover
      BY <3>2 DEF SleepRecover
    <3>3. CASE SleepSuspend
      BY <3>3 DEF SleepSuspend
    <3> QED BY <2>2, <3>1, <3>2, <3>3 DEF SleepTransition
  <2>3. CASE TimerCallback
    <3> USE DEF LockTaken, LockTimedOut, UnchangedByWindow, EnterSleep, AssertPoolUp,
            CallbackDone, SLEEP, GRACE, Active
    <3>1. CASE work_window_expiry_cb
      BY <3>1 DEF work_window_expiry_cb, runtime_manager_begin_curfew_unsafe
    <3>2. CASE grace_period_expiry_cb
      BY <3>2 DEF grace_period_expiry_cb
    <3>3. CASE curfew_settlement_expiry_cb
      BY <3>3 DEF curfew_settlement_expiry_cb, runtime_manager_begin_curfew_unsafe
    <3>4. CASE start_work_cb
      BY <3>4 DEF start_work_cb
    <3>5. CASE SoftAbort
      BY <3>5 DEF SoftAbort, worker_soft_abort_cb, FailAssertion, UnchangedByWatchdog
    <3>6. CASE HardAbort
      BY <3>6 DEF HardAbort, worker_hard_abort_cb, FailAssertion, UnchangedByWatchdog
    <3>7. CASE HardRecover
      BY <3>7 DEF HardRecover, RecoverStalledWorker, UnchangedByWatchdog
    <3> QED BY <2>3, <3>1, <3>2, <3>3, <3>4, <3>5, <3>6, <3>7 DEF TimerCallback
  <2>4. CASE Expire
    BY <2>4 DEF Expire, ExpireWindowTimer, ExpireTick, ExpireSoft, ExpireHard,
       UnchangedByDispatch, WindowTimer
  <2>5. CASE Call
    BY <2>5 DEF Call, Schedule, runtime_manager_register_hook,
       runtime_manager_unregister_hook, SetActiveState, UnchangedByCall
  <2>6. CASE Shutdown
    <3>1. CASE BeginShutdown \/ AwaitShutdown
      BY <3>1 DEF BeginShutdown, AwaitShutdown, poolVars, UnchangedByShutdown
    <3>2. CASE ForceSleep
      BY <3>2 DEF ForceSleep, EnterSleep, LockTaken, LockTimedOut, UnchangedByShutdown
    <3>3. CASE StopPool
      BY <3>3 DEF StopPool, PoolDeinit, UnchangedByShutdown, TypeOK, Actor
    <3>4. CASE ReleaseRuntime
      BY <3>4 DEF ReleaseRuntime, UnchangedByShutdown
    <3> QED BY <2>6, <3>1, <3>2, <3>3, <3>4 DEF Shutdown
  <2> HIDE DEF LockInv
  <2> QED BY <2>1, <2>2, <2>3, <2>4, <2>5, <2>6, WorkerLock DEF Next
<1> QED BY <1>1, <1>2, TypeCorrect, PTL DEF Spec

\* No window is left without the timer that ends it, and no window timer outlives its
\* window, although stopping a timer does not recall a callback that is under way and
\* any locked section may be skipped because the lock timed out.
THEOREM WindowTimersCorrect == Spec => []WindowTimersMatchState
<1>1. Init => WindowTimersMatchState
  BY DEF Init, WindowTimersMatchState, SLEEP, GRACE, Active
<1>2. TypeOK /\ LockInv /\ WindowTimersMatchState /\ [Next]_vars => WindowTimersMatchState'
  <2> SUFFICES ASSUME TypeOK, LockInv, WindowTimersMatchState, [Next]_vars
               PROVE  WindowTimersMatchState'
    OBVIOUS
  <2> USE DEF WindowTimersMatchState, SLEEP, GRACE, Active
  <2>1. CASE UNCHANGED vars
    BY <2>1 DEF vars, rtVars
  <2>2. ASSUME NEW w \in Workers, WorkerStep(w) PROVE WindowTimersMatchState'
    <3>1. CASE PoolStep(w) /\ UNCHANGED rtVars
      BY <3>1 DEF rtVars
    <3>2. CASE ResetSettlement(w)
      BY <3>2 DEF ResetSettlement, UnchangedByWorker
    <3>3. CASE EvaluateLast(w)
      BY <3>3 DEF EvaluateLast, EvaluateEarlyCurfew, UnchangedByWorker
    <3> QED BY <2>2, <3>1, <3>2, <3>3 DEF WorkerStep
  <2>3. CASE SleepTransition
    <3>1. CASE SleepCheck \/ SleepExchange \/ SleepRecover
      BY <3>1 DEF SleepCheck, SleepExchange, SleepRecover
    <3>2. CASE SleepSuspend
      BY <3>2 DEF SleepSuspend, LockInv
    <3> QED BY <2>3, <3>1, <3>2 DEF SleepTransition
  <2>4. CASE TimerCallback
    <3> USE DEF LockTaken, LockTimedOut, UnchangedByWindow, EnterSleep, CallbackDone, LockInv
    <3>1. CASE work_window_expiry_cb
      BY <3>1 DEF work_window_expiry_cb, runtime_manager_begin_curfew_unsafe
    <3>2. CASE grace_period_expiry_cb
      BY <3>2 DEF grace_period_expiry_cb
    <3>3. CASE curfew_settlement_expiry_cb
      BY <3>3 DEF curfew_settlement_expiry_cb, runtime_manager_begin_curfew_unsafe
    <3>4. CASE start_work_cb
      BY <3>4 DEF start_work_cb, TypeOK
    <3>5. CASE SoftAbort \/ HardAbort \/ HardRecover
      BY <3>5 DEF SoftAbort, HardAbort, HardRecover, UnchangedByWatchdog
    <3> QED BY <2>4, <3>1, <3>2, <3>3, <3>4, <3>5 DEF TimerCallback
  <2>5. CASE Expire
    BY <2>5 DEF Expire, ExpireWindowTimer, ExpireTick, ExpireSoft, ExpireHard,
       UnchangedByDispatch
  <2>6. CASE Call
    BY <2>6 DEF Call, Schedule, runtime_manager_register_hook,
       runtime_manager_unregister_hook, SetActiveState, UnchangedByCall
  <2>7. CASE Shutdown
    <3>1. CASE BeginShutdown \/ AwaitShutdown \/ StopPool \/ ReleaseRuntime
      BY <3>1 DEF BeginShutdown, AwaitShutdown, StopPool, ReleaseRuntime, UnchangedByShutdown
    <3>2. CASE ForceSleep
      BY <3>2 DEF ForceSleep, EnterSleep, UnchangedByShutdown
    <3> QED BY <2>7, <3>1, <3>2 DEF Shutdown
  <2> QED BY <2>1, <2>2, <2>3, <2>4, <2>5, <2>6, <2>7 DEF Next
<1> QED BY <1>1, <1>2, TypeCorrect, LockCorrect, PTL DEF Spec

-----------------------------------------------------------------------------
(***************************************************************************)
(* The watchdog.                                                           *)
(***************************************************************************)
\* A step keeps WatchInv when it takes no worker into its handler, stops no timer,
\* lowers no flag and leaves the transition to SLEEP alone.
LEMMA WatchKept ==
  ASSUME WatchInv, UNCHANGED <<pc, working, targets, sleepBy, sleepStep, victims>>,
         \A w \in UserWorkers : pc[w] # "none" => (Watched(w) => Watched(w)')
  PROVE  WatchInv'
BY DEF WatchInv, Doomed

\* A worker arms its timer before it enters its handler.
LEMMA WorkerWatch ==
  ASSUME TypeOK, WatchInv, NEW v \in Workers, WorkerStep(v)
  PROVE  WatchInv'
<1> USE DEF TypeOK, PoolTypeOK, WatchInv, Watched, Doomed
<1>1. UNCHANGED <<cb, cbWorker, targets, sleepBy, sleepStep, victims>>
  BY DEF WorkerStep, PoolStep, rtVars, UnchangedByWorker, Receive, Count, ArmWatchdog,
     StartHandler, FinishHandler, StopWatchdog, Uncount, ResetSettlement, EvaluateLast
<1>2. CASE Receive(v) \/ Count(v) \/ ResetSettlement(v) \/ EvaluateLast(v)
  <2>1. UNCHANGED <<soft, abort_flag, working>>
    BY <1>2 DEF Receive, Count, ResetSettlement, EvaluateLast
  <2>2. \A w \in Workers : w # v => pc'[w] = pc[w]
    BY <1>2 DEF Receive, Count, ResetSettlement, EvaluateLast
  <2>3. pc[v] # "running" /\ pc'[v] \notin {"ready", "running"}
    BY <1>2 DEF Receive, Count, ResetSettlement, EvaluateLast
  <2> QED BY <1>1, <2>1, <2>2, <2>3 DEF Workers
<1>3. CASE ArmWatchdog(v)
  BY <1>1, <1>3 DEF ArmWatchdog, watchdog_start_user_work
<1>4. CASE StartHandler(v)
  BY <1>1, <1>4 DEF StartHandler
<1>5. CASE FinishHandler(v)
  BY <1>1, <1>5 DEF FinishHandler
<1>6. CASE StopWatchdog(v)
  BY <1>1, <1>6 DEF StopWatchdog, watchdog_stop_user_work
<1>7. CASE Uncount(v)
  BY <1>1, <1>7 DEF Uncount
<1> QED BY <1>2, <1>3, <1>4, <1>5, <1>6, <1>7 DEF WorkerStep, PoolStep

\* Deleted workers are no longer in their handler; the others keep their flag.
LEMMA RecoverWatch ==
  ASSUME TypeOK, NEW a \in Actor, RecoverVictims(a)
  PROVE  \A w \in Workers :
           /\ w \in victims[a] => pc'[w] \in {"recv", "none"} /\ ~working'[w]
           /\ w \notin victims[a] => UNCHANGED <<pc[w], working[w], abort_flag[w]>>
BY DEF RecoverVictims, TypeOK, PoolTypeOK

\* The transition to SLEEP stops the timers only of workers it is going to delete.
LEMMA SleepWatch ==
  ASSUME TypeOK, LockInv, WatchInv, SleepTransition
  PROVE  WatchInv'
<1> USE DEF WatchInv, Watched, Doomed
<1>1. sleepBy \in Actor
  BY DEF TypeOK, SleepTransition, SleepCheck, SleepExchange, SleepRecover, SleepSuspend
<1>2. CASE SleepCheck
  BY <1>2 DEF SleepCheck, StopTimersOf, Workers, TypeOK, PoolTypeOK
<1>3. CASE SleepExchange
  <2>1. /\ \A w \in Workers : working'[w] => working[w]
        /\ \A w \in targets : working[w] => w \in victims'[sleepBy]
    BY <1>1, <1>3 DEF SleepExchange, MarkVictims, TypeOK, PoolTypeOK
  <2>2. UNCHANGED <<pc, soft, abort_flag, cb, cbWorker, targets, sleepBy>> /\ sleepStep' = "delete"
    BY <1>3 DEF SleepExchange
  <2> QED BY <1>3, <2>1, <2>2 DEF SleepExchange
<1>4. CASE SleepRecover
  <2>1. UNCHANGED <<soft, cb, cbWorker>> /\ sleepStep = "delete" /\ RecoverVictims(sleepBy)
    BY <1>4 DEF SleepRecover
  <2>2. \A w \in Workers :
           /\ w \in victims[sleepBy] => pc'[w] \in {"recv", "none"} /\ ~working'[w]
           /\ w \notin victims[sleepBy] => UNCHANGED <<pc[w], working[w], abort_flag[w]>>
    BY <1>1, <2>1, RecoverWatch
  <2> QED BY <2>1, <2>2 DEF Workers
<1>5. CASE SleepSuspend
  BY <1>5 DEF SleepSuspend, LockInv
<1> QED BY <1>2, <1>3, <1>4, <1>5 DEF SleepTransition

\* The callbacks of the esp_timer task.
LEMMA CallbackWatch ==
  ASSUME TypeOK, LockInv, WatchInv, TimerCallback
  PROVE  WatchInv'
<1>1. CASE work_window_expiry_cb \/ curfew_settlement_expiry_cb \/ start_work_cb
  <2>1. UNCHANGED <<pc, working, targets, victims, soft, abort_flag>> /\ cb # "soft"
    BY <1>1 DEF work_window_expiry_cb, curfew_settlement_expiry_cb, start_work_cb,
       UnchangedByWindow
  <2>2. sleepBy = "none" \/ UNCHANGED <<sleepBy, sleepStep>>
    BY <1>1 DEF work_window_expiry_cb, curfew_settlement_expiry_cb, start_work_cb,
       CallbackDone, LockTaken
  <2> QED BY <2>1, <2>2 DEF WatchInv, Watched, Doomed
<1>2. CASE grace_period_expiry_cb
  <2>1. UNCHANGED <<pc, working, targets, victims, soft>> /\ cb # "soft"
    BY <1>2 DEF grace_period_expiry_cb, UnchangedByWindow
  <2>2. \A w \in Workers : abort_flag[w] => abort_flag'[w]
    BY <1>2 DEF grace_period_expiry_cb, watchdog_force_all_cooperative_abort,
       TypeOK, PoolTypeOK
  <2>3. sleepBy = "none" \/ UNCHANGED <<sleepBy, sleepStep>>
    BY <1>2 DEF grace_period_expiry_cb, CallbackDone, LockTaken
  <2> QED BY <2>1, <2>2, <2>3 DEF WatchInv, Watched, Doomed, Workers
<1>3. CASE SoftAbort
  <2>1. CASE PoolUp
    BY <1>3, <2>1, WatchKept DEF SoftAbort, worker_soft_abort_cb, UnchangedByWatchdog,
       Watched, Workers, TypeOK, PoolTypeOK
  <2>2. CASE ~PoolUp
    <3>1. \A w \in UserWorkers : pc[w] = "none"
      BY <1>3, <2>2 DEF SoftAbort, LockInv, Workers
    <3> QED BY <1>3, <2>2, <3>1, WatchKept DEF SoftAbort, FailAssertion, UnchangedByWatchdog
  <2> QED BY <2>1, <2>2
<1>4. CASE HardAbort
  <2>1. CASE PoolUp
    <3>1. /\ cbWorker \in UserWorkers
          /\ UNCHANGED <<pc, soft, targets, sleepBy, sleepStep>> /\ cb = "hard"
          /\ abort_flag' = [abort_flag EXCEPT ![cbWorker] = TRUE]
          /\ MarkVictims("timer", {cbWorker})
      BY <1>4, <2>1 DEF HardAbort, worker_hard_abort_cb, UnchangedByWatchdog, TypeOK
    <3>2. /\ \A w \in Workers : w # cbWorker => UNCHANGED <<working[w], abort_flag[w]>>
          /\ abort_flag'[cbWorker] /\ ~working'[cbWorker]
      BY <3>1 DEF MarkVictims, TypeOK, PoolTypeOK, Workers
    <3>3. UNCHANGED victims["main"]
      BY <3>1 DEF MarkVictims, TypeOK, PoolTypeOK, Actor
    <3>4. sleepBy # "none" => sleepBy = "main"
      BY <3>1 DEF LockInv, TypeOK, Actor
    <3> QED BY <3>1, <3>2, <3>3, <3>4 DEF WatchInv, Watched, Doomed, Workers
  <2>2. CASE ~PoolUp
    <3>1. \A w \in UserWorkers : pc[w] = "none"
      BY <1>4, <2>2 DEF HardAbort, LockInv, Workers
    <3> QED BY <1>4, <2>2, <3>1, WatchKept DEF HardAbort, FailAssertion, UnchangedByWatchdog
  <2> QED BY <2>1, <2>2
<1>5. CASE HardRecover
  <2>1. /\ UNCHANGED <<soft, cbWorker, targets, sleepBy, sleepStep>> /\ cb = "recover"
        /\ RecoverVictims("timer")
    BY <1>5 DEF HardRecover, RecoverStalledWorker, UnchangedByWatchdog
  <2>2. \A w \in Workers :
           /\ w \in victims["timer"] => pc'[w] \in {"recv", "none"} /\ ~working'[w]
           /\ w \notin victims["timer"] => UNCHANGED <<pc[w], working[w], abort_flag[w]>>
    BY <2>1, RecoverWatch DEF Actor
  <2>3. UNCHANGED victims["main"]
    BY <2>1 DEF RecoverVictims, TypeOK, PoolTypeOK, Actor
  <2>4. sleepBy # "none" => sleepBy = "main"
    BY <2>1 DEF LockInv, TypeOK, Actor
  <2> QED BY <2>1, <2>2, <2>3, <2>4 DEF WatchInv, Watched, Doomed, Workers
<1> QED BY <1>1, <1>2, <1>3, <1>4, <1>5 DEF TimerCallback

\* The strengthened invariant of the watchdog holds throughout, next to those of the
\* types and the lock, which its steps use.
LEMMA WatchCorrect == Spec => []WatchInv
<1>1. Init => WatchInv
  BY DEF Init, PoolInit, WatchInv, Workers
<1>2. TypeOK /\ LockInv /\ WatchInv /\ [Next]_vars => WatchInv'
  <2> SUFFICES ASSUME TypeOK, LockInv, WatchInv, [Next]_vars PROVE WatchInv'
    OBVIOUS
  <2>1. CASE UNCHANGED vars
    BY <2>1, WatchKept DEF vars, poolVars, rtVars, Watched
  <2>2. CASE Expire
    BY <2>2, WatchKept DEF Expire, ExpireWindowTimer, ExpireTick, ExpireSoft, ExpireHard,
       UnchangedByDispatch, Watched
  <2>3. CASE Call
    BY <2>3, WatchKept DEF Call, Schedule, runtime_manager_register_hook,
       runtime_manager_unregister_hook, SetActiveState, UnchangedByCall, Watched
  <2>4. CASE Shutdown
    <3>1. CASE BeginShutdown \/ AwaitShutdown \/ ReleaseRuntime
      BY <3>1, WatchKept DEF BeginShutdown, AwaitShutdown, ReleaseRuntime, poolVars,
         UnchangedByShutdown, Watched
    <3>2. CASE ForceSleep
      BY <3>2 DEF ForceSleep, EnterSleep, LockTaken, UnchangedByShutdown, WatchInv, Watched,
         Doomed
    <3>3. CASE StopPool
      BY <3>3 DEF StopPool, PoolDeinit, WatchInv, Workers
    <3> QED BY <2>4, <3>1, <3>2, <3>3 DEF Shutdown
  <2> QED BY <2>1, <2>2, <2>3, <2>4, WorkerWatch, SleepWatch, CallbackWatch DEF Next
<1> QED BY <1>1, <1>2, TypeCorrect, LockCorrect, PTL DEF Spec

\* No user handler ever runs both without an armed timer and without its abort flag,
\* unless the transition to SLEEP is about to delete its task: the watchdog keeps up
\* with every interleaving of suspension, stale callbacks, recovery and shutdown.
THEOREM UserWorkWatchedCorrect == Spec => []UserWorkWatched
<1>1. WatchInv => UserWorkWatched
  BY DEF WatchInv, Watched, Doomed, UserWorkWatched
<1> QED BY <1>1, WatchCorrect, PTL

-----------------------------------------------------------------------------
(***************************************************************************)
(* The sleep of the pool.                                                  *)
(***************************************************************************)
\* Outside a window no system worker runs: recovery resumes the task it creates
\* (resume = true), but only user workers are recovered there.
LEMMA SleepCorrect == Spec => []SleepInv
<1>1. Init => SleepInv
  BY DEF Init, PoolInit, SleepInv, SystemPoolSleeps, Workers
<1>2. TypeOK /\ LockInv /\ SleepInv /\ [Next]_vars => SleepInv'
  <2> SUFFICES ASSUME TypeOK, LockInv, SleepInv, [Next]_vars PROVE SleepInv'
    OBVIOUS
  <2> USE DEF SleepInv, SystemPoolSleeps
  <2>1. CASE UNCHANGED vars
    BY <2>1 DEF vars, poolVars, rtVars
  <2>2. ASSUME NEW w \in Workers, WorkerStep(w) PROVE SleepInv'
    <3>1. UNCHANGED <<runtime_state, cb, sleepBy, main, fault, victims, suspended>>
      BY <2>2 DEF WorkerStep, PoolStep, rtVars, UnchangedByWorker, Receive, Count, ArmWatchdog,
         StartHandler, FinishHandler, StopWatchdog, Uncount, ResetSettlement, EvaluateLast
    <3>2. pc[w] # "none" /\ \A v \in Workers : v # w => pc'[v] = pc[v]
      BY <2>2 DEF WorkerStep, PoolStep, Receive, Count, ArmWatchdog, TypeOK, PoolTypeOK,
         StartHandler, FinishHandler, StopWatchdog, Uncount, ResetSettlement, EvaluateLast
    <3> QED BY <3>1, <3>2 DEF Workers
  <2>3. CASE SleepTransition
    <3>1. CASE SleepCheck
      BY <3>1 DEF SleepCheck
    <3>2. CASE SleepExchange
      BY <3>2 DEF SleepExchange, MarkVictims, LockInv, TypeOK, PoolTypeOK, Actor
    <3>3. CASE SleepRecover
      BY <3>3 DEF SleepRecover, RecoverVictims, LockInv, TypeOK, PoolTypeOK, Actor
    <3>4. CASE SleepSuspend
      BY <3>4 DEF SleepSuspend, worker_pool_suspend_all, Workers
    <3> QED BY <2>3, <3>1, <3>2, <3>3, <3>4 DEF SleepTransition
  <2>4. CASE TimerCallback
    <3>1. CASE work_window_expiry_cb
      BY <3>1 DEF work_window_expiry_cb, runtime_manager_begin_curfew_unsafe, EnterSleep,
         UnchangedByWindow, CallbackDone, GRACE, SLEEP
    <3>2. CASE grace_period_expiry_cb
      BY <3>2 DEF grace_period_expiry_cb, EnterSleep, UnchangedByWindow, CallbackDone
    <3>3. CASE curfew_settlement_expiry_cb
      BY <3>3 DEF curfew_settlement_expiry_cb, runtime_manager_begin_curfew_unsafe, EnterSleep,
         UnchangedByWindow, CallbackDone, GRACE, SLEEP
    <3>4. CASE start_work_cb
      BY <3>4 DEF start_work_cb, UnchangedByWindow, TypeOK, Active, SLEEP
    <3>5. CASE SoftAbort
      BY <3>5 DEF SoftAbort, worker_soft_abort_cb, FailAssertion, UnchangedByWatchdog
    <3>6. CASE HardAbort
      <4>1. CASE PoolUp
        <5>1. cbWorker \in UserWorkers /\ MarkVictims("timer", {cbWorker})
          BY <3>6, <4>1 DEF HardAbort, worker_hard_abort_cb, TypeOK
        <5>2. victims'["timer"] \subseteq UserWorkers
          BY <5>1 DEF MarkVictims, TypeOK, PoolTypeOK, Actor
        <5> QED BY <3>6, <4>1, <5>2 DEF HardAbort, worker_hard_abort_cb, UnchangedByWatchdog
      <4>2. CASE ~PoolUp
        BY <3>6, <4>2 DEF HardAbort, FailAssertion, UnchangedByWatchdog
      <4> QED BY <4>1, <4>2
    <3>7. CASE HardRecover
      <4>1. victims["timer"] \subseteq UserWorkers /\ RecoverVictims("timer")
        BY <3>7 DEF HardRecover, RecoverStalledWorker
      <4>2. \A w \in SystemWorkers : w \in Workers /\ w \notin victims["timer"]
        BY <4>1, PoolAssumption DEF Workers
      <4>3. \A w \in SystemWorkers : pc'[w] = pc[w] /\ suspended'[w] = suspended[w]
        BY <4>1, <4>2 DEF RecoverVictims, TypeOK, PoolTypeOK
      <4> QED BY <3>7, <4>3 DEF HardRecover, UnchangedByWatchdog
    <3> QED BY <2>4, <3>1, <3>2, <3>3, <3>4, <3>5, <3>6, <3>7 DEF TimerCallback
  <2>5. CASE Expire
    BY <2>5 DEF Expire, ExpireWindowTimer, ExpireTick, ExpireSoft, ExpireHard,
       UnchangedByDispatch, WindowTimer
  <2>6. CASE Call
    BY <2>6 DEF Call, Schedule, runtime_manager_register_hook,
       runtime_manager_unregister_hook, SetActiveState, UnchangedByCall
  <2>7. CASE Shutdown
    <3>1. CASE BeginShutdown \/ AwaitShutdown
      BY <3>1 DEF BeginShutdown, AwaitShutdown, poolVars, UnchangedByShutdown
    <3>2. CASE ForceSleep
      BY <3>2 DEF ForceSleep, EnterSleep, UnchangedByShutdown
    <3>3. CASE StopPool \/ ReleaseRuntime
      BY <3>3 DEF StopPool, PoolDeinit, ReleaseRuntime, UnchangedByShutdown, Actor
    <3> QED BY <2>7, <3>1, <3>2, <3>3 DEF Shutdown
  <2> QED BY <2>1, <2>2, <2>3, <2>4, <2>5, <2>6, <2>7 DEF Next
<1> QED BY <1>1, <1>2, TypeCorrect, LockCorrect, PTL DEF Spec

-----------------------------------------------------------------------------
(***************************************************************************)
(* The place of every work item.                                           *)
(***************************************************************************)
\* A step that moves no item and leaves every task that holds one where it may.
LEMMA PlaceKept ==
  ASSUME PlaceInv, UNCHANGED <<queue, pending, item, fate>>,
         \A w \in Workers : item[w] # NoItem => pc'[w] \in HoldPC
  PROVE  PlaceInv'
<1>1. KindInv'
  BY DEF PlaceInv, KindInv, Holds
<1>2. \A i \in Work : OnePlace(i)'
  BY DEF PlaceInv, OnePlace, Holds
<1> QED BY <1>1, <1>2 DEF PlaceInv

\* Tasks are deleted and the items they hold are lost with them.
LEMMA PlaceDeleted ==
  ASSUME TypeOK, PlaceInv, NEW V \in SUBSET Workers,
         UNCHANGED <<queue, pending>>, LoseItems(HeldBy(V)),
         item' = [w \in Workers |-> IF w \in V THEN NoItem ELSE item[w]],
         \A w \in Workers \ V : pc'[w] = pc[w]
  PROVE  PlaceInv'
<1>1. \A w \in Workers : item'[w] = IF w \in V THEN NoItem ELSE item[w]
  OBVIOUS
<1>2. \A i \in Work : i # NoItem
  BY PoolAssumption DEF Item
<1>3. \A i \in Work, w \in Workers : Holds(w, i)' <=> Holds(w, i) /\ w \notin V
  BY <1>1, <1>2 DEF Holds
<1>4. KindInv'
  BY <1>3 DEF PlaceInv, KindInv
<1>5. ASSUME NEW i \in Work PROVE OnePlace(i)'
  <2>1. i \in HeldBy(V) <=> \E w \in V : Holds(w, i)
    BY DEF HeldBy, Holds
  <2>2. fate'[i] = IF i \in HeldBy(V) THEN "lost" ELSE fate[i]
    BY DEF LoseItems
  <2>3. OnePlace(i)
    BY DEF PlaceInv
  <2>4. (fate[i] = "live" /\ i \notin HeldBy(V)) <=> fate'[i] = "live"
    BY <2>2
  <2> QED BY <1>3, <2>1, <2>3, <2>4 DEF OnePlace
<1> QED BY <1>1, <1>4, <1>5 DEF PlaceInv

\* xQueueReceive moves an item from the head of the queue to the task.
LEMMA PlaceReceived ==
  ASSUME TypeOK, PlaceInv, NEW w \in Workers, Receive(w), UNCHANGED pending
  PROVE  PlaceInv'
<1> DEFINE t == TypeOf(w)
<1>1. t \in Type /\ queue[t] \in Seq(Item) /\ queue[t] # <<>>
  BY DEF TypeOf, Type, Receive, TypeOK, PoolTypeOK
<1>2. /\ item'[w] = Head(queue[t]) /\ queue'[t] = Tail(queue[t])
      /\ \A v \in Workers : v # w => item'[v] = item[v] /\ pc'[v] = pc[v]
      /\ \A u \in Type : u # t => queue'[u] = queue[u]
      /\ pc'[w] = "got" /\ UNCHANGED fate
  BY <1>1 DEF Receive, TypeOK, PoolTypeOK
<1>3. item[w] = NoItem
  BY DEF PlaceInv, HoldPC, Receive
<1>4. \A i \in Work : i # NoItem
  BY PoolAssumption DEF Item
<1>5. \A i \in Work : /\ Contains(queue[t], i) <=> Head(queue[t]) = i \/ Contains(queue'[t], i)
                      /\ AtMostOnce(queue[t], i) =>
                           /\ AtMostOnce(queue'[t], i)
                           /\ ~(Head(queue[t]) = i /\ Contains(queue'[t], i))
  BY <1>1, <1>2, TailContains
<1>6. \A i \in Work : /\ ~Holds(w, i)
                      /\ Holds(w, i)' <=> Head(queue[t]) = i
                      /\ \A v \in Workers : v # w => (Holds(v, i)' <=> Holds(v, i))
  BY <1>2, <1>3, <1>4 DEF Holds
<1>7. \A u \in Type : Len(queue'[u]) <= QueueCap /\ Len(pending'[u]) <= PendingCap
  <2>1. Len(queue'[t]) <= Len(queue[t]) /\ Len(queue'[t]) \in Nat /\ Len(queue[t]) \in Nat
    BY <1>1, <1>2, HeadTailProperties, LenProperties
  <2>2. Len(queue'[t]) <= QueueCap
    BY <1>1, <2>1, RuntimeAssumption DEF PlaceInv
  <2> QED BY <1>2, <2>2 DEF PlaceInv
<1> HIDE DEF t
<1>8. KindInv'
  <2> SUFFICES ASSUME NEW i \in Work
               PROVE  /\ \A u \in Type : Contains(queue'[u], i) \/ Contains(pending'[u], i)
                                           => u = ItemType(i)
                      /\ \A v \in Workers : Holds(v, i)' => TypeOf(v) = ItemType(i)
    BY DEF KindInv, ItemType
  <2>1. \A u \in Type : Contains(queue'[u], i) => Contains(queue[u], i)
    BY <1>2, <1>5
  <2>2. Head(queue[t]) = i => Contains(queue[t], i)
    BY <1>5
  <2>3. \A u \in Type : Contains(queue[u], i) \/ Contains(pending[u], i) => u = ItemType(i)
    BY DEF PlaceInv, KindInv
  <2>4. \A v \in Workers : Holds(v, i) => TypeOf(v) = ItemType(i)
    BY DEF PlaceInv, KindInv
  <2> QED BY <1>1, <1>6, <2>1, <2>2, <2>3, <2>4 DEF t
<1>9. ASSUME NEW i \in Work PROVE OnePlace(i)'
  <2>1. OnePlace(i) /\ ItemType(i) \in Type
    BY DEF PlaceInv, ItemType, Type
  <2>2. CASE t = ItemType(i)
    BY <1>2, <1>5, <1>6, <2>1, <2>2 DEF OnePlace
  <2>3. CASE t # ItemType(i)
    <3>1. Head(queue[t]) # i
      BY <1>1, <1>5, <2>3 DEF PlaceInv, KindInv
    <3> QED BY <1>2, <1>6, <2>1, <2>3, <3>1 DEF OnePlace
  <2> QED BY <2>2, <2>3
<1>10. \A v \in Workers : item'[v] # NoItem => pc'[v] \in HoldPC
  BY <1>2 DEF PlaceInv, HoldPC
<1> QED BY <1>7, <1>8, <1>9, <1>10 DEF PlaceInv

\* The handler returns: its item is done and in no place any more.
LEMMA PlaceFinished ==
  ASSUME TypeOK, PlaceInv, NEW w \in Workers, FinishHandler(w), UNCHANGED pending
  PROVE  PlaceInv'
<1>1. /\ item'[w] = NoItem /\ UNCHANGED queue
      /\ \A v \in Workers : v # w => item'[v] = item[v] /\ pc'[v] = pc[v]
      /\ \A i \in Work : fate'[i] = IF i = item[w] THEN "done" ELSE fate[i]
  BY DEF FinishHandler, TypeOK, PoolTypeOK
<1>2. \A i \in Work : i # NoItem
  BY PoolAssumption DEF Item
<1>3. \A i \in Work, v \in Workers : Holds(v, i)' <=> Holds(v, i) /\ v # w
  BY <1>1, <1>2 DEF Holds
<1>4. KindInv'
  BY <1>1, <1>3 DEF PlaceInv, KindInv
<1>5. ASSUME NEW i \in Work PROVE OnePlace(i)'
  <2>1. OnePlace(i)
    BY DEF PlaceInv
  <2>2. fate'[i] = "live" <=> fate[i] = "live" /\ ~Holds(w, i)
    BY <1>1 DEF Holds
  <2> QED BY <1>1, <1>3, <2>1, <2>2 DEF OnePlace
<1> QED BY <1>1, <1>4, <1>5 DEF PlaceInv

\* The pending queue is drained into the work queue: what does not fit is lost, what
\* fits has moved.  uq is what was left of user_work and dropped what was taken from it.
LEMMA PlaceDrained ==
  ASSUME TypeOK, PlaceInv, NEW by, NEW uq \in Seq(Item), NEW dropped,
         EnterSleep(by, uq, dropped), UNCHANGED <<item, pc>>,
         \A i \in Work : /\ Contains(queue["user"], i) <=> Contains(uq, i) \/ i \in dropped
                         /\ ~(Contains(uq, i) /\ i \in dropped)
                         /\ AtMostOnce(queue["user"], i) => AtMostOnce(uq, i)
  PROVE  PlaceInv'
<1> DEFINE base(t) == IF t = "user" THEN uq ELSE queue["system"]
           all(t)  == base(t) \o pending[t]
           gone(t) == IF t = "user" THEN dropped ELSE {}
<1>1. \A t \in Type : /\ base(t) \in Seq(Item) /\ pending[t] \in Seq(Item)
                      /\ all(t) \in Seq(Item)
  <2>1. \A t \in Type : pending[t] \in Seq(Item) /\ queue[t] \in Seq(Item)
    BY SeqMonotonic DEF TypeOK, PoolTypeOK, Item
  <2>2. \A t \in Type : base(t) \in Seq(Item)
    BY <2>1 DEF Type
  <2> QED BY <2>1, <2>2, ConcatProperties
<1>2. /\ \A t \in Type : queue'[t] = Fit(all(t), QueueCap) /\ pending'[t] = <<>>
      /\ \A i \in Work : fate'[i] = IF \/ i \in gone("user")
                                       \/ i \in Spill(all("user"), QueueCap)
                                       \/ i \in Spill(all("system"), QueueCap)
                                    THEN "lost" ELSE fate[i]
  BY DEF EnterSleep, LoseItems, Type
<1>3. ASSUME NEW t \in Type, NEW i \in Work
      PROVE  /\ Contains(queue[t], i) <=> Contains(base(t), i) \/ i \in gone(t)
             /\ ~(Contains(base(t), i) /\ i \in gone(t))
             /\ AtMostOnce(queue[t], i) => AtMostOnce(base(t), i)
  BY DEF Type
<1> HIDE DEF base, gone
<1>4. ASSUME NEW t \in Type, NEW i \in Work
      PROVE  /\ Contains(all(t), i) <=> Contains(base(t), i) \/ Contains(pending[t], i)
             /\ AtMostOnce(base(t), i) /\ AtMostOnce(pending[t], i)
                  /\ ~(Contains(base(t), i) /\ Contains(pending[t], i)) => AtMostOnce(all(t), i)
  BY <1>1, ConcatContains
<1> HIDE DEF all
<1>5. ASSUME NEW t \in Type, NEW i \in Work
      PROVE  /\ Contains(all(t), i) <=> Contains(queue'[t], i) \/ i \in Spill(all(t), QueueCap)
             /\ AtMostOnce(all(t), i) =>
                  /\ AtMostOnce(queue'[t], i)
                  /\ ~(Contains(queue'[t], i) /\ i \in Spill(all(t), QueueCap))
  <2>1. QueueCap \in Nat /\ all(t) \in Seq(Item) /\ queue'[t] = Fit(all(t), QueueCap)
    BY <1>1, <1>2, RuntimeAssumption
  <2> QED BY <2>1, FitContains
<1>6. \A t \in Type : Len(queue'[t]) <= QueueCap /\ Len(pending'[t]) <= PendingCap
  <2>1. \A t \in Type : Len(queue'[t]) <= QueueCap
    BY <1>1, <1>2, FitContains, RuntimeAssumption
  <2>2. Len(<<>>) = 0
    OBVIOUS
  <2> QED BY <1>2, <2>1, <2>2, RuntimeAssumption
<1>7. \A t \in Type, i \in Work : ~Contains(pending'[t], i) /\ AtMostOnce(pending'[t], i)
  BY <1>2 DEF Contains, AtMostOnce
<1>8. \A t \in Type, i \in Work :
         Contains(queue[t], i) \/ Contains(pending[t], i) => t = ItemType(i)
  BY DEF PlaceInv, KindInv
<1>9. KindInv'
  <2>1. \A t \in Type, i \in Work :
           Contains(queue'[t], i) => Contains(queue[t], i) \/ Contains(pending[t], i)
    BY <1>3, <1>4, <1>5
  <2> QED BY <1>7, <1>8, <2>1 DEF PlaceInv, KindInv, Holds
<1>10. ASSUME NEW i \in Work PROVE OnePlace(i)'
  <2> DEFINE t == ItemType(i)
  <2>1. t \in Type /\ OnePlace(i) /\ \A w \in Workers : Holds(w, i)' <=> Holds(w, i)
    BY DEF PlaceInv, ItemType, Type, Holds
  <2> HIDE DEF t
  <2>2. i \in gone("user") => t = "user"
    BY <1>3, <1>8, <2>1 DEF t, Type
  <2>3. ASSUME NEW u \in Type, i \in Spill(all(u), QueueCap) PROVE u = t
    BY <1>3, <1>4, <1>5, <1>8, <2>3 DEF t
  <2>4. i \in gone(t) => t = "user"
    BY DEF gone
  <2>5. fate'[i] = IF i \in gone(t) \/ i \in Spill(all(t), QueueCap)
                   THEN "lost" ELSE fate[i]
    BY <1>2, <2>1, <2>2, <2>3, <2>4 DEF Type
  <2>6. /\ Contains(queue[t], i) <=> Contains(base(t), i) \/ i \in gone(t)
        /\ ~(Contains(base(t), i) /\ i \in gone(t))
        /\ AtMostOnce(queue[t], i) => AtMostOnce(base(t), i)
    BY <1>3, <2>1
  <2>7. /\ Contains(all(t), i) <=> Contains(base(t), i) \/ Contains(pending[t], i)
        /\ AtMostOnce(base(t), i) /\ AtMostOnce(pending[t], i)
             /\ ~(Contains(base(t), i) /\ Contains(pending[t], i)) => AtMostOnce(all(t), i)
    BY <1>4, <2>1
  <2>8. /\ Contains(all(t), i) <=> Contains(queue'[t], i) \/ i \in Spill(all(t), QueueCap)
        /\ AtMostOnce(all(t), i) =>
             /\ AtMostOnce(queue'[t], i)
             /\ ~(Contains(queue'[t], i) /\ i \in Spill(all(t), QueueCap))
    BY <1>5, <2>1
  <2>9. ~Contains(pending'[t], i) /\ AtMostOnce(pending'[t], i)
    BY <1>7, <2>1
  <2>10. /\ AtMostOnce(queue[t], i) /\ AtMostOnce(pending[t], i)
         /\ ~(Contains(queue[t], i) /\ Contains(pending[t], i))
         /\ \A w \in Workers : Holds(w, i) => ~Contains(queue[t], i) /\ ~Contains(pending[t], i)
         /\ \A v, w \in Workers : Holds(v, i) /\ Holds(w, i) => v = w
         /\ fate[i] = "live" <=> \/ Contains(queue[t], i) \/ Contains(pending[t], i)
                                 \/ \E w \in Workers : Holds(w, i)
    BY <2>1 DEF OnePlace, t
  <2>11. /\ AtMostOnce(queue'[t], i) /\ AtMostOnce(pending'[t], i)
         /\ ~(Contains(queue'[t], i) /\ Contains(pending'[t], i))
         /\ \A w \in Workers : Holds(w, i) => ~Contains(queue'[t], i) /\ ~Contains(pending'[t], i)
         /\ fate'[i] = "live" <=> \/ Contains(queue'[t], i) \/ Contains(pending'[t], i)
                                  \/ \E w \in Workers : Holds(w, i)
    BY <2>5, <2>6, <2>7, <2>8, <2>9, <2>10
  <2>12. t = ItemType(i)'
    BY DEF t, ItemType
  <2> QED BY <2>1, <2>10, <2>11, <2>12 DEF OnePlace
<1> QED BY <1>6, <1>9, <1>10 DEF PlaceInv

\* The two ways the runtime goes to sleep: user_work is kept or was reset.
LEMMA PlaceAsleep ==
  ASSUME TypeOK, PlaceInv, NEW by, UNCHANGED <<item, pc>>,
         \/ EnterSleep(by, queue["user"], {})
         \/ EnterSleep(by, <<>>, ToSet(queue["user"]))
  PROVE  PlaceInv'
<1>1. queue["user"] \in Seq(Item)
  BY DEF TypeOK, PoolTypeOK, Type
<1>2. CASE EnterSleep(by, queue["user"], {})
  BY <1>1, <1>2, PlaceDrained
<1>3. CASE EnterSleep(by, <<>>, ToSet(queue["user"]))
  <2>1. \A i \in Work : ~Contains(<<>>, i) /\ AtMostOnce(<<>>, i)
    BY DEF Contains, AtMostOnce
  <2>2. \A i \in Work : Contains(queue["user"], i) <=> i \in ToSet(queue["user"])
    <3>1. DOMAIN queue["user"] = 1..Len(queue["user"])
      BY <1>1, LenProperties
    <3> QED BY <3>1 DEF Contains, ToSet
  <2>3. <<>> \in Seq(Item)
    BY EmptySeq
  <2> QED BY <1>3, <2>1, <2>2, <2>3, PlaceDrained
<1> QED BY <1>2, <1>3

\* Hooks sent to the system queue displace no work: only hooks can be turned away.
LEMMA PlaceHooks ==
  ASSUME TypeOK, PlaceInv, UNCHANGED <<item, pc, pending, fate>>,
         queue' = [queue EXCEPT !["system"] = Fit(@ \o window_hooks, QueueCap)]
  PROVE  PlaceInv'
<1> DEFINE q == queue["system"]
           c == q \o window_hooks
<1>1. q \in Seq(Item) /\ window_hooks \in Seq(Item) /\ window_hooks \in Seq(Hooks)
  BY SeqMonotonic DEF TypeOK, PoolTypeOK, Type, Item
<1>2. /\ c \in Seq(Item) /\ Len(c) = Len(q) + Len(window_hooks)
      /\ Len(q) \in Nat /\ Len(window_hooks) \in Nat
      /\ \A k \in 1..(Len(q) + Len(window_hooks)) :
            c[k] = IF k <= Len(q) THEN q[k] ELSE window_hooks[k - Len(q)]
  BY <1>1, ConcatProperties, LenProperties
<1>3. Len(q) <= QueueCap
  BY DEF PlaceInv, Type
<1>4. queue'["system"] = Fit(c, QueueCap) /\ queue'["user"] = queue["user"]
  BY DEF TypeOK, PoolTypeOK, Type
<1> HIDE DEF c
<1>5. ASSUME NEW i \in Work
      PROVE  /\ Contains(queue'["system"], i) <=> Contains(q, i)
             /\ AtMostOnce(q, i) => AtMostOnce(queue'["system"], i)
  <2>1. \A k \in 1..Len(window_hooks) : window_hooks[k] # i
    <3>1. \A k \in 1..Len(window_hooks) : window_hooks[k] \in Hooks
      BY <1>1, LenProperties
    <3> QED BY <3>1, PoolAssumption
  <2>2. ~Contains(window_hooks, i) /\ AtMostOnce(window_hooks, i)
    BY <2>1 DEF Contains, AtMostOnce
  <2>3. /\ Contains(c, i) <=> Contains(q, i) \/ Contains(window_hooks, i)
        /\ AtMostOnce(q, i) /\ AtMostOnce(window_hooks, i)
             /\ ~(Contains(q, i) /\ Contains(window_hooks, i)) => AtMostOnce(c, i)
    BY <1>1, ConcatContains DEF c
  <2>4. i \notin Spill(c, QueueCap)
    <3> SUFFICES ASSUME NEW k \in (QueueCap + 1)..Len(c), c[k] = i PROVE FALSE
      BY DEF Spill
    <3>1. /\ k \in 1..(Len(q) + Len(window_hooks)) /\ ~(k <= Len(q))
          /\ k - Len(q) \in 1..Len(window_hooks)
      BY <1>2, <1>3, RuntimeAssumption
    <3> QED BY <1>2, <2>1, <3>1
  <2>5. /\ Contains(c, i) <=> Contains(Fit(c, QueueCap), i) \/ i \in Spill(c, QueueCap)
        /\ AtMostOnce(c, i) => AtMostOnce(Fit(c, QueueCap), i)
    BY <1>2, FitContains, RuntimeAssumption
  <2> QED BY <1>4, <2>2, <2>3, <2>4, <2>5
<1>6. Len(queue'["system"]) <= QueueCap
  BY <1>2, <1>4, FitContains, RuntimeAssumption
<1> HIDE DEF q
<1>7. ASSUME NEW t \in Type, NEW i \in Work
      PROVE  /\ Contains(queue'[t], i) <=> Contains(queue[t], i)
             /\ AtMostOnce(queue[t], i) => AtMostOnce(queue'[t], i)
  BY <1>4, <1>5 DEF Type, q
<1>8. KindInv'
  BY <1>7 DEF PlaceInv, KindInv, Holds
<1>9. ASSUME NEW i \in Work PROVE OnePlace(i)'
  <2>1. OnePlace(i) /\ ItemType(i) \in Type
    BY DEF PlaceInv, ItemType, Type
  <2> QED BY <1>7, <2>1 DEF OnePlace, Holds
<1>10. \A t \in Type : Len(queue'[t]) <= QueueCap /\ Len(pending'[t]) <= PendingCap
  BY <1>4, <1>6 DEF PlaceInv, Type
<1> QED BY <1>8, <1>9, <1>10 DEF PlaceInv

\* A scheduled item was in no place; it gets one, or is lost at once.
LEMMA PlaceScheduled ==
  ASSUME TypeOK, PlaceInv, NEW x \in Work, Schedule(x)
  PROVE  PlaceInv'
<1> DEFINE t == ItemType(x)
<1>1. t \in Type /\ x \in Item
  BY DEF ItemType, Type, Item
<1>2. UNCHANGED <<item, pc>> /\ fate[x] = "new"
  BY DEF Schedule, UnchangedByCall
<1>3. /\ ~Contains(queue[t], x) /\ ~Contains(pending[t], x)
      /\ \A w \in Workers : ~Holds(w, x)
  BY <1>2 DEF PlaceInv, OnePlace
<1>4. ASSUME NEW q \in {queue, pending}, q \in [Type -> Seq(Item)]
      PROVE  /\ Len(Append(q[t], x)) = Len(q[t]) + 1 /\ Len(q[t]) \in Nat
             /\ \A i \in Work :
                   /\ Contains(Append(q[t], x), i) <=> Contains(q[t], i) \/ i = x
                   /\ AtMostOnce(q[t], i) => AtMostOnce(Append(q[t], x), i)
  <2>1. q[t] \in Seq(Item) /\ ~Contains(q[t], x)
    BY <1>1, <1>3, <1>4
  <2> QED BY <1>1, <2>1, AppendProperties, AppendContains, LenProperties
<1>5. queue \in [Type -> Seq(Item)] /\ pending \in [Type -> Seq(Item)]
  BY SeqMonotonic DEF TypeOK, PoolTypeOK, Item
<1>6. \A i \in Work : i # x => fate'[i] = fate[i]
  BY DEF Schedule, TypeOK, PoolTypeOK
<1> HIDE DEF t
<1>7. CASE /\ Len(pending[t]) < PendingCap /\ UNCHANGED queue
           /\ pending' = [pending EXCEPT ![t] = Append(@, x)] /\ fate'[x] = "live"
  <2>1. /\ pending'[t] = Append(pending[t], x)
        /\ \A u \in Type : u # t => pending'[u] = pending[u]
    BY <1>1, <1>5, <1>7
  <2>2. \A i \in Work : /\ Contains(pending'[t], i) <=> Contains(pending[t], i) \/ i = x
                        /\ AtMostOnce(pending[t], i) => AtMostOnce(pending'[t], i)
    BY <1>4, <1>5, <2>1
  <2>3. Len(pending'[t]) <= PendingCap
    BY <1>4, <1>5, <1>7, <2>1, RuntimeAssumption
  <2>4. KindInv'
    BY <1>2, <1>7, <2>1, <2>2 DEF PlaceInv, KindInv, Holds, t
  <2>5. ASSUME NEW i \in Work PROVE OnePlace(i)'
    <3>1. OnePlace(i) /\ ItemType(i) \in Type /\ \A w \in Workers : Holds(w, i)' <=> Holds(w, i)
      BY <1>2 DEF PlaceInv, ItemType, Type, Holds
    <3>2. CASE i = x
      BY <1>3, <1>7, <2>1, <2>2, <3>1, <3>2 DEF OnePlace, t
    <3>3. CASE i # x
      <4>1. \A u \in Type : /\ Contains(pending'[u], i) <=> Contains(pending[u], i)
                            /\ AtMostOnce(pending[u], i) => AtMostOnce(pending'[u], i)
        BY <2>1, <2>2, <3>3
      <4>2. fate'[i] = fate[i]
        BY <1>6, <3>3
      <4> QED BY <1>7, <3>1, <4>1, <4>2 DEF OnePlace
    <3> QED BY <3>2, <3>3
  <2> QED BY <1>2, <1>7, <2>1, <2>3, <2>4, <2>5 DEF PlaceInv
<1>8. CASE /\ Len(queue[t]) < QueueCap /\ UNCHANGED pending
           /\ queue' = [queue EXCEPT ![t] = Append(@, x)] /\ fate'[x] = "live"
  <2>1. /\ queue'[t] = Append(queue[t], x)
        /\ \A u \in Type : u # t => queue'[u] = queue[u]
    BY <1>1, <1>5, <1>8
  <2>2. \A i \in Work : /\ Contains(queue'[t], i) <=> Contains(queue[t], i) \/ i = x
                        /\ AtMostOnce(queue[t], i) => AtMostOnce(queue'[t], i)
    BY <1>4, <1>5, <2>1
  <2>3. Len(queue'[t]) <= QueueCap
    BY <1>4, <1>5, <1>8, <2>1, RuntimeAssumption
  <2>4. KindInv'
    BY <1>2, <1>8, <2>1, <2>2 DEF PlaceInv, KindInv, Holds, t
  <2>5. ASSUME NEW i \in Work PROVE OnePlace(i)'
    <3>1. OnePlace(i) /\ ItemType(i) \in Type /\ \A w \in Workers : Holds(w, i)' <=> Holds(w, i)
      BY <1>2 DEF PlaceInv, ItemType, Type, Holds
    <3>2. CASE i = x
      BY <1>3, <1>8, <2>1, <2>2, <3>1, <3>2 DEF OnePlace, t
    <3>3. CASE i # x
      <4>1. \A u \in Type : /\ Contains(queue'[u], i) <=> Contains(queue[u], i)
                            /\ AtMostOnce(queue[u], i) => AtMostOnce(queue'[u], i)
        BY <2>1, <2>2, <3>3
      <4>2. fate'[i] = fate[i]
        BY <1>6, <3>3
      <4> QED BY <1>8, <3>1, <4>1, <4>2 DEF OnePlace
    <3> QED BY <3>2, <3>3
  <2> QED BY <1>2, <1>8, <2>1, <2>3, <2>4, <2>5 DEF PlaceInv
<1>9. CASE UNCHANGED <<queue, pending>> /\ fate'[x] = "lost"
  <2>1. KindInv'
    BY <1>2, <1>9 DEF PlaceInv, KindInv, Holds
  <2>2. ASSUME NEW i \in Work PROVE OnePlace(i)'
    <3>1. OnePlace(i) /\ (fate'[i] = "live" <=> fate[i] = "live")
      BY <1>2, <1>6, <1>9 DEF PlaceInv
    <3> QED BY <1>2, <1>9, <3>1 DEF OnePlace, Holds
  <2> QED BY <1>2, <1>9, <2>1, <2>2 DEF PlaceInv
<1>10. /\ fate' = [fate EXCEPT ![x] = "live"] => fate'[x] = "live"
       /\ fate' = [fate EXCEPT ![x] = "lost"] => fate'[x] = "lost"
  BY DEF TypeOK, PoolTypeOK
<1> QED BY <1>7, <1>8, <1>9, <1>10 DEF Schedule, t

\* No step of a worker, of the esp_timer task, of a caller or of the shutdown loses track
\* of an item or puts it into two places.
LEMMA PlaceCorrect == Spec => []PlaceInv
<1>1. Init => PlaceInv
  <2> SUFFICES ASSUME Init PROVE PlaceInv
    OBVIOUS
  <2>1. /\ \A t \in Type : queue[t] = <<>> /\ pending[t] = <<>>
        /\ \A w \in Workers : item[w] = NoItem
        /\ \A i \in Work : fate[i] = "new" /\ i # NoItem /\ ItemType(i) \in Type
    BY PoolAssumption DEF Init, PoolInit, Item, ItemType, Type
  <2>2. Len(<<>>) = 0
    OBVIOUS
  <2>3. \A i \in Work : ~Contains(<<>>, i) /\ AtMostOnce(<<>>, i)
    BY <2>2 DEF Contains, AtMostOnce
  <2>4. \A t \in Type : Len(queue[t]) <= QueueCap /\ Len(pending[t]) <= PendingCap
    BY <2>1, <2>2, RuntimeAssumption
  <2> QED BY <2>1, <2>3, <2>4 DEF PlaceInv, KindInv, OnePlace, Holds
<1>2. TypeOK /\ LockInv /\ PlaceInv /\ [Next]_vars => PlaceInv'
  <2> SUFFICES ASSUME TypeOK, LockInv, PlaceInv, [Next]_vars PROVE PlaceInv'
    OBVIOUS
  <2>1. ASSUME UNCHANGED <<queue, pending, item, fate, pc>> PROVE PlaceInv'
    BY <2>1, PlaceKept DEF PlaceInv
  <2>2. CASE UNCHANGED vars
    BY <2>1, <2>2 DEF vars, poolVars, rtVars
  <2>3. ASSUME NEW w \in Workers, WorkerStep(w) PROVE PlaceInv'
    <3>1. CASE Receive(w) /\ UNCHANGED rtVars
      BY <3>1, PlaceReceived DEF rtVars
    <3>2. CASE FinishHandler(w) /\ UNCHANGED rtVars
      BY <3>2, PlaceFinished DEF rtVars
    <3>3. ASSUME \/ Count(w) /\ UNCHANGED rtVars
                 \/ ArmWatchdog(w) /\ UNCHANGED rtVars
                 \/ StartHandler(w) /\ UNCHANGED rtVars
                 \/ StopWatchdog(w) /\ UNCHANGED rtVars
                 \/ Uncount(w) /\ UNCHANGED rtVars
                 \/ ResetSettlement(w) \/ EvaluateLast(w)
          PROVE  PlaceInv'
      <4>1. UNCHANGED <<queue, pending, item, fate>>
        BY <3>3 DEF Count, ArmWatchdog, StartHandler, StopWatchdog, Uncount, ResetSettlement,
           EvaluateLast, rtVars, UnchangedByWorker
      <4>2. \A v \in Workers : v # w => pc'[v] = pc[v]
        BY <3>3 DEF Count, ArmWatchdog, StartHandler, StopWatchdog, Uncount, ResetSettlement,
           EvaluateLast, TypeOK, PoolTypeOK
      <4>3. pc[w] \in HoldPC => pc'[w] \in HoldPC
        BY <3>3 DEF Count, ArmWatchdog, StartHandler, StopWatchdog, Uncount, ResetSettlement,
           EvaluateLast, TypeOK, PoolTypeOK, HoldPC
      <4> QED BY <4>1, <4>2, <4>3, PlaceKept DEF PlaceInv
    <3> QED BY <2>3, <3>1, <3>2, <3>3 DEF WorkerStep, PoolStep
  <2>4. ASSUME NEW a \in Actor, RecoverVictims(a), UNCHANGED <<queue, pending>> PROVE PlaceInv'
    <3>1. /\ victims[a] \in SUBSET Workers /\ LoseItems(HeldBy(victims[a]))
          /\ item' = [w \in Workers |-> IF w \in victims[a] THEN NoItem ELSE item[w]]
          /\ \A w \in Workers \ victims[a] : pc'[w] = pc[w]
      BY <2>4 DEF RecoverVictims, TypeOK, PoolTypeOK
    <3> QED BY <2>4, <3>1, PlaceDeleted
  <2>5. CASE SleepTransition
    <3>1. CASE SleepCheck \/ SleepExchange \/ SleepSuspend
      BY <2>1, <3>1 DEF SleepCheck, SleepExchange, SleepSuspend
    <3>2. CASE SleepRecover
      BY <2>4, <3>2 DEF SleepRecover, TypeOK
    <3> QED BY <2>5, <3>1, <3>2 DEF SleepTransition
  <2>6. ASSUME runtime_manager_begin_curfew_unsafe, UNCHANGED <<item, pc>> PROVE PlaceInv'
    BY <2>6, PlaceAsleep, PlaceHooks DEF runtime_manager_begin_curfew_unsafe
  <2>7. CASE TimerCallback
    <3>1. CASE work_window_expiry_cb
      BY <2>1, <2>6, <3>1 DEF work_window_expiry_cb, UnchangedByWindow, CallbackDone
    <3>2. CASE grace_period_expiry_cb
      BY <2>1, <3>2, PlaceAsleep DEF grace_period_expiry_cb, UnchangedByWindow, CallbackDone
    <3>3. CASE curfew_settlement_expiry_cb
      BY <2>1, <2>6, <3>3, PlaceAsleep
         DEF curfew_settlement_expiry_cb, UnchangedByWindow, CallbackDone
    <3>4. CASE start_work_cb
      BY <2>1, <3>4 DEF start_work_cb, UnchangedByWindow
    <3>5. CASE SoftAbort \/ HardAbort
      BY <2>1, <3>5 DEF SoftAbort, HardAbort, worker_soft_abort_cb, worker_hard_abort_cb,
         FailAssertion, UnchangedByWatchdog
    <3>6. CASE HardRecover
      BY <2>4, <3>6 DEF HardRecover, RecoverStalledWorker, UnchangedByWatchdog, Actor
    <3> QED BY <2>7, <3>1, <3>2, <3>3, <3>4, <3>5, <3>6 DEF TimerCallback
  <2>8. CASE Expire
    BY <2>1, <2>8 DEF Expire, ExpireWindowTimer, ExpireTick, ExpireSoft, ExpireHard,
       UnchangedByDispatch
  <2>9. CASE Call
    <3>1. ASSUME NEW h \in Hooks,
                 runtime_manager_register_hook(h) \/ runtime_manager_unregister_hook(h)
          PROVE  PlaceInv'
      BY <2>1, <3>1 DEF runtime_manager_register_hook, runtime_manager_unregister_hook,
         UnchangedByCall
    <3>2. ASSUME NEW s \in Active, SetActiveState(s) PROVE PlaceInv'
      BY <2>1, <3>2 DEF SetActiveState, UnchangedByCall
    <3> QED BY <2>9, <3>1, <3>2, PlaceScheduled DEF Call
  <2>10. CASE Shutdown
    <3>1. CASE BeginShutdown \/ AwaitShutdown
      BY <2>1, <3>1 DEF BeginShutdown, AwaitShutdown, poolVars
    <3>2. CASE ForceSleep
      BY <2>1, <3>2, PlaceAsleep DEF ForceSleep
    <3>3. CASE StopPool
      <4>1. item' = [w \in Workers |-> IF w \in Workers THEN NoItem ELSE item[w]]
        BY <3>3 DEF StopPool, PoolDeinit
      <4> QED BY <3>3, <4>1, PlaceDeleted DEF StopPool, PoolDeinit
    <3>4. CASE ReleaseRuntime
      <4>1. \A w \in Workers : item[w] = NoItem
        BY <3>4 DEF ReleaseRuntime, LockInv, PoolUp, PlaceInv, HoldPC
      <4>2. /\ UNCHANGED <<item, pc>>
            /\ \A t \in Type : queue'[t] = <<>> /\ pending'[t] = <<>>
            /\ \A i \in Work :
                 fate'[i] = IF i \in UNION {ToSet(queue[t]) \cup ToSet(pending[t]) : t \in Type}
                            THEN "lost" ELSE fate[i]
        BY <3>4 DEF ReleaseRuntime, LoseItems
      <4>3. Len(<<>>) = 0
        OBVIOUS
      <4>4. \A i \in Work : ~Contains(<<>>, i) /\ AtMostOnce(<<>>, i)
        BY <4>3 DEF Contains, AtMostOnce
      <4>5. \A t \in Type : Len(queue'[t]) <= QueueCap /\ Len(pending'[t]) <= PendingCap
        BY <4>2, <4>3, RuntimeAssumption
      <4>6. \A i \in Work : i # NoItem /\ ItemType(i) \in Type
        BY PoolAssumption DEF Item, ItemType, Type
      <4>7. ASSUME NEW i \in Work PROVE fate'[i] # "live"
        <5> SUFFICES ASSUME fate[i] = "live"
                     PROVE  \E t \in Type : i \in ToSet(queue[t]) \cup ToSet(pending[t])
          BY <4>2
        <5>1. Contains(queue[ItemType(i)], i) \/ Contains(pending[ItemType(i)], i)
          BY <4>1, <4>6 DEF PlaceInv, OnePlace, Holds
        <5>2. /\ DOMAIN queue[ItemType(i)] = 1..Len(queue[ItemType(i)])
              /\ DOMAIN pending[ItemType(i)] = 1..Len(pending[ItemType(i)])
          BY <4>6, LenProperties DEF TypeOK, PoolTypeOK
        <5> QED BY <4>6, <5>1, <5>2 DEF Contains, ToSet
      <4> QED BY <4>1, <4>2, <4>4, <4>5, <4>6, <4>7 DEF PlaceInv, KindInv, OnePlace, Holds
    <3> QED BY <2>10, <3>1, <3>2, <3>3, <3>4 DEF Shutdown
  <2> QED BY <2>2, <2>3, <2>5, <2>7, <2>8, <2>9, <2>10 DEF Next
<1> QED BY <1>1, <1>2, TypeCorrect, LockCorrect, PTL DEF Spec

\* The places of an item, for an item of which PlaceInv says that there is at most one.
LEMMA PlacesCounted ==
  ASSUME TypeOK, PlaceInv, NEW i \in Work
  PROVE  Cardinality(Places(i)) = IF fate[i] = "live" THEN 1 ELSE 0
<1> DEFINE t == ItemType(i)
           InQueue   == {p \in {"queue"} \X Type \X (1..QueueCap) :
                           p[3] <= Len(queue[p[2]]) /\ queue[p[2]][p[3]] = i}
           InPending == {p \in {"pending"} \X Type \X (1..PendingCap) :
                           p[3] <= Len(pending[p[2]]) /\ pending[p[2]][p[3]] = i}
           Held      == {w \in Workers : item[w] = i}
<1>1. /\ t \in Type /\ OnePlace(i)
      /\ \A u \in Type : Contains(queue[u], i) \/ Contains(pending[u], i) => u = t
  BY DEF PlaceInv, KindInv, ItemType, Type
<1>2. \A u \in Type : /\ Len(queue[u]) \in Nat /\ Len(pending[u]) \in Nat
                      /\ Len(queue[u]) <= QueueCap /\ Len(pending[u]) <= PendingCap
  BY LenProperties DEF PlaceInv, TypeOK, PoolTypeOK
<1>3. QueueCap \in Nat /\ PendingCap \in Nat
  BY RuntimeAssumption
<1>4. Places(i) = InQueue \cup InPending \cup Held
  BY DEF Places
<1> HIDE DEF t
<1>5. /\ ~Contains(queue[t], i) => InQueue = {}
      /\ Contains(queue[t], i) => \E p : InQueue = {p}
  <2>1. ASSUME NEW p \in InQueue
        PROVE  /\ p = <<"queue", t, p[3]>> /\ p[3] \in 1..Len(queue[t])
               /\ queue[t][p[3]] = i /\ Contains(queue[t], i)
    <3>1. /\ p \in {"queue"} \X Type \X (1..QueueCap)
          /\ p[3] <= Len(queue[p[2]]) /\ queue[p[2]][p[3]] = i
      OBVIOUS
    <3>2. p = <<"queue", p[2], p[3]>> /\ p[2] \in Type /\ p[3] \in 1..Len(queue[p[2]])
      BY <1>2, <1>3, <3>1
    <3>3. Contains(queue[p[2]], i)
      BY <3>1, <3>2 DEF Contains
    <3> QED BY <1>1, <3>1, <3>2, <3>3
  <2>2. ASSUME Contains(queue[t], i) PROVE \E p : InQueue = {p}
    <3>1. PICK k \in 1..Len(queue[t]) : queue[t][k] = i
      BY <2>2 DEF Contains
    <3>2. \A j \in 1..Len(queue[t]) : queue[t][j] = i => j = k
      BY <1>1, <3>1 DEF OnePlace, AtMostOnce, t
    <3>3. <<"queue", t, k>> \in InQueue
      BY <1>1, <1>2, <1>3, <3>1
    <3>4. InQueue = {<<"queue", t, k>>}
      BY <2>1, <3>2, <3>3
    <3> QED BY <3>4
  <2> QED BY <2>1, <2>2
<1>6. /\ ~Contains(pending[t], i) => InPending = {}
      /\ Contains(pending[t], i) => \E p : InPending = {p}
  <2>1. ASSUME NEW p \in InPending
        PROVE  /\ p = <<"pending", t, p[3]>> /\ p[3] \in 1..Len(pending[t])
               /\ pending[t][p[3]] = i /\ Contains(pending[t], i)
    <3>1. /\ p \in {"pending"} \X Type \X (1..PendingCap)
          /\ p[3] <= Len(pending[p[2]]) /\ pending[p[2]][p[3]] = i
      OBVIOUS
    <3>2. p = <<"pending", p[2], p[3]>> /\ p[2] \in Type /\ p[3] \in 1..Len(pending[p[2]])
      BY <1>2, <1>3, <3>1
    <3>3. Contains(pending[p[2]], i)
      BY <3>1, <3>2 DEF Contains
    <3> QED BY <1>1, <3>1, <3>2, <3>3
  <2>2. ASSUME Contains(pending[t], i) PROVE \E p : InPending = {p}
    <3>1. PICK k \in 1..Len(pending[t]) : pending[t][k] = i
      BY <2>2 DEF Contains
    <3>2. \A j \in 1..Len(pending[t]) : pending[t][j] = i => j = k
      BY <1>1, <3>1 DEF OnePlace, AtMostOnce, t
    <3>3. <<"pending", t, k>> \in InPending
      BY <1>1, <1>2, <1>3, <3>1
    <3>4. InPending = {<<"pending", t, k>>}
      BY <2>1, <3>2, <3>3
    <3> QED BY <3>4
  <2> QED BY <2>1, <2>2
<1>7. /\ (\A w \in Workers : ~Holds(w, i)) => Held = {}
      /\ (\E w \in Workers : Holds(w, i)) => \E w : Held = {w}
  <2>1. ASSUME NEW w \in Workers, Holds(w, i) PROVE Held = {w}
    BY <1>1, <2>1 DEF Holds, OnePlace
  <2> QED BY <2>1 DEF Holds
<1> HIDE DEF InQueue, InPending, Held
<1>8. CASE fate[i] = "live"
  <2>1. \E p : Places(i) = {p}
    BY <1>1, <1>4, <1>5, <1>6, <1>7, <1>8 DEF OnePlace, t
  <2> QED BY <1>8, <2>1, FS_Singleton
<1>9. CASE fate[i] # "live"
  <2>1. Places(i) = {}
    BY <1>1, <1>4, <1>5, <1>6, <1>7, <1>9 DEF OnePlace, t
  <2> QED BY <1>9, <2>1, FS_EmptySet
<1> QED BY <1>8, <1>9

\* A submitted item is in exactly one queue slot, pending slot or worker while it is live
\* and nowhere afterwards, and outside a window no system worker runs, for every pool,
\* every queue capacity and every interleaving of recovery, suspension and requeueing.
THEOREM PoolIsCorrect == Spec => []PoolCorrect
<1>1. TypeOK /\ PlaceInv /\ SleepInv => PoolCorrect
  BY PlacesCounted DEF PoolCorrect, ItemInOnePlace, SleepInv
<1> QED BY <1>1, TypeCorrect, PlaceCorrect, SleepCorrect, PTL

-----------------------------------------------------------------------------
(***************************************************************************)
(* The ways work is lost.                                                  *)
(***************************************************************************)
\* What going to sleep loses: what was dropped from user_work before, and what does not
\* fit when the pending queue of the item's type is drained.
LEMMA LostAsleep ==
  ASSUME TypeOK, PlaceInv, NEW by, NEW uq \in Seq(Item), NEW dropped,
         EnterSleep(by, uq, dropped), uq \in {queue["user"], <<>>}
  PROVE  \A i \in Work : fate'[i] # fate[i] =>
           /\ fate'[i] = "lost"
           /\ \/ i \in dropped
              \/ /\ Len(queue[ItemType(i)]) + Len(pending[ItemType(i)]) > QueueCap
                 /\ fate[i] = "live"
<1> SUFFICES ASSUME NEW i \in Work, fate'[i] # fate[i]
             PROVE  /\ fate'[i] = "lost"
                    /\ \/ i \in dropped
                       \/ /\ Len(queue[ItemType(i)]) + Len(pending[ItemType(i)]) > QueueCap
                          /\ fate[i] = "live"
  OBVIOUS
<1> DEFINE u == uq \o pending["user"]
           s == queue["system"] \o pending["system"]
<1>1. /\ fate'[i] = "lost"
      /\ i \in dropped \/ i \in Spill(u, QueueCap) \/ i \in Spill(s, QueueCap)
  BY DEF EnterSleep, LoseItems
<1>2. \A t \in Type : queue[t] \in Seq(Item) /\ pending[t] \in Seq(Item)
  BY SeqMonotonic DEF TypeOK, PoolTypeOK, Item
<1>3. /\ Len(uq) <= Len(queue["user"])
      /\ Contains(uq, i) => Contains(queue["user"], i)
  BY <1>2, LenProperties, SMTT(40) DEF Type, Contains
<1>4. ASSUME NEW b \in Seq(Item), NEW t \in Type, Len(b) <= Len(queue[t]),
             Contains(b, i) => Contains(queue[t], i), i \in Spill(b \o pending[t], QueueCap)
      PROVE  /\ Len(queue[ItemType(i)]) + Len(pending[ItemType(i)]) > QueueCap
             /\ fate[i] = "live"
  <2>1. Contains(b \o pending[t], i)
    BY <1>2, FitContains, ConcatProperties, RuntimeAssumption, <1>4
  <2>2. Contains(queue[t], i) \/ Contains(pending[t], i)
    BY <1>2, <1>4, <2>1, ConcatContains
  <2>3. t = ItemType(i) /\ fate[i] = "live"
    BY <2>2 DEF PlaceInv, KindInv, OnePlace
  <2> DEFINE x == Len(b)
             y == Len(pending[t])
             z == Len(queue[t])
  <2>4. x \in Nat /\ y \in Nat /\ z \in Nat /\ Len(b \o pending[t]) = x + y
    BY <1>2, ConcatProperties, LenProperties
  <2>5. x <= z /\ QueueCap \in Nat
    BY <1>4, RuntimeAssumption
  <2>6. PICK k : k \in (QueueCap + 1)..(x + y)
    BY <1>4, <2>4 DEF Spill
  <2> HIDE DEF x, y, z
  <2>7. z + y > QueueCap
    BY <2>4, <2>5, <2>6
  <2> QED BY <2>3, <2>7 DEF y, z
<1>5. Len(queue["system"]) <= Len(queue["system"])
  BY <1>2, LenProperties DEF Type
<1>6. CASE i \in dropped
  BY <1>1, <1>6
<1>7. CASE i \in Spill(u, QueueCap)
  <2>1. "user" \in Type
    BY DEF Type
  <2> QED BY <1>1, <1>3, <1>4, <1>7, <2>1
<1>8. CASE i \in Spill(s, QueueCap)
  <2>1. "system" \in Type /\ queue["system"] \in Seq(Item)
    BY <1>2 DEF Type
  <2> QED BY <1>1, <1>4, <1>5, <1>8, <2>1
<1> QED BY <1>1, <1>6, <1>7, <1>8

\* Recovery loses exactly the items its victims hold.
LEMMA LostByRecovery ==
  ASSUME TypeOK, PlaceInv, NEW a \in Actor, RecoverVictims(a), NEW i \in Work,
         fate'[i] # fate[i]
  PROVE  /\ fate[i] = "live" /\ fate'[i] = "lost"
         /\ \E w \in victims[a] : w \in Workers /\ item[w] = i
<1>1. fate'[i] = "lost" /\ \E w \in victims[a] : w \in Workers /\ item[w] = i
  BY DEF RecoverVictims, LoseItems, HeldBy, TypeOK, PoolTypeOK
<1> QED BY <1>1 DEF PlaceInv, OnePlace, Holds

\* Work that was answered with true is lost in no other way than the five that
\* WorkLostOnlyByForce names.
THEOREM WorkLostOnlyByForceCorrect == Spec => WorkLostOnlyByForce
<1> DEFINE Forced(i) == \/ \E w \in Workers : item[w] = i /\ Overrunning(w)
                        \/ i \in UserItems /\ cb = "grace"
                        \/ /\ runtime_state # SLEEP /\ runtime_state' = SLEEP
                           /\ Len(queue[ItemType(i)]) + Len(pending[ItemType(i)]) > QueueCap
                        \/ main \in {"taken", "pooldown"}
                        \/ fate[i] = "new" /\ sleepBy # "none"
<1>1. ASSUME TypeOK, PlaceInv, [Next]_vars, NEW i \in Work, fate[i] # "lost", fate'[i] = "lost"
      PROVE  Forced(i)
  <2>1. ~UNCHANGED fate
    BY <1>1
  <2>2. ASSUME NEW w \in Workers, WorkerStep(w) PROVE FALSE
    <3>1. CASE FinishHandler(w)
      BY <1>1, <3>1 DEF FinishHandler
    <3>2. CASE ~FinishHandler(w)
      BY <2>1, <2>2, <3>2 DEF WorkerStep, PoolStep, Receive, Count, ArmWatchdog,
         StartHandler, StopWatchdog, Uncount, ResetSettlement, EvaluateLast
    <3> QED BY <3>1, <3>2
  <2>3. ASSUME NEW a \in Actor, RecoverVictims(a) PROVE Forced(i)
    BY <1>1, <2>3, LostByRecovery DEF Overrunning
  <2>4. queue["user"] \in Seq(Item)
    BY <1>1 DEF TypeOK, PoolTypeOK, Type
  <2>5. ASSUME NEW by, EnterSleep(by, queue["user"], {}), runtime_state # SLEEP PROVE Forced(i)
    <3>1. runtime_state' = SLEEP
      BY <2>5 DEF EnterSleep
    <3>2. \A d : EnterSleep(by, queue["user"], d) =>
            (i \in d \/ Len(queue[ItemType(i)]) + Len(pending[ItemType(i)]) > QueueCap)
      <4>1. fate'[i] # fate[i] /\ queue["user"] \in {queue["user"], <<>>}
        BY <1>1
      <4> QED BY <1>1, <2>4, <4>1, LostAsleep
    <3>3. Len(queue[ItemType(i)]) + Len(pending[ItemType(i)]) > QueueCap
      BY <2>5, <3>2
    <3> QED BY <2>5, <3>1, <3>3
  <2>6. ASSUME runtime_manager_begin_curfew_unsafe, runtime_state \in Active PROVE Forced(i)
    <3>1. runtime_state # SLEEP
      BY <2>6 DEF Active, SLEEP
    <3> QED BY <2>1, <2>5, <2>6, <3>1 DEF runtime_manager_begin_curfew_unsafe
  <2>7. CASE SleepTransition
    <3>1. CASE SleepRecover
      <4>1. sleepBy \in Actor /\ RecoverVictims(sleepBy)
        BY <1>1, <3>1 DEF SleepRecover, TypeOK
      <4> QED BY <2>3, <4>1
    <3> QED BY <2>1, <2>7, <3>1 DEF SleepTransition, SleepCheck, SleepExchange, SleepSuspend
  <2>8. CASE TimerCallback
    <3>1. CASE work_window_expiry_cb
      BY <2>1, <2>6, <3>1 DEF work_window_expiry_cb, CallbackDone
    <3>2. CASE grace_period_expiry_cb
      <4>1. /\ EnterSleep("timer", <<>>, ToSet(queue["user"]))
            /\ cb = "grace" /\ runtime_state = GRACE /\ runtime_state' = SLEEP
        BY <2>1, <3>2 DEF grace_period_expiry_cb, CallbackDone, EnterSleep
      <4>2. <<>> \in Seq(Item)
        BY EmptySeq
      <4>3. \/ i \in ToSet(queue["user"])
            \/ Len(queue[ItemType(i)]) + Len(pending[ItemType(i)]) > QueueCap
        BY <1>1, <4>1, <4>2, LostAsleep
      <4>4. i \in ToSet(queue["user"]) => i \in UserItems
        <5>1. DOMAIN queue["user"] = 1..Len(queue["user"])
          BY <2>4, LenProperties
        <5>2. i \in ToSet(queue["user"]) => Contains(queue["user"], i)
          BY <5>1 DEF Contains, ToSet
        <5>3. "user" \in Type
          BY DEF Type
        <5> QED BY <1>1, <5>2, <5>3 DEF PlaceInv, KindInv, ItemType
      <4> QED BY <4>1, <4>3, <4>4 DEF GRACE, SLEEP
    <3>3. CASE curfew_settlement_expiry_cb
      BY <2>1, <2>5, <2>6, <3>3 DEF curfew_settlement_expiry_cb, CallbackDone, GRACE, SLEEP
    <3>4. CASE start_work_cb
      BY <2>1, <3>4 DEF start_work_cb
    <3>5. CASE SoftAbort \/ HardAbort
      BY <2>1, <3>5 DEF SoftAbort, HardAbort, worker_soft_abort_cb, worker_hard_abort_cb,
         FailAssertion
    <3>6. CASE HardRecover
      BY <2>3, <3>6 DEF HardRecover, RecoverStalledWorker, Actor
    <3> QED BY <2>8, <3>1, <3>2, <3>3, <3>4, <3>5, <3>6 DEF TimerCallback
  <2>9. CASE Expire
    BY <2>1, <2>9 DEF Expire, ExpireWindowTimer, ExpireTick, ExpireSoft, ExpireHard,
       UnchangedByDispatch
  <2>10. CASE Call
    <3>1. ASSUME NEW x \in Work, Schedule(x) PROVE Forced(i)
      <4>1. fate[x] = "new" /\ main = "run" /\ fate \in [Work -> {"new", "live", "done", "lost"}]
        BY <1>1, <3>1 DEF Schedule, TypeOK, PoolTypeOK
      <4>2. CASE fate' = [fate EXCEPT ![x] = "live"]
        BY <1>1, <4>1, <4>2
      <4>3. CASE LockTimedOut /\ fate' = [fate EXCEPT ![x] = "lost"]
        <5>1. x = i /\ sleepBy # "none"
          BY <1>1, <4>1, <4>3 DEF LockTimedOut
        <5> QED BY <4>1, <5>1
      <4> QED BY <3>1, <4>2, <4>3 DEF Schedule
    <3> QED BY <2>1, <2>10, <3>1 DEF Call, runtime_manager_register_hook,
          runtime_manager_unregister_hook, SetActiveState
  <2>11. CASE Shutdown
    BY <2>1, <2>5, <2>11 DEF Shutdown, BeginShutdown, AwaitShutdown, ForceSleep, StopPool,
       ReleaseRuntime, poolVars
  <2>12. CASE UNCHANGED vars
    BY <2>1, <2>12 DEF vars, poolVars
  <2> QED BY <1>1, <2>2, <2>7, <2>8, <2>9, <2>10, <2>11, <2>12 DEF Next
<1>2. TypeOK /\ PlaceInv /\ [Next]_vars =>
        [\A i \in Work : fate[i] # "lost" /\ fate'[i] = "lost" => Forced(i)]_vars
  BY <1>1
<1> QED BY <1>2, TypeCorrect, PlaceCorrect, PTL DEF Spec, WorkLostOnlyByForce

-----------------------------------------------------------------------------
(***************************************************************************)
(* The refinement of RuntimeWindow.                                        *)
(***************************************************************************)
\* What the refinement mapping makes of a step that loses only live items: it is allowed
\* wherever the abstract specification lets items be lost.
LEMMA MappedLoss ==
  ASSUME TypeOK', \A i \in SystemItems : fate'[i] # fate[i] => fate[i] = "live" /\ fate'[i] = "lost"
  PROVE  /\ SystemFate' \in [SystemItems -> {"new", "live", "done", "lost"}]
         /\ Window!MayLose
<1>1. \A i \in SystemItems : i \in Work
  BY DEF Work
<1>2. SystemFate' \in [SystemItems -> {"new", "live", "done", "lost"}]
  BY <1>1 DEF SystemFate, TypeOK, PoolTypeOK
<1>3. \A i \in SystemItems : SystemFate'[i] = fate'[i] /\ SystemFate[i] = fate[i]
  BY DEF SystemFate
<1> QED BY <1>2, <1>3 DEF Window!MayLose

\* A step that neither moves the window nor touches system work is invisible.
LEMMA MappedStutter ==
  ASSUME UNCHANGED WindowPhase, \A i \in SystemItems : fate'[i] = fate[i]
  PROVE  UNCHANGED <<WindowPhase, SystemFate>>
BY DEF SystemFate

\* Going to sleep begins the closing of the window, or happens after the pool is down.
LEMMA MappedSleep ==
  ASSUME TypeOK, TypeOK', PlaceInv, LockTaken, runtime_state # SLEEP, NEW by \in Actor,
         \/ EnterSleep(by, queue["user"], {})
         \/ EnterSleep(by, <<>>, ToSet(queue["user"])),
         PoolUp' = PoolUp
  PROVE  Window!Next
<1>1. \A i \in SystemItems : fate'[i] # fate[i] => fate[i] = "live" /\ fate'[i] = "lost"
  <2> SUFFICES ASSUME NEW i \in SystemItems, fate'[i] # fate[i]
               PROVE  fate[i] = "live" /\ fate'[i] = "lost"
    OBVIOUS
  <2>1. i \in Work /\ queue["user"] \in Seq(Item) /\ <<>> \in Seq(Item)
    BY EmptySeq DEF Work, TypeOK, PoolTypeOK, Type
  <2>2. i \notin ToSet(queue["user"])
    <3>1. DOMAIN queue["user"] = 1..Len(queue["user"])
      BY <2>1, LenProperties
    <3>2. i \in ToSet(queue["user"]) => Contains(queue["user"], i)
      BY <3>1 DEF Contains, ToSet
    <3>3. "user" \in Type /\ ItemType(i) # "user"
      BY PoolAssumption DEF Type, ItemType
    <3> QED BY <2>1, <3>2, <3>3 DEF PlaceInv, KindInv
  <2>3. \A d, q : q \in {queue["user"], <<>>} /\ q \in Seq(Item) /\ EnterSleep(by, q, d) =>
                    fate'[i] = "lost" /\ (i \in d \/ fate[i] = "live")
    BY <2>1, LostAsleep
  <2>4. CASE EnterSleep(by, queue["user"], {})
    BY <2>1, <2>3, <2>4
  <2>5. CASE EnterSleep(by, <<>>, ToSet(queue["user"]))
    BY <2>1, <2>2, <2>3, <2>5
  <2> QED BY <2>4, <2>5
<1>2. /\ SystemFate' \in [SystemItems -> {"new", "live", "done", "lost"}]
      /\ Window!MayLose
  BY <1>1, MappedLoss
<1>3. sleepBy = "none" /\ sleepBy' = by /\ by # "none"
  BY DEF LockTaken, EnterSleep, Actor
<1>4. CASE PoolUp
  <2>1. WindowPhase = runtime_state /\ WindowPhase' = "CLOSING"
    BY <1>3, <1>4 DEF WindowPhase
  <2>2. runtime_state \in Window!Open \cup {"GRACE_PERIOD"}
    BY DEF TypeOK, RuntimeState, Active, SLEEP, GRACE, Window!Open
  <2> QED BY <1>2, <2>1, <2>2 DEF Window!Next, Window!BeginClose
<1>5. CASE ~PoolUp
  BY <1>2, <1>5 DEF WindowPhase, Window!Next, Window!ShutDown
<1> QED BY <1>4, <1>5

\* A handler returns: system work completes, and only inside a window.
LEMMA MappedFinish ==
  ASSUME TypeOK, LockInv, SleepInv, PlaceInv, NEW w \in Workers, FinishHandler(w), UNCHANGED rtVars
  PROVE  Window!Next \/ UNCHANGED <<WindowPhase, SystemFate>>
<1>1. UNCHANGED WindowPhase /\ PoolUp
  BY DEF FinishHandler, CanRun, LockInv, WindowPhase, PoolUp, rtVars
<1>2. \A i \in Work : fate'[i] = IF i = item[w] THEN "done" ELSE fate[i]
  BY DEF FinishHandler
<1>3. \A i \in SystemItems : i \in Work
  BY DEF Work
<1>4. CASE item[w] \notin SystemItems
  BY <1>1, <1>2, <1>3, <1>4, MappedStutter
<1>5. CASE item[w] \in SystemItems
  <2> DEFINE x == item[w]
  <2>1. fate[x] = "live" /\ TypeOf(w) = "system"
    <3>1. Holds(w, x) /\ x \in Work /\ x \notin UserItems
      BY <1>3, <1>5, PoolAssumption DEF Holds
    <3> QED BY <3>1 DEF PlaceInv, KindInv, OnePlace, ItemType
  <2>2. w \in SystemWorkers
    BY <2>1 DEF TypeOf, Workers
  <2>3. WindowPhase \notin {"SLEEP", "OFF"}
    BY <1>1, <2>2 DEF FinishHandler, CanRun, SleepInv, SystemPoolSleeps, WindowPhase, PoolUp,
       SLEEP, TypeOK, RuntimeState, Active, GRACE
  <2>4. SystemFate' = [SystemFate EXCEPT ![x] = "done"] /\ SystemFate[x] = "live"
    BY <1>2, <1>3, <1>5, <2>1 DEF SystemFate
  <2> QED BY <1>1, <1>5, <2>3, <2>4 DEF Window!Next, Window!Complete
<1> QED BY <1>4, <1>5

\* schedule_system_work returning true accepts the item, or drops it while the window closes.
LEMMA MappedSchedule ==
  ASSUME TypeOK, NEW x \in Work, Schedule(x)
  PROVE  Window!Next \/ UNCHANGED <<WindowPhase, SystemFate>>
<1>1. /\ fate[x] = "new" /\ main = "run"
      /\ UNCHANGED <<runtime_state, sleepBy, main>>
  BY DEF Schedule, UnchangedByCall
<1>2. UNCHANGED WindowPhase /\ WindowPhase # "OFF"
  BY <1>1 DEF WindowPhase, PoolUp, TypeOK, RuntimeState, Active, SLEEP, GRACE
<1>3. \/ fate' = [fate EXCEPT ![x] = "live"]
      \/ fate' = [fate EXCEPT ![x] = "lost"] /\ WindowPhase = "CLOSING"
  BY <1>1 DEF Schedule, LockTimedOut, WindowPhase, PoolUp
<1>4. CASE x \notin SystemItems
  <2>1. \A i \in SystemItems : fate'[i] = fate[i]
    BY <1>3, <1>4 DEF TypeOK, PoolTypeOK, Work
  <2> QED BY <1>2, <2>1, MappedStutter
<1>5. CASE x \in SystemItems
  <2>1. \A i \in SystemItems : i \in Work
    BY DEF Work
  <2>2. SystemFate[x] = "new"
    BY <1>1, <1>5 DEF SystemFate
  <2>3. \/ SystemFate' = [SystemFate EXCEPT ![x] = "live"]
        \/ SystemFate' = [SystemFate EXCEPT ![x] = "lost"] /\ WindowPhase = "CLOSING"
    BY <1>3, <2>1 DEF SystemFate, TypeOK, PoolTypeOK
  <2> QED BY <1>2, <1>5, <2>2, <2>3 DEF Window!Next, Window!Accept
<1> QED BY <1>4, <1>5

\* Recovery: the transition to SLEEP kills handlers of either type while the window
\* closes, the watchdog only user handlers.
LEMMA MappedRecovery ==
  ASSUME TypeOK, TypeOK', LockInv, SleepInv, PlaceInv, SleepRecover \/ HardRecover
  PROVE  Window!Next \/ UNCHANGED <<WindowPhase, SystemFate>>
<1>1. UNCHANGED WindowPhase /\ PoolUp
  BY DEF SleepRecover, HardRecover, UnchangedByWatchdog, LockInv, WindowPhase, PoolUp
<1>2. \A i \in SystemItems : i \in Work
  BY DEF Work
<1>3. CASE SleepRecover
  <2>1. sleepBy \in Actor /\ RecoverVictims(sleepBy) /\ WindowPhase = "CLOSING"
    BY <1>1, <1>3 DEF SleepRecover, TypeOK, WindowPhase
  <2>2. \A i \in SystemItems : fate'[i] # fate[i] => fate[i] = "live" /\ fate'[i] = "lost"
    BY <1>2, <2>1, LostByRecovery
  <2> QED BY <1>1, <2>1, <2>2, MappedLoss DEF Window!Next, Window!Kill
<1>4. CASE HardRecover
  <2>1. "timer" \in Actor /\ RecoverVictims("timer") /\ victims["timer"] \subseteq UserWorkers
    BY <1>4 DEF HardRecover, RecoverStalledWorker, Actor, SleepInv
  <2>2. ASSUME NEW i \in SystemItems, fate'[i] # fate[i] PROVE FALSE
    <3>1. PICK w \in victims["timer"] : w \in Workers /\ item[w] = i
      BY <1>2, <2>1, <2>2, LostByRecovery
    <3>2. TypeOf(w) = "user" /\ i \notin UserItems
      BY <2>1, <3>1, PoolAssumption DEF TypeOf
    <3> QED BY <1>2, <3>1, <3>2 DEF PlaceInv, KindInv, Holds, ItemType
  <2> QED BY <1>1, <2>2, MappedStutter
<1> QED BY <1>3, <1>4

\* The callbacks that open a window, begin its curfew or close it.
LEMMA MappedCallback ==
  ASSUME TypeOK, TypeOK', LockInv, PlaceInv,
         \/ work_window_expiry_cb \/ grace_period_expiry_cb
         \/ curfew_settlement_expiry_cb \/ start_work_cb
  PROVE  Window!Next \/ UNCHANGED <<WindowPhase, SystemFate>>
<1>1. UNCHANGED main /\ PoolUp' = PoolUp
  BY DEF work_window_expiry_cb, grace_period_expiry_cb, curfew_settlement_expiry_cb,
     start_work_cb, UnchangedByWindow, PoolUp
<1>2. ASSUME UNCHANGED <<fate, runtime_state, sleepBy>>
      PROVE  UNCHANGED <<WindowPhase, SystemFate>>
  BY <1>1, <1>2 DEF WindowPhase, SystemFate
<1>3. ASSUME LockTaken, runtime_state \in Active, runtime_manager_begin_curfew_unsafe
      PROVE  Window!Next \/ UNCHANGED <<WindowPhase, SystemFate>>
  <2>1. runtime_state # SLEEP /\ "timer" \in Actor
    BY <1>3 DEF Active, SLEEP, Actor
  <2>2. CASE EnterSleep("timer", queue["user"], {})
    BY <1>1, <1>3, <2>1, <2>2, MappedSleep
  <2>3. CASE runtime_state' = GRACE /\ UNCHANGED <<fate, sleepBy>>
    BY <1>1, <1>3, <2>3 DEF WindowPhase, SystemFate, LockTaken, GRACE, Active, Window!Next,
       Window!Curfew, Window!Open
  <2> QED BY <1>3, <2>2, <2>3 DEF runtime_manager_begin_curfew_unsafe
<1>4. CASE work_window_expiry_cb
  BY <1>2, <1>3, <1>4 DEF work_window_expiry_cb, CallbackDone
<1>5. CASE grace_period_expiry_cb
  <2>1. GRACE # SLEEP /\ "timer" \in Actor
    BY DEF GRACE, SLEEP, Actor
  <2> QED BY <1>1, <1>2, <1>5, <2>1, MappedSleep DEF grace_period_expiry_cb, CallbackDone
<1>6. CASE curfew_settlement_expiry_cb
  <2>1. GRACE # SLEEP /\ "timer" \in Actor
    BY DEF GRACE, SLEEP, Actor
  <2> QED BY <1>1, <1>2, <1>3, <1>6, <2>1, MappedSleep
        DEF curfew_settlement_expiry_cb, CallbackDone
<1>7. CASE start_work_cb
  <2>1. CASE LockTaken /\ runtime_state = SLEEP /\ runtime_state' = work_state
    <3>1. UNCHANGED <<fate, sleepBy>> /\ sleepBy = "none"
      BY <1>7, <2>1 DEF start_work_cb, LockTaken
    <3> QED BY <1>1, <2>1, <3>1 DEF WindowPhase, SystemFate, SLEEP, Active, TypeOK, Window!Next,
          Window!OpenWindow, Window!Open
  <2>2. CASE UNCHANGED runtime_state
    BY <1>2, <1>7, <2>2 DEF start_work_cb
  <2> QED BY <1>7, <2>1, <2>2 DEF start_work_cb
<1> QED BY <1>4, <1>5, <1>6, <1>7

\* The shutdown takes the window to OFF once and for all.
LEMMA MappedShutdown ==
  ASSUME TypeOK, TypeOK', LockInv, PlaceInv, Shutdown
  PROVE  Window!Next \/ UNCHANGED <<WindowPhase, SystemFate>>
<1>1. CASE BeginShutdown \/ AwaitShutdown
  BY <1>1 DEF BeginShutdown, AwaitShutdown, poolVars, WindowPhase, SystemFate, PoolUp
<1>2. CASE ForceSleep
  <2>1. PoolUp /\ PoolUp'
    BY <1>2 DEF ForceSleep, PoolUp
  <2>2. CASE LockTaken /\ runtime_state # SLEEP /\ EnterSleep("main", queue["user"], {})
    BY <2>1, <2>2, MappedSleep DEF Actor
  <2>3. CASE UNCHANGED <<fate, runtime_state, sleepBy>>
    BY <2>1, <2>3 DEF WindowPhase, SystemFate
  <2> QED BY <1>2, <2>2, <2>3 DEF ForceSleep
<1>3. \A i \in SystemItems : i \in Work
  BY DEF Work
<1>4. CASE StopPool
  <2>1. \A i \in SystemItems : fate'[i] # fate[i] => fate[i] = "live" /\ fate'[i] = "lost"
    <3> SUFFICES ASSUME NEW i \in SystemItems, fate'[i] # fate[i]
                 PROVE  fate[i] = "live" /\ fate'[i] = "lost"
      OBVIOUS
    <3>1. fate'[i] = "lost" /\ \E w \in Workers : item[w] = i
      BY <1>3, <1>4 DEF StopPool, PoolDeinit, LoseItems, HeldBy
    <3> QED BY <1>3, <3>1 DEF PlaceInv, OnePlace, Holds
  <2>2. WindowPhase' = "OFF"
    BY <1>4 DEF StopPool, WindowPhase, PoolUp
  <2> QED BY <2>1, <2>2, MappedLoss DEF Window!Next, Window!ShutDown
<1>5. CASE ReleaseRuntime
  <2>1. \A i \in SystemItems : fate'[i] # fate[i] => fate[i] = "live" /\ fate'[i] = "lost"
    <3> SUFFICES ASSUME NEW i \in SystemItems, fate'[i] # fate[i]
                 PROVE  fate[i] = "live" /\ fate'[i] = "lost"
      OBVIOUS
    <3>1. fate'[i] = "lost" /\ \E t \in Type : i \in ToSet(queue[t]) \cup ToSet(pending[t])
      BY <1>3, <1>5 DEF ReleaseRuntime, LoseItems
    <3>2. PICK t \in Type : i \in ToSet(queue[t]) \cup ToSet(pending[t])
      BY <3>1
    <3>3. DOMAIN queue[t] = 1..Len(queue[t]) /\ DOMAIN pending[t] = 1..Len(pending[t])
      BY LenProperties DEF TypeOK, PoolTypeOK
    <3>4. Contains(queue[t], i) \/ Contains(pending[t], i)
      BY <3>2, <3>3 DEF Contains, ToSet
    <3> QED BY <1>3, <3>1, <3>4 DEF PlaceInv, KindInv, OnePlace
  <2>2. WindowPhase' = "OFF"
    BY <1>5 DEF ReleaseRuntime, WindowPhase, PoolUp
  <2> QED BY <2>1, <2>2, MappedLoss DEF Window!Next, Window!ShutDown
<1> QED BY <1>1, <1>2, <1>4, <1>5 DEF Shutdown

\* The runtime manager implements RuntimeWindow for every pool and every set of work:
\* its tasks, queues, timers and lock are invisible to a component that hands it system
\* work, which completes only inside a window and is lost only when one closes or at
\* shutdown.
THEOREM RuntimeImplementsWindow == Spec => ImplementsWindow
<1>1. Init => Window!Init
  BY DEF Init, PoolInit, Window!Init, WindowPhase, SystemFate, PoolUp, SLEEP, Work
<1>2. ASSUME TypeOK, TypeOK', LockInv, SleepInv, PlaceInv, [Next]_vars
      PROVE  Window!Next \/ UNCHANGED <<WindowPhase, SystemFate>>
  <2>1. ASSUME UNCHANGED <<fate, runtime_state, sleepBy, main>>
        PROVE  UNCHANGED <<WindowPhase, SystemFate>>
    BY <2>1 DEF WindowPhase, SystemFate, PoolUp
  <2>2. CASE UNCHANGED vars
    BY <2>1, <2>2 DEF vars, poolVars, rtVars
  <2>3. ASSUME NEW w \in Workers, WorkerStep(w)
        PROVE  Window!Next \/ UNCHANGED <<WindowPhase, SystemFate>>
    <3>1. CASE FinishHandler(w) /\ UNCHANGED rtVars
      BY <1>2, <3>1, MappedFinish
    <3>2. CASE ~(FinishHandler(w) /\ UNCHANGED rtVars)
      BY <2>1, <2>3, <3>2 DEF WorkerStep, PoolStep, Receive, Count, ArmWatchdog, StartHandler,
         StopWatchdog, Uncount, ResetSettlement, EvaluateLast, rtVars, UnchangedByWorker
    <3> QED BY <3>1, <3>2
  <2>4. CASE SleepTransition
    <3>1. CASE SleepCheck \/ SleepExchange
      BY <2>1, <3>1 DEF SleepCheck, SleepExchange
    <3>2. CASE SleepRecover
      BY <1>2, <3>2, MappedRecovery
    <3>3. CASE SleepSuspend
      <4>1. PoolUp /\ PoolUp' /\ sleepBy # "none" /\ sleepBy' = "none" /\ UNCHANGED fate
        BY <1>2, <3>3 DEF SleepSuspend, LockInv, PoolUp
      <4>2. WindowPhase = "CLOSING" /\ WindowPhase' = "SLEEP"
        BY <1>2, <3>3, <4>1 DEF WindowPhase, LockInv, SleepSuspend, SLEEP
      <4> QED BY <4>1, <4>2 DEF SystemFate, Window!Next, Window!EndClose
    <3> QED BY <2>4, <3>1, <3>2, <3>3 DEF SleepTransition
  <2>5. CASE TimerCallback
    <3>1. CASE SoftAbort \/ HardAbort
      BY <2>1, <3>1 DEF SoftAbort, HardAbort, worker_soft_abort_cb, worker_hard_abort_cb,
         FailAssertion, UnchangedByWatchdog
    <3> QED BY <1>2, <2>5, <3>1, MappedCallback, MappedRecovery DEF TimerCallback
  <2>6. CASE Expire
    BY <2>1, <2>6 DEF Expire, ExpireWindowTimer, ExpireTick, ExpireSoft, ExpireHard,
       UnchangedByDispatch
  <2>7. CASE Call
    <3>1. ASSUME NEW x \in Work, Schedule(x)
          PROVE  Window!Next \/ UNCHANGED <<WindowPhase, SystemFate>>
      BY <1>2, <3>1, MappedSchedule
    <3>2. ASSUME NEW h \in Hooks,
                 runtime_manager_register_hook(h) \/ runtime_manager_unregister_hook(h)
          PROVE  UNCHANGED <<WindowPhase, SystemFate>>
      BY <2>1, <3>2 DEF runtime_manager_register_hook, runtime_manager_unregister_hook,
         UnchangedByCall
    <3>3. ASSUME NEW s \in Active, SetActiveState(s) PROVE UNCHANGED <<WindowPhase, SystemFate>>
      BY <2>1, <3>3 DEF SetActiveState, UnchangedByCall
    <3> QED BY <2>7, <3>1, <3>2, <3>3 DEF Call
  <2>8. CASE Shutdown
    BY <1>2, <2>8, MappedShutdown
  <2> QED BY <1>2, <2>2, <2>3, <2>4, <2>5, <2>6, <2>7, <2>8 DEF Next
<1>3. TypeOK /\ TypeOK' /\ LockInv /\ SleepInv /\ PlaceInv /\ [Next]_vars
        => [Window!Next]_<<WindowPhase, SystemFate>>
  BY <1>2
<1> QED BY <1>1, <1>3, TypeCorrect, LockCorrect, SleepCorrect, PlaceCorrect, PTL
      DEF Spec, ImplementsWindow, Window!Spec

-----------------------------------------------------------------------------
\* The inductive core of the runtime manager for every number of workers, items and
\* hooks: types, lock, exact worker count, watchdog, the sleep of the pool and the one
\* place of every item.
THEOREM RuntimeInvCorrect == Spec => []RuntimeInv
<1>1. TypeOK /\ LockInv /\ ActiveWorkersExact /\ WatchInv /\ SleepInv /\ PlaceInv => RuntimeInv
  BY DEF RuntimeInv
<1> QED BY <1>1, TypeCorrect, LockCorrect, ActiveWorkersCorrect, WatchCorrect, SleepCorrect,
      PlaceCorrect, PTL

=============================================================================
