---------------------------- MODULE AlarmManager ----------------------------
(***************************************************************************)
(* The alarm manager (alarm_manager.c) and the time synchronisation of the *)
(* state manager that revalidates the alarms.                              *)
(*                                                                         *)
(* The alarms live in RTC memory, ordered by epoch, and survive deep       *)
(* sleep; one esp_timer is armed for the first of them.  Three tasks use   *)
(* the list: the UI task (create, delete, edit), the esp_timer task (an    *)
(* alarm fires) and the BLE task (the time is synchronised).  alarm_mutex  *)
(* makes every locked section one step; an edit is four of them, and the   *)
(* other tasks act in between.  The sections only touch memory, so the     *)
(* 100 ms a task waits for the mutex are taken never to pass.              *)
(*                                                                         *)
(* An alarm is its epoch: the list holds no two alarms of the same epoch.  *)
(***************************************************************************)
EXTENDS Integers, Sequences, FiniteSets, SequencesExt, TLC

CONSTANTS
  MaxAlarms,   \* MAX_WATCH_ALARMS
  Buffer,      \* ALARM_BUFFER_SEC
  Horizon,     \* the 31536000 seconds an alarm may lie ahead
  MaxEpoch,    \* bound on the epochs of alarms and of the clock
  MaxSyncs     \* bound on how often the clock is set

ASSUME AlarmAssumption ==
  /\ MaxAlarms \in Nat \ {0} /\ Buffer \in Nat \ {0} /\ Horizon \in Nat
  /\ MaxEpoch \in Nat /\ MaxSyncs \in Nat

Epoch == 1..MaxEpoch
NoTime == 0                     \* state_manager_get_epoch_time before the first sync
Off == -1                       \* no time left to run: the timer is stopped
NoEdit == [step |-> "idle", index |-> 0, old |-> NoTime, new |-> NoTime]

VARIABLES
  alarms,     \* alarms[0..n_alarms-1]
  clock,      \* state_manager_get_epoch_time
  left,       \* seconds until alarm_timer expires, or Off
  firing,     \* alarm_fired_cb has been dispatched
  edit,       \* where the UI task is in alarm_manager_edit_alarm
  revalidate, \* the clock has been set, the alarms are not yet revalidated
  syncs       \* how often the clock has been set

vars == <<alarms, clock, left, firing, edit, revalidate, syncs>>

TypeOK ==
  /\ alarms \in Seq(Epoch)
  /\ clock \in Epoch \cup {NoTime}
  /\ left \in Int /\ left >= Off
  /\ firing \in BOOLEAN
  /\ edit \in [step : {"idle", "delete", "create", "rollback"},
               index : Nat, old : Epoch \cup {NoTime}, new : Epoch \cup {NoTime}]
  /\ revalidate \in BOOLEAN
  /\ syncs \in 0..MaxSyncs

\* Cold boot: the state manager has wiped the alarms and the time is not valid.
Init ==
  /\ alarms = <<>>
  /\ clock = NoTime
  /\ left = Off
  /\ firing = FALSE
  /\ edit = NoEdit
  /\ revalidate = FALSE
  /\ syncs = 0

-----------------------------------------------------------------------------
(***************************************************************************)
(* The list.                                                               *)
(***************************************************************************)
\* An alarm at epoch e is already due, or too close to be worth keeping.
Expired(e, now) == e <= now + Buffer

\* discard_expired_alarms: the expired alarms at the front of the list go.
Discarded(s, now, t) ==
  \E k \in 0..Len(s) :
    /\ \A i \in 1..k : Expired(s[i], now)
    /\ k < Len(s) => ~Expired(s[k + 1], now)
    /\ t = SubSeq(s, k + 1, Len(s))

\* Mutant: the timer is armed for the difference, also when it is negative.
TimeoutUnchecked(s, now) == s[1] - now

\* schedule_next_alarm_internal for the list s: the seconds the timer is armed for.
NextTimeout(s, now) == IF s[1] > now + Buffer THEN s[1] - now ELSE Buffer

\* The timer after a change of the first alarm: armed for the new first one, or stopped.
Rearm(s, now) == IF s = <<>> THEN Off ELSE NextTimeout(s, now)

\* Mutant: no search for an alarm of the same epoch.
AcceptDuplicates(e) ==
  /\ e > clock + Buffer
  /\ e - clock <= Horizon
  /\ Len(alarms) = MaxAlarms => e < alarms[MaxAlarms]

\* A new alarm is refused when it is too close, too far ahead, there already, or
\* behind a full list.
Acceptable(e) ==
  /\ e > clock + Buffer
  /\ e - clock <= Horizon
  /\ \A i \in 1..Len(alarms) : alarms[i] # e
  /\ Len(alarms) = MaxAlarms => e < alarms[MaxAlarms]

\* A full list makes room by giving up its latest alarm.
Kept == SubSeq(alarms, 1, IF Len(alarms) = MaxAlarms THEN MaxAlarms - 1 ELSE Len(alarms))

\* alarm_manager_create_alarm, accepting e: the insertion loop stops behind position k,
\* and a new first alarm re-arms the timer.
InsertAlarm(e) ==
  /\ Acceptable(e)
  /\ \E k \in 0..Len(Kept) :
       /\ k > 0 => Kept[k] <= e
       /\ \A i \in (k + 1)..Len(Kept) : Kept[i] > e
       /\ alarms' = InsertAt(Kept, k + 1, e)
       /\ left' = IF k = 0 THEN NextTimeout(<<e>>, clock) ELSE left

\* Mutant: deleting the first alarm leaves the timer as it is.
DeleteKeepsTimer(i) ==
  /\ i \in 1..Len(alarms)
  /\ alarms' = RemoveAt(alarms, i)
  /\ UNCHANGED left

\* alarm_manager_delete_alarm at a valid index (1-based here)
DeleteAt(i) ==
  /\ i \in 1..Len(alarms)
  /\ alarms' = RemoveAt(alarms, i)
  /\ left' = IF i = 1 THEN Rearm(Tail(alarms), clock) ELSE left

-----------------------------------------------------------------------------
(***************************************************************************)
(* The UI task.  A call that is refused changes nothing.                   *)
(***************************************************************************)
alarm_manager_create_alarm(e) ==
  /\ edit.step = "idle"
  /\ InsertAlarm(e)
  /\ UNCHANGED <<clock, firing, edit, revalidate, syncs>>

alarm_manager_delete_alarm(i) ==
  /\ edit.step = "idle"
  /\ DeleteAt(i)
  /\ UNCHANGED <<clock, firing, edit, revalidate, syncs>>

\* alarm_manager_edit_alarm: the old alarm is copied under the mutex, ...
BeginEdit(i, e) ==
  /\ edit.step = "idle"
  /\ i \in 1..Len(alarms)
  /\ edit' = [step |-> "delete", index |-> i, old |-> alarms[i], new |-> e]
  /\ UNCHANGED <<alarms, clock, left, firing, revalidate, syncs>>

\* ... the alarm now at its index is deleted, ...
EditDelete ==
  /\ edit.step = "delete"
  /\ \/ DeleteAt(edit.index) /\ edit' = [edit EXCEPT !.step = "create"]
     \/ edit.index > Len(alarms) /\ edit' = NoEdit /\ UNCHANGED <<alarms, left>>
  /\ UNCHANGED <<clock, firing, revalidate, syncs>>

\* ... the new one is created, ...
EditCreate ==
  /\ edit.step = "create"
  /\ \/ InsertAlarm(edit.new) /\ edit' = NoEdit
     \/ /\ ~Acceptable(edit.new)
        /\ edit' = [edit EXCEPT !.step = "rollback"]
        /\ UNCHANGED <<alarms, left>>
  /\ UNCHANGED <<clock, firing, revalidate, syncs>>

\* ... or, if it is refused, the old one again.
EditRollback ==
  /\ edit.step = "rollback"
  /\ edit' = NoEdit
  /\ \/ InsertAlarm(edit.old)
     \/ ~Acceptable(edit.old) /\ UNCHANGED <<alarms, left>>
  /\ UNCHANGED <<clock, firing, revalidate, syncs>>

-----------------------------------------------------------------------------
(***************************************************************************)
(* The esp_timer task.                                                     *)
(***************************************************************************)
\* alarm_timer expires.  A stop from now on does not recall the callback.
Expire ==
  /\ left = 0 /\ ~firing
  /\ left' = Off
  /\ firing' = TRUE
  /\ UNCHANGED <<alarms, clock, edit, revalidate, syncs>>

\* Mutant: the timer is not armed for the next alarm.
FireWithoutRearm ==
  /\ firing
  /\ firing' = FALSE
  /\ alarms' = IF alarms = <<>> THEN alarms ELSE Tail(alarms)
  /\ UNCHANGED <<clock, left, edit, revalidate, syncs>>

\* alarm_fired_cb: the first alarm goes, the timer is armed for the next one.
alarm_fired_cb ==
  /\ firing
  /\ firing' = FALSE
  /\ IF alarms = <<>> THEN UNCHANGED <<alarms, left>>
     ELSE /\ alarms' = Tail(alarms)
          /\ left' = IF Tail(alarms) = <<>> THEN left ELSE NextTimeout(Tail(alarms), clock)
  /\ UNCHANGED <<clock, edit, revalidate, syncs>>

-----------------------------------------------------------------------------
(***************************************************************************)
(* Time.                                                                   *)
(***************************************************************************)
\* A second passes.  The timer is dispatched within the second it expires in.  Before the
\* first synchronisation the clock stands still while the timer counts.
Second ==
  /\ left # 0
  /\ clock' = IF clock \in {NoTime, MaxEpoch} THEN clock ELSE clock + 1
  /\ left' = IF left > 0 THEN left - 1 ELSE left
  /\ UNCHANGED <<alarms, firing, edit, revalidate, syncs>>

\* update_time_state_cb sets the clock, forwards or backwards, ...
SetClock(e) ==
  /\ ~revalidate /\ syncs < MaxSyncs
  /\ clock' = e
  /\ revalidate' = TRUE
  /\ syncs' = syncs + 1
  /\ UNCHANGED <<alarms, left, firing, edit>>

\* ... and then revalidates the alarms.
alarm_manager_revalidate ==
  /\ revalidate
  /\ revalidate' = FALSE
  /\ Discarded(alarms, clock, alarms')
  /\ left' = Rearm(alarms', clock)
  /\ UNCHANGED <<clock, firing, edit, syncs>>

\* qsort by compare_alarms
Sorted(s) ==
  IF \A i \in 1..(Len(s) - 1) : s[i] <= s[i + 1] THEN s ELSE SortSeq(s, LAMBDA a, b : a < b)

(***************************************************************************)
(* Deep sleep until epoch e: alarm_manager_deinit, after the UI and BLE    *)
(* tasks have stopped, and alarm_manager_init on the retained list.  A     *)
(* callback that was under way finds no mutex and does nothing.            *)
(***************************************************************************)
DeepSleep(e) ==
  /\ edit.step = "idle" /\ ~revalidate
  /\ e >= clock /\ clock # NoTime
  /\ clock' = e
  /\ Discarded(Sorted(alarms), e, alarms')
  /\ left' = Rearm(alarms', e)
  /\ firing' = FALSE
  /\ UNCHANGED <<edit, revalidate, syncs>>

\* Deep sleep before the first synchronisation: state_manager_init wipes the state, and
\* the alarms with it.
DeepSleepWithoutTime ==
  /\ edit.step = "idle" /\ ~revalidate
  /\ clock = NoTime
  /\ alarms' = <<>> /\ left' = Off /\ firing' = FALSE
  /\ UNCHANGED <<clock, edit, revalidate, syncs>>

-----------------------------------------------------------------------------
Ui ==
  \/ \E e \in Epoch : alarm_manager_create_alarm(e)
  \/ \E i \in 1..MaxAlarms : alarm_manager_delete_alarm(i)
  \/ \E i \in 1..MaxAlarms, e \in Epoch : BeginEdit(i, e)
  \/ EditDelete \/ EditCreate \/ EditRollback

Next ==
  \/ Ui
  \/ Expire \/ alarm_fired_cb \/ Second \/ alarm_manager_revalidate
  \/ \E e \in Epoch : SetClock(e) \/ DeepSleep(e)
  \/ DeepSleepWithoutTime

Spec == Init /\ [][Next]_vars

-----------------------------------------------------------------------------
\* The list stays ordered and within its array, although edits and callbacks work on
\* indices and positions that other tasks have shifted: schedule_next_alarm_internal
\* and discard_expired_alarms rely on it.
AlarmsSorted ==
  /\ Len(alarms) <= MaxAlarms
  /\ \A i, j \in 1..Len(alarms) : i < j => alarms[i] < alarms[j]

\* While there are alarms the timer runs, or its callback is on its way; and once the
\* alarms are revalidated it is armed for the first of them: never early, and late by
\* no more than the buffer.  Before the first synchronisation, when the clock stands at
\* zero and alarms of the first year are accepted, the first alarm waits no longer than
\* the seconds of its epoch, however many of them had passed when it became the first.
TimerMatchesFirstAlarm ==
  alarms # <<>> =>
    /\ left # Off \/ firing
    /\ left # Off /\ ~revalidate =>
         \/ clock = NoTime /\ (left <= alarms[1] \/ left <= Buffer)
         \/ /\ clock # NoTime
            /\ left >= alarms[1] - clock /\ (left <= alarms[1] - clock \/ left <= Buffer)
         \/ clock = MaxEpoch

\* The inductive invariant: the timer is armed from the first alarm, which is the
\* earliest only in an ordered list (alarm_manager.c, through every interleaving of
\* edit, callback and sync, before and after the clock is first set).
AlarmInv == TypeOK /\ AlarmsSorted /\ TimerMatchesFirstAlarm

(***************************************************************************)
(* Time passes, the esp_timer task dispatches an expired timer and runs    *)
(* its callback, the BLE task finishes a synchronisation it has begun.     *)
(* The UI task owes nothing.                                               *)
(***************************************************************************)
Fairness ==
  /\ WF_vars(Second) /\ WF_vars(Expire) /\ SF_vars(alarm_fired_cb)
  /\ WF_vars(alarm_manager_revalidate)

FairSpec == Spec /\ Fairness

\* A new alarm enters the list while the clock stands at zero.
CreatedWithoutTime == clock = NoTime /\ ~(ToSet(alarms') \subseteq ToSet(alarms))

\* No alarm is forgotten: whatever the list goes through, deep sleep and changes of the
\* clock included, an alarm in it fires or is removed in the end (alarm_fired_cb arms the
\* timer for the next one).  The one exception: before the first synchronisation earlier
\* alarms can be created for ever, since the clock they are measured by stands still.
AlarmsSettle ==
  \A e \in Epoch :
    \/ e \in ToSet(alarms) ~> e \notin ToSet(alarms)
    \/ []<><<CreatedWithoutTime>>_vars
=============================================================================
