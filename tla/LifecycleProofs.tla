--------------------------- MODULE LifecycleProofs ---------------------------
(***************************************************************************)
(* Proofs about Lifecycle, for every size of queue, table and image, every *)
(* set of values and any number of workers: the IR task can always be      *)
(* stopped and every payload has an owner, the update keeps the watch awake, *)
(* there is always an image to boot, a work tick reaches whoever stays     *)
(* subscribed, a setting is where its last write is, and host and watch are *)
(* at the same block.                                                      *)
(***************************************************************************)
EXTENDS Lifecycle, TLAPS, FiniteSetTheorems, SequenceTheorems, FunctionTheorems

USE DEF evars, irvars, svars, ovars, mvars

-----------------------------------------------------------------------------
(* Which steps leave the IR driver alone                                   *)

\* Every step but those named leaves the IR driver as it is and does not
\* switch the watch off.
LEMMA IrFrame ==
  ASSUME [Next]_vars, ~Boot, ~Restart, ~SendIr, ~TransmitIr, ~StopIr
  PROVE  UNCHANGED irvars /\ (main' = "off" => main = "off")
<1>1. CASE UNCHANGED vars
  BY <1>1 DEF vars
<1>2. CASE MarkFirmwareValid
  BY <1>2 DEF MarkFirmwareValid
<1>3. CASE Others
  BY <1>3 DEF Others, WorkTick, Walk, UserSets, dfu_update_start_handler, Workers, ReadImu
<1>4. CASE Shutdown
  BY <1>4 DEF Shutdown, TakeNotification, StopUi, StopRuntime, Unsubscribe, Unsubscribed, StopTick,
              StopStorage, StopPower, StopEvents
<1>5. CASE WatchUpdates \/ HostUpdates
  BY <1>5 DEF WatchUpdates, HostUpdates
<1> QED
  BY <1>1, <1>2, <1>3, <1>4, <1>5 DEF Next

\* A queue of the IR driver that takes the poison, or is too full to, is not
\* empty.
LEMMA PoisonWakes ==
  ASSUME NEW q \in Seq({"packet", "poison"})
  PROVE  Poisoned(q) \in Seq({"packet", "poison"}) /\ Poisoned(q) # <<>>
BY IrAssumption DEF Poisoned

\* What is sent is in the queue.
LEMMA PacketQueued ==
  ASSUME NEW q \in Seq({"packet", "poison"})
  PROVE  Append(q, "packet") \in Seq({"packet", "poison"}) /\ Append(q, "packet") # <<>>
OBVIOUS

\* Nothing runs when the watch is off.
LEMMA IrInvInit == Init => IrInv
BY DEF Init, IrInit, IrOff, IrInv, IrTaskStops

\* Whoever raises the flag also queues a message or finds one.
LEMMA IrInvNext ==
  ASSUME IrInv, [Next]_vars
  PROVE  IrInv'
<1>1. CASE Boot
  <2>1. /\ ir' = [initialized |-> TRUE, abort |-> FALSE, queue |-> <<>>, exists |-> TRUE,
                  copies |-> 0, sem |-> FALSE]
        /\ irStop' = "none" /\ main' = "confirm"
    BY <1>1 DEF Boot, IrStarted, IrOff, IrInv
  <2>2. <<>> \in Seq({"packet", "poison"})
    OBVIOUS
  <2> QED
    BY <2>1, <2>2 DEF IrInv, IrTaskStops
<1>2. CASE Restart
  BY <1>2 DEF Restart, IrOff, IrInv, IrTaskStops
<1>3. CASE SendIr
  <2>1. CASE IrSendCheck
    BY <1>3, <2>1 DEF SendIr, IrSendCheck, IrInv, IrTaskStops
  <2>2. CASE IrSend
    <3>1. ir.queue \in Seq({"packet", "poison"})
      BY DEF IrInv
    <3>2. /\ Append(ir.queue, "packet") \in Seq({"packet", "poison"})
          /\ Append(ir.queue, "packet") # <<>>
      BY <3>1, PacketQueued
    <3> QED
      BY <1>3, <2>2, <3>1, <3>2 DEF SendIr, IrSend, IrInv, IrTaskStops
  <2> QED
    BY <1>3, <2>1, <2>2 DEF SendIr
<1>4. CASE TransmitIr
  <2>1. CASE IrLoop
    BY <1>4, <2>1 DEF TransmitIr, IrLoop, IrInv, IrTaskStops
  <2>2. CASE IrReceive
    <3>1. Tail(ir.queue) \in Seq({"packet", "poison"})
      BY <2>2 DEF IrReceive, IrInv
    <3> QED
      BY <1>4, <2>2, <3>1 DEF TransmitIr, IrReceive, IrInv, IrTaskStops
  <2>3. CASE IrTransmit
    BY <1>4, <2>3 DEF TransmitIr, IrTransmit, IrInv, IrTaskStops
  <2>4. CASE IrExit
    BY <1>4, <2>4 DEF TransmitIr, IrExit, IrInv, IrTaskStops
  <2> QED
    BY <1>4, <2>1, <2>2, <2>3, <2>4 DEF TransmitIr
<1>5. CASE StopIr
  <2>1. main = "ir" /\ main' # "off"
    BY <1>5 DEF StopIr
  <2>2. CASE IrStopFlag
    BY <2>1, <2>2 DEF IrStopFlag, IrInv, IrTaskStops
  <2>3. CASE IrPoison
    <3>1. Poisoned(ir.queue) \in Seq({"packet", "poison"}) /\ Poisoned(ir.queue) # <<>>
      BY PoisonWakes DEF IrInv
    <3> QED
      BY <2>1, <2>3, <3>1 DEF IrPoison, IrInv, IrTaskStops
  <2>4. CASE IrAwait
    BY <2>1, <2>4 DEF IrAwait, IrInv, IrTaskStops
  <2>5. CASE IrDrain
    <3>1. <<>> \in Seq({"packet", "poison"})
      OBVIOUS
    <3> QED
      BY <2>1, <2>5, <3>1 DEF IrDrain, Drained, IrInv, IrTaskStops
  <2>6. CASE UNCHANGED irvars
    BY <2>1, <2>6 DEF IrInv, IrTaskStops
  <2> QED
    BY <1>5, <2>2, <2>3, <2>4, <2>5, <2>6 DEF StopIr, IrStopStep
<1>6. CASE ~Boot /\ ~Restart /\ ~SendIr /\ ~TransmitIr /\ ~StopIr
  <2>1. UNCHANGED irvars /\ (main' = "off" => main = "off")
    BY <1>6, IrFrame
  <2> QED
    BY <2>1 DEF IrInv, IrTaskStops
<1> QED
  BY <1>1, <1>2, <1>3, <1>4, <1>5, <1>6

\* ir_blaster_driver_deinit never waits for a task that waits for a message:
\* the flag, the poison or a packet ends ir_task_fn.
THEOREM IrTaskStopsCorrect == Spec => []IrTaskStops
<1>1. IrInv /\ [Next]_vars => IrInv'
  BY IrInvNext
<1>2. IrInv => IrTaskStops
  BY DEF IrInv
<1> QED
  BY IrInvInit, <1>1, <1>2, PTL DEF Spec

-----------------------------------------------------------------------------
(* The sleep lock                                                          *)

\* Nobody holds the sleep lock at first.
LEMMA LockInvInit == Init => LockInv
<1> SUFFICES ASSUME Init PROVE LockInv
  OBVIOUS
<1>1. imu \in BOOLEAN
  BY Zenon DEF Init
<1> QED
  BY <1>1 DEF Init, OtaInit, WatchIdle, LockInv, ShuttingDown

\* The steps of the update leave the lock and its holders alone.
\* Every step that takes or gives up the lock is its holder's.
LEMMA LockInvNext ==
  ASSUME LockInv, [Next]_vars
  PROVE  LockInv'
<1> USE DEF LockInv, ShuttingDown
<1>1. CASE UNCHANGED vars
  BY <1>1 DEF vars
<1>2. CASE Boot
  BY <1>2 DEF Boot
<1>3. CASE MarkFirmwareValid
  BY <1>3 DEF MarkFirmwareValid
<1>4. CASE Restart
  <2>1. ~imu' /\ imu' \in BOOLEAN
    BY <1>4, Zenon DEF Restart
  <2>2. lock' = 0 /\ note' = "none" /\ w'.pc = "none" /\ main' = "off"
    BY <1>4 DEF Restart, WatchIdle
  <2> QED
    BY <2>1, <2>2
<1>5. CASE Others
  <2>1. CASE dfu_update_start_handler
    BY <2>1 DEF dfu_update_start_handler
  <2>2. CASE ReadImu
    <3>1. imu' \in BOOLEAN
      BY <2>2, Zenon DEF ReadImu
    <3>2. CASE imu
      <4>1. ~imu'
        BY <2>2, <3>2, Zenon DEF ReadImu
      <4>2. /\ lock' = lock - 1 /\ lock' \in Nat /\ (note = "dfu" => lock' >= 1)
            /\ lock' <= IF note = "dfu" THEN 1 ELSE 0
        BY <2>2, <3>2 DEF ReadImu
      <4>3. note' = note /\ main' = main /\ w' = w
        BY <2>2 DEF ReadImu
      <4> QED
        BY <3>1, <4>1, <4>2, <4>3
    <3>3. CASE ~imu
      <4>1. imu'
        BY <2>2, <3>3, Zenon DEF ReadImu
      <4>2. /\ lock' = lock + 1 /\ lock' \in Nat /\ lock' >= 1 /\ (note = "dfu" => lock' >= 2)
            /\ lock' <= (IF note = "dfu" THEN 1 ELSE 0) + 1
        BY <2>2, <3>3 DEF ReadImu
      <4>3. note' = note /\ main' = main /\ w' = w
        BY <2>2 DEF ReadImu
      <4> QED
        BY <3>1, <4>1, <4>2, <4>3
    <3> QED
      BY <3>2, <3>3
  <2>3. CASE WorkTick \/ Walk \/ (\E k \in Keys : UserSets(k)) \/ SendIr \/ TransmitIr \/ Workers
    BY <2>3 DEF WorkTick, Walk, UserSets, SendIr, TransmitIr, Workers
  <2> QED
    BY <1>5, <2>1, <2>2, <2>3 DEF Others
<1>6. CASE Shutdown
  <2>1. CASE TakeNotification
    BY <2>1 DEF TakeNotification
  <2>2. CASE StopIr
    BY <2>2 DEF StopIr
  <2>3. CASE StopUi \/ StopRuntime \/ StopTick \/ StopStorage
    BY <2>3 DEF StopUi, StopRuntime, StopTick, StopStorage
  <2>4. CASE StopPower
    BY <2>4 DEF StopPower, LockAfterStop
  <2>5. CASE StopEvents
    BY <2>5 DEF StopEvents
  <2>6. CASE \/ main = "runtime_tick" /\ Unsubscribe("start_work_cb")
             \/ main = "start_work_cb" /\ Unsubscribed("tick")
             \/ main = "sensor" /\ Unsubscribe("schedule_imu_work")
             \/ main = "schedule_imu_work" /\ Unsubscribed("storage")
    BY <2>6 DEF Unsubscribe, Unsubscribed
  <2> QED
    BY <1>6, <2>1, <2>2, <2>3, <2>4, <2>5, <2>6 DEF Shutdown
<1>7. CASE WatchUpdates \/ HostUpdates
  BY <1>7 DEF WatchUpdates, HostUpdates
<1> QED
  BY <1>1, <1>2, <1>3, <1>4, <1>5, <1>6, <1>7 DEF Next

\* uart_ota_start_firmware_update runs with the sleep lock held: what
\* dfu_update_start_handler took is given up by nobody, also not by a worker
\* that was deleted or released its own hold.
THEOREM AwakeInUpdateCorrect == Spec => []AwakeInUpdate
<1>1. LockInv /\ [Next]_vars => LockInv'
  BY LockInvNext
<1>2. LockInv => AwakeInUpdate
  BY DEF LockInv, ShuttingDown, AwakeInUpdate
<1> QED
  BY LockInvInit, <1>1, <1>2, PTL DEF Spec

-----------------------------------------------------------------------------
(* The partitions                                                          *)

\* The first partition holds the image that runs.
LEMMA FlashInvInit == Init => FlashInv
BY DEF Init, OtaInit, WatchIdle, FlashInv, AlwaysBootable, Slots, Other

\* What the bootloader leaves is bootable when what it finds is.
LEMMA BootKeeps ==
  ASSUME FlashInv
  PROVE  LET f == Booted(flash) IN
         /\ f \in [run : Slots, boot : Slots, state : {"valid", "new", "trial"}, whole : SUBSET Slots]
         /\ f.run = f.boot /\ f.state # "new" /\ f.boot \in f.whole
         /\ f.state # "valid" => Other(f.boot) \in f.whole
<1>1. CASE flash.state = "new"
  BY <1>1 DEF Booted, FlashInv, AlwaysBootable, Slots, Other
<1>2. CASE flash.state = "trial"
  BY <1>2 DEF Booted, FlashInv, AlwaysBootable, Slots, Other
<1>3. CASE flash.state = "valid"
  BY <1>3 DEF Booted, FlashInv, AlwaysBootable, Slots, Other
<1> QED
  BY <1>1, <1>2, <1>3 DEF FlashInv

\* Every step of the update but the last leaves the partitions alone, and is
\* taken while the update runs.
LEMMA UpdateFrame ==
  ASSUME WatchStep \/ HostStep, ~EndUpdate
  PROVE  flash' = flash /\ (w'.pc # "none" => w.pc # "none")
<1>1. CASE OtaFails \/ ReceiveSize \/ ReadAll \/ ReadTimeout
  BY <1>1 DEF OtaFails, ReceiveSize, ReadAll, ReadTimeout
<1>2. CASE BlockAccepted \/ BlockRefused
  BY <1>2 DEF BlockAccepted, BlockRefused, BlockRead
<1>3. CASE HostStart
  BY <1>3 DEF HostStart
<1>4. CASE HostGreeted \/ HostSend \/ HostAck \/ HostNack \/ HostTimeout \/ HostDone \/ HostStops
           \/ LoseAnswer
  BY <1>4 DEF HostGreeted, HostSend, HostAck, HostNack, HostTimeout, HostDone, HostStops, LoseAnswer
<1> QED
  BY <1>1, <1>2, <1>3, <1>4 DEF WatchStep, HostStep

\* The other partition is given up only while the running image is valid.
LEMMA FlashInvNext ==
  ASSUME FlashInv, [Next]_vars
  PROVE  FlashInv'
<1>1. CASE Boot
  <2>1. w' = w /\ w.pc = "none" /\ main' = "confirm" /\ flash' = Booted(flash)
    BY <1>1 DEF Boot, FlashInv
  <2> QED
    BY <2>1, BootKeeps DEF FlashInv, AlwaysBootable
<1>2. CASE MarkFirmwareValid
  BY <1>2 DEF MarkFirmwareValid, MarkedValid, FlashInv, AlwaysBootable
<1>3. CASE Restart
  BY <1>3 DEF Restart, WatchIdle, FlashInv, AlwaysBootable
<1>4. CASE StopEvents
  <2>1. main = "event" /\ main' = "update"
    BY <1>4 DEF StopEvents
  <2>2. flash.run = flash.boot /\ flash.state \in {"valid", "trial"}
    BY <2>1 DEF FlashInv
  <2>3. CASE flash.state = "valid"
    <3>1. flash' = [flash EXCEPT !.whole = @ \ {Other(flash.run)}]
      BY <1>4, <2>3 DEF StopEvents, StartUpdate
    <3>2. Other(flash.run) # flash.run
      BY DEF FlashInv, Other, Slots
    <3> QED
      BY <2>1, <2>2, <2>3, <3>1, <3>2 DEF FlashInv, AlwaysBootable
  <2>4. CASE flash.state = "trial"
    <3>1. flash' = flash /\ w'.pc = "none"
      BY <1>4, <2>4 DEF StopEvents, StartUpdate, WatchIdle
    <3> QED
      BY <2>1, <2>2, <3>1 DEF FlashInv, AlwaysBootable
  <2> QED
    BY <2>2, <2>3, <2>4
<1>5. CASE main = "update" /\ EndUpdate /\ main' = main
  <2>1. w.pc = "block" /\ w'.pc = "none"
    BY <1>5 DEF EndUpdate, Reboot, WatchIdle
  <2>2. flash.run = flash.boot /\ flash.state = "valid" /\ flash.boot \in flash.whole
    BY <2>1 DEF FlashInv, AlwaysBootable
  <2>3. CASE flash' = flash
    BY <1>5, <2>1, <2>3 DEF FlashInv, AlwaysBootable
  <2>4. CASE flash' = [flash EXCEPT !.boot = Other(flash.run), !.state = "new",
                                    !.whole = @ \cup {Other(flash.run)}]
    <3>1. Other(flash.run) \in Slots /\ Other(Other(flash.run)) = flash.run
      BY DEF FlashInv, Other, Slots
    <3> QED
      BY <1>5, <2>1, <2>2, <2>4, <3>1 DEF FlashInv, AlwaysBootable
  <2> QED
    BY <1>5, <2>3, <2>4 DEF EndUpdate, Validated
<1>6. CASE main = "update" /\ (WatchStep \/ HostStep) /\ ~EndUpdate /\ main' = main
  BY <1>6, UpdateFrame DEF FlashInv, AlwaysBootable
<1>7. CASE Others \/ UNCHANGED vars
  <2>1. flash' = flash /\ w' = w /\ main' = main
    BY <1>7 DEF Others, WorkTick, Walk, UserSets, dfu_update_start_handler, SendIr, TransmitIr,
                Workers, ReadImu, vars
  <2> QED
    BY <2>1 DEF FlashInv, AlwaysBootable
<1>8. CASE Shutdown /\ ~StopEvents
  <2>1. /\ flash' = flash /\ w' = w
        /\ main \notin {"off", "confirm", "update"} /\ main' \notin {"off", "confirm", "update"}
    BY <1>8 DEF Shutdown, TakeNotification, StopIr, StopUi, StopRuntime, Unsubscribe, Unsubscribed,
                StopTick, StopStorage, StopPower
  <2> QED
    BY <2>1 DEF FlashInv, AlwaysBootable
<1> QED
  BY <1>1, <1>2, <1>3, <1>4, <1>5, <1>6, <1>7, <1>8
  DEF Next, WatchUpdates, HostUpdates, WatchStep, HostStep

\* Whenever the power fails, the bootloader finds a complete image to boot, and
\* one to fall back to while the new one has not declared itself valid.
THEOREM AlwaysBootableCorrect == Spec => []AlwaysBootable
<1>1. FlashInv /\ [Next]_vars => FlashInv'
  BY FlashInvNext
<1>2. FlashInv => AlwaysBootable
  BY DEF FlashInv
<1> QED
  BY FlashInvInit, <1>1, <1>2, PTL DEF Spec

\* An update runs on an awake watch and never leaves it without a firmware to start.
THEOREM UpdateSafeCorrect == Spec => []UpdateSafe
<1>1. AwakeInUpdate /\ AlwaysBootable => UpdateSafe
  BY DEF UpdateSafe
<1> QED BY <1>1, AwakeInUpdateCorrect, AlwaysBootableCorrect, PTL

-----------------------------------------------------------------------------
(* The settings                                                            *)

\* storage_manager_init writes every missing setting: SetToSeq leaves none out.
LEMMA AllListed ==
  ASSUME NEW S, IsFiniteSet(S)
  PROVE  SetToSeq(S) \in Seq(S) /\ Range(SetToSeq(S)) = S
<1>1. Cardinality(S) \in Nat /\ ExistsBijection(1..Cardinality(S), S)
  BY FS_CardinalityType
<1>2. PICK f \in Bijection(1..Cardinality(S), S) : TRUE
  BY <1>1 DEF ExistsBijection
<1>3. f \in [1..Cardinality(S) -> S] /\ IsInjective(f)
  BY <1>2 DEF Bijection, Injection, IsInjective
<1> DEFINE g == SetToSeq(S)
<1>4. g \in [1..Cardinality(S) -> S] /\ IsInjective(g)
  BY <1>3 DEF SetToSeq
<1>5. g \in Seq(S)
  BY <1>1, <1>4
<1>6. g \in Injection(1..Cardinality(S), S)
  BY <1>4 DEF Injection, IsInjective
<1>7. Cardinality(1..Cardinality(S)) = Cardinality(S)
  <2>1. Cardinality(1..Cardinality(S)) = IF 1 > Cardinality(S) THEN 0 ELSE Cardinality(S) - 1 + 1
    BY <1>1, FS_Interval
  <2> QED BY <2>1, <1>1
<1>8. g \in Surjection(1..Cardinality(S), S)
  BY <1>6, <1>7, FS_Injection
<1> QED BY <1>4, <1>5, <1>8 DEF Surjection, Range

WriteRec == [key : Keys, val : Values]

\* A write that is pending is queued or held by a worker.
LEMMA PendingSplit ==
  ASSUME StorageInv, NEW k
  PROVE  PendingFor(k) <=> \/ \E i \in DOMAIN writes : writes[i].key = k
                           \/ \E i \in DOMAIN held : held[i].key = k
<1>1. /\ writes \in Seq(WriteRec) /\ held \in Seq(WriteRec)
  BY DEF StorageInv, WriteRec
<1>2. /\ DOMAIN (writes \o held) = 1..(Len(writes) + Len(held))
      /\ \A i \in 1..(Len(writes) + Len(held)) :
           (writes \o held)[i] = IF i <= Len(writes) THEN writes[i] ELSE held[i - Len(writes)]
  BY <1>1
<1>3. /\ DOMAIN writes = 1..Len(writes) /\ DOMAIN held = 1..Len(held)
      /\ Len(writes) \in Nat /\ Len(held) \in Nat
  BY <1>1
<1>4. ASSUME PendingFor(k)
      PROVE  \/ \E i \in DOMAIN writes : writes[i].key = k
             \/ \E i \in DOMAIN held : held[i].key = k
  <2>1. PICK i \in DOMAIN (writes \o held) : (writes \o held)[i].key = k
    BY <1>4 DEF PendingFor, Range
  <2>2. CASE i <= Len(writes)
    BY <2>1, <2>2, <1>2, <1>3
  <2>3. CASE ~(i <= Len(writes))
    <3>1. i - Len(writes) \in DOMAIN held /\ held[i - Len(writes)].key = k
      BY <2>1, <2>3, <1>2, <1>3
    <3> QED BY <3>1
  <2> QED BY <2>2, <2>3
<1>5. ASSUME NEW i \in DOMAIN writes, writes[i].key = k PROVE PendingFor(k)
  <2>1. i \in DOMAIN (writes \o held) /\ (writes \o held)[i] = writes[i]
    BY <1>2, <1>3, <1>5
  <2> QED BY <2>1, <1>5 DEF PendingFor, Range
<1>6. ASSUME NEW i \in DOMAIN held, held[i].key = k PROVE PendingFor(k)
  <2>1. i + Len(writes) \in DOMAIN (writes \o held) /\ (writes \o held)[i + Len(writes)] = held[i]
    BY <1>2, <1>3, <1>6
  <2> QED BY <2>1, <1>6 DEF PendingFor, Range
<1> QED BY <1>4, <1>5, <1>6

\* A worker takes the oldest write.
LEMMA TakeTracked ==
  ASSUME StorageInv, TakeWrite
  PROVE  StorageInv'
<1>1. /\ writes \in Seq(WriteRec) /\ held \in Seq(WriteRec) /\ writes # <<>>
      /\ held' = Append(held, Head(writes)) /\ writes' = Tail(writes)
      /\ nvs' = nvs /\ ram' = ram /\ ready' = ready
      /\ unsure' = IF \E x \in Range(held) : x.key = Head(writes).key
                   THEN unsure \cup {Head(writes).key} ELSE unsure
  BY DEF StorageInv, TakeWrite, WriteRec
<1>2. /\ Len(writes) \in Nat \ {0} /\ Head(writes) = writes[1] /\ writes[1] \in WriteRec
      /\ Len(writes') = Len(writes) - 1 /\ DOMAIN writes = 1..Len(writes)
      /\ DOMAIN writes' = 1..Len(writes') /\ writes' \in Seq(WriteRec)
      /\ \A i \in 1..Len(writes') : writes'[i] = writes[i + 1]
  BY <1>1
<1>3. /\ held' \in Seq(WriteRec) /\ Len(held) \in Nat /\ Len(held') = Len(held) + 1
      /\ DOMAIN held = 1..Len(held) /\ DOMAIN held' = 1..Len(held')
      /\ \A i \in 1..Len(held) : held'[i] = held[i]
      /\ held'[Len(held) + 1] = writes[1]
  BY <1>1, <1>2
<1>4. ASSUME ready, NEW k \in Keys \ unsure' PROVE Tracked(k)'
  <2>1. k \in Keys \ unsure /\ Tracked(k)
    BY <1>1, <1>4 DEF StorageInv
  <2>2. writes[1].key = k => \A i \in DOMAIN held : held[i].key # k
    BY <1>1, <1>2, <1>4 DEF Range
  <2>3. \A i, j \in DOMAIN held' : held'[i].key = k /\ held'[j].key = k => i = j
    BY <2>1, <2>2, <1>3 DEF Tracked
  <2>4. ASSUME NEW i \in DOMAIN writes', LastQueued(k, i)' PROVE writes'[i].val = ram[k]
    <3>1. i + 1 \in DOMAIN writes /\ writes'[i] = writes[i + 1] /\ writes[i + 1].key = k
      BY <1>2, <2>4 DEF LastQueued
    <3>2. ASSUME NEW j \in DOMAIN writes, writes[j].key = k PROVE j <= i + 1
      <4>1. CASE j = 1
        BY <4>1, <1>2
      <4>2. CASE j # 1
        <5>1. j - 1 \in DOMAIN writes' /\ writes'[j - 1] = writes[j]
          BY <4>2, <1>2
        <5> QED BY <5>1, <3>2, <2>4, <1>2 DEF LastQueued
      <4> QED BY <4>1, <4>2
    <3> QED BY <3>1, <3>2, <2>1 DEF LastQueued, Tracked
  <2>5. ASSUME \A i \in DOMAIN writes' : writes'[i].key # k
        PROVE  /\ \A i \in DOMAIN held' : held'[i].key = k => held'[i].val = ram[k]
               /\ (\A i \in DOMAIN held' : held'[i].key # k) => Loaded(nvs[k]) = ram[k]
    <3>1. \A j \in DOMAIN writes : j # 1 => writes[j].key # k
      <4> SUFFICES ASSUME NEW j \in DOMAIN writes, j # 1 PROVE writes[j].key # k
        OBVIOUS
      <4>1. j - 1 \in DOMAIN writes' /\ writes'[j - 1] = writes[j]
        BY <1>2
      <4> QED BY <4>1, <2>5
    <3>2. CASE writes[1].key = k
      <4>1. 1 \in DOMAIN writes /\ LastQueued(k, 1)
        BY <3>1, <3>2, <1>2 DEF LastQueued
      <4>2. writes[1].val = ram[k]
        BY <4>1, <2>1 DEF Tracked
      <4> QED BY <2>2, <3>2, <4>2, <1>3
    <3>3. CASE writes[1].key # k
      <4>1. \A j \in DOMAIN writes : writes[j].key # k
        BY <3>1, <3>3
      <4>2. /\ \A i \in DOMAIN held : held[i].key = k => held[i].val = ram[k]
            /\ (\A i \in DOMAIN held : held[i].key # k) => Loaded(nvs[k]) = ram[k]
        BY <4>1, <2>1 DEF Tracked
      <4> QED BY <3>3, <4>2, <1>3
    <3> QED BY <3>2, <3>3
  <2>6. Loaded(nvs[k])' = Loaded(nvs[k])
    BY <1>1 DEF Loaded
  <2> QED BY <2>3, <2>4, <2>5, <2>6, <1>1 DEF Tracked
<1> QED BY <1>1, <1>2, <1>3, <1>4 DEF StorageInv, WriteRec


\* A worker carries a write out, or fails to.
LEMMA ExecuteTracked ==
  ASSUME StorageTypeOK, StorageInv, ExecuteWrite
  PROVE  StorageInv'
<1>1. PICK n \in DOMAIN held :
        /\ held' = RemoveAt(held, n) /\ ram' = ram /\ ready' = ready /\ writes' = writes
        /\ \/ nvs' = [nvs EXCEPT ![held[n].key] = held[n].val] /\ unsure' = unsure
           \/ nvs' = nvs /\ unsure' = unsure \cup {held[n].key}
  BY DEF ExecuteWrite
<1>2. /\ writes \in Seq(WriteRec) /\ held \in Seq(WriteRec)
      /\ ram \in [Keys -> Values] /\ nvs \in [Keys -> Values \cup {Invalid, None}]
  BY DEF StorageInv, StorageTypeOK, WriteRec
<1>3. Len(held) \in Nat /\ DOMAIN held = 1..Len(held) /\ n \in 1..Len(held) /\ held[n] \in WriteRec
  BY <1>2
<1>4. /\ held' \in Seq(WriteRec) /\ Len(held') = Len(held) - 1 /\ DOMAIN held' = 1..Len(held')
      /\ \A i \in 1..Len(held') : held'[i] = IF i < n THEN held[i] ELSE held[i + 1]
  <2> DEFINE a == SubSeq(held, 1, n - 1)
             b == SubSeq(held, n + 1, Len(held))
  <2>1. /\ a \in Seq(WriteRec) /\ Len(a) = n - 1 /\ \A i \in 1..(n - 1) : a[i] = held[i]
    BY <1>2, <1>3, SubSeqProperties
  <2>2. /\ b \in Seq(WriteRec) /\ Len(b) = Len(held) - n
        /\ \A i \in 1..(Len(held) - n) : b[i] = held[n + i]
    BY <1>2, <1>3, SubSeqProperties, SMTT(40)
  <2>3. held' = a \o b
    BY <1>1 DEF RemoveAt
  <2> HIDE DEF a, b
  <2>4. /\ a \o b \in Seq(WriteRec) /\ Len(a \o b) = Len(a) + Len(b)
        /\ \A i \in 1..(Len(a) + Len(b)) :
             (a \o b)[i] = IF i <= Len(a) THEN a[i] ELSE b[i - Len(a)]
    BY <2>1, <2>2, ConcatProperties
  <2>5. Len(held') = Len(held) - 1 /\ held' \in Seq(WriteRec)
    BY <2>1, <2>2, <2>3, <2>4, <1>3
  <2>6. ASSUME NEW i \in 1..Len(held')
        PROVE  held'[i] = IF i < n THEN held[i] ELSE held[i + 1]
    <3>1. CASE i < n
      BY <3>1, <2>1, <2>2, <2>3, <2>4, <2>5, <1>3
    <3>2. CASE ~(i < n)
      <4>1. i - (n - 1) \in 1..(Len(held) - n) /\ i \in 1..(Len(a) + Len(b)) /\ ~(i <= Len(a))
        BY <3>2, <2>1, <2>2, <2>5, <1>3, SMTT(40)
      <4>2. held'[i] = b[i - (n - 1)]
        BY <4>1, <2>1, <2>3, <2>4
      <4>3. b[i - (n - 1)] = held[n + (i - (n - 1))]
        BY <4>1, <2>2
      <4>4. n + (i - (n - 1)) = i + 1
        BY <1>3, <2>5
      <4> QED BY <3>2, <4>2, <4>3, <4>4
    <3> QED BY <3>1, <3>2
  <2>7. DOMAIN held' = 1..Len(held')
    BY <2>5
  <2> QED BY <2>5, <2>6, <2>7
<1>5. \A i \in DOMAIN held' : \E j \in DOMAIN held : j # n /\ held'[i] = held[j]
                                                  /\ j = IF i < n THEN i ELSE i + 1
  BY <1>3, <1>4
<1>6. \A j \in DOMAIN held : j # n => \E i \in DOMAIN held' : held'[i] = held[j]
  <2> SUFFICES ASSUME NEW j \in DOMAIN held, j # n PROVE \E i \in DOMAIN held' : held'[i] = held[j]
    OBVIOUS
  <2>1. CASE j < n
    BY <2>1, <1>3, <1>4
  <2>2. CASE j > n
    <3>1. j - 1 \in DOMAIN held' /\ held'[j - 1] = held[j]
      BY <2>2, <1>3, <1>4
    <3> QED BY <3>1
  <2> QED BY <2>1, <2>2, <1>3
<1>7. ASSUME ready, NEW k \in Keys \ unsure' PROVE Tracked(k)'
  <2>1. k \in Keys \ unsure /\ Tracked(k)
    BY <1>1, <1>7 DEF StorageInv
  <2>2. \A i, j \in DOMAIN held' : held'[i].key = k /\ held'[j].key = k => i = j
    <3> SUFFICES ASSUME NEW i \in DOMAIN held', NEW j \in DOMAIN held',
                        held'[i].key = k, held'[j].key = k
                 PROVE  i = j
      OBVIOUS
    <3>1. PICK i1 \in DOMAIN held : held'[i] = held[i1] /\ i1 = IF i < n THEN i ELSE i + 1
      BY <1>5
    <3>2. PICK j1 \in DOMAIN held : held'[j] = held[j1] /\ j1 = IF j < n THEN j ELSE j + 1
      BY <1>5
    <3>3. i1 = j1
      BY <3>1, <3>2, <2>1 DEF Tracked
    <3> QED BY <3>1, <3>2, <3>3, <1>3, <1>4
  <2>3. \A i \in DOMAIN writes' : LastQueued(k, i)' => writes'[i].val = ram'[k]
    BY <2>1, <1>1 DEF Tracked, LastQueued
  <2>4. ASSUME \A i \in DOMAIN writes : writes[i].key # k
        PROVE  /\ \A i \in DOMAIN held' : held'[i].key = k => held'[i].val = ram[k]
               /\ (\A i \in DOMAIN held' : held'[i].key # k) => Loaded(nvs'[k]) = ram[k]
    <3>1. /\ \A i \in DOMAIN held : held[i].key = k => held[i].val = ram[k]
          /\ (\A i \in DOMAIN held : held[i].key # k) => Loaded(nvs[k]) = ram[k]
      BY <2>1, <2>4 DEF Tracked
    <3>2. \A i \in DOMAIN held' : held'[i].key = k => held'[i].val = ram[k]
      BY <3>1, <1>5
    <3>3. ASSUME \A i \in DOMAIN held' : held'[i].key # k PROVE Loaded(nvs'[k]) = ram[k]
      <4>1. CASE held[n].key = k
        <5>1. nvs' = [nvs EXCEPT ![held[n].key] = held[n].val]
          BY <4>1, <1>1, <1>7
        <5>2. nvs'[k] = ram[k] /\ ram[k] \in Values
          BY <5>1, <4>1, <3>1, <1>2, <2>1
        <5> QED BY <5>2 DEF Loaded
      <4>2. CASE held[n].key # k
        <5>1. nvs'[k] = nvs[k]
          BY <4>2, <1>1, <1>2
        <5>2. \A j \in DOMAIN held : held[j].key # k
          BY <4>2, <3>3, <1>6
        <5> QED BY <5>1, <5>2, <3>1
      <4> QED BY <4>1, <4>2
    <3> QED BY <3>2, <3>3
  <2>5. Loaded(nvs[k])' = Loaded(nvs'[k])
    BY DEF Loaded
  <2> QED BY <2>2, <2>3, <2>4, <2>5, <1>1 DEF Tracked
<1> QED BY <1>1, <1>2, <1>4, <1>7 DEF StorageInv, WriteRec

\* The user sets a setting: the write queued last is the new value, and when it is not
\* queued the setting is not one of those the property speaks of.
LEMMA SetTracked ==
  ASSUME StorageTypeOK, StorageInv, NEW k \in Keys, NEW v \in Values, SetSetting(k, v)
  PROVE  StorageInv'
<1>1. /\ ram' = [ram EXCEPT ![k] = v] /\ nvs' = nvs /\ ready' = ready /\ held' = held
      /\ ram \in [Keys -> Values]
      /\ writes \in Seq(WriteRec) /\ held \in Seq(WriteRec)
  BY DEF SetSetting, StorageTypeOK, StorageInv, WriteRec
<1>2. /\ ram'[k] = v /\ \A o \in Keys : o # k => ram'[o] = ram[o]
  BY <1>1
<1>3. CASE ~MustSave(k, v)
  <2>1. writes' = writes /\ unsure' = unsure
    BY <1>3 DEF SetSetting
  <2>2. ram' = ram
    BY <1>1, <1>3 DEF MustSave
  <2>3. \A o : Tracked(o)' <=> Tracked(o)
    BY <2>1, <2>2, <1>1 DEF Tracked, LastQueued, Loaded
  <2> QED BY <2>1, <2>3, <1>1 DEF StorageInv, WriteRec
<1>4. CASE MustSave(k, v)
  <2> DEFINE q == <<Write(k, v)>>
  <2>1. /\ q = [i \in 1..Len(<<k>>) |-> Write(<<k>>[i], ram'[<<k>>[i]])]
        /\ Range(<<k>>) = {k}
    BY <1>2 DEF Range
  <2>2. \/ /\ writes' = writes \o q
           /\ unsure' = unsure \ {o \in {k} : ~PendingFor(o)}
        \/ writes' = writes /\ unsure' = unsure \cup {k}
    <3>1. PICK ok \in BOOLEAN : Saved(<<k>>, ram', ok)
      BY <1>4 DEF SetSetting
    <3> QED BY <3>1, <2>1 DEF Saved
  <2>3. CASE writes' = writes /\ unsure' = unsure \cup {k}
    <3>1. \A o \in Keys : o # k => (Tracked(o)' <=> Tracked(o))
      BY <2>3, <1>1, <1>2 DEF Tracked, LastQueued, Loaded
    <3> QED BY <2>3, <3>1, <1>1 DEF StorageInv, WriteRec
  <2>4. CASE /\ writes' = writes \o q
             /\ unsure' = unsure \ {o \in {k} : ~PendingFor(o)}
    <3>1. q[1] \in WriteRec /\ Len(q) = 1 /\ q[1].key = k /\ q[1].val = v
      BY DEF WriteRec, Write
    <3>2. writes' = Append(writes, q[1])
      BY <2>4, <1>1, <3>1
    <3> HIDE DEF q
    <3>3. /\ Len(writes) \in Nat /\ DOMAIN writes = 1..Len(writes)
          /\ writes' \in Seq(WriteRec) /\ DOMAIN writes' = 1..(Len(writes) + 1)
          /\ \A i \in 1..Len(writes) : writes'[i] = writes[i]
          /\ writes'[Len(writes) + 1] = q[1]
      BY <1>1, <3>1, <3>2
    <3>4. ASSUME ready, NEW o \in Keys \ unsure', o # k PROVE Tracked(o)'
      <4>1. o \in Keys \ unsure /\ Tracked(o)
        BY <2>4, <3>4 DEF StorageInv
      <4>2. ASSUME NEW i \in DOMAIN writes', LastQueued(o, i)'
            PROVE  writes'[i].val = ram'[o]
        <5>1. i \in DOMAIN writes /\ LastQueued(o, i) /\ writes'[i] = writes[i]
          BY <4>2, <3>1, <3>3, <3>4 DEF LastQueued
        <5> QED BY <5>1, <4>1, <1>2, <3>4 DEF Tracked
      <4>3. (\A i \in DOMAIN writes' : writes'[i].key # o)
              => \A i \in DOMAIN writes : writes[i].key # o
        BY <3>3
      <4>4. Loaded(nvs[o])' = Loaded(nvs[o]) /\ ram'[o] = ram[o]
        BY <1>1, <1>2, <3>4 DEF Loaded
      <4> QED BY <4>1, <4>2, <4>3, <4>4, <1>1 DEF Tracked
    <3>5. ASSUME ready, k \notin unsure' PROVE Tracked(k)'
      <4>1. \A i, j \in DOMAIN held : held[i].key = k /\ held[j].key = k => i = j
        <5>1. CASE k \in unsure
          <6>1. ~PendingFor(k)
            BY <5>1, <3>5, <2>4
          <6> QED BY <6>1, PendingSplit
        <5>2. CASE k \notin unsure
          BY <5>2, <3>5 DEF StorageInv, Tracked
        <5> QED BY <5>1, <5>2
      <4>2. ASSUME NEW i \in DOMAIN writes', LastQueued(k, i)'
            PROVE  writes'[i].val = ram'[k]
        <5>1. i = Len(writes) + 1
          BY <4>2, <3>1, <3>3 DEF LastQueued
        <5> QED BY <5>1, <3>1, <3>3, <1>2
      <4>3. Len(writes) + 1 \in DOMAIN writes' /\ writes'[Len(writes) + 1].key = k
        BY <3>1, <3>3
      <4> QED BY <4>1, <4>2, <4>3, <1>1 DEF Tracked
    <3> QED BY <3>3, <3>4, <3>5, <1>1 DEF StorageInv, WriteRec
  <2> QED BY <2>2, <2>3, <2>4
<1> QED BY <1>3, <1>4


\* The start writes what is missing in the partition.
LEMMA StartTracked ==
  ASSUME StartStorage, writes = <<>>, held = <<>>, unsure = {},
         nvs \in [Keys -> Values \cup {Invalid, None}]
  PROVE  StorageInv' /\ StorageTypeOK'
<1> DEFINE missing == {k \in Keys : ~ready' \/ nvs'[k] = None}
           ks == SetToSeq(missing)
           q == [i \in 1..Len(ks) |-> Write(ks[i], ram'[ks[i]])]
<1>1. /\ ready' \in BOOLEAN /\ nvs' \in [Keys -> Values \cup {Invalid, None}]
      /\ ram' = [k \in Keys |-> IF ready' THEN Loaded(nvs'[k]) ELSE Default]
      /\ held' = <<>>
  BY DEF StartStorage
<1>2. ram' \in [Keys -> Values]
  BY <1>1, StorageAssumption DEF Loaded
<1>3. IsFiniteSet(missing)
  <2>1. IsFiniteSet(Keys)
    <3>1. Keys = {"BACKLIGHT"} \cup {"WF_IDX"}
      BY DEF Keys
    <3> QED BY <3>1, FS_Singleton, FS_AddElement
  <2>2. missing \in SUBSET Keys
    OBVIOUS
  <2> QED BY <2>1, <2>2, FS_Subset
<1>4. ks \in Seq(missing) /\ Range(ks) = missing
  BY <1>3, AllListed
<1>5. /\ Len(ks) \in Nat /\ DOMAIN ks = 1..Len(ks)
      /\ \A i \in 1..Len(ks) : ks[i] \in Keys
      /\ \A k \in missing : \E i \in 1..Len(ks) : ks[i] = k
  <2>1. missing \subseteq Keys
    OBVIOUS
  <2> HIDE DEF ks, missing
  <2>2. Len(ks) \in Nat /\ DOMAIN ks = 1..Len(ks) /\ \A i \in 1..Len(ks) : ks[i] \in missing
    BY <1>4
  <2>3. \A k \in missing : \E i \in DOMAIN ks : ks[i] = k
    BY <1>4 DEF Range
  <2> QED BY <2>1, <2>2, <2>3
<1>6. q \in Seq(WriteRec) /\ DOMAIN q = 1..Len(ks) /\ Len(q) = Len(ks)
      /\ \A i \in 1..Len(ks) : q[i].key = ks[i] /\ q[i].val = ram'[ks[i]]
  <2> HIDE DEF ks
  <2>1. \A i \in 1..Len(ks) : Write(ks[i], ram'[ks[i]]) \in WriteRec
    BY <1>2, <1>5 DEF WriteRec, Write
  <2>2. q \in [1..Len(ks) -> WriteRec]
    BY <2>1
  <2>3. q \in Seq(WriteRec) /\ DOMAIN q = 1..Len(ks) /\ Len(q) = Len(ks)
    BY <2>2, <1>5
  <2>4. \A i \in 1..Len(ks) : q[i].key = ks[i] /\ q[i].val = ram'[ks[i]]
    BY DEF Write
  <2> QED BY <2>3, <2>4
<1>7. \/ missing = {} /\ writes' = <<>> /\ unsure' = {}
      \/ /\ ready' /\ writes' = writes \o q /\ Len(writes) + Len(q) <= MaxWrites
         /\ unsure' \subseteq {}
      \/ writes' = <<>> /\ unsure' = missing
  <2>1. CASE missing = {}
    BY <2>1 DEF StartStorage
  <2>2. CASE missing # {}
    <3>1. PICK ok \in BOOLEAN : Saved(ks, ram', ok)
      BY <2>2 DEF StartStorage
    <3> HIDE DEF missing
    <3> QED BY <3>1, <1>4 DEF Saved
  <2> QED BY <2>1, <2>2
<1>8. <<>> \in Seq(WriteRec) /\ DOMAIN <<>> = {} /\ Len(<<>>) = 0
  OBVIOUS
<1>9. \A k \in Keys : k \notin missing => Loaded(nvs'[k]) = ram'[k]
  BY <1>1
<1>10. StorageTypeOK'
  <2>1. unsure' \subseteq Keys
    BY <1>7
  <2>2. Len(writes') <= MaxWrites
    <3> HIDE DEF q
    <3>1. <<>> \o q = q
      BY <1>6
    <3> QED BY <3>1, <1>6, <1>7, <1>8, StorageAssumption
  <2> QED BY <1>1, <1>2, <2>1, <2>2, <1>8, StorageAssumption DEF StorageTypeOK
<1>11. ASSUME NEW k \in Keys \ unsure', ready' PROVE Tracked(k)'
  <2>1. held' = <<>> /\ DOMAIN held' = {}
    BY <1>1
  <2>2. CASE writes' = <<>>
    <3>1. k \notin missing \/ writes' = writes \o q
      BY <1>7, <1>11
    <3>2. CASE k \notin missing
      BY <2>1, <2>2, <3>2, <1>9, <1>8 DEF Tracked, Loaded
    <3>3. CASE writes' = writes \o q
      <4> HIDE DEF q, ks
      <4>1. q = <<>>
        BY <2>2, <3>3, <1>6
      <4>2. Len(ks) = 0
        BY <4>1, <1>6
      <4>3. k \notin missing
        BY <4>2, <1>5
      <4> QED BY <3>2, <4>3
    <3> QED BY <3>1, <3>2, <3>3
  <2>3. CASE writes' # <<>>
    <3> HIDE DEF q, ks, missing
    <3>1. writes' = q
      BY <2>3, <1>6, <1>7
    <3>2. \A i \in DOMAIN writes' : writes'[i].key = k => writes'[i].val = ram'[k]
      BY <3>1, <1>6
    <3>3. (\A i \in DOMAIN writes' : writes'[i].key # k) => k \notin missing
      BY <3>1, <1>5, <1>6
    <3>4. (\A i \in DOMAIN writes' : writes'[i].key # k) => Loaded(nvs'[k]) = ram'[k]
      BY <3>3, <1>9
    <3> QED BY <3>2, <3>4, <2>1 DEF Tracked, LastQueued, Loaded
  <2> QED BY <2>2, <2>3
<1>12. writes' \in Seq(WriteRec)
  <2> HIDE DEF q
  <2>1. <<>> \o q = q
    BY <1>6
  <2> QED BY <2>1, <1>6, <1>7, <1>8
<1> QED BY <1>1, <1>8, <1>10, <1>11, <1>12 DEF StorageInv, WriteRec

\* The workers end: a setting whose write is dropped is not one of those the property
\* speaks of.
LEMMA DropTracked ==
  ASSUME StorageTypeOK, StorageInv, DropWrites
  PROVE  StorageInv' /\ StorageTypeOK'
<1>1. /\ writes' = <<>> /\ held' = <<>> /\ nvs' = nvs /\ ram' = ram /\ ready' = ready
      /\ unsure' = unsure \cup {x.key : x \in Range(writes \o held)}
      /\ writes \in Seq(WriteRec) /\ held \in Seq(WriteRec)
  BY DEF DropWrites, StorageInv, WriteRec
<1>2. <<>> \in Seq(WriteRec) /\ DOMAIN <<>> = {} /\ Len(<<>>) = 0
  OBVIOUS
<1>3. \A k : k \in unsure' <=> k \in unsure \/ PendingFor(k)
  BY <1>1 DEF PendingFor
<1>4. ASSUME ready, NEW k \in Keys \ unsure' PROVE Tracked(k)'
  <2>1. k \in Keys \ unsure /\ ~PendingFor(k) /\ Tracked(k)
    BY <1>3, <1>4 DEF StorageInv
  <2>2. Loaded(nvs[k]) = ram[k]
    BY <2>1, PendingSplit DEF Tracked
  <2> QED BY <2>2, <1>1, <1>2 DEF Tracked, Loaded
<1>5. unsure' \subseteq Keys
  <2>1. ASSUME NEW k, PendingFor(k) PROVE k \in Keys
    <3>1. CASE \E i \in DOMAIN writes : writes[i].key = k
      <4>1. PICK i \in DOMAIN writes : writes[i].key = k
        BY <3>1
      <4>2. writes[i] \in WriteRec
        BY <1>1
      <4> QED BY <4>1, <4>2 DEF WriteRec
    <3>2. CASE \E i \in DOMAIN held : held[i].key = k
      <4>1. PICK i \in DOMAIN held : held[i].key = k
        BY <3>2
      <4>2. held[i] \in WriteRec
        BY <1>1
      <4> QED BY <4>1, <4>2 DEF WriteRec
    <3> QED BY <2>1, <3>1, <3>2, PendingSplit
  <2> QED BY <2>1, <1>3 DEF StorageTypeOK
<1>6. StorageTypeOK'
  BY <1>1, <1>2, <1>5, StorageAssumption DEF StorageTypeOK
<1> QED BY <1>1, <1>2, <1>4, <1>6 DEF StorageInv, WriteRec

\* The steps of users and workers keep the types.
LEMMA StorageTypes ==
  ASSUME StorageTypeOK, StorageInv,
         TakeWrite \/ ExecuteWrite \/ \E k \in Keys, v \in Values : SetSetting(k, v)
  PROVE  StorageTypeOK'
<1>1. /\ writes \in Seq(WriteRec) /\ held \in Seq(WriteRec)
  BY DEF StorageInv, WriteRec
<1>2. CASE TakeWrite
  <2>1. /\ Len(writes') = Len(writes) - 1 /\ Len(held') = Len(held) + 1 /\ Head(writes) \in WriteRec
    BY <1>1, <1>2 DEF TakeWrite
  <2>2. Len(writes') <= MaxWrites /\ Len(held') <= SystemWorkers
    BY <2>1, <1>1, <1>2, StorageAssumption DEF TakeWrite, StorageTypeOK
  <2>3. Head(writes).key \in Keys
    BY <2>1 DEF WriteRec
  <2>4. unsure' \subseteq Keys
    BY <2>3, <1>2 DEF TakeWrite, StorageTypeOK
  <2> QED BY <2>2, <2>4, <1>2 DEF TakeWrite, StorageTypeOK
<1>3. CASE ExecuteWrite
  <2>1. PICK n \in DOMAIN held :
          /\ held' = RemoveAt(held, n) /\ ram' = ram /\ ready' = ready /\ writes' = writes
          /\ \/ nvs' = [nvs EXCEPT ![held[n].key] = held[n].val] /\ unsure' = unsure
             \/ nvs' = nvs /\ unsure' = unsure \cup {held[n].key}
    BY <1>3 DEF ExecuteWrite
  <2>2. held[n].key \in Keys /\ held[n].val \in Values
    <3>1. held[n] \in WriteRec
      BY <1>1
    <3> QED BY <3>1 DEF WriteRec
  <2>3. n \in 1..Len(held) /\ Len(held) \in Nat
    BY <1>1
  <2> DEFINE a == SubSeq(held, 1, n - 1)
             b == SubSeq(held, n + 1, Len(held))
  <2>4. a \in Seq(WriteRec) /\ Len(a) = n - 1
    BY <1>1, <2>3, SubSeqProperties
  <2>5. b \in Seq(WriteRec) /\ Len(b) = Len(held) - n
    BY <1>1, <2>3, SubSeqProperties
  <2>6. held' = a \o b
    BY <2>1 DEF RemoveAt
  <2> HIDE DEF a, b
  <2>7. Len(held') = Len(held) - 1
    BY <2>3, <2>4, <2>5, <2>6
  <2>8. Len(held') <= SystemWorkers
    BY <2>3, <2>7, StorageAssumption DEF StorageTypeOK
  <2> QED BY <2>1, <2>2, <2>8 DEF StorageTypeOK
<1>4. CASE \E k \in Keys, v \in Values : SetSetting(k, v)
  <2>1. PICK k \in Keys, v \in Values : SetSetting(k, v)
    BY <1>4
  <2>2. /\ ram' = [ram EXCEPT ![k] = v] /\ nvs' = nvs /\ ready' = ready /\ held' = held
    BY <2>1 DEF SetSetting
  <2>3. unsure' \subseteq Keys /\ Len(writes') <= MaxWrites
    <3>1. CASE ~MustSave(k, v)
      BY <2>1, <3>1 DEF SetSetting, StorageTypeOK
    <3>2. CASE MustSave(k, v)
      <4>1. PICK ok \in BOOLEAN : Saved(<<k>>, ram', ok)
        BY <2>1, <3>2 DEF SetSetting
      <4> DEFINE q == [i \in 1..Len(<<k>>) |-> Write(<<k>>[i], ram'[<<k>>[i]])]
      <4>2. Range(<<k>>) = {k}
        BY DEF Range
      <4>3. q \in Seq({Write(k, ram'[k])})
        OBVIOUS
      <4>4. \/ writes' = writes \o q /\ Len(writes) + Len(q) <= MaxWrites /\ unsure' \subseteq unsure
            \/ writes' = writes /\ unsure' = unsure \cup {k}
        BY <4>1, <4>2 DEF Saved
      <4> HIDE DEF q
      <4>5. Len(writes \o q) = Len(writes) + Len(q)
        BY <4>3, <1>1
      <4> QED BY <4>4, <4>5 DEF StorageTypeOK
    <3> QED BY <3>1, <3>2
  <2> QED BY <2>2, <2>3 DEF StorageTypeOK
<1> QED BY <1>2, <1>3, <1>4

-----------------------------------------------------------------------------
(* The watch that is off                                                   *)

\* The watch is off at first.
LEMMA OffInvInit == Init => OffInv
BY DEF Init, IrInit, StorageInit, OtaInit, WatchIdle, OffInv, Stages

\* Only Restart switches the watch off, and it clears everything.
LEMMA OffInvNext ==
  ASSUME OffInv, [Next]_vars
  PROVE  OffInv'
<1>1. CASE UNCHANGED vars
  BY <1>1 DEF vars, OffInv
<1>2. CASE Boot
  BY <1>2 DEF Boot, OffInv, Stages
<1>3. CASE MarkFirmwareValid
  BY <1>3 DEF MarkFirmwareValid, OffInv, Stages
<1>4. CASE Restart
  BY <1>4 DEF Restart, WatchIdle, OffInv, Stages
<1>5. CASE Others
  <2>1. main' = main /\ lvgl' = lvgl /\ tick' = tick /\ ready' = ready /\ w' = w
    BY <1>5 DEF Others, WorkTick, Walk, UserSets, dfu_update_start_handler, SendIr, TransmitIr,
                Workers, ReadImu, SetSetting, TakeWrite, ExecuteWrite
  <2>2. CASE WorkTick \/ Walk
    BY <2>1, <2>2 DEF WorkTick, Walk, OffInv
  <2>3. CASE \E k \in Keys : UserSets(k)
    BY <2>1, <2>3 DEF UserSets, OffInv
  <2>4. CASE dfu_update_start_handler \/ SendIr \/ ReadImu
    BY <2>1, <2>4 DEF dfu_update_start_handler, SendIr, ReadImu, WorkersRun, OffInv
  <2>5. CASE TransmitIr
    BY <2>1, <2>5 DEF TransmitIr, IrLoop, IrReceive, IrTransmit, IrExit, OffInv
  <2>6. CASE Workers
    BY <2>1, <2>6 DEF Workers, TakeWrite, ExecuteWrite, OffInv
  <2> QED BY <1>5, <2>2, <2>3, <2>4, <2>5, <2>6 DEF Others
<1>6. CASE Shutdown
  <2>1. main' \in Stages \ {"off"}
    BY <1>6 DEF Shutdown, TakeNotification, StopIr, StopUi, StopRuntime, Unsubscribe, Unsubscribed,
                StopTick, StopStorage, StopPower, StopEvents, Stages, OffInv
  <2> QED BY <2>1 DEF OffInv
<1>7. CASE WatchUpdates \/ HostUpdates
  BY <1>7 DEF WatchUpdates, HostUpdates, OffInv
<1> QED BY <1>1, <1>2, <1>3, <1>4, <1>5, <1>6, <1>7 DEF Next

\* What every step does to the settings
LEMMA StorageFrame ==
  ASSUME [Next]_vars
  PROVE  \/ UNCHANGED svars
         \/ main = "off" /\ StartStorage
         \/ TakeWrite \/ ExecuteWrite \/ (\E k \in Keys, v \in Values : SetSetting(k, v))
         \/ DropWrites
         \/ ready' = FALSE /\ UNCHANGED <<nvs, ram, writes, held, unsure>>
         \/ Restart
<1>1. CASE Others
  BY <1>1 DEF Others, WorkTick, Walk, UserSets, dfu_update_start_handler, SendIr, TransmitIr,
              Workers, ReadImu
<1>2. CASE Shutdown
  BY <1>2 DEF Shutdown, TakeNotification, StopIr, StopUi, StopRuntime, Unsubscribe, Unsubscribed,
              StopTick, StopStorage, StopPower, StopEvents
<1>3. CASE Boot \/ MarkFirmwareValid \/ WatchUpdates \/ HostUpdates \/ UNCHANGED vars
  BY <1>3 DEF Boot, MarkFirmwareValid, WatchUpdates, HostUpdates, vars
<1> QED BY <1>1, <1>2, <1>3 DEF Next

\* Nothing is written or queued at first.
LEMMA StorageInvInit == Init => StorageTypeOK /\ StorageInv
<1>1. <<>> \in Seq([key : Keys, val : Values]) /\ Len(<<>>) = 0
  OBVIOUS
<1> SUFFICES ASSUME Init PROVE StorageTypeOK /\ StorageInv
  OBVIOUS
<1>2. ready = FALSE /\ ready \in BOOLEAN
  BY Zenon DEF Init, StorageInit
<1>3. /\ ram \in [Keys -> Values] /\ nvs \in [Keys -> Values \cup {Invalid, None}]
      /\ writes = <<>> /\ held = <<>> /\ unsure = {}
  BY StorageAssumption DEF Init, StorageInit
<1>4. Len(writes) <= MaxWrites /\ Len(held) <= SystemWorkers
  BY <1>1, <1>3, StorageAssumption
<1> QED BY <1>1, <1>2, <1>3, <1>4 DEF StorageTypeOK, StorageInv

\* Each step of the settings keeps track of the last write.
LEMMA StorageInvNext ==
  ASSUME StorageTypeOK, StorageInv, OffInv, [Next]_vars
  PROVE  StorageTypeOK' /\ StorageInv'
<1>1. CASE UNCHANGED svars
  BY <1>1 DEF StorageTypeOK, StorageInv, Tracked, LastQueued, Loaded
<1>2. CASE main = "off" /\ StartStorage
  BY <1>2, StartTracked DEF OffInv, StorageTypeOK
<1>3. CASE TakeWrite \/ ExecuteWrite \/ \E k \in Keys, v \in Values : SetSetting(k, v)
  BY <1>3, TakeTracked, ExecuteTracked, SetTracked, StorageTypes
<1>4. CASE DropWrites
  BY <1>4, DropTracked
<1>5. CASE ready' = FALSE /\ UNCHANGED <<nvs, ram, writes, held, unsure>>
  BY <1>5 DEF StorageTypeOK, StorageInv
<1>6. CASE Restart
  <2>1. <<>> \in Seq([key : Keys, val : Values]) /\ Len(<<>>) = 0
    OBVIOUS
  <2>2. ready' = FALSE /\ ready' \in BOOLEAN
    BY <1>6, Zenon DEF Restart
  <2>3. /\ ram' \in [Keys -> Values] /\ nvs' \in [Keys -> Values \cup {Invalid, None}]
        /\ writes' = <<>> /\ held' = <<>> /\ unsure' = {}
    BY <1>6, StorageAssumption DEF Restart, StorageTypeOK
  <2>4. Len(writes') <= MaxWrites /\ Len(held') <= SystemWorkers
    BY <2>1, <2>3, StorageAssumption
  <2> QED BY <2>1, <2>2, <2>3, <2>4 DEF StorageTypeOK, StorageInv
<1> QED BY <1>1, <1>2, <1>3, <1>4, <1>5, <1>6, StorageFrame

\* A setting is tracked at every step.
LEMMA StorageInvCorrect == Spec => [](OffInv /\ StorageTypeOK /\ StorageInv)
<1>1. OffInv /\ [Next]_vars => OffInv'
  BY OffInvNext
<1>2. StorageTypeOK /\ StorageInv /\ OffInv /\ [Next]_vars => StorageTypeOK' /\ StorageInv'
  BY StorageInvNext
<1> QED BY OffInvInit, StorageInvInit, <1>1, <1>2, PTL DEF Spec

\* A setting is where its last write is: in the queue, with a worker, or in the partition;
\* so when its writes are done a restart brings back the value in use, however many workers
\* carry them out and whatever fails, as long as none was lost or overtaken.
THEOREM SettingKeptCorrect == Spec => []SettingKept
<1>1. StorageInv => SettingKept
  <2> SUFFICES ASSUME StorageInv, NEW k \in Keys \ unsure, ready, ~PendingFor(k)
               PROVE  Loaded(nvs[k]) = ram[k]
    BY DEF SettingKept
  <2>1. Tracked(k)
    BY DEF StorageInv
  <2> QED BY <2>1, PendingSplit DEF Tracked
<1> QED BY <1>1, StorageInvCorrect, PTL

-----------------------------------------------------------------------------
(* The subscribers                                                         *)

Three == <<"sleep_debug_cb", "start_work_cb", "schedule_imu_work">>
Two == <<"sleep_debug_cb", "schedule_imu_work">>
One == <<"sleep_debug_cb">>

\* There is room for the handlers of the work tick.
LEMMA Room ==
  /\ MaxSubscribers \in Nat /\ 3 <= MaxSubscribers /\ Null \notin Handlers
  /\ "sleep_debug_cb" \in Handlers /\ "start_work_cb" \in Handlers /\ "schedule_imu_work" \in Handlers
<1>1. /\ \A i \in 1..3 : WorkTickHandlers[i] \in Handlers
      /\ 3 <= MaxSubscribers
  BY LifecycleAssumption DEF WorkTickHandlers
<1>2. /\ WorkTickHandlers[1] \in Handlers /\ WorkTickHandlers[2] \in Handlers
      /\ WorkTickHandlers[3] \in Handlers
  BY <1>1
<1> QED BY <1>1, <1>2, EventAssumption DEF WorkTickHandlers

\* A table of up to three handlers
Entries(x, y, z) ==
  [i \in 1..MaxSubscribers |-> IF i = 1 THEN x ELSE IF i = 2 THEN y ELSE IF i = 3 THEN z ELSE Null]

\* Writing one entry of a table of three gives the table with that entry.
LEMMA EntriesChange ==
  ASSUME NEW x, NEW y, NEW z, NEW v
  PROVE  /\ [Entries(x, y, z) EXCEPT ![1] = v] = Entries(v, y, z)
         /\ [Entries(x, y, z) EXCEPT ![2] = v] = Entries(x, v, z)
         /\ [Entries(x, y, z) EXCEPT ![3] = v] = Entries(x, y, v)
         /\ Entries(x, y, z)[1] = x /\ Entries(x, y, z)[2] = y /\ Entries(x, y, z)[3] = z
<1> USE Room
<1>1. 1 \in 1..MaxSubscribers /\ 2 \in 1..MaxSubscribers /\ 3 \in 1..MaxSubscribers
  OBVIOUS
<1>2. [Entries(x, y, z) EXCEPT ![1] = v] = Entries(v, y, z)
  BY <1>1 DEF Entries
<1>3. [Entries(x, y, z) EXCEPT ![2] = v] = Entries(x, v, z)
  <2>1. [Entries(x, y, z) EXCEPT ![2] = v]
          = [i \in 1..MaxSubscribers |-> IF i = 2 THEN v ELSE Entries(x, y, z)[i]]
    BY <1>1 DEF Entries
  <2>2. \A i \in 1..MaxSubscribers :
          (IF i = 2 THEN v ELSE Entries(x, y, z)[i])
            = IF i = 1 THEN x ELSE IF i = 2 THEN v ELSE IF i = 3 THEN z ELSE Null
    BY DEF Entries
  <2> QED BY <2>1, <2>2 DEF Entries
<1>4. [Entries(x, y, z) EXCEPT ![3] = v] = Entries(x, y, v)
  <2>1. [Entries(x, y, z) EXCEPT ![3] = v]
          = [i \in 1..MaxSubscribers |-> IF i = 3 THEN v ELSE Entries(x, y, z)[i]]
    BY <1>1 DEF Entries
  <2>2. \A i \in 1..MaxSubscribers :
          (IF i = 3 THEN v ELSE Entries(x, y, z)[i])
            = IF i = 1 THEN x ELSE IF i = 2 THEN y ELSE IF i = 3 THEN v ELSE Null
    BY DEF Entries
  <2> QED BY <2>1, <2>2 DEF Entries
<1>5. Entries(x, y, z)[1] = x /\ Entries(x, y, z)[2] = y /\ Entries(x, y, z)[3] = z
  BY <1>1 DEF Entries
<1> QED BY <1>2, <1>3, <1>4, <1>5

\* The tables of the stages, entry by entry
LEMMA Tables ==
  /\ NoSubscribers = [handlers |-> Entries(Null, Null, Null), count |-> 0]
  /\ Table(One) = [handlers |-> Entries("sleep_debug_cb", Null, Null), count |-> 1]
  /\ Table(Two) = [handlers |-> Entries("sleep_debug_cb", "schedule_imu_work", Null), count |-> 2]
  /\ Table(Three) = [handlers |-> Entries("sleep_debug_cb", "start_work_cb", "schedule_imu_work"),
                     count |-> 3]
  /\ Table(HalfRemoved)
       = [handlers |-> Entries("sleep_debug_cb", "schedule_imu_work", "schedule_imu_work"), count |-> 3]
<1> USE Room
<1>1. Len(One) = 1 /\ One[1] = "sleep_debug_cb"
  BY DEF One
<1>2. Len(Two) = 2 /\ Two[1] = "sleep_debug_cb" /\ Two[2] = "schedule_imu_work"
  BY DEF Two
<1>3. /\ Len(Three) = 3 /\ Three[1] = "sleep_debug_cb" /\ Three[2] = "start_work_cb"
      /\ Three[3] = "schedule_imu_work"
  BY DEF Three
<1>4. /\ Len(HalfRemoved) = 3 /\ HalfRemoved[1] = "sleep_debug_cb"
      /\ HalfRemoved[2] = "schedule_imu_work" /\ HalfRemoved[3] = "schedule_imu_work"
  BY DEF HalfRemoved
<1>5. NoSubscribers = [handlers |-> Entries(Null, Null, Null), count |-> 0]
  BY DEF NoSubscribers, Entries
<1>6. Table(One) = [handlers |-> Entries("sleep_debug_cb", Null, Null), count |-> 1]
  BY <1>1 DEF Table, Entries
<1>7. Table(Two) = [handlers |-> Entries("sleep_debug_cb", "schedule_imu_work", Null), count |-> 2]
  <2>1. \A i \in 1..MaxSubscribers : (IF i <= Len(Two) THEN Two[i] ELSE Null)
          = IF i = 1 THEN "sleep_debug_cb" ELSE IF i = 2 THEN "schedule_imu_work"
            ELSE IF i = 3 THEN Null ELSE Null
    BY <1>2
  <2> QED BY <2>1, <1>2 DEF Table, Entries
<1>8. Table(Three) = [handlers |-> Entries("sleep_debug_cb", "start_work_cb", "schedule_imu_work"),
                     count |-> 3]
  <2>1. \A i \in 1..MaxSubscribers : (IF i <= Len(Three) THEN Three[i] ELSE Null)
          = IF i = 1 THEN "sleep_debug_cb" ELSE IF i = 2 THEN "start_work_cb"
            ELSE IF i = 3 THEN "schedule_imu_work" ELSE Null
    BY <1>3
  <2> QED BY <2>1, <1>3 DEF Table, Entries
<1>9. Table(HalfRemoved)
       = [handlers |-> Entries("sleep_debug_cb", "schedule_imu_work", "schedule_imu_work"), count |-> 3]
  <2>1. \A i \in 1..MaxSubscribers : (IF i <= Len(HalfRemoved) THEN HalfRemoved[i] ELSE Null)
          = IF i = 1 THEN "sleep_debug_cb" ELSE IF i = 2 THEN "schedule_imu_work"
            ELSE IF i = 3 THEN "schedule_imu_work" ELSE Null
    BY <1>4
  <2> QED BY <2>1, <1>4 DEF Table, Entries
<1> QED BY <1>5, <1>6, <1>7, <1>8, <1>9

\* The start subscribes the three, in their order.
LEMMA StartSubscribes == AllSubscribed = Table(Three)
<1> USE Room
<1> DEFINE a == [handlers |-> Entries("sleep_debug_cb", Null, Null), count |-> 1]
           b == [handlers |-> Entries("sleep_debug_cb", "start_work_cb", Null), count |-> 2]
           c == [handlers |-> Entries("sleep_debug_cb", "start_work_cb", "schedule_imu_work"),
                 count |-> 3]
<1>1. /\ "sleep_debug_cb" \notin Subscribed(NoSubscribers) /\ NoSubscribers.count = 0
      /\ NoSubscribers.handlers = Entries(Null, Null, Null)
  BY Tables DEF Subscribed
<1>2. event_subscribe(NoSubscribers, "sleep_debug_cb") = a
  BY <1>1, EntriesChange DEF event_subscribe
<1>3. "start_work_cb" \notin Subscribed(a)
  BY EntriesChange DEF Subscribed
<1>4. event_subscribe(a, "start_work_cb") = b
  BY <1>3, EntriesChange DEF event_subscribe
<1>5. "schedule_imu_work" \notin Subscribed(b)
  BY EntriesChange DEF Subscribed
<1>6. event_subscribe(b, "schedule_imu_work") = c
  BY <1>5, EntriesChange DEF event_subscribe
<1>7. AllSubscribed = event_subscribe(event_subscribe(event_subscribe(NoSubscribers,
                        "sleep_debug_cb"), "start_work_cb"), "schedule_imu_work")
  BY DEF AllSubscribed, WorkTickHandlers
<1>8. c = Table(Three)
  BY Tables
<1> HIDE DEF a, b, c
<1> QED BY <1>2, <1>4, <1>6, <1>7, <1>8

\* The second of three is removed in two steps.
LEMMA FirstRemoval ==
  /\ Shifted(Table(Three), "start_work_cb") = Table(HalfRemoved)
  /\ Shortened(Table(HalfRemoved)) = Table(Two)
<1> USE Room
<1> DEFINE t == Table(Three)
<1>1. /\ t.count = 3 /\ t.handlers = Entries("sleep_debug_cb", "start_work_cb", "schedule_imu_work")
      /\ t = [handlers |-> Entries("sleep_debug_cb", "start_work_cb", "schedule_imu_work"), count |-> 3]
  BY Tables
<1> HIDE DEF t
<1>2. /\ t.handlers[1] = "sleep_debug_cb" /\ t.handlers[2] = "start_work_cb"
      /\ t.handlers[3] = "schedule_imu_work"
  BY <1>1, EntriesChange
<1>3. "start_work_cb" \in Subscribed(t)
  BY <1>1, <1>2 DEF Subscribed
<1>4. (CHOOSE i \in 1..t.count : t.handlers[i] = "start_work_cb") = 2
  BY <1>1, <1>2
<1>5. Shifted(t, "start_work_cb")
        = [t EXCEPT !.handlers = [i \in 1..MaxSubscribers |->
             IF i \in 2..(t.count - 1) THEN t.handlers[i + 1] ELSE t.handlers[i]]]
  BY <1>3, <1>4 DEF Shifted
<1>6. [i \in 1..MaxSubscribers |-> IF i \in 2..(t.count - 1) THEN t.handlers[i + 1] ELSE t.handlers[i]]
        = Entries("sleep_debug_cb", "schedule_imu_work", "schedule_imu_work")
  <2>1. \A i \in 1..MaxSubscribers :
          (IF i \in 2..(t.count - 1) THEN t.handlers[i + 1] ELSE t.handlers[i])
            = IF i = 1 THEN "sleep_debug_cb" ELSE IF i = 2 THEN "schedule_imu_work"
              ELSE IF i = 3 THEN "schedule_imu_work" ELSE Null
    BY <1>1, <1>2 DEF Entries
  <2> QED BY <2>1 DEF Entries
<1>7. Shifted(t, "start_work_cb") = Table(HalfRemoved)
  BY <1>1, <1>5, <1>6, Tables
<1>8. Shortened(Table(HalfRemoved)) = Table(Two)
  BY Tables, EntriesChange DEF Shortened
<1> QED BY <1>7, <1>8 DEF t

\* The last of two is removed in two steps.
LEMMA SecondRemoval ==
  /\ Shifted(Table(Two), "schedule_imu_work") = Table(Two)
  /\ Shortened(Table(Two)) = Table(One)
<1> USE Room
<1> DEFINE t == Table(Two)
<1>1. /\ t.count = 2 /\ t.handlers = Entries("sleep_debug_cb", "schedule_imu_work", Null)
      /\ t = [handlers |-> Entries("sleep_debug_cb", "schedule_imu_work", Null), count |-> 2]
  BY Tables
<1> HIDE DEF t
<1>2. t.handlers[1] = "sleep_debug_cb" /\ t.handlers[2] = "schedule_imu_work"
  BY <1>1, EntriesChange
<1>3. "schedule_imu_work" \in Subscribed(t)
  BY <1>1, <1>2 DEF Subscribed
<1>4. (CHOOSE i \in 1..t.count : t.handlers[i] = "schedule_imu_work") = 2
  BY <1>1, <1>2
<1>5. Shifted(t, "schedule_imu_work")
        = [t EXCEPT !.handlers = [i \in 1..MaxSubscribers |->
             IF i \in 2..(t.count - 1) THEN t.handlers[i + 1] ELSE t.handlers[i]]]
  BY <1>3, <1>4 DEF Shifted
<1>6. [i \in 1..MaxSubscribers |-> IF i \in 2..(t.count - 1) THEN t.handlers[i + 1] ELSE t.handlers[i]]
        = t.handlers
  <2>1. \A i \in 1..MaxSubscribers : i \notin 2..(t.count - 1)
    BY <1>1
  <2> QED BY <2>1, <1>1 DEF Entries
<1>7. Shifted(t, "schedule_imu_work") = t
  BY <1>1, <1>5, <1>6
<1>8. Shortened(t) = Table(One)
  BY <1>1, Tables, EntriesChange DEF Shortened
<1> QED BY <1>7, <1>8 DEF t

\* Nobody subscribed
LEMMA EmptyTable == NoSubscribers = Table(<<>>)
BY Room DEF NoSubscribers, Table

\* Which handlers are still subscribed depends on the stage.
LEMMA StagesDistinct ==
  /\ (WorkersRun \/ main = "runtime_tick") => StillSubscribed = Three
  /\ main \in {"start_work_cb", "tick", "sensor"} => StillSubscribed = Two
  /\ main \notin {"confirm", "wait", "ir", "ui", "runtime", "runtime_tick", "start_work_cb", "tick",
                  "sensor"}
       => StillSubscribed = One
<1>1. WorkersRun \/ main = "runtime_tick" => StillSubscribed = Three
  BY DEF StillSubscribed, WorkersRun, WorkTickHandlers, Three
<1>2. main \in {"start_work_cb", "tick", "sensor"} => StillSubscribed = Two
  BY DEF StillSubscribed, WorkersRun, Two
<1>3. main \notin {"confirm", "wait", "ir", "ui", "runtime", "runtime_tick", "start_work_cb", "tick",
                   "sensor"}
       => StillSubscribed = One
  BY DEF StillSubscribed, WorkersRun, One
<1> QED BY <1>1, <1>2, <1>3


\* TableInv, stage by stage
AtStage ==
  /\ main \in {"off", "update"} => sub = NoSubscribers
  /\ main \in {"confirm", "wait", "ir", "ui", "runtime", "runtime_tick"} => sub = Table(Three)
  /\ main = "start_work_cb" => sub = Table(HalfRemoved)
  /\ main \in {"tick", "sensor", "schedule_imu_work"} => sub = Table(Two)
  /\ main \in {"storage", "power", "event"} => sub = Table(One)

\* The table at each stage, one stage after another
LEMMA TableAtStage == main \in Stages => (TableInv <=> AtStage)
<1> SUFFICES ASSUME main \in Stages PROVE TableInv <=> AtStage
  OBVIOUS
<1>1. CASE main \in {"off", "update", "start_work_cb", "schedule_imu_work"}
  BY <1>1 DEF TableInv, AtStage, Two
<1>2. CASE main \in {"confirm", "wait", "ir", "ui", "runtime", "runtime_tick"}
  <2>1. StillSubscribed = Three
    BY <1>2, StagesDistinct DEF WorkersRun
  <2> QED BY <1>2, <2>1 DEF TableInv, AtStage
<1>3. CASE main \in {"tick", "sensor"}
  <2>1. StillSubscribed = Two
    BY <1>3, StagesDistinct
  <2> QED BY <1>3, <2>1 DEF TableInv, AtStage
<1>4. CASE main \in {"storage", "power", "event"}
  <2>1. StillSubscribed = One
    BY <1>4, StagesDistinct
  <2> QED BY <1>4, <2>1 DEF TableInv, AtStage
<1> QED BY <1>1, <1>2, <1>3, <1>4 DEF Stages

\* The table is empty and nobody walks it at first.
LEMMA EventInvInit == Init => EventInv
<1>1. <<>> \in Seq(Handlers) /\ Len(<<>>) = 0
  OBVIOUS
<1> QED BY <1>1 DEF Init, NoWalk, EventInv, TableInv, WalkInv, WorkersRun

\* A publication starts, tests the count, or calls one handler.
LEMMA WalkSteps ==
  ASSUME OffInv, EventInv, WorkTick \/ Walk
  PROVE  EventInv'
<1>0. main' = main /\ sub' = sub /\ tick' = tick /\ main \in Stages
  BY DEF WorkTick, Walk, Publish, TestCount, CallHandler, OffInv
<1>1. StillSubscribed' = StillSubscribed /\ TableInv'
  BY <1>0 DEF EventInv, TableInv, StillSubscribed, WorkersRun
<1>2. AtStage /\ StillSubscribed \in {One, Two, Three}
  BY <1>0, TableAtStage, StagesDistinct DEF EventInv, Stages, WorkersRun
<1>3. Len(StillSubscribed) \in Nat
  BY <1>2 DEF One, Two, Three
<1>4. CASE WorkTick
  <2>1. tick /\ walk' = [step |-> "test", i |-> 1, called |-> <<>>, moved |-> (main = "start_work_cb")]
    BY <1>4 DEF WorkTick, Publish, NoWalk
  <2>2. <<>> \in Seq(Handlers) /\ Len(<<>>) = 0 /\ DOMAIN <<>> = {}
    OBVIOUS
  <2>3. WalkInv'
    BY <2>1, <2>2, <1>3, <1>1 DEF WalkInv
  <2>4. main # "off" /\ main \notin {"schedule_imu_work", "update"}
    BY <2>1 DEF EventInv, WorkersRun
  <2>5. main = "start_work_cb" => walk'.moved
    BY <2>1
  <2> QED BY <2>3, <2>4, <2>5, <1>0, <1>1 DEF EventInv, WorkersRun
<1>5. CASE Walk
  <2>1. main # "off"
    BY <1>5 DEF Walk, TestCount, CallHandler, EventInv, NoWalk
  <2>2. walk'.moved = walk.moved /\ walk.step # "none"
    BY <1>5 DEF Walk, TestCount, CallHandler, EventInv, WalkInv
  <2>3. main \in {"start_work_cb", "schedule_imu_work", "update"} => walk'.moved
    BY <2>2 DEF EventInv
  <2>4. ~walk.moved => sub = Table(StillSubscribed)
    BY <2>1, <2>2 DEF EventInv, TableInv
  <2>5. WalkInv'
    <3>1. CASE TestCount
      <4>1. walk' = [step |-> (IF walk.i <= sub.count THEN "call" ELSE "done"), i |-> walk.i,
                     called |-> walk.called, moved |-> walk.moved] /\ walk.step = "test"
        BY <3>1 DEF TestCount, EventInv, WalkInv
      <4>2. ~walk.moved => sub.count = Len(StillSubscribed)
        BY <2>4 DEF Table
      <4> QED BY <4>1, <4>2, <1>1, <1>3 DEF EventInv, WalkInv
    <3>2. CASE CallHandler
      <4> DEFINE x == sub.handlers[walk.i]
      <4>1. walk' = [step |-> (IF x = Null THEN "fault" ELSE "test"), i |-> walk.i + 1,
                     called |-> Append(walk.called, x), moved |-> walk.moved] /\ walk.step = "call"
        BY <3>2 DEF CallHandler, EventInv, WalkInv
      <4>2. CASE walk.moved
        <5>1. walk.moved \in BOOLEAN /\ walk.i + 1 \in Nat \ {0}
          BY DEF EventInv, WalkInv
        <5> QED BY <4>1, <4>2, <5>1 DEF WalkInv
      <4>3. CASE ~walk.moved
        <5>1. /\ walk.called \in Seq(Handlers) /\ Len(walk.called) = walk.i - 1 /\ walk.i \in Nat \ {0}
              /\ walk.i <= Len(StillSubscribed)
              /\ \A j \in DOMAIN walk.called : walk.called[j] = StillSubscribed[j]
          BY <4>1, <4>3 DEF EventInv, WalkInv
        <5>2. x = StillSubscribed[walk.i] /\ x \in Handlers /\ x # Null
          <6>1. \A i \in 1..Len(StillSubscribed) : StillSubscribed[i] \in Handlers
            <7>1. \A i \in 1..3 : Three[i] \in Handlers
              BY Room DEF Three
            <7>2. \A i \in 1..2 : Two[i] \in Handlers
              BY Room DEF Two
            <7>3. \A i \in 1..1 : One[i] \in Handlers
              BY Room DEF One
            <7>4. Len(Three) = 3 /\ Len(Two) = 2 /\ Len(One) = 1
              BY DEF One, Two, Three
            <7> QED BY <1>2, <7>1, <7>2, <7>3, <7>4
          <6>2. Len(StillSubscribed) <= 3
            <7>1. Len(Three) = 3 /\ Len(Two) = 2 /\ Len(One) = 1
              BY DEF One, Two, Three
            <7>2. CASE StillSubscribed = One
              BY <7>1, <7>2
            <7>3. CASE StillSubscribed = Two
              BY <7>1, <7>3
            <7>4. CASE StillSubscribed = Three
              <8>1. Len(StillSubscribed) = 3
                BY <7>1, <7>4
              <8> QED BY <8>1
            <7> QED BY <1>2, <7>2, <7>3, <7>4
          <6>3. walk.i \in 1..MaxSubscribers
            BY <5>1, <6>2, <1>3, Room
          <6>4. x = StillSubscribed[walk.i]
            <7>1. sub = Table(StillSubscribed)
              BY <2>4, <4>3
            <7>2. Table(StillSubscribed).handlers[walk.i] = StillSubscribed[walk.i]
              BY <5>1, <6>3 DEF Table
            <7> QED BY <7>1, <7>2
          <6> QED BY <6>1, <6>4, <5>1, Room
        <5> DEFINE c == Append(walk.called, x)
        <5>3. /\ c \in Seq(Handlers) /\ Len(c) = walk.i /\ DOMAIN c = 1..walk.i
              /\ c[walk.i] = x /\ \A j \in 1..(walk.i - 1) : c[j] = walk.called[j]
          BY <5>1, <5>2, AppendProperties
        <5> HIDE DEF c, x
        <5>4. \A j \in DOMAIN c : c[j] = StillSubscribed[j]
          BY <5>1, <5>2, <5>3
        <5>5. walk' = [step |-> "test", i |-> walk.i + 1, called |-> c, moved |-> FALSE]
          BY <4>1, <4>3, <5>2 DEF c, EventInv, WalkInv
        <5> QED BY <5>1, <5>3, <5>4, <5>5, <1>1 DEF WalkInv
      <4> QED BY <4>2, <4>3
    <3> QED BY <1>5, <3>1, <3>2 DEF Walk
  <2> QED BY <2>1, <2>3, <2>5, <1>0, <1>1 DEF EventInv, WorkersRun
<1> QED BY <1>4, <1>5

\* Steps that leave the table, the walk and the timer alone and change the stage only
\* where the same handlers stay subscribed
LEMMA EventKept ==
  ASSUME OffInv, EventInv, UNCHANGED <<sub, walk, tick>>,
         \/ main' = main
         \/ main \in {"confirm", "wait", "ir", "ui", "runtime"}
              /\ main' \in {"wait", "ir", "ui", "runtime", "runtime_tick"}
         \/ main \in {"storage", "power"} /\ main' \in {"power", "event"}
  PROVE  EventInv'
<1>1. StillSubscribed' = StillSubscribed
  BY DEF StillSubscribed, WorkersRun
<1>2. TableInv'
  BY <1>1 DEF EventInv, TableInv
<1>3. WalkInv'
  BY <1>1 DEF EventInv, WalkInv
<1> QED BY <1>2, <1>3 DEF EventInv, WorkersRun

\* One half of a removal
LEMMA Removal ==
  ASSUME OffInv, EventInv, OffInv',
         \/ main = "runtime_tick" /\ Unsubscribe("start_work_cb")
         \/ main = "start_work_cb" /\ Unsubscribed("tick")
         \/ main = "sensor" /\ Unsubscribe("schedule_imu_work")
         \/ main = "schedule_imu_work" /\ Unsubscribed("storage")
  PROVE  EventInv'
<1>1. main \in Stages /\ main' \in Stages
  BY DEF OffInv
<1>2. AtStage
  BY <1>1, TableAtStage DEF EventInv
<1>3. TableInv' <=> AtStage'
  <2>1. (main \in Stages)' => (TableInv' <=> AtStage')
    BY TableAtStage, PTL
  <2> QED BY <1>1, <2>1
<1>4. /\ walk' = [step |-> walk.step, i |-> walk.i, called |-> walk.called,
                  moved |-> (walk.step # "none")]
      /\ tick' = tick /\ walk.i \in Nat \ {0}
  BY DEF Unsubscribe, Unsubscribed, Meddled, EventInv, WalkInv
<1>5. WalkInv'
  BY <1>4 DEF WalkInv
<1>6. main' # "off" /\ (walk'.moved \/ walk'.step = "none")
  BY <1>4 DEF Unsubscribe, Unsubscribed
<1>7. tick' => main' \in {"start_work_cb", "tick"}
  BY <1>4 DEF Unsubscribe, Unsubscribed, EventInv, WorkersRun
<1>8. AtStage'
  <2>1. CASE main = "runtime_tick" /\ Unsubscribe("start_work_cb")
    BY <2>1, <1>2, FirstRemoval DEF Unsubscribe, AtStage
  <2>2. CASE main = "start_work_cb" /\ Unsubscribed("tick")
    BY <2>2, <1>2, FirstRemoval DEF Unsubscribed, AtStage
  <2>3. CASE main = "sensor" /\ Unsubscribe("schedule_imu_work")
    BY <2>3, <1>2, SecondRemoval DEF Unsubscribe, AtStage
  <2>4. CASE main = "schedule_imu_work" /\ Unsubscribed("storage")
    BY <2>4, <1>2, SecondRemoval DEF Unsubscribed, AtStage
  <2> QED BY <2>1, <2>2, <2>3, <2>4
<1> QED BY <1>3, <1>5, <1>6, <1>7, <1>8 DEF EventInv, WorkersRun

\* A stage changes the table as it says, and disturbs the walk when it does.
LEMMA EventInvNext ==
  ASSUME OffInv, EventInv, OffInv', [Next]_vars
  PROVE  EventInv'
<1>1. CASE Boot
  <2>1. main = "off" /\ main' = "confirm" /\ walk' = NoWalk /\ sub' = Table(Three)
    BY <1>1, StartSubscribes DEF Boot, EventInv
  <2>2. StillSubscribed' = Three
    BY <2>1 DEF StillSubscribed, WorkersRun, WorkTickHandlers, Three
  <2> QED BY <2>1, <2>2 DEF EventInv, TableInv, WalkInv, NoWalk, WorkersRun
<1>2. CASE Restart
  BY <1>2 DEF Restart, EventInv, TableInv, WalkInv, NoWalk, WorkersRun
<1>3. CASE WorkTick \/ Walk
  BY <1>3, WalkSteps
<1>4. CASE MarkFirmwareValid
  BY <1>4, EventKept DEF MarkFirmwareValid
<1>5. CASE (\E k \in Keys : UserSets(k)) \/ dfu_update_start_handler \/ SendIr \/ TransmitIr
           \/ Workers \/ ReadImu \/ WatchUpdates \/ HostUpdates \/ UNCHANGED vars
  <2>1. UNCHANGED <<sub, walk, tick>> /\ main' = main
    BY <1>5 DEF UserSets, dfu_update_start_handler, SendIr, TransmitIr, Workers, ReadImu,
                WatchUpdates, HostUpdates, vars
  <2> QED BY <2>1, EventKept
<1>6. CASE TakeNotification \/ StopIr \/ StopUi \/ StopRuntime \/ StopStorage \/ StopPower
  <2>1. /\ UNCHANGED <<sub, walk, tick>>
        /\ \/ main' = main
           \/ main \in {"confirm", "wait", "ir", "ui", "runtime"}
                /\ main' \in {"wait", "ir", "ui", "runtime", "runtime_tick"}
           \/ main \in {"storage", "power"} /\ main' \in {"power", "event"}
    BY <1>6 DEF TakeNotification, StopIr, StopUi, StopRuntime, StopStorage, StopPower
  <2> QED BY <2>1, EventKept
<1>7. CASE \/ main = "runtime_tick" /\ Unsubscribe("start_work_cb")
           \/ main = "start_work_cb" /\ Unsubscribed("tick")
           \/ main = "sensor" /\ Unsubscribe("schedule_imu_work")
           \/ main = "schedule_imu_work" /\ Unsubscribed("storage")
  BY <1>7, Removal
<1>8. CASE StopTick
  <2>1. main = "tick" /\ main' = "sensor" /\ sub' = sub /\ walk' = walk /\ tick' = FALSE
    BY <1>8 DEF StopTick
  <2>2. StillSubscribed' = StillSubscribed
    BY <2>1 DEF StillSubscribed, WorkersRun
  <2> QED BY <2>1, <2>2 DEF EventInv, TableInv, WalkInv
<1>9. CASE StopEvents
  <2>1. /\ main = "event" /\ main' = "update" /\ sub' = NoSubscribers /\ tick' = tick
        /\ walk' = [step |-> walk.step, i |-> walk.i, called |-> walk.called,
                    moved |-> (walk.step # "none")]
        /\ walk.i \in Nat \ {0}
    BY <1>9 DEF StopEvents, Meddled, EventInv, WalkInv
  <2>2. ~tick
    BY <2>1 DEF EventInv, WorkersRun
  <2> QED BY <2>1, <2>2 DEF EventInv, TableInv, WalkInv
<1> QED
  BY <1>1, <1>2, <1>3, <1>4, <1>5, <1>6, <1>7, <1>8, <1>9 DEF Next, Others, Shutdown

\* The table is the stage's at every step.
LEMMA EventInvCorrect == Spec => [](OffInv /\ EventInv)
<1>1. OffInv /\ [Next]_vars => OffInv'
  BY OffInvNext
<1>2. OffInv /\ EventInv /\ OffInv' /\ [Next]_vars => EventInv'
  BY EventInvNext
<1> QED BY OffInvInit, EventInvInit, <1>1, <1>2, PTL DEF Spec

\* What the table looks like, whatever the stage
LEMMA TableTyped == OffInv /\ EventInv => EventTypeOK
<1> SUFFICES ASSUME OffInv, EventInv PROVE EventTypeOK
  OBVIOUS
<1> USE Room
<1>1. main \in Stages /\ AtStage
  BY TableAtStage DEF OffInv, EventInv
<1>2. sub \in {NoSubscribers, Table(One), Table(Two), Table(Three), Table(HalfRemoved)}
  BY <1>1 DEF AtStage, Stages
<1>3. CASE sub = NoSubscribers
  BY <1>3, Tables DEF EventTypeOK, Entries
<1>4. CASE sub = Table(One)
  BY <1>4, Tables DEF EventTypeOK, Entries
<1>5. CASE sub = Table(Two)
  BY <1>5, Tables DEF EventTypeOK, Entries
<1>6. CASE sub = Table(Three)
  BY <1>6, Tables DEF EventTypeOK, Entries
<1>7. CASE sub = Table(HalfRemoved)
  BY <1>7, Tables DEF EventTypeOK, Entries
<1> QED BY <1>2, <1>3, <1>4, <1>5, <1>6, <1>7

\* A work tick calls exactly the managers that are up, in their order, unless a removal
\* came between.
LEMMA ReachesAllCorrect == OffInv /\ EventInv => PublishReachesAll
<1> SUFFICES ASSUME OffInv, EventInv, ~walk.moved
             PROVE  walk.step # "fault" /\ (walk.step = "done" => walk.called = StillSubscribed)
  BY DEF PublishReachesAll, ReachesAll
<1>1. StillSubscribed \in {One, Two, Three}
  BY StagesDistinct DEF OffInv, Stages, WorkersRun
<1> DEFINE H == {"sleep_debug_cb", "start_work_cb", "schedule_imu_work"}
<1>2. StillSubscribed \in Seq(H)
  <2>1. One \in Seq(H)
    BY DEF One
  <2>2. Two \in Seq(H)
    BY DEF Two
  <2>3. Three \in Seq(H)
    BY DEF Three
  <2> QED BY <1>1, <2>1, <2>2, <2>3
<1>3. walk.step # "fault"
  BY DEF EventInv, WalkInv
<1>4. ASSUME walk.step = "done" PROVE walk.called = StillSubscribed
  <2>1. /\ walk.called \in Seq(Handlers) /\ Len(walk.called) = Len(StillSubscribed)
        /\ \A j \in DOMAIN walk.called : walk.called[j] = StillSubscribed[j]
    BY <1>2, <1>4 DEF EventInv, WalkInv
  <2> QED BY <1>2, <2>1
<1> QED BY <1>3, <1>4

-----------------------------------------------------------------------------
(* The payloads of the infrared driver                                     *)

Messages == {"packet", "poison"}
Places(q) == {i \in DOMAIN q : q[i] = "packet"}

\* The places a payload can be in are finitely many.
LEMMA PlacesFinite ==
  ASSUME NEW q \in Seq(Messages)
  PROVE  IsFiniteSet(Places(q)) /\ Packets(q) \in Nat /\ Packets(q) = Cardinality(Places(q))
<1>1. Len(q) \in Nat /\ DOMAIN q = 1..Len(q) /\ IsFiniteSet(1..Len(q))
  BY FS_Interval
<1>2. Places(q) \in SUBSET (1..Len(q))
  BY <1>1 DEF Places
<1>3. IsFiniteSet(Places(q))
  BY <1>1, <1>2, FS_Subset
<1> QED BY <1>3, FS_CardinalityType DEF Packets, Places

\* A message queued at the end counts when it is a packet.
LEMMA PacketsAppend ==
  ASSUME NEW q \in Seq(Messages), NEW m \in Messages
  PROVE  Packets(Append(q, m)) = Packets(q) + (IF m = "packet" THEN 1 ELSE 0)
<1> DEFINE r == Append(q, m)
<1>1. /\ r \in Seq(Messages) /\ Len(r) = Len(q) + 1 /\ Len(q) \in Nat
      /\ DOMAIN q = 1..Len(q) /\ DOMAIN r = 1..(Len(q) + 1)
      /\ r[Len(q) + 1] = m /\ \A i \in 1..Len(q) : r[i] = q[i]
  BY AppendProperties
<1> HIDE DEF r
<1>2. CASE m = "packet"
  <2>1. Places(r) = Places(q) \cup {Len(q) + 1} /\ Len(q) + 1 \notin Places(q)
    BY <1>1, <1>2 DEF Places
  <2>2. Cardinality(Places(r)) = Cardinality(Places(q)) + 1
    BY <2>1, PlacesFinite, FS_AddElement
  <2> QED BY <1>1, <1>2, <2>2, PlacesFinite DEF r
<1>3. CASE m # "packet"
  <2>1. Places(r) = Places(q)
    BY <1>1, <1>3 DEF Places
  <2>2. Packets(r) = Packets(q)
    BY <2>1, <1>1, PlacesFinite
  <2> QED BY <1>3, <2>2, PlacesFinite DEF r
<1> QED BY <1>2, <1>3

\* A message taken from the front no longer counts.
LEMMA PacketsTail ==
  ASSUME NEW q \in Seq(Messages), q # <<>>
  PROVE  Packets(Tail(q)) = Packets(q) - (IF Head(q) = "packet" THEN 1 ELSE 0)
<1> DEFINE r == Tail(q)
           S == Places(q) \ {1}
           T == Places(r)
           f == [i \in S |-> i - 1]
<1>1. /\ r \in Seq(Messages) /\ Len(r) = Len(q) - 1 /\ Len(q) \in Nat \ {0} /\ Head(q) = q[1]
      /\ DOMAIN q = 1..Len(q) /\ DOMAIN r = 1..(Len(q) - 1)
      /\ \A i \in 1..(Len(q) - 1) : r[i] = q[i + 1]
  <2>1. Len(q) \in Nat \ {0} /\ DOMAIN q = 1..Len(q)
    BY EmptySeq
  <2> QED BY <2>1, HeadTailProperties
<1> HIDE DEF r
<1>2. f \in Bijection(S, T)
  <2>1. f \in [S -> T]
    BY <1>1 DEF Places
  <2>2. \A a, b \in S : f[a] = f[b] => a = b
    BY <1>1 DEF Places
  <2>3. \A t \in T : \E a \in S : f[a] = t
    <3> SUFFICES ASSUME NEW t \in T PROVE \E a \in S : f[a] = t
      OBVIOUS
    <3>1. t + 1 \in S /\ f[t + 1] = t
      BY <1>1 DEF Places
    <3> QED BY <3>1
  <2> QED BY <2>1, <2>2, <2>3, Fun_IsBij
<1>3. IsFiniteSet(S) /\ Cardinality(S) = Cardinality(Places(q)) - (IF 1 \in Places(q) THEN 1 ELSE 0)
  <2>1. IsFiniteSet(Places(q)) /\ Cardinality(Places(q)) \in Nat
    BY PlacesFinite
  <2> QED BY <2>1, FS_RemoveElement
<1>4. Cardinality(T) = Cardinality(S)
  BY <1>2, <1>3, FS_Bijection DEF ExistsBijection
<1>5. 1 \in Places(q) <=> Head(q) = "packet"
  BY <1>1 DEF Places
<1>6. Packets(q) = Cardinality(Places(q)) /\ Packets(q) \in Nat /\ Packets(r) = Cardinality(T)
  BY <1>1, PlacesFinite
<1> QED BY <1>3, <1>4, <1>5, <1>6 DEF r

\* An empty queue holds no payload.
LEMMA PacketsNone == Packets(<<>>) = 0
<1>1. {i \in DOMAIN <<>> : <<>>[i] = "packet"} = {}
  OBVIOUS
<1> QED BY <1>1, FS_EmptySet DEF Packets

\* Payloads that are not in the queue
Out == (IF sender = "checked" THEN 1 ELSE 0) + (IF irTask = "send" THEN 1 ELSE 0)

\* There is no payload at first.
LEMMA IrOwnedInit == Init => IrOwned
<1>1. Packets(<<>>) = 0
  BY PacketsNone
<1> QED BY <1>1 DEF Init, IrInit, IrOff, IrNothingSeen, IrOwned, IrLeavesNothing

\* What the sender does
LEMMA SenderOwns ==
  ASSUME IrInv, IrOwned, lvgl, IrSendCheck \/ IrSend
  PROVE  IrOwned'
<1>1. /\ ir = [initialized |-> ir.initialized, abort |-> ir.abort, queue |-> ir.queue,
               exists |-> ir.exists, copies |-> ir.copies, sem |-> ir.sem]
      /\ ir.queue \in Seq(Messages) /\ (irStop # "none" => ir.abort)
  BY DEF IrInv, Messages
<1>2. irSeen \in [late : BOOLEAN, forced : BOOLEAN, fault : BOOLEAN]
  BY DEF IrOwned
<1>3. Packets(ir.queue) \in Nat
  BY <1>1, PlacesFinite
<1>4. CASE IrSendCheck
  <2>1. /\ sender = "idle" /\ sender' = "checked" /\ irTask' = irTask /\ irStop' = irStop
        /\ irSeen' = irSeen /\ irStop = "none" /\ ir.exists
        /\ ir'.queue = ir.queue /\ ir'.copies = ir.copies + 1 /\ ir'.sem = ir.sem
        /\ ir'.exists = ir.exists
    BY <1>1, <1>4 DEF IrSendCheck
  <2> QED BY <2>1, <1>3 DEF IrOwned, IrLeavesNothing
<1>5. CASE IrSend
  <2>1. /\ sender = "checked" /\ sender' = "idle" /\ irTask' = irTask /\ irStop' = irStop
        /\ irSeen' = [late |-> irSeen.late, forced |-> irSeen.forced,
                      fault |-> (irSeen.fault \/ ~ir.exists)]
    BY <1>2, <1>5 DEF IrSend
  <2>2. /\ ir'.exists = ir.exists /\ ir'.sem = ir.sem
        /\ \/ ir'.copies = ir.copies /\ Packets(ir'.queue) = Packets(ir.queue) + 1
           \/ ir'.copies = ir.copies - 1 /\ ir'.queue = ir.queue
    <3>1. Packets(Append(ir.queue, "packet")) = Packets(ir.queue) + 1
      BY <1>1, PacketsAppend DEF Messages
    <3> QED BY <1>1, <1>5, <3>1 DEF IrSend
  <2>3. irSeen' \in [late : BOOLEAN, forced : BOOLEAN, fault : BOOLEAN]
    BY <2>1, <1>2
  <2>4. irStop # "none" => irSeen'.late
    BY <2>1 DEF IrOwned
  <2>5. irSeen'.fault => irSeen'.late
    BY <2>1, <2>4 DEF IrOwned, IrLeavesNothing
  <2>6. /\ ir'.copies \in Int /\ ir'.copies <= ir.copies
        /\ irSeen'.forced = irSeen.forced /\ irSeen'.late = irSeen.late
    BY <2>1, <2>2 DEF IrOwned
  <2>7. ir'.copies = Packets(ir'.queue) + (IF irTask = "send" THEN 1 ELSE 0)
                       + (IF irSeen.forced THEN 1 ELSE 0)
    BY <2>1, <2>2, <2>6, <1>3 DEF IrOwned
  <2> QED BY <2>1, <2>2, <2>3, <2>4, <2>5, <2>6, <2>7 DEF IrOwned, IrLeavesNothing
<1> QED BY <1>4, <1>5

\* What the IR task does
LEMMA TaskOwns ==
  ASSUME IrInv, IrOwned, IrLoop \/ IrReceive \/ IrTransmit \/ IrExit
  PROVE  IrOwned'
<1>1. /\ ir = [initialized |-> ir.initialized, abort |-> ir.abort, queue |-> ir.queue,
               exists |-> ir.exists, copies |-> ir.copies, sem |-> ir.sem]
      /\ ir.queue \in Seq(Messages)
  BY DEF IrInv, Messages
<1>2. Packets(ir.queue) \in Nat /\ ir.copies \in Int
  BY <1>1, PlacesFinite DEF IrOwned
<1>3. sender' = sender /\ irStop' = irStop /\ irSeen' = irSeen /\ irTask # "none"
  BY DEF IrLoop, IrReceive, IrTransmit, IrExit
<1>4. CASE IrLoop
  BY <1>3, <1>4, <1>2 DEF IrLoop, IrOwned, IrLeavesNothing
<1>5. CASE IrReceive
  <2>1. /\ irTask = "receive" /\ irTask' = (IF Head(ir.queue) = "poison" THEN "exit" ELSE "send")
        /\ ir.queue # <<>> /\ ir'.queue = Tail(ir.queue) /\ ir'.copies = ir.copies
        /\ ir'.exists = ir.exists /\ ir'.sem = ir.sem
    BY <1>1, <1>5 DEF IrReceive
  <2>2. Head(ir.queue) \in Messages
    BY <2>1, <1>1
  <2>3. Packets(ir'.queue) = Packets(ir.queue) - (IF irTask' = "send" THEN 1 ELSE 0)
    BY <2>1, <2>2, <1>1, PacketsTail DEF Messages
  <2>4. irStop \notin {"drain", "done"}
    BY <2>1 DEF IrOwned
  <2> QED BY <2>1, <2>3, <2>4, <1>2, <1>3 DEF IrOwned, IrLeavesNothing
<1>6. CASE IrTransmit
  <2>1. /\ irTask = "send" /\ irTask' = "loop" /\ ir'.queue = ir.queue
        /\ ir'.copies = ir.copies - 1 /\ ir'.exists = ir.exists /\ ir'.sem = ir.sem
    BY <1>1, <1>6 DEF IrTransmit
  <2> QED BY <2>1, <1>2, <1>3 DEF IrOwned, IrLeavesNothing
<1>7. CASE IrExit
  <2>1. /\ irTask = "exit" /\ irTask' = "none" /\ ir'.queue = ir.queue
        /\ ir'.copies = ir.copies /\ ir'.exists = ir.exists /\ ir'.sem = TRUE
    BY <1>1, <1>7 DEF IrExit
  <2> QED BY <2>1, <1>2, <1>3 DEF IrOwned, IrLeavesNothing
<1> QED BY <1>4, <1>5, <1>6, <1>7

\* What the shutdown does
LEMMA StopOwns ==
  ASSUME IrInv, IrOwned, IrStopStep
  PROVE  IrOwned'
<1>1. /\ ir = [initialized |-> ir.initialized, abort |-> ir.abort, queue |-> ir.queue,
               exists |-> ir.exists, copies |-> ir.copies, sem |-> ir.sem]
      /\ ir.queue \in Seq(Messages)
      /\ irSeen \in [late : BOOLEAN, forced : BOOLEAN, fault : BOOLEAN]
  BY DEF IrInv, IrOwned, Messages
<1>2. Packets(ir.queue) \in Nat /\ ir.copies \in Int
  BY <1>1, PlacesFinite DEF IrOwned
<1>3. CASE IrStopFlag
  <2>1. /\ irStop = "none" /\ irStop' = "poison" /\ irTask' = irTask /\ sender' = sender
        /\ ir'.queue = ir.queue /\ ir'.copies = ir.copies /\ ir'.exists = ir.exists /\ ir'.sem = ir.sem
        /\ irSeen' = [late |-> (irSeen.late \/ sender = "checked"), forced |-> irSeen.forced,
                      fault |-> irSeen.fault]
    BY <1>1, <1>3 DEF IrStopFlag
  <2>2. /\ irSeen' \in [late : BOOLEAN, forced : BOOLEAN, fault : BOOLEAN]
        /\ irSeen'.forced = irSeen.forced /\ irSeen'.fault = irSeen.fault
        /\ irSeen'.late = (irSeen.late \/ sender = "checked")
    BY <2>1, <1>1
  <2> QED BY <2>1, <2>2, <1>2 DEF IrOwned, IrLeavesNothing
<1>4. CASE IrPoison
  <2>1. /\ irStop = "poison" /\ irStop' = "wait" /\ irTask' = irTask /\ sender' = sender
        /\ irSeen' = irSeen
        /\ ir'.queue = Poisoned(ir.queue) /\ ir'.copies = ir.copies /\ ir'.exists = ir.exists
        /\ ir'.sem = ir.sem
    BY <1>1, <1>4 DEF IrPoison
  <2>2. Packets(Poisoned(ir.queue)) = Packets(ir.queue)
    BY <1>1, <1>2, PacketsAppend DEF Poisoned, Messages
  <2> QED BY <2>1, <2>2, <1>2 DEF IrOwned, IrLeavesNothing
<1>5. CASE IrAwait
  <2>1. irStop = "wait" /\ irStop' = "drain" /\ ir' = ir /\ sender' = sender
    BY <1>5 DEF IrAwait
  <2>2. CASE ir.sem /\ UNCHANGED <<irTask, irSeen>>
    BY <2>1, <2>2, <1>2 DEF IrOwned, IrLeavesNothing
  <2>3. CASE irTask = "send" /\ irTask' = "none" /\ irSeen' = [irSeen EXCEPT !.forced = TRUE]
    <3>1. irSeen' = [late |-> irSeen.late, forced |-> TRUE, fault |-> irSeen.fault]
      BY <2>3, <1>1
    <3>2. /\ irSeen' \in [late : BOOLEAN, forced : BOOLEAN, fault : BOOLEAN]
          /\ irSeen'.late = irSeen.late /\ irSeen'.fault = irSeen.fault /\ irSeen'.forced
      BY <3>1, <1>1
    <3>3. ~irSeen.forced
      BY <2>1 DEF IrOwned
    <3> QED BY <2>1, <2>3, <3>2, <3>3, <1>2 DEF IrOwned, IrLeavesNothing
  <2> QED BY <1>5, <2>2, <2>3 DEF IrAwait
<1>6. CASE IrDrain
  <2>1. /\ irStop = "drain" /\ irStop' = "done" /\ irTask' = irTask /\ sender' = sender
        /\ irSeen' = irSeen /\ ir'.copies = ir.copies - Packets(ir.queue)
        /\ ir'.exists = FALSE /\ ir'.sem = FALSE /\ ir'.queue = <<>>
    BY <1>1, <1>6 DEF IrDrain, Drained
  <2>2. ir'.copies \in Int /\ ir'.exists \in BOOLEAN /\ ir'.sem \in BOOLEAN /\ ~ir'.sem
    <3>1. ir'.copies \in Int
      BY <2>1, <1>2
    <3>2. ir'.exists \in BOOLEAN /\ ir'.sem \in BOOLEAN /\ ~ir'.sem
      BY <2>1, Zenon
    <3> QED BY <3>1, <3>2
  <2>3. irTask = "none" /\ sender \in {"idle", "checked"} /\ Packets(ir'.queue) = 0
    BY <2>1, PacketsNone DEF IrOwned
  <2>4. ~irSeen.late => sender = "idle"
    BY <2>1 DEF IrOwned
  <2>5. ir'.copies = (IF sender = "checked" THEN 1 ELSE 0) + (IF irSeen.forced THEN 1 ELSE 0)
    BY <2>1, <2>3, <1>2 DEF IrOwned
  <2>6. ir'.copies <= (IF irSeen.late THEN 1 ELSE 0) + (IF irSeen.forced THEN 1 ELSE 0)
    BY <2>3, <2>4, <2>5
  <2> QED BY <2>1, <2>2, <2>3, <2>4, <2>5, <2>6, <1>1 DEF IrOwned, IrLeavesNothing
<1> QED BY <1>3, <1>4, <1>5, <1>6 DEF IrStopStep

\* Every step hands a payload on, queues it, or frees it.
LEMMA IrOwnedNext ==
  ASSUME OffInv, IrInv, IrOwned, [Next]_vars
  PROVE  IrOwned'
<1>1. CASE Boot
  <2>1. /\ ir' = [initialized |-> TRUE, abort |-> FALSE, queue |-> <<>>, exists |-> TRUE,
                  copies |-> 0, sem |-> FALSE]
        /\ irStop' = "none" /\ irTask' = "loop" /\ sender' = "idle" /\ irSeen' = IrNothingSeen
    BY <1>1 DEF Boot, IrStarted, IrOff, IrInv, OffInv
  <2> QED BY <2>1, PacketsNone DEF IrOwned, IrLeavesNothing, IrNothingSeen
<1>2. CASE Restart
  BY <1>2, PacketsNone DEF Restart, IrOff, IrOwned, IrLeavesNothing, IrNothingSeen
<1>3. CASE SendIr
  BY <1>3, SenderOwns DEF SendIr
<1>4. CASE TransmitIr
  BY <1>4, TaskOwns DEF TransmitIr
<1>5. CASE StopIr
  <2>1. CASE IrStopStep
    BY <2>1, StopOwns
  <2>2. CASE UNCHANGED irvars
    BY <2>2 DEF IrOwned, IrLeavesNothing
  <2> QED BY <1>5, <2>1, <2>2 DEF StopIr
<1>6. CASE ~Boot /\ ~Restart /\ ~SendIr /\ ~TransmitIr /\ ~StopIr
  <2>1. UNCHANGED irvars
    BY <1>6, IrFrame
  <2> QED BY <2>1 DEF IrOwned, IrLeavesNothing
<1> QED BY <1>1, <1>2, <1>3, <1>4, <1>5, <1>6

\* Every payload has an owner at every step.
LEMMA IrOwnedCorrect == Spec => [](OffInv /\ IrInv /\ IrOwned)
<1>1. OffInv /\ [Next]_vars => OffInv'
  BY OffInvNext
<1>2. IrInv /\ [Next]_vars => IrInv'
  BY IrInvNext
<1>3. OffInv /\ IrInv /\ IrOwned /\ [Next]_vars => IrOwned'
  BY IrOwnedNext
<1> QED BY OffInvInit, IrInvInit, IrOwnedInit, <1>1, <1>2, <1>3, PTL DEF Spec

-----------------------------------------------------------------------------
(* Host and watch                                                          *)

Unit == Nat \X Nat
Answers == {"ack", "nack", "eot"}

\* The image and the bounds, as numbers
LEMMA ImageFacts ==
  /\ Len(Image) \in Nat \ {0} /\ DOMAIN Image = 1..Len(Image)
  /\ \A b \in DOMAIN Image : Image[b] \in Nat \ {0}
  /\ 1 \in DOMAIN Image /\ BlockSize \in Nat /\ RxSize \in Nat /\ MaxRetries \in Nat \ {0}
<1>1. Image \in Seq(1..BlockSize) /\ Image # <<>> /\ BlockSize \in Nat
  BY OtaAssumption
<1>2. Len(Image) \in Nat \ {0} /\ DOMAIN Image = 1..Len(Image)
  BY <1>1, EmptySeq
<1>3. \A b \in DOMAIN Image : Image[b] \in 1..BlockSize
  BY <1>1
<1> QED BY <1>1, <1>2, <1>3, OtaAssumption

\* The size of the image is a number.
LEMMA SizeTyped == ImageSize \in Int
<1>1. Image[Len(Image)] \in Nat /\ Len(Image) - 1 \in Int /\ BlockSize \in Int
  BY ImageFacts
<1>2. (Len(Image) - 1) * BlockSize \in Int
  BY <1>1
<1> QED BY <1>1, <1>2 DEF ImageSize

\* The units of a block
LEMMA UnitFacts ==
  ASSUME NEW b \in DOMAIN Image
  PROVE  /\ Units(b) \in Seq(Unit) /\ Len(Units(b)) = Image[b] /\ Units(b) # <<>>
         /\ \A u \in 1..Image[b] : Units(b)[u] = <<b, u>> /\ <<b, u>> \in Unit
<1>1. Image[b] \in Nat \ {0} /\ b \in Nat
  BY ImageFacts
<1>2. \A u \in 1..Image[b] : <<b, u>> \in Unit
  BY <1>1 DEF Unit
<1>3. Units(b) \in [1..Image[b] -> Unit]
  BY <1>2 DEF Units
<1>4. Units(b) \in Seq(Unit) /\ Len(Units(b)) = Image[b]
  BY <1>1, <1>3
<1>5. Units(b) # <<>>
  BY <1>1, <1>4
<1> QED BY <1>2, <1>4, <1>5 DEF Units

\* What passes the checksum while the line holds one block only is that block.
LEMMA ChecksumOfBlock ==
  ASSUME NEW q \in Seq(Unit), NEW b \in DOMAIN Image, OfBlock(q, b), ChecksumOK(q)
  PROVE  q = Units(b) /\ Len(q) = Image[b] /\ BlockOf(q) = b
<1>1. \A c \in DOMAIN Image : q = Units(c) => c = b
  <2> SUFFICES ASSUME NEW c \in DOMAIN Image, q = Units(c) PROVE c = b
    OBVIOUS
  <2>1. 1 \in DOMAIN q /\ q[1] = <<c, 1>>
    <3>1. Image[c] \in Nat \ {0} /\ Len(q) = Image[c]
      BY ImageFacts, UnitFacts
    <3>2. 1 \in 1..Image[c] /\ 1 \in DOMAIN q
      BY <3>1
    <3>3. Units(c)[1] = <<c, 1>>
      BY <3>2, UnitFacts
    <3> QED BY <3>2, <3>3
  <2>2. q[1] # Spoilt
    BY <2>1 DEF Spoilt
  <2>3. q[1][1] = b
    BY <2>1, <2>2 DEF OfBlock
  <2> QED BY <2>1, <2>3
<1>2. q = Units(b)
  BY <1>1 DEF ChecksumOK
<1>3. BlockOf(q) = b
  BY <1>1, <1>2 DEF BlockOf
<1> QED BY <1>2, <1>3, UnitFacts

\* Nothing read has no right checksum.
LEMMA NothingRead == ~ChecksumOK(<<>>)
BY UnitFacts DEF ChecksumOK

\* Units of one block, put together, are of that block.
LEMMA OfBlockConcat ==
  ASSUME NEW q \in Seq(Unit), NEW r \in Seq(Unit), NEW b, OfBlock(q, b), OfBlock(r, b)
  PROVE  OfBlock(q \o r, b)
<1> SUFFICES ASSUME NEW i \in DOMAIN (q \o r) PROVE (q \o r)[i] = Spoilt \/ (q \o r)[i][1] = b
  BY DEF OfBlock
<1>1. /\ Len(q) \in Nat /\ Len(r) \in Nat /\ DOMAIN q = 1..Len(q) /\ DOMAIN r = 1..Len(r)
      /\ i \in 1..(Len(q) + Len(r))
      /\ (q \o r)[i] = IF i <= Len(q) THEN q[i] ELSE r[i - Len(q)]
  BY ConcatProperties
<1>2. CASE i <= Len(q)
  BY <1>1, <1>2 DEF OfBlock
<1>3. CASE ~(i <= Len(q))
  <2>1. i - Len(q) \in DOMAIN r
    BY <1>1, <1>3
  <2> QED BY <1>1, <1>3, <2>1 DEF OfBlock
<1> QED BY <1>2, <1>3

\* A read splits what has arrived.
LEMMA OfBlockSplit ==
  ASSUME NEW q \in Seq(Unit), NEW n \in Nat, n <= Len(q), NEW b
  PROVE  /\ SubSeq(q, 1, n) \in Seq(Unit) /\ Len(SubSeq(q, 1, n)) = n
         /\ SubSeq(q, n + 1, Len(q)) \in Seq(Unit) /\ Len(SubSeq(q, n + 1, Len(q))) = Len(q) - n
         /\ OfBlock(q, b) => OfBlock(SubSeq(q, 1, n), b) /\ OfBlock(SubSeq(q, n + 1, Len(q)), b)
<1> DEFINE x == SubSeq(q, 1, n)
           y == SubSeq(q, n + 1, Len(q))
<1>1. Len(q) \in Nat /\ DOMAIN q = 1..Len(q)
  OBVIOUS
<1>2. x \in Seq(Unit) /\ Len(x) = n /\ DOMAIN x = 1..n /\ \A i \in 1..n : x[i] = q[i]
  <2>1. \A i \in 1..n : q[i] \in Unit
    BY <1>1
  <2> QED BY <1>1, <2>1, SubSeqProperties
<1>3. y \in Seq(Unit) /\ Len(y) = Len(q) - n /\ DOMAIN y = 1..(Len(q) - n)
      /\ \A i \in 1..(Len(q) - n) : y[i] = q[n + i]
  <2>1. \A i \in (n + 1)..Len(q) : q[i] \in Unit
    BY <1>1
  <2>2. n + 1 \in Int /\ Len(q) \in Int
    BY <1>1
  <2>3. /\ y \in Seq(Unit) /\ Len(y) = (IF n + 1 <= Len(q) THEN Len(q) - (n + 1) + 1 ELSE 0)
        /\ \A i \in 1..(Len(q) - (n + 1) + 1) : y[i] = q[(n + 1) + i - 1]
    BY <2>1, <2>2, SubSeqProperties
  <2> HIDE DEF y
  <2>4. Len(y) = Len(q) - n
    <3> DEFINE l == Len(q)
    <3>1. l \in Nat /\ n <= l /\ Len(y) = (IF n + 1 <= l THEN l - (n + 1) + 1 ELSE 0)
      BY <2>3, <1>1
    <3> HIDE DEF l
    <3>2. CASE n + 1 <= l
      BY <3>1, <3>2 DEF l
    <3>3. CASE ~(n + 1 <= l)
      <4>1. n = l
        BY <3>1, <3>3
      <4> QED BY <3>1, <3>3, <4>1 DEF l
    <3> QED BY <3>2, <3>3, SMTT(40)
  <2>5. ASSUME NEW i \in 1..(Len(q) - n) PROVE y[i] = q[n + i]
    <3>1. i \in 1..(Len(q) - (n + 1) + 1) /\ (n + 1) + i - 1 = n + i
      BY <1>1
    <3> QED BY <3>1, <2>3
  <2>6. DOMAIN y = 1..(Len(q) - n)
    BY <2>3, <2>4
  <2> QED BY <2>3, <2>4, <2>5, <2>6
<1> HIDE DEF x, y
<1>4. ASSUME OfBlock(q, b) PROVE OfBlock(x, b) /\ OfBlock(y, b)
  <2>1. OfBlock(x, b)
    BY <1>1, <1>2, <1>4 DEF OfBlock
  <2>2. ASSUME NEW i \in DOMAIN y PROVE y[i] = Spoilt \/ y[i][1] = b
    <3>1. n + i \in DOMAIN q /\ y[i] = q[n + i]
      BY <1>1, <1>3
    <3> QED BY <3>1, <1>4 DEF OfBlock
  <2> QED BY <2>1, <2>2 DEF OfBlock
<1> QED BY <1>2, <1>3, <1>4 DEF x, y

\* What the types say where they are used
ShapeNow ==
  /\ w = [pc |-> w.pc, size |-> w.size, units |-> w.units, zeros |-> w.zeros, ok |-> w.ok,
          retries |-> w.retries, total |-> w.total, written |-> w.written]
  /\ h = [pc |-> h.pc, block |-> h.block, sent |-> h.sent, retry |-> h.retry]
  /\ w.pc \in {"none", "size", "block"}
  /\ w.size \in Int /\ w.total \in Int /\ w.written \in Seq(Nat)
  /\ w.units \in Seq(Unit) /\ rx \in Seq(Unit) /\ resp \in Seq(Answers)
  /\ Len(rx) <= RxSize /\ w.retries \in 0..(MaxRetries - 1) /\ w.zeros \in 0..MaxRetries
  /\ h.block \in DOMAIN Image /\ h.retry \in 0..(MaxRetries - 1)
  /\ h.sent \in 0..Image[h.block] /\ Image[h.block] \in Nat \ {0} /\ h.block \in Nat \ {0}
  /\ Expected \in Int /\ MaxRetries \in Nat \ {0} /\ RxSize \in Nat
  /\ Len(rx) \in Nat /\ Len(w.units) \in Nat /\ Len(w.written) \in Nat

\* The types, as they are used
LEMMA Shape == OtaShape => ShapeNow
<1> SUFFICES ASSUME OtaShape PROVE ShapeNow
  OBVIOUS
<1>1. Expected \in Int
  BY ImageFacts DEF Expected, OtaShape
<1>2. h.block \in DOMAIN Image
  BY DEF OtaShape, OtaTypeOK
<1>3. Image[h.block] \in Nat \ {0} /\ h.block \in Nat \ {0}
  BY <1>2, ImageFacts
<1>4. Len(rx) \in Nat /\ Len(w.units) \in Nat /\ Len(w.written) \in Nat
  BY DEF OtaShape
<1> QED BY <1>1, <1>2, <1>3, <1>4, ImageFacts DEF ShapeNow, OtaShape, OtaTypeOK, Unit, Answers

\* The fields of both sides
WFields == w = [pc |-> w.pc, size |-> w.size, units |-> w.units, zeros |-> w.zeros, ok |-> w.ok,
                retries |-> w.retries, total |-> w.total, written |-> w.written]
HFields == h = [pc |-> h.pc, block |-> h.block, sent |-> h.sent, retry |-> h.retry]

\* Both sides are the records of their fields.
LEMMA Fields == OtaShape => WFields /\ HFields
BY DEF OtaShape, WFields, HFields

\* The types of the partitions
FlashTyped == {flash.run, flash.boot} \subseteq Slots /\ flash.state \in {"valid", "new", "trial"}

\* The size is acknowledged: the dialogue begins.
LEMMA ReceiveSizeStep ==
  ASSUME OtaInv, ReceiveSize
  PROVE  OtaInv'
<1> USE ImageFacts
<1>1. ShapeNow /\ OtaShape
  BY Shape DEF OtaInv
<1>2. /\ w.pc = "size" /\ w.size # NoSize /\ Quiet /\ w.written = <<>> /\ resp = <<>>
      /\ h.block = 1 /\ h.sent = 0 /\ h.pc \in {"greet", "abort"}
  BY <1>1 DEF ReceiveSize, OtaShape
<1>3. /\ w' = [pc |-> "block", size |-> w.size, units |-> w.units, zeros |-> w.zeros, ok |-> w.ok,
               retries |-> w.retries, total |-> w.total, written |-> w.written]
      /\ flash' = flash /\ rx' = rx /\ h' = h /\ faults' = faults
      /\ resp' = (IF h.pc = "greet" THEN <<"ack">> ELSE <<>>)
  <2>1. WFields
    BY <1>1, Fields
  <2>2. w' = [w EXCEPT !.pc = "block"] /\ flash' = flash /\ rx' = rx /\ h' = h /\ faults' = faults
    BY DEF ReceiveSize
  <2>3. Append(<<>>, "ack") = <<"ack">>
    OBVIOUS
  <2>4. resp' = (IF h.pc = "greet" THEN <<"ack">> ELSE <<>>)
    BY <1>2, <2>3 DEF ReceiveSize, Answer, Listening
  <2> QED BY <2>1, <2>2, <2>4 DEF WFields
<1>4. resp' \in Seq(Answers)
  <2>1. <<"ack">> \in Seq(Answers) /\ <<>> \in Seq(Answers)
    BY DEF Answers
  <2> QED BY <2>1, <1>3
<1>5. OtaShape'
  BY <1>1, <1>3, <1>4 DEF OtaShape, OtaTypeOK, Answers
<1>6. Dialogue'
  BY <1>1, <1>2, <1>3 DEF Dialogue, Greeting, Quiet
<1> QED BY <1>5, <1>6 DEF OtaInv

\* The rest of a block moves from the line to the block.
LEMMA ReadAllStep ==
  ASSUME OtaInv, ReadAll
  PROVE  OtaInv'
<1>1. ShapeNow /\ OtaShape
  BY Shape DEF OtaInv
<1> DEFINE n == Expected - Len(w.units)
           x == SubSeq(rx, 1, n)
           y == SubSeq(rx, n + 1, Len(rx))
<1>2. /\ w.pc = "block" /\ n \in Nat \ {0} /\ n <= Len(rx)
      /\ w' = [pc |-> w.pc, size |-> w.size, units |-> w.units \o x, zeros |-> w.zeros, ok |-> w.ok,
               retries |-> w.retries, total |-> w.total, written |-> w.written]
      /\ rx' = y /\ flash' = flash /\ h' = h /\ resp' = resp /\ faults' = faults
  <2>1. WFields /\ Expected \in Int /\ Len(w.units) \in Nat
    BY <1>1, Fields DEF ShapeNow
  <2>2. /\ w.pc = "block" /\ Len(w.units) < Expected /\ Len(rx) >= n
        /\ w' = [w EXCEPT !.units = @ \o x] /\ rx' = y
        /\ flash' = flash /\ h' = h /\ resp' = resp /\ faults' = faults
    BY DEF ReadAll
  <2>3. n \in Nat \ {0}
    BY <2>1, <2>2
  <2>4. Len(rx) \in Nat
    BY <1>1 DEF ShapeNow
  <2> HIDE DEF x, y, n
  <2> QED BY <2>1, <2>2, <2>3, <2>4 DEF WFields
<1> HIDE DEF n
<1>3. \A b : /\ x \in Seq(Unit) /\ Len(x) = n /\ y \in Seq(Unit) /\ Len(y) = Len(rx) - n
             /\ OfBlock(rx, b) => OfBlock(x, b) /\ OfBlock(y, b)
  <2>1. rx \in Seq(Unit)
    BY <1>1 DEF ShapeNow
  <2> QED BY <2>1, <1>2, OfBlockSplit
<1> HIDE DEF x, y
<1>4. /\ w.units \o x \in Seq(Unit) /\ Len(w.units \o x) = Len(w.units) + n
      /\ \A b : OfBlock(w.units, b) /\ OfBlock(rx, b) => OfBlock(w.units \o x, b)
  <2>1. w.units \in Seq(Unit) /\ x \in Seq(Unit) /\ Len(x) = n
    BY <1>1, <1>3 DEF ShapeNow
  <2>2. w.units \o x \in Seq(Unit) /\ Len(w.units \o x) = Len(w.units) + n
    BY <2>1
  <2>3. \A b : OfBlock(rx, b) => OfBlock(x, b)
    BY <1>3
  <2> QED BY <2>1, <2>2, <2>3, OfBlockConcat
<1>5. Len(rx') <= RxSize /\ Len(w'.units) + Len(rx') = Len(w.units) + Len(rx) /\ Expected' = Expected
  <2> DEFINE lu == Len(w.units)
             lr == Len(rx)
  <2>1. lu \in Nat /\ lr \in Nat /\ RxSize \in Nat /\ lr <= RxSize
    BY <1>1 DEF ShapeNow
  <2>2. /\ n \in Nat \ {0} /\ n <= lr /\ Len(w'.units) = lu + n /\ Len(rx') = lr - n
    BY <1>2, <1>3, <1>4
  <2>3. Expected' = Expected
    BY <1>2 DEF Expected
  <2> HIDE DEF lu, lr
  <2>4. Len(rx') <= RxSize /\ Len(w'.units) + Len(rx') = lu + lr
    BY <2>1, <2>2
  <2> QED BY <2>3, <2>4 DEF lu, lr
<1>6. OtaShape'
  BY <1>1, <1>2, <1>3, <1>4, <1>5 DEF OtaShape, OtaTypeOK, Unit
<1>7. ASSUME faults = {} PROVE Dialogue'
  <2>1. Dialogue /\ rx # <<>>
    BY <1>1, <1>2, <1>7 DEF OtaInv, ShapeNow
  <2>2. h.pc \in {"send", "wait"} => Attempting'
    <3> SUFFICES ASSUME h.pc \in {"send", "wait"} PROVE Attempting'
      OBVIOUS
    <3>1. Attempting
      BY <2>1 DEF Dialogue, Accepted, Quiet
    <3>2. OfBlock(w'.units, h.block) /\ OfBlock(rx', h.block)
      BY <3>1, <1>2, <1>3, <1>4 DEF Attempting
    <3>3. Attempt => Attempt'
      BY <2>1, <1>2, <1>5 DEF Attempt, Quiet
    <3> QED BY <3>1, <3>2, <3>3, <1>2, <1>5 DEF Attempting
  <2> QED BY <2>1, <2>2, <1>2 DEF Dialogue, Greeting, Finished, Quiet
<1> QED BY <1>2, <1>6, <1>7 DEF OtaInv

\* A read that times out while the host is not due finds all that was sent.
LEMMA ReadTimeoutStep ==
  ASSUME OtaInv, ReadTimeout
  PROVE  OtaInv'
<1>1. ShapeNow /\ OtaShape
  BY Shape DEF OtaInv
<1>2. /\ w.pc = "block" /\ w.zeros < MaxRetries /\ rx' = <<>>
      /\ flash' = flash /\ h' = h /\ resp' = resp
      /\ faults' = {} => faults = {} /\ ~HostDue
  BY DEF ReadTimeout
<1>3. /\ w'.pc = "block" /\ w'.size = w.size /\ w'.total = w.total /\ w'.written = w.written
      /\ w'.retries = w.retries
      /\ w' = [pc |-> w'.pc, size |-> w'.size, units |-> w'.units, zeros |-> w'.zeros, ok |-> w'.ok,
               retries |-> w'.retries, total |-> w'.total, written |-> w'.written]
      /\ \/ rx = <<>> /\ w'.units = w.units /\ w'.zeros = w.zeros + 1 /\ w'.ok = FALSE
         \/ rx # <<>> /\ w'.units = w.units \o rx /\ w'.zeros = w.zeros /\ w'.ok = w.ok
  <2>1. CASE rx = <<>>
    <3>1. w' = [pc |-> w.pc, size |-> w.size, units |-> w.units, zeros |-> w.zeros + 1, ok |-> FALSE,
               retries |-> w.retries, total |-> w.total, written |-> w.written]
      BY <1>1, <2>1 DEF ReadTimeout, ShapeNow
    <3> QED BY <2>1, <3>1, <1>2
  <2>2. CASE rx # <<>>
    <3>1. w' = [pc |-> w.pc, size |-> w.size, units |-> w.units \o rx, zeros |-> w.zeros, ok |-> w.ok,
               retries |-> w.retries, total |-> w.total, written |-> w.written]
      BY <1>1, <2>2 DEF ReadTimeout, ShapeNow
    <3> QED BY <2>2, <3>1, <1>2
  <2> QED BY <2>1, <2>2
<1>4. /\ w.units \o rx \in Seq(Unit) /\ Len(w.units \o rx) = Len(w.units) + Len(rx)
      /\ \A b : OfBlock(w.units, b) /\ OfBlock(rx, b) => OfBlock(w.units \o rx, b)
  BY <1>1, OfBlockConcat, SMTT(40) DEF ShapeNow
<1>5. <<>> \in Seq(Unit) /\ Len(<<>>) = 0 /\ \A b : OfBlock(<<>>, b)
  BY DEF OfBlock
<1>6. Expected' = Expected /\ Len(w'.units) + Len(rx') = Len(w.units) + Len(rx)
  BY <1>1, <1>2, <1>3, <1>4, <1>5, SMTT(40) DEF Expected, ShapeNow
<1>7. OtaShape'
  <2>1. w'.ok <=> w'.zeros = 0
    <3>1. (w.ok <=> w.zeros = 0) /\ w.zeros \in Nat
      BY <1>1 DEF OtaShape, ShapeNow
    <3>2. CASE w'.units = w.units /\ w'.zeros = w.zeros + 1 /\ w'.ok = FALSE
      <4>1. w'.zeros # 0
        BY <3>1, <3>2
      <4> QED BY <3>2, <4>1, Zenon
    <3>3. CASE w'.zeros = w.zeros /\ w'.ok = w.ok
      BY <3>1, <3>3
    <3> QED BY <1>3, <3>2, <3>3
  <2>2. w'.zeros \in 0..MaxRetries /\ w'.units \in Seq(Unit) /\ rx' \in Seq(Unit) /\ Len(rx') <= RxSize
    <3>1. w.zeros + 1 \in 0..MaxRetries /\ w.zeros \in 0..MaxRetries /\ 0 <= RxSize
      BY <1>1, <1>2, SMTT(40) DEF ShapeNow
    <3>2. w.units \in Seq(Unit)
      BY <1>1 DEF ShapeNow
    <3>3. w'.zeros \in 0..MaxRetries /\ w'.units \in Seq(Unit)
      BY <3>1, <3>2, <1>3, <1>4
    <3> QED BY <3>1, <3>3, <1>2, <1>5
  <2> QED BY <2>1, <2>2, <1>1, <1>2, <1>3 DEF OtaShape, OtaTypeOK, Unit
<1>8. ASSUME faults' = {} PROVE Dialogue'
  <2>1. Dialogue /\ ~HostDue
    BY <1>2, <1>8 DEF OtaInv
  <2>2. h.pc # "send" /\ (h.pc \in {"greet", "wait"} => resp = <<>>)
    BY <2>1 DEF HostDue
  <2>3. h.pc # "greet"
    <3>1. <<"ack">> # <<>>
      OBVIOUS
    <3>2. h.pc = "greet" => resp = <<"ack">>
      BY <2>1 DEF Dialogue, Greeting
    <3> QED BY <2>2, <3>1, <3>2
  <2>4. h.pc = "wait" => Attempting'
    <3> SUFFICES ASSUME h.pc = "wait" PROVE Attempting'
      OBVIOUS
    <3>1. Attempting
      BY <2>1, <2>2 DEF Dialogue, Accepted
    <3>2. OfBlock(w'.units, h.block) /\ OfBlock(rx', h.block)
      BY <3>1, <1>2, <1>3, <1>4, <1>5 DEF Attempting
    <3>3. Attempt => Attempt'
      BY <2>2, <1>2, <1>6 DEF Attempt, Quiet
    <3> QED BY <3>1, <3>2, <3>3, <1>2, <1>3, <1>6 DEF Attempting
  <2>5. h.pc = "final" => Finished'
    BY <2>1, <1>2, <1>3 DEF Dialogue, Finished
  <2> QED BY <2>1, <2>2, <2>3, <2>4, <2>5, <1>2, <1>3 DEF Dialogue
<1> QED BY <1>3, <1>7, <1>8 DEF OtaInv

\* An answer joins those the host has yet to read.
LEMMA Answered ==
  ASSUME NEW a \in Answers, resp \in Seq(Answers), Answer(a)
  PROVE  /\ resp' \in Seq(Answers)
         /\ h.pc \in Listening => resp' = Append(resp, a)
         /\ (\A i \in DOMAIN resp : resp[i] = a) => \A i \in DOMAIN resp' : resp'[i] = a
<1>1. resp' \in Seq(Answers) /\ (h.pc \in Listening => resp' = Append(resp, a))
  BY DEF Answer
<1>2. ASSUME \A i \in DOMAIN resp : resp[i] = a, resp' = Append(resp, a)
      PROVE  \A i \in DOMAIN resp' : resp'[i] = a
  BY <1>2
<1> QED BY <1>1, <1>2 DEF Answer

\* A block that passes is the one the host is at, the last of its units has been sent,
\* and nothing else is on the line.
LEMMA AcceptedWhole ==
  ASSUME OtaInv, Dialogue, BlockRead, w.ok, ChecksumOK(w.units),
         h.pc \in {"greet", "send", "wait", "final"}
  PROVE  /\ h.pc = "wait" /\ resp = <<>> /\ rx = <<>> /\ Len(w.written) = h.block - 1
         /\ BlockOf(w.units) = h.block
<1>1. ShapeNow /\ OtaShape
  BY Shape DEF OtaInv
<1>2. w.units # <<>>
  BY NothingRead
<1>3. Attempting /\ h.pc \in {"send", "wait"}
  BY <1>2 DEF Dialogue, Greeting, Accepted, Finished, Quiet
<1>4. /\ w.units = Units(h.block) /\ Len(w.units) = Image[h.block] /\ BlockOf(w.units) = h.block
  <2>1. w.units \in Seq(Unit) /\ h.block \in DOMAIN Image /\ OfBlock(w.units, h.block)
    BY <1>1, <1>3 DEF ShapeNow, Attempting
  <2> QED BY <2>1, ChecksumOfBlock
<1>5. w.zeros = 0 /\ Len(w.units) = Expected
  <2>1. w.zeros = 0 /\ MaxRetries # 0
    BY <1>1 DEF OtaShape, ShapeNow
  <2> QED BY <2>1 DEF BlockRead
<1>6. Attempt
  BY <1>3, <1>4, <1>5 DEF Attempting
<1>7. resp = <<>> /\ Len(w.units) + Len(rx) <= h.sent
  BY <1>2, <1>6 DEF Attempt, Quiet
<1>8. Len(rx) = 0 /\ h.sent = Image[h.block]
  <2> DEFINE m == Image[h.block]
             l == Len(rx)
  <2>1. m \in Nat /\ l \in Nat /\ h.sent \in 0..m /\ m + l <= h.sent
    BY <1>1, <1>4, <1>7 DEF ShapeNow
  <2> HIDE DEF m, l
  <2>2. l = 0 /\ h.sent = m
    BY <2>1
  <2> QED BY <2>2 DEF m, l
<1>9. rx = <<>>
  BY <1>1, <1>8 DEF ShapeNow
<1>10. h.pc = "wait"
  BY <1>1, <1>3, <1>8 DEF OtaShape, ShapeNow
<1> QED BY <1>3, <1>4, <1>7, <1>9, <1>10 DEF Attempting

\* The block written is the one the host is at.
LEMMA BlockAcceptedStep ==
  ASSUME OtaInv, BlockAccepted
  PROVE  OtaInv'
<1>1. ShapeNow /\ OtaShape
  BY Shape DEF OtaInv
<1>2. /\ w.pc = "block" /\ BlockRead /\ w.ok /\ ChecksumOK(w.units)
      /\ flash' = flash /\ rx' = rx /\ h' = h /\ faults' = faults /\ Answer("ack")
  BY DEF BlockAccepted, BlockRead
<1>3. w' = [pc |-> w.pc, size |-> w.size, units |-> <<>>, zeros |-> 0, ok |-> TRUE, retries |-> 0,
            total |-> w.total + Len(w.units), written |-> Append(w.written, BlockOf(w.units))]
  <2>1. WFields
    BY <1>1, Fields
  <2>2. w' = [[w EXCEPT !.units = <<>>, !.zeros = 0, !.ok = TRUE]
                EXCEPT !.retries = 0, !.total = @ + Len(w.units),
                       !.written = Append(@, BlockOf(w.units))]
    BY DEF BlockAccepted, NextBlock
  <2> QED BY <2>1, <2>2 DEF WFields
<1>4. BlockOf(w.units) \in Nat
  <2>1. \A b \in DOMAIN Image : b \in Nat
    BY ImageFacts
  <2> QED BY <1>2, <2>1 DEF BlockOf, ChecksumOK
<1>5. Append(w.written, BlockOf(w.units)) \in Seq(Nat) /\ w.total + Len(w.units) \in Int
  BY <1>1, <1>4, SMTT(40) DEF ShapeNow
<1>6. resp' \in Seq(Answers) /\ (h.pc \in Listening => resp' = Append(resp, "ack"))
  BY <1>1, <1>2, Answered DEF ShapeNow, Answers
<1>7. OtaShape'
  <2>1. <<>> \in Seq(Nat \X Nat) /\ 0 \in 0..MaxRetries /\ 0 \in 0..(MaxRetries - 1)
    BY ImageFacts
  <2>2. TRUE <=> 0 = 0
    OBVIOUS
  <2> QED BY <2>1, <2>2, <1>1, <1>2, <1>3, <1>5, <1>6 DEF OtaShape, OtaTypeOK, Answers
<1>8. ASSUME faults = {}, h.pc \in {"greet", "send", "wait", "final"} PROVE Dialogue'
  <2>1. Dialogue
    BY <1>2, <1>8 DEF OtaInv
  <2>2. /\ h.pc = "wait" /\ resp = <<>> /\ rx = <<>> /\ Len(w.written) = h.block - 1
        /\ BlockOf(w.units) = h.block
    BY <2>1, <1>2, <1>8, AcceptedWhole
  <2>3. resp' = <<"ack">>
    <3>1. Append(<<>>, "ack") = <<"ack">>
      OBVIOUS
    <3> QED BY <3>1, <2>2, <1>6 DEF Listening
  <2> DEFINE wr == w.written
             nw == Append(wr, h.block)
  <2>4. wr \in Seq(Nat) /\ h.block \in Nat \ {0} /\ Len(wr) = h.block - 1
        /\ \A i \in DOMAIN wr : wr[i] = i
    BY <2>1, <2>2, <1>1 DEF ShapeNow, Dialogue, Listening
  <2>5. Len(nw) = h.block /\ \A i \in DOMAIN nw : nw[i] = i
    BY <2>4
  <2>6. w'.written = nw /\ w'.units = <<>> /\ w'.zeros = 0
    BY <1>3, <2>2
  <2> HIDE DEF wr, nw
  <2>7. Accepted'
    BY <2>2, <2>3, <2>5, <2>6, <1>2 DEF Accepted, Quiet
  <2> QED BY <2>2, <2>5, <2>6, <2>7, <1>2 DEF Dialogue
<1>9. ASSUME h.pc \notin {"greet", "send", "wait", "final"} PROVE Dialogue'
  BY <1>2, <1>9 DEF Dialogue, Listening
<1> QED BY <1>7, <1>8, <1>9, <1>2 DEF OtaInv

\* A refusal answers one attempt, after all of it has been sent.
LEMMA BlockRefusedStep ==
  ASSUME OtaInv, BlockRefused
  PROVE  OtaInv'
<1>1. ShapeNow /\ OtaShape
  BY Shape DEF OtaInv
<1>2. /\ w.pc = "block" /\ BlockRead /\ ~(w.ok /\ ChecksumOK(w.units))
      /\ flash' = flash /\ h' = h /\ faults' = faults /\ Answer("nack")
  BY DEF BlockRefused, BlockRead
<1>3. /\ resp' \in Seq(Answers) /\ (h.pc \in Listening => resp' = Append(resp, "nack"))
      /\ (\A i \in DOMAIN resp : resp[i] = "nack") => \A i \in DOMAIN resp' : resp'[i] = "nack"
  BY <1>1, <1>2, Answered DEF ShapeNow, Answers
<1>4. CASE RetryCounted(w.retries) >= MaxRetries
  <2>1. w' = WatchIdle /\ rx' = <<>>
    BY <1>4 DEF BlockRefused, Reboot
  <2>2. /\ <<>> \in Seq(Nat \X Nat) /\ 0 \in 0..MaxRetries /\ 0 \in 0..(MaxRetries - 1)
        /\ Len(<<>>) <= RxSize /\ <<>> \in Seq(Nat)
    BY ImageFacts
  <2>3. OtaShape'
    BY <2>1, <2>2, <1>1, <1>2, <1>3 DEF OtaShape, OtaTypeOK, WatchIdle, NoSize, Answers
  <2> QED BY <2>1, <2>3 DEF OtaInv, WatchIdle
<1>5. CASE ~(RetryCounted(w.retries) >= MaxRetries)
  <2>1. /\ w' = [pc |-> w.pc, size |-> w.size, units |-> <<>>, zeros |-> 0, ok |-> TRUE,
                 retries |-> w.retries + 1, total |-> w.total, written |-> w.written]
        /\ rx' = IF w.ok THEN rx ELSE <<>>
    <3>1. WFields
      BY <1>1, Fields
    <3>2. /\ w' = [[w EXCEPT !.units = <<>>, !.zeros = 0, !.ok = TRUE]
                      EXCEPT !.retries = RetryCounted(@)]
          /\ rx' = IF w.ok THEN rx ELSE <<>>
      BY <1>5 DEF BlockRefused, NextBlock
    <3> QED BY <3>1, <3>2 DEF WFields, RetryCounted
  <2>2. w.retries + 1 \in 0..(MaxRetries - 1) /\ 0 \in 0..MaxRetries
    BY <1>1, <1>5, SMTT(40) DEF ShapeNow, RetryCounted
  <2>3. rx' \in Seq(Nat \X Nat) /\ Len(rx') <= RxSize /\ <<>> \in Seq(Nat \X Nat)
    <3>1. <<>> \in Seq(Nat \X Nat) /\ Len(<<>>) <= RxSize
      BY ImageFacts
    <3> QED BY <3>1, <2>1, <1>1 DEF ShapeNow, Unit
  <2>4. OtaShape'
    BY <2>1, <2>2, <2>3, <1>1, <1>2, <1>3 DEF OtaShape, OtaTypeOK, Answers
  <2>5. Expected' = Expected
    BY <2>1 DEF Expected
  <2>6. ASSUME faults = {} PROVE Dialogue'
    <3>1. Dialogue
      BY <1>2, <2>6 DEF OtaInv
    <3>2. w.zeros = MaxRetries \/ (Len(w.units) = Expected /\ Expected > 0)
      BY <1>2 DEF BlockRead
    <3>3. w.zeros # 0 \/ w.units # <<>>
      <4>1. MaxRetries # 0 /\ Len(<<>>) = 0
        BY <1>1 DEF ShapeNow
      <4> QED BY <3>2, <4>1, <1>1 DEF ShapeNow
    <3>4. h.pc # "greet"
      BY <3>1, <3>3 DEF Dialogue, Greeting, Quiet
    <3>5. h.pc = "final" => Finished'
      BY <3>1, <2>1, <1>2 DEF Dialogue, Finished
    <3>6. ASSUME h.pc \in {"send", "wait"} PROVE Attempting'
      <4>1. Attempting
        BY <3>1, <3>3, <3>6 DEF Dialogue, Accepted, Quiet
      <4>2. OfBlock(<<>>, h.block) /\ OfBlock(rx', h.block)
        BY <4>1, <2>1 DEF Attempting, OfBlock
      <4>3. ASSUME Expected = Image[h.block], Attempt PROVE Attempt'
        <5>1. resp = <<>> /\ Len(w.units) + Len(rx) <= h.sent /\ (w.zeros > 0 => h.pc = "wait")
          BY <3>3, <4>3 DEF Attempt, Quiet
        <5>2. resp' = <<"nack">>
          <6>1. Append(<<>>, "nack") = <<"nack">>
            OBVIOUS
          <6> QED BY <6>1, <5>1, <1>3, <3>6 DEF Listening
        <5>3. CASE w.ok
          <6>1. w.zeros = 0 /\ Len(w.units) = Image[h.block]
            BY <5>3, <3>2, <4>3, <1>1 DEF OtaShape, ShapeNow
          <6>2. Len(rx) = 0 /\ h.sent = Image[h.block]
            <7> DEFINE m == Image[h.block]
                       l == Len(rx)
            <7>1. m \in Nat /\ l \in Nat /\ h.sent \in 0..m /\ m + l <= h.sent
              BY <6>1, <5>1, <1>1 DEF ShapeNow
            <7> HIDE DEF m, l
            <7>2. l = 0 /\ h.sent = m
              BY <7>1
            <7> QED BY <7>2 DEF m, l
          <6>3. rx = <<>> /\ h.pc = "wait"
            BY <6>2, <3>6, <1>1 DEF OtaShape, ShapeNow
          <6> QED BY <6>3, <5>2, <5>3, <2>1, <1>2 DEF Attempt, Quiet
        <5>4. CASE ~w.ok
          <6>1. w.zeros > 0
            BY <5>4, <1>1, SMTT(40) DEF OtaShape, ShapeNow
          <6> QED BY <6>1, <5>1, <5>2, <5>4, <2>1, <1>2 DEF Attempt, Quiet
        <5> QED BY <5>3, <5>4
      <4> QED BY <4>1, <4>2, <4>3, <2>1, <2>5, <1>2, <1>3 DEF Attempting
    <3> QED BY <3>1, <3>4, <3>5, <3>6, <2>1, <1>2 DEF Dialogue
  <2> QED BY <2>4, <2>6, <1>2 DEF OtaInv
<1> QED BY <1>4, <1>5

\* The last block, or a failure: the watch restarts.
LEMMA EndStep ==
  ASSUME OtaInv, OtaFails \/ EndUpdate, FlashTyped'
  PROVE  OtaInv'
<1>1. ShapeNow /\ OtaShape
  BY Shape DEF OtaInv
<1>2. w' = WatchIdle /\ rx' = <<>> /\ h' = h
  BY DEF OtaFails, EndUpdate, Reboot
<1>3. resp' \in Seq(Answers)
  <2>1. Answer("eot") => resp' \in Seq(Answers)
    BY <1>1, Answered DEF ShapeNow, Answers
  <2>2. resp \in Seq(Answers)
    BY <1>1 DEF ShapeNow
  <2> QED BY <2>1, <2>2 DEF OtaFails, EndUpdate
<1>4. /\ <<>> \in Seq(Nat \X Nat) /\ 0 \in 0..MaxRetries /\ 0 \in 0..(MaxRetries - 1)
      /\ Len(<<>>) <= RxSize /\ <<>> \in Seq(Nat)
  BY ImageFacts
<1>5. OtaShape'
  BY <1>1, <1>2, <1>3, <1>4 DEF OtaShape, OtaTypeOK, WatchIdle, NoSize, Answers, FlashTyped
<1> QED BY <1>2, <1>5 DEF OtaInv, WatchIdle

-----------------------------------------------------------------------------
(* What the host does                                                      *)

\* The first answer is the head; the rest is typed.
LEMMA AnswersRead ==
  ASSUME resp \in Seq(Answers), resp # <<>>
  PROVE  /\ Tail(resp) \in Seq(Answers) /\ 1 \in DOMAIN resp /\ Head(resp) = resp[1]
         /\ <<>> \in Seq(Answers)
OBVIOUS

\* The host ends, for better or worse: nobody is in a dialogue any more.
LEMMA HostEndsStep ==
  ASSUME OtaInv, NEW pc \in {"abort", "updated", "unsure"}, h' = HostEnds(pc), resp' = <<>>,
         w' = w, rx' = rx, flash' = flash, faults' = faults,
         w.pc = "size" => pc = "abort"
  PROVE  OtaInv'
<1>1. ShapeNow /\ OtaShape
  BY Shape DEF OtaInv
<1>2. /\ 1 \in DOMAIN Image /\ 0 \in 0..Image[1] /\ 0 \in 0..(MaxRetries - 1)
      /\ <<>> \in Seq(Answers)
  <2>1. 1 \in DOMAIN Image /\ Image[1] \in Nat \ {0} /\ MaxRetries \in Nat \ {0}
    BY ImageFacts
  <2> QED BY <2>1
<1>3. OtaShape'
  BY <1>1, <1>2 DEF OtaShape, OtaTypeOK, HostEnds, Answers, Quiet
<1>4. Dialogue'
  BY DEF Dialogue, HostEnds, Listening
<1> QED BY <1>3, <1>4 DEF OtaInv

\* The size arrives, right or wrong.
LEMMA HostStartStep ==
  ASSUME OtaInv, HostStart
  PROVE  OtaInv'
<1>1. ShapeNow /\ OtaShape
  BY Shape DEF OtaInv
<1>2. PICK n \in Int : w' = [w EXCEPT !.size = n]
  <2>1. ImageSize - 1 \in Int /\ ImageSize + BlockSize \in Int /\ ImageSize \in Int
    BY SizeTyped, ImageFacts
  <2> QED BY <2>1 DEF HostStart
<1>3. /\ w' = [pc |-> w.pc, size |-> n, units |-> w.units, zeros |-> w.zeros, ok |-> w.ok,
               retries |-> w.retries, total |-> w.total, written |-> w.written]
      /\ h' = [pc |-> "greet", block |-> h.block, sent |-> h.sent, retry |-> h.retry]
      /\ w.pc = "size" /\ flash' = flash /\ rx' = rx /\ resp' = resp /\ faults' = faults
  <2>1. WFields /\ HFields
    BY <1>1, Fields
  <2>2. w.pc = "size" /\ flash' = flash /\ rx' = rx /\ resp' = resp /\ faults' = faults
        /\ h' = [h EXCEPT !.pc = "greet"]
    BY DEF HostStart
  <2> QED BY <2>1, <2>2, <1>2 DEF WFields, HFields
<1>4. OtaShape'
  BY <1>1, <1>2, <1>3 DEF OtaShape, OtaTypeOK, Quiet, Listening
<1> QED BY <1>3, <1>4 DEF OtaInv

\* The first block is begun.
LEMMA HostGreetedStep ==
  ASSUME OtaInv, HostGreeted
  PROVE  OtaInv'
<1>1. ShapeNow /\ OtaShape
  BY Shape DEF OtaInv
<1>2. /\ h.pc = "greet" /\ resp # <<>> /\ resp' = Tail(resp)
      /\ flash' = flash /\ w' = w /\ rx' = rx /\ faults' = faults /\ w.pc # "size"
      /\ h' = IF Head(resp) = "ack" THEN [h EXCEPT !.pc = "send"] ELSE HostEnds("abort")
  BY <1>1 DEF HostGreeted, OtaShape
<1>3. Tail(resp) \in Seq(Answers) /\ Head(resp) = resp[1] /\ <<>> \in Seq(Answers)
  BY <1>1, <1>2, AnswersRead DEF ShapeNow
<1>4. CASE Head(resp) = "ack"
  <2>1. h' = [pc |-> "send", block |-> h.block, sent |-> h.sent, retry |-> h.retry]
    <3>1. HFields
      BY <1>1, Fields
    <3> QED BY <3>1, <1>2, <1>4 DEF HFields
  <2>2. h.block = 1 /\ h.sent = 0 /\ 0 < Image[h.block]
    <3>1. Image[h.block] \in Nat \ {0}
      BY <1>1 DEF ShapeNow
    <3>2. h.block = 1 /\ h.sent = 0
      BY <1>1, <1>2 DEF OtaShape
    <3> QED BY <3>1, <3>2
  <2>3. OtaShape'
    <3>1. h'.pc = "send" /\ h'.block = h.block /\ h'.sent = h.sent /\ h'.retry = h.retry
          /\ h' = [pc |-> h'.pc, block |-> h'.block, sent |-> h'.sent, retry |-> h'.retry]
          /\ h.sent < Image[h.block]
      BY <2>1, <2>2
    <3>2. resp' \in Seq(Answers) /\ w'.pc # "size"
      BY <1>2, <1>3
    <3>3. (OtaTypeOK /\ h.block \in DOMAIN Image)'
      BY <1>1, <1>2, <3>1 DEF OtaShape, OtaTypeOK
    <3> QED BY <1>1, <1>2, <3>1, <3>2, <3>3 DEF OtaShape, Answers, Listening
  <2>4. ASSUME w.pc = "block", faults = {} PROVE Dialogue'
    <3>1. /\ (\A i \in DOMAIN w.written : w.written[i] = i) /\ Len(w.written) = 0
          /\ resp = <<"ack">> /\ Quiet
      BY <1>2, <2>4 DEF OtaInv, Dialogue, Greeting, Listening
    <3>2. resp' = <<>>
      <4>1. Tail(<<"ack">>) = <<>>
        OBVIOUS
      <4> QED BY <4>1, <3>1, <1>2
    <3>3. Attempting'
      BY <3>1, <3>2, <2>1, <2>2, <1>2 DEF Attempting, Attempt, Quiet, OfBlock
    <3> QED BY <3>1, <3>3, <2>1, <1>2 DEF Dialogue
  <2> QED BY <2>3, <2>4, <1>2 DEF OtaInv
<1>5. CASE Head(resp) # "ack"
  <2>1. h' = HostEnds("abort")
    BY <1>2, <1>5
  <2>2. /\ 1 \in DOMAIN Image /\ 0 \in 0..Image[1] /\ 0 \in 0..(MaxRetries - 1)
    <3>1. 1 \in DOMAIN Image /\ Image[1] \in Nat \ {0} /\ MaxRetries \in Nat \ {0}
      BY ImageFacts
    <3> QED BY <3>1
  <2>3. OtaShape'
    BY <1>1, <1>2, <1>3, <2>1, <2>2 DEF OtaShape, OtaTypeOK, HostEnds, Answers
  <2>4. Dialogue'
    BY <2>1 DEF Dialogue, HostEnds, Listening
  <2> QED BY <2>3, <2>4 DEF OtaInv
<1> QED BY <1>4, <1>5

\* A unit sent is one of the block's or spoilt, and no more arrives than was sent.
LEMMA HostSendStep ==
  ASSUME OtaInv, HostSend
  PROVE  OtaInv'
<1>1. ShapeNow /\ OtaShape
  BY Shape DEF OtaInv
<1>2. /\ h.pc = "send" /\ flash' = flash /\ w' = w /\ resp' = resp /\ faults' = faults
      /\ w.pc # "size" /\ h.sent + 1 \in 0..Image[h.block]
      /\ h.sent + 1 # Image[h.block] => h.sent + 1 < Image[h.block]
  <2>1. /\ h.sent \in 0..Image[h.block] /\ Image[h.block] \in Nat
        /\ h.pc = "send" => h.sent < Image[h.block]
    BY <1>1 DEF OtaShape, ShapeNow
  <2>2. h.pc = "send" /\ flash' = flash /\ w' = w /\ resp' = resp /\ faults' = faults /\ w.pc # "size"
    BY <1>1 DEF HostSend, OtaShape
  <2>3. h.sent + 1 \in 0..Image[h.block] /\ (h.sent + 1 # Image[h.block] => h.sent + 1 < Image[h.block])
    <3> DEFINE m == Image[h.block]
               s == h.sent
    <3>1. s \in 0..m /\ m \in Nat /\ s < m
      BY <2>1, <2>2
    <3> HIDE DEF m, s
    <3>2. s + 1 \in 0..m /\ (s + 1 # m => s + 1 < m)
      BY <3>1
    <3> QED BY <3>2 DEF m, s
  <2> QED BY <2>2, <2>3
<1>3. h' = [pc |-> IF h.sent + 1 = Image[h.block] THEN "wait" ELSE "send",
            block |-> h.block, sent |-> h.sent + 1, retry |-> h.retry]
  <2>1. HFields
    BY <1>1, Fields
  <2>2. h' = [h EXCEPT !.sent = @ + 1, !.pc = IF h.sent + 1 = Image[h.block] THEN "wait" ELSE @]
    BY DEF HostSend
  <2> QED BY <2>1, <2>2, <1>2 DEF HFields
<1>4. /\ rx' \in Seq(Unit) /\ Len(rx') <= RxSize /\ Len(rx') <= Len(rx) + 1
      /\ OfBlock(rx, h.block) => OfBlock(rx', h.block)
  <2>1. CASE rx' = rx
    BY <2>1, <1>1 DEF ShapeNow
  <2>2. ASSUME NEW u \in {Units(h.block)[h.sent + 1], Spoilt}, rx' = Append(rx, u), Len(rx) < RxSize
        PROVE  /\ rx' \in Seq(Unit) /\ Len(rx') <= RxSize /\ Len(rx') <= Len(rx) + 1
               /\ OfBlock(rx, h.block) => OfBlock(rx', h.block)
    <3>1. u \in Unit /\ (u = Spoilt \/ u[1] = h.block)
      <4>1. h.block \in DOMAIN Image /\ h.sent + 1 \in 1..Image[h.block]
        BY <1>1, <1>2, SMTT(40) DEF ShapeNow
      <4>2. Units(h.block)[h.sent + 1] = <<h.block, h.sent + 1>> /\ <<h.block, h.sent + 1>> \in Unit
        BY <4>1, UnitFacts
      <4>3. Spoilt \in Unit
        BY DEF Spoilt, Unit
      <4> QED BY <4>2, <4>3
    <3>2. rx \in Seq(Unit) /\ Len(rx) \in Nat /\ RxSize \in Nat
      BY <1>1 DEF ShapeNow
    <3>3. Append(rx, u) \in Seq(Unit) /\ Len(Append(rx, u)) = Len(rx) + 1
      BY <3>1, <3>2
    <3>4. ASSUME OfBlock(rx, h.block), NEW i \in DOMAIN Append(rx, u)
          PROVE  Append(rx, u)[i] = Spoilt \/ Append(rx, u)[i][1] = h.block
      <4>1. CASE i = Len(rx) + 1
        <5>1. Append(rx, u)[i] = u
          BY <4>1, <3>1, <3>2
        <5> QED BY <5>1, <3>1
      <4>2. CASE i # Len(rx) + 1
        <5>1. i \in DOMAIN rx /\ Append(rx, u)[i] = rx[i]
          BY <4>2, <3>1, <3>2
        <5> QED BY <5>1, <3>4 DEF OfBlock
      <4> QED BY <4>1, <4>2
    <3>5. OfBlock(rx, h.block) => OfBlock(rx', h.block)
      BY <3>4, <2>2 DEF OfBlock
    <3> QED BY <3>2, <3>3, <3>5, <2>2
  <2> QED BY <2>1, <2>2 DEF HostSend
<1>5. OtaShape'
  BY <1>1, <1>2, <1>3, <1>4 DEF OtaShape, OtaTypeOK, Unit, Listening
<1>6. ASSUME w.pc = "block", faults = {} PROVE Dialogue'
  <2>1. (\A i \in DOMAIN w.written : w.written[i] = i) /\ Attempting
    BY <1>2, <1>6 DEF OtaInv, Dialogue, Accepted, Listening
  <2>2. Attempt => Attempt'
    <3> SUFFICES ASSUME Attempt PROVE Attempt'
      OBVIOUS
    <3>1. resp = <<>> /\ Len(w.units) + Len(rx) <= h.sent /\ ~(w.zeros > 0)
      BY <1>2 DEF Attempt
    <3>2. Len(w.units) + Len(rx') <= h.sent + 1
      <4>1. Len(w.units) \in Nat /\ Len(rx) \in Nat /\ Len(rx') \in Nat /\ h.sent \in Int
        BY <1>1, <1>4 DEF ShapeNow
      <4> QED BY <4>1, <3>1, <1>4
    <3> QED BY <3>1, <3>2, <1>2, <1>3 DEF Attempt
  <2>3. Expected' = Expected
    BY <1>2 DEF Expected
  <2>4. Attempting'
    BY <2>1, <2>2, <2>3, <1>2, <1>3, <1>4 DEF Attempting
  <2> QED BY <2>1, <2>4, <1>2, <1>3 DEF Dialogue
<1> QED BY <1>5, <1>6, <1>2 DEF OtaInv

\* The host begins an attempt at a block; the types are kept.
LEMMA ResentShape ==
  ASSUME OtaInv, NEW b \in DOMAIN Image, NEW n \in 0..(MaxRetries - 1), w.pc # "size",
         h' = [pc |-> "send", block |-> b, sent |-> 0, retry |-> n],
         w' = w, rx' = rx, flash' = flash, resp' \in Seq(Answers)
  PROVE  OtaShape'
<1>1. ShapeNow /\ OtaShape
  BY Shape DEF OtaInv
<1>2. 0 \in 0..Image[b] /\ 0 < Image[b]
  <2>1. Image[b] \in Nat \ {0}
    BY ImageFacts
  <2> QED BY <2>1
<1>3. /\ h'.pc = "send" /\ h'.block = b /\ h'.sent = 0 /\ h'.retry = n
      /\ h' = [pc |-> h'.pc, block |-> h'.block, sent |-> h'.sent, retry |-> h'.retry]
  OBVIOUS
<1>4. OtaTypeOK'
  BY <1>1, <1>3 DEF OtaShape, OtaTypeOK
<1> QED BY <1>1, <1>2, <1>3, <1>4 DEF OtaShape, Answers, Listening

\* The next block is begun with nothing on the line.
LEMMA HostAckStep ==
  ASSUME OtaInv, HostAck
  PROVE  OtaInv'
<1>1. ShapeNow /\ OtaShape
  BY Shape DEF OtaInv
<1>2. /\ h.pc = "wait" /\ resp # <<>> /\ Head(resp) = "ack" /\ resp' = Tail(resp)
      /\ flash' = flash /\ w' = w /\ rx' = rx /\ faults' = faults /\ w.pc # "size"
      /\ h' = IF h.block = Len(Image) THEN [h EXCEPT !.pc = "final", !.retry = 0]
              ELSE [Resend(h) EXCEPT !.block = @ + 1, !.retry = 0]
  BY <1>1 DEF HostAck, OtaShape
<1>3. Tail(resp) \in Seq(Answers) /\ Head(resp) = resp[1] /\ 1 \in DOMAIN resp
  BY <1>1, <1>2, AnswersRead DEF ShapeNow
<1>4. ASSUME w.pc = "block", faults = {}
      PROVE  (\A i \in DOMAIN w.written : w.written[i] = i) /\ Accepted /\ resp' = <<>>
  <2>1. (\A i \in DOMAIN w.written : w.written[i] = i) /\ (Accepted \/ Attempting)
    BY <1>2, <1>4 DEF OtaInv, Dialogue, Listening
  <2>2. ~Attempting
    <3>1. Attempting => resp[1] = "nack"
      BY <1>3 DEF Attempting
    <3> QED BY <3>1, <1>2, <1>3
  <2>3. Tail(<<"ack">>) = <<>>
    OBVIOUS
  <2> QED BY <2>1, <2>2, <2>3, <1>2 DEF Accepted
<1>5. 0 \in 0..(MaxRetries - 1)
  <2>1. MaxRetries \in Nat \ {0}
    BY ImageFacts
  <2> QED BY <2>1
<1>6. CASE h.block = Len(Image)
  <2>1. h' = [pc |-> "final", block |-> h.block, sent |-> h.sent, retry |-> 0]
    <3>1. HFields
      BY <1>1, Fields
    <3> QED BY <3>1, <1>2, <1>6 DEF HFields
  <2>2. OtaShape'
    <3>1. /\ h'.pc = "final" /\ h'.block = h.block /\ h'.sent = h.sent /\ h'.retry = 0
          /\ h' = [pc |-> h'.pc, block |-> h'.block, sent |-> h'.sent, retry |-> h'.retry]
      BY <2>1
    <3>2. OtaTypeOK'
      BY <1>1, <1>2, <1>5, <3>1 DEF OtaShape, OtaTypeOK
    <3> QED BY <1>1, <1>2, <1>3, <3>1, <3>2 DEF OtaShape, Answers, Listening
  <2>3. ASSUME w.pc = "block", faults = {} PROVE Dialogue'
    <3>1. (\A i \in DOMAIN w.written : w.written[i] = i) /\ Accepted
      BY <2>3, <1>4
    <3>2. /\ w'.units = <<>> /\ rx' = <<>> /\ w'.written = w.written
          /\ h'.pc = "final" /\ h'.block = h.block /\ Len(w.written) = h.block
      BY <3>1, <2>1, <1>2 DEF Accepted, Quiet
    <3> QED BY <3>1, <3>2 DEF Dialogue, Finished
  <2> QED BY <2>2, <2>3, <1>2 DEF OtaInv
<1>7. CASE h.block # Len(Image)
  <2>1. h' = [pc |-> "send", block |-> h.block + 1, sent |-> 0, retry |-> 0]
    <3>1. HFields
      BY <1>1, Fields
    <3>2. h' = [[h EXCEPT !.pc = "send", !.sent = 0] EXCEPT !.block = @ + 1, !.retry = 0]
      BY <1>2, <1>7 DEF Resend
    <3> QED BY <3>1, <3>2 DEF HFields
  <2>2. h.block + 1 \in DOMAIN Image
    <3>1. h.block \in 1..Len(Image) /\ Len(Image) \in Nat /\ DOMAIN Image = 1..Len(Image)
      BY <1>1, ImageFacts DEF ShapeNow
    <3> QED BY <3>1, <1>7
  <2>3. OtaShape'
    BY <2>1, <2>2, <1>2, <1>3, <1>5, ResentShape
  <2>4. ASSUME w.pc = "block", faults = {} PROVE Dialogue'
    <3>1. (\A i \in DOMAIN w.written : w.written[i] = i) /\ Accepted /\ resp' = <<>>
      BY <2>4, <1>4
    <3>2. Len(w.written) = (h.block + 1) - 1
      BY <3>1, <1>1, SMTT(40) DEF Accepted, ShapeNow
    <3>3. /\ w'.units = <<>> /\ rx' = <<>> /\ w'.zeros = 0 /\ w'.written = w.written
          /\ h'.pc = "send" /\ h'.block = h.block + 1 /\ h'.sent = 0
      BY <3>1, <2>1, <1>2 DEF Accepted, Quiet
    <3>4. Attempt'
      BY <3>1, <3>3 DEF Attempt
    <3>5. Attempting'
      BY <3>1, <3>2, <3>3, <3>4 DEF Attempting, OfBlock
    <3> QED BY <3>1, <3>3, <3>5 DEF Dialogue
  <2> QED BY <2>3, <2>4, <1>2 DEF OtaInv
<1> QED BY <1>6, <1>7

\* A block is sent again only after all of the last attempt has been read.
LEMMA HostNackStep ==
  ASSUME OtaInv, HostNack
  PROVE  OtaInv'
<1>1. ShapeNow /\ OtaShape
  BY Shape DEF OtaInv
<1>2. /\ h.pc = "wait" /\ resp # <<>> /\ Head(resp) = "nack" /\ resp' = <<>>
      /\ flash' = flash /\ w' = w /\ rx' = rx /\ faults' = faults /\ w.pc # "size"
      /\ h' = IF h.retry + 1 >= MaxRetries THEN HostEnds("abort")
              ELSE [Resend(h) EXCEPT !.retry = @ + 1]
  BY <1>1 DEF HostNack, OtaShape
<1>3. <<>> \in Seq(Answers) /\ Head(resp) = resp[1] /\ 1 \in DOMAIN resp
  BY <1>1, <1>2, AnswersRead DEF ShapeNow
<1>4. CASE h.retry + 1 >= MaxRetries
  BY <1>2, <1>4, HostEndsStep
<1>5. CASE ~(h.retry + 1 >= MaxRetries)
  <2>1. h' = [pc |-> "send", block |-> h.block, sent |-> 0, retry |-> h.retry + 1]
    <3>1. HFields
      BY <1>1, Fields
    <3>2. h' = [[h EXCEPT !.pc = "send", !.sent = 0] EXCEPT !.retry = @ + 1]
      BY <1>2, <1>5 DEF Resend
    <3> QED BY <3>1, <3>2 DEF HFields
  <2>2. h.block \in DOMAIN Image /\ h.retry + 1 \in 0..(MaxRetries - 1)
    BY <1>1, <1>5, SMTT(40) DEF ShapeNow
  <2>3. OtaShape'
    BY <2>1, <2>2, <1>2, <1>3, ResentShape
  <2>4. ASSUME w.pc = "block", faults = {} PROVE Dialogue'
    <3>1. (\A i \in DOMAIN w.written : w.written[i] = i) /\ (Accepted \/ Attempting)
      BY <1>2, <2>4 DEF OtaInv, Dialogue, Listening
    <3>2. ~Accepted
      <4>1. Accepted => resp[1] = "ack"
        BY DEF Accepted
      <4> QED BY <4>1, <1>2, <1>3
    <3>3. Attempt => w.units = <<>> /\ rx = <<>> /\ w.zeros = 0
      BY <1>2 DEF Attempt, Quiet
    <3>4. /\ h'.pc = "send" /\ h'.block = h.block /\ h'.sent = 0 /\ Expected' = Expected
      BY <2>1, <1>2 DEF Expected
    <3>5. Attempt => Attempt'
      BY <3>3, <3>4, <1>2 DEF Attempt
    <3>6. Attempting'
      BY <3>1, <3>2, <3>4, <3>5, <1>2 DEF Attempting
    <3> QED BY <3>1, <3>4, <3>6, <1>2 DEF Dialogue
  <2> QED BY <2>3, <2>4, <1>2 DEF OtaInv
<1> QED BY <1>4, <1>5

\* Without a lost answer the host never times out.
LEMMA HostTimeoutStep ==
  ASSUME OtaInv, HostTimeout
  PROVE  OtaInv'
<1>1. ShapeNow /\ OtaShape
  BY Shape DEF OtaInv
<1>2. /\ h.pc = "wait" /\ flash' = flash /\ w' = w /\ rx' = rx /\ faults' = faults /\ w.pc # "size"
      /\ h' = Resend(h)
  BY <1>1 DEF HostTimeout, OtaShape
<1>3. h' = [pc |-> "send", block |-> h.block, sent |-> 0, retry |-> h.retry]
  <2>1. HFields
    BY <1>1, Fields
  <2>2. h' = [h EXCEPT !.pc = "send", !.sent = 0]
    BY <1>2 DEF Resend
  <2> QED BY <2>1, <2>2 DEF HFields
<1>4. resp' \in Seq(Answers)
  BY <1>1, AnswersRead DEF HostTimeout, ShapeNow
<1>5. OtaShape'
  <2>1. h.block \in DOMAIN Image /\ h.retry \in 0..(MaxRetries - 1)
    BY <1>1 DEF ShapeNow
  <2> QED BY <2>1, <1>2, <1>3, <1>4, ResentShape
<1>6. ~(w.pc = "block" /\ faults = {})
  <2> SUFFICES ASSUME w.pc = "block", faults = {} PROVE FALSE
    OBVIOUS
  <2>1. resp # <<>> /\ Head(resp) = "eot"
    BY DEF HostTimeout
  <2>2. Head(resp) = resp[1] /\ 1 \in DOMAIN resp
    BY <2>1, <1>1, AnswersRead DEF ShapeNow
  <2>3. Accepted \/ Attempting
    BY <1>2 DEF OtaInv, Dialogue
  <2>4. (Accepted => resp[1] = "ack") /\ (Attempting => resp[1] = "nack")
    BY <2>2 DEF Accepted, Attempting
  <2> QED BY <2>1, <2>2, <2>3, <2>4
<1> QED BY <1>2, <1>5, <1>6 DEF OtaInv

\* Every step of the host keeps the invariant.
LEMMA HostStepKept ==
  ASSUME OtaInv, HostStep
  PROVE  OtaInv'
<1>1. ShapeNow /\ OtaShape
  BY Shape DEF OtaInv
<1>2. CASE HostDone
  <2>1. w.pc # "size"
    BY <1>1, <1>2 DEF HostDone, OtaShape
  <2> QED BY <1>2, <2>1, HostEndsStep DEF HostDone
<1>3. CASE HostStops
  BY <1>3, HostEndsStep DEF HostStops
<1>4. CASE LoseAnswer
  <2>1. Tail(resp) \in Seq(Answers) /\ w.pc # "size"
    BY <1>1, <1>4, AnswersRead DEF LoseAnswer, OtaShape, ShapeNow
  <2>2. OtaShape'
    BY <1>1, <1>4, <2>1 DEF LoseAnswer, OtaShape, OtaTypeOK, Answers
  <2> QED BY <1>4, <2>2 DEF LoseAnswer, OtaInv
<1> QED BY <1>2, <1>3, <1>4, HostStartStep, HostGreetedStep, HostSendStep, HostAckStep, HostNackStep,
           HostTimeoutStep DEF HostStep

-----------------------------------------------------------------------------
(* The invariant of the update                                             *)

\* What is empty has every type.
LEMMA IdleTyped ==
  /\ <<>> \in Seq(Nat \X Nat) /\ <<>> \in Seq(Nat) /\ <<>> \in Seq(Answers) /\ Len(<<>>) <= RxSize
  /\ 0 \in 0..MaxRetries /\ 0 \in 0..(MaxRetries - 1) /\ 1 \in DOMAIN Image /\ 0 \in 0..Image[1]
<1>1. 1 \in DOMAIN Image /\ Image[1] \in Nat \ {0} /\ MaxRetries \in Nat \ {0} /\ RxSize \in Nat
  BY ImageFacts
<1> QED BY <1>1

\* Nobody updates at first.
LEMMA OtaInvInit == Init => OtaInv
<1> SUFFICES ASSUME Init PROVE OtaInv
  OBVIOUS
<1>1. /\ flash = [run |-> 0, boot |-> 0, state |-> "valid", whole |-> {0}]
      /\ w = WatchIdle /\ rx = <<>> /\ h = HostIdle /\ resp = <<>> /\ faults = {}
  BY DEF Init, OtaInit
<1>2. OtaShape
  BY <1>1, IdleTyped DEF OtaShape, OtaTypeOK, WatchIdle, NoSize, HostIdle, HostEnds, Slots, Answers
<1> QED BY <1>1, <1>2 DEF OtaInv, WatchIdle

\* Nothing but the update and the start touch the serial line.
LEMMA OtaFrame ==
  ASSUME [Next]_vars
  PROVE  \/ UNCHANGED ovars
         \/ Boot \/ StopEvents \/ WatchStep \/ HostStep
         \/ MarkFirmwareValid
         \/ Restart
<1>1. CASE Others
  BY <1>1 DEF Others, WorkTick, Walk, UserSets, dfu_update_start_handler, SendIr, TransmitIr,
              Workers, ReadImu
<1>2. CASE Shutdown
  BY <1>2 DEF Shutdown, TakeNotification, StopIr, StopUi, StopRuntime, Unsubscribe, Unsubscribed,
              StopTick, StopStorage, StopPower
<1>3. CASE WatchUpdates \/ HostUpdates \/ UNCHANGED vars
  BY <1>3 DEF WatchUpdates, HostUpdates, vars
<1> QED BY <1>1, <1>2, <1>3 DEF Next

\* Only the flash changes, or a side of the line is as idle as at the start.
LEMMA OtaInvNext ==
  ASSUME OtaInv, OffInv, FlashInv', [Next]_vars
  PROVE  OtaInv'
<1> USE DEF Slots
<1>1. FlashTyped'
  <2>1. flash' \in [run : Slots, boot : Slots, state : {"valid", "new", "trial"}, whole : SUBSET Slots]
    BY DEF FlashInv
  <2> QED BY <2>1 DEF FlashTyped
<1>2. ShapeNow /\ OtaShape
  BY Shape DEF OtaInv
<1>3. CASE UNCHANGED ovars
  BY <1>3 DEF OtaInv, OtaShape, OtaTypeOK, Dialogue, Greeting, Accepted, Attempting, Attempt, Finished,
              Quiet, Expected
<1>4. CASE Boot
  <2>1. w.pc = "none" /\ w' = w /\ rx' = rx /\ h' = HostIdle /\ resp' = <<>>
    BY <1>4 DEF Boot, OffInv
  <2>2. OtaShape'
    BY <2>1, <1>1, <1>2, IdleTyped DEF OtaShape, OtaTypeOK, HostIdle, HostEnds, Answers, FlashTyped
  <2> QED BY <2>1, <2>2 DEF OtaInv
<1>5. CASE StopEvents
  <2> DEFINE At(c) == [pc |-> c, size |-> NoSize, units |-> <<>>, zeros |-> 0, ok |-> TRUE,
                       retries |-> 0, total |-> 0, written |-> <<>>]
  <2> HIDE DEF At
  <2>1. /\ w' = At("none") \/ w' = At("size")
        /\ rx' = <<>> /\ h' = HostIdle /\ resp' = <<>>
    <3>1. StartUpdate
      BY <1>5 DEF StopEvents
    <3>2. rx' = <<>> /\ h' = HostIdle /\ resp' = <<>>
      BY <3>1 DEF StartUpdate
    <3>3. CASE flash.state = "trial"
      <4>1. w' = At("none")
        BY <3>1, <3>3 DEF StartUpdate, WatchIdle, At
      <4> QED BY <3>2, <4>1
    <3>4. CASE flash.state # "trial"
      <4>1. w' = At("size")
        BY <3>1, <3>4 DEF StartUpdate, WatchIdle, At
      <4> QED BY <3>2, <4>1
    <3> QED BY <3>3, <3>4
  <2>2. OtaShape' /\ w'.pc # "block"
    <3>1. CASE w' = At("none")
      BY <2>1, <3>1, <1>1, <1>2, IdleTyped DEF OtaShape, OtaTypeOK, HostIdle, HostEnds, Answers, NoSize,
                                               Quiet, FlashTyped, At
    <3>2. CASE w' = At("size")
      BY <2>1, <3>2, <1>1, <1>2, IdleTyped DEF OtaShape, OtaTypeOK, HostIdle, HostEnds, Answers, NoSize,
                                               Quiet, FlashTyped, At
    <3> QED BY <2>1, <3>1, <3>2
  <2> QED BY <2>2 DEF OtaInv
<1>6. CASE WatchStep
  BY <1>1, <1>6, ReceiveSizeStep, ReadAllStep, ReadTimeoutStep, BlockAcceptedStep, BlockRefusedStep,
     EndStep DEF WatchStep
<1>7. CASE HostStep
  BY <1>7, HostStepKept
<1>8. CASE MarkFirmwareValid
  <2>1. UNCHANGED <<w, rx, h, resp, faults>>
    BY <1>8 DEF MarkFirmwareValid
  <2>2. OtaShape'
    BY <2>1, <1>1, <1>2 DEF OtaShape, OtaTypeOK, FlashTyped, Quiet
  <2> QED BY <2>1, <2>2 DEF OtaInv, Dialogue, Greeting, Accepted, Attempting, Attempt, Finished, Quiet,
                            Expected
<1>9. CASE Restart
  <2>1. w' = WatchIdle /\ rx' = <<>> /\ UNCHANGED <<flash, h, resp, faults>>
    BY <1>9 DEF Restart
  <2>2. OtaShape'
    BY <2>1, <1>2, IdleTyped DEF OtaShape, OtaTypeOK, WatchIdle, NoSize, Answers
  <2> QED BY <2>1, <2>2 DEF OtaInv, WatchIdle
<1> QED BY <1>3, <1>4, <1>5, <1>6, <1>7, <1>8, <1>9, OtaFrame

\* All of it holds at every step.
LEMMA OtaInvCorrect == Spec => [](OffInv /\ FlashInv /\ OtaInv)
<1>1. OffInv /\ [Next]_vars => OffInv'
  BY OffInvNext
<1>2. FlashInv /\ [Next]_vars => FlashInv'
  BY FlashInvNext
<1>3. OffInv /\ OtaInv /\ FlashInv' /\ [Next]_vars => OtaInv'
  BY OtaInvNext
<1> QED BY OffInvInit, FlashInvInit, OtaInvInit, <1>1, <1>2, <1>3, PTL DEF Spec

\* An acknowledgement that the host has yet to read is among the answers.
LEMMA AckUnread == Range(<<"ack">>) = {"ack"}
BY DEF Range

\* Host and watch agree which block is the next as long as no answer is lost and no read
\* times out while the host is due: no block is written twice or left out.
THEOREM InStepCorrect == Spec => []InStep
<1>1. OtaInv => InStep
  <2> SUFFICES ASSUME OtaInv, faults = {}, w.pc = "block", h.pc \in {"send", "wait", "final"}
               PROVE  /\ \A i \in DOMAIN w.written : w.written[i] = i
                      /\ Len(w.written) \in {h.block - 1, h.block}
                      /\ Len(w.written) = h.block => h.pc = "final" \/ "ack" \in Range(resp)
    BY DEF InStep
  <2>1. ShapeNow
    BY Shape DEF OtaInv
  <2>2. \A i \in DOMAIN w.written : w.written[i] = i
    BY DEF OtaInv, Dialogue, Listening
  <2>3. CASE Accepted
    BY <2>2, <2>3, AckUnread DEF Accepted
  <2>4. CASE Attempting
    <3>1. h.block - 1 # h.block
      BY <2>1, SMTT(40) DEF ShapeNow
    <3> QED BY <2>2, <2>4, <3>1 DEF Attempting
  <2>5. CASE h.pc = "final"
    BY <2>2, <2>5 DEF OtaInv, Dialogue, Finished
  <2> QED BY <2>3, <2>4, <2>5 DEF OtaInv, Dialogue
<1> QED BY <1>1, OtaInvCorrect, PTL

\* Start-up and shutdown preserve all of the inductive invariant.
THEOREM LifecycleInvCorrect == Spec => []LifecycleInv
<1>1. IrInv /\ [Next]_vars => IrInv'
  BY IrInvNext
<1>2. LockInv /\ [Next]_vars => LockInv'
  BY LockInvNext
<1>3. Spec => [](IrInv /\ LockInv)
  BY IrInvInit, LockInvInit, <1>1, <1>2, PTL DEF Spec
<1> QED BY <1>3, IrOwnedCorrect, EventInvCorrect, StorageInvCorrect, OtaInvCorrect, PTL DEF LifecycleInv

\* Teardown under traffic, whatever is queued, held or being sent when a manager stops: a
\* walk that no removal disturbs reaches every handler still subscribed, and the IR driver
\* leaves no payload but that of a sender caught between its tests and the queue and that
\* of a task deleted while it transmitted; no other sender uses the deleted queue.
THEOREM TeardownCleanCorrect == Spec => []TeardownClean
<1>1. LifecycleInv => TeardownClean
  <2> SUFFICES ASSUME LifecycleInv PROVE TeardownClean
    OBVIOUS
  <2>1. EventTypeOK /\ PublishReachesAll
    BY TableTyped, ReachesAllCorrect DEF LifecycleInv
  <2>2. StorageTypeOK /\ OtaTypeOK /\ main \in Stages /\ IrLeavesNothing
    BY DEF LifecycleInv, OtaInv, OtaShape, OffInv, IrOwned
  <2>3. lock \in 0..2
    BY DEF LifecycleInv, LockInv
  <2> QED BY <2>1, <2>2, <2>3 DEF TeardownClean, TypeOK
<1> QED BY <1>1, LifecycleInvCorrect, PTL

=============================================================================
