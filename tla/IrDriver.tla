------------------------------- MODULE IrDriver ------------------------------
(***************************************************************************)
(* The infrared driver (ir_driver.c): the LVGL task hands packets to a     *)
(* queue, the IR task transmits them, the main task stops it with a flag   *)
(* and a poison message and deletes the queue.  Every packet owns a copy   *)
(* of its payload; copies are counted.                                     *)
(***************************************************************************)
EXTENDS Integers, Sequences, FiniteSets

CONSTANT IrQueueSize   \* MAX_CONCURRENT_IR_MESSAGES

ASSUME IrAssumption == IrQueueSize \in Nat \ {0}

VARIABLES
  ir,      \* initialized, abort (abort_flag), queue (of "packet" and "poison"),
           \* exists (ir_queue # NULL), copies (payloads allocated), sem (exit_sem)
  irTask,  \* "none", "loop", "receive", "send", "exit"
  sender,  \* ir_blaster_driver_send_data: "idle", "checked"
  irStop,  \* ir_blaster_driver_deinit: "none", "poison", "wait", "drain", "done"
  irSeen   \* history: late, the sender was past its tests when the stop began; forced,
           \* the task was deleted; fault, a queue that is gone was used

irvars == <<ir, irTask, sender, irStop, irSeen>>

IrOff == [initialized |-> FALSE, abort |-> FALSE, queue |-> <<>>, exists |-> FALSE,
          copies |-> 0, sem |-> FALSE]
IrNothingSeen == [late |-> FALSE, forced |-> FALSE, fault |-> FALSE]

IrInit ==
  /\ ir = IrOff /\ irTask = "none" /\ sender = "idle" /\ irStop = "none"
  /\ irSeen = IrNothingSeen

-----------------------------------------------------------------------------
\* The state ir_blaster_driver_init leaves
IrStarted == [IrOff EXCEPT !.initialized = TRUE, !.exists = TRUE]

(* The LVGL task: the tests and the copy, then the queue *)
IrSendCheck ==
  /\ sender = "idle"
  /\ ir.initialized /\ ir.exists /\ ~ir.abort
  /\ sender' = "checked" /\ ir' = [ir EXCEPT !.copies = @ + 1]
  /\ UNCHANGED <<irTask, irStop, irSeen>>

IrSend ==
  /\ sender = "checked" /\ sender' = "idle"
  /\ ir' = IF Len(ir.queue) < IrQueueSize
           THEN [ir EXCEPT !.queue = Append(@, "packet")]
           ELSE [ir EXCEPT !.copies = @ - 1]
  /\ irSeen' = [irSeen EXCEPT !.fault = @ \/ ~ir.exists]
  /\ UNCHANGED <<irTask, irStop>>

(* The IR task *)
IrLoop ==
  /\ irTask = "loop" /\ irTask' = IF ir.abort THEN "exit" ELSE "receive"
  /\ UNCHANGED <<ir, sender, irStop, irSeen>>

IrReceive ==
  /\ irTask = "receive" /\ ir.queue # <<>>
  /\ irTask' = IF Head(ir.queue) = "poison" THEN "exit" ELSE "send"
  /\ ir' = [ir EXCEPT !.queue = Tail(@)]
  /\ UNCHANGED <<sender, irStop, irSeen>>

\* Transmits, whether or not that fails, frees the copy and pauses.
IrTransmit ==
  /\ irTask = "send" /\ irTask' = "loop"
  /\ ir' = [ir EXCEPT !.copies = @ - 1]
  /\ UNCHANGED <<sender, irStop, irSeen>>

IrExit ==
  /\ irTask = "exit" /\ irTask' = "none"
  /\ ir' = [ir EXCEPT !.sem = TRUE]
  /\ UNCHANGED <<sender, irStop, irSeen>>

(* The main task *)
IrStopFlag ==
  /\ irStop = "none" /\ ir.initialized /\ irStop' = "poison"
  /\ ir' = [ir EXCEPT !.initialized = FALSE, !.abort = TRUE]
  /\ irSeen' = [irSeen EXCEPT !.late = @ \/ sender = "checked"]
  /\ UNCHANGED <<irTask, sender>>

\* Mutant: no message wakes the task that waits for one.
NoPoison(q) == q

\* A full queue takes no poison; the flag will do.
Poisoned(q) == IF Len(q) < IrQueueSize THEN Append(q, "poison") ELSE q

IrPoison ==
  /\ irStop = "poison" /\ irStop' = "wait"
  /\ ir' = [ir EXCEPT !.queue = Poisoned(@)]
  /\ UNCHANGED <<irTask, sender, irSeen>>

\* The semaphore, or 5 s: only a transmission takes so long.
IrAwait ==
  /\ irStop = "wait" /\ irStop' = "drain"
  /\ \/ /\ ir.sem /\ UNCHANGED <<irTask, irSeen>>
     \/ /\ ~ir.sem /\ irTask = "send"
        /\ irTask' = "none" /\ irSeen' = [irSeen EXCEPT !.forced = TRUE]
  /\ UNCHANGED <<ir, sender>>

Packets(q) == Cardinality({i \in DOMAIN q : q[i] = "packet"})

\* Mutant: what is left in the queue is deleted with it.
NotDrained(x) == [x EXCEPT !.queue = <<>>, !.exists = FALSE, !.sem = FALSE]

\* What is left is freed and the queue deleted.
Drained(x) ==
  [x EXCEPT !.copies = @ - Packets(x.queue), !.queue = <<>>, !.exists = FALSE, !.sem = FALSE]

IrDrain ==
  /\ irStop = "drain" /\ irStop' = "done" /\ ir' = Drained(ir)
  /\ UNCHANGED <<irTask, sender, irSeen>>

IrStep == IrSendCheck \/ IrSend \/ IrLoop \/ IrReceive \/ IrTransmit \/ IrExit
IrStopStep == IrStopFlag \/ IrPoison \/ IrAwait \/ IrDrain

-----------------------------------------------------------------------------
\* The task is never left waiting for a message that does not come: either it
\* sees the flag, or the poison or a packet is in the queue.
IrTaskStops == irStop = "wait" /\ irTask = "receive" => ir.queue # <<>>

\* When the driver is stopped its task is gone and no payload is left behind, but the one
\* of a transmission that took so long that its task was deleted, and the one of the LVGL
\* task if it was between its tests and the queue when the stop began: no other call
\* uses the deleted queue.
IrLeavesNothing ==
  /\ irStop = "done" =>
       /\ ir.copies <= (IF irSeen.late THEN 1 ELSE 0) + (IF irSeen.forced THEN 1 ELSE 0)
       /\ irTask = "none"
  /\ irSeen.fault => irSeen.late

\* Inductive: every payload allocated is in the queue, with the task that sends it or was
\* deleted sending it, or with the sender between its two steps; and once the driver is
\* being stopped, the sender is past its tests only if it was seen late, the task is gone
\* when it has given the semaphore or was deleted, and the queue goes last.
IrOwned ==
  LET out == (IF sender = "checked" THEN 1 ELSE 0) + (IF irTask = "send" THEN 1 ELSE 0) IN
  /\ irTask \in {"none", "loop", "receive", "send", "exit"} /\ sender \in {"idle", "checked"}
  /\ irStop \in {"none", "poison", "wait", "drain", "done"} /\ ir.copies \in Int
  /\ irSeen \in [late : BOOLEAN, forced : BOOLEAN, fault : BOOLEAN]
  /\ ir.exists \in BOOLEAN /\ ir.sem \in BOOLEAN
  /\ ir.copies = Packets(ir.queue) + out + (IF irSeen.forced THEN 1 ELSE 0)
  /\ irSeen.forced => irStop \in {"drain", "done"}
  /\ irStop # "none" /\ ~irSeen.late => sender = "idle"
  /\ ir.sem => irTask = "none"
  /\ irStop \in {"drain", "done"} => irTask = "none"
  /\ sender = "checked" => ir.exists \/ irStop = "done"
  /\ IrLeavesNothing

=============================================================================
