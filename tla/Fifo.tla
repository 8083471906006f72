-------------------------------- MODULE Fifo --------------------------------
(***************************************************************************)
(* What a ring buffer (ring_buffer.c) promises its users: a bounded queue. *)
(* When it is full a push either drops the oldest item or is refused.      *)
(***************************************************************************)
EXTENDS Naturals, Sequences

CONSTANTS Item, Capacity, None

VARIABLES
  queue,    \* the items, oldest first
  policy,   \* what a push does when the queue is full
  open,     \* between init and deinit
  out       \* what the last pop returned, or None

fifoVars == <<queue, policy, open, out>>

Policies == {"drop_oldest", "drop_newest"}

FifoInit == queue = <<>> /\ policy \in Policies /\ open = TRUE /\ out = None

\* A queue q after x has been pushed.
Pushed(q, x, p) ==
  IF Len(q) < Capacity THEN Append(q, x)
  ELSE IF p = "drop_oldest" THEN Append(Tail(q), x) ELSE q

Push(x) == open /\ queue' = Pushed(queue, x, policy) /\ UNCHANGED <<policy, open, out>>

Pop ==
  /\ open /\ queue # <<>>
  /\ out' = Head(queue) /\ queue' = Tail(queue)
  /\ UNCHANGED <<policy, open>>

Clear == open /\ queue' = <<>> /\ UNCHANGED <<policy, open, out>>

Close == open /\ open' = FALSE /\ UNCHANGED <<queue, policy, out>>

Reopen(p) == ~open /\ open' = TRUE /\ queue' = <<>> /\ policy' = p /\ UNCHANGED out

FifoNext ==
  \/ \E x \in Item : Push(x)
  \/ Pop \/ Clear \/ Close
  \/ \E p \in Policies : Reopen(p)

FifoSpec == FifoInit /\ [][FifoNext]_fifoVars
=============================================================================
