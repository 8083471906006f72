----------------------------- MODULE RingBuffer -----------------------------
(***************************************************************************)
(* The ring buffer (ring_buffer.c): an array with a read index, a write    *)
(* index and a count.  Its mutex makes every operation one step.           *)
(***************************************************************************)
EXTENDS Integers, Sequences

CONSTANTS
  Item,       \* what is stored
  Capacity,   \* the number of slots
  None        \* a slot never written, no item popped yet

ASSUME RingAssumption == Capacity \in Nat \ {0} /\ None \notin Item

VARIABLES
  buffer, read_idx, write_idx, count, overflow_policy,
  mutex,      \* the mutex exists: between ringbuf_init and ringbuf_deinit
  out         \* *item of the last ringbuf_pop that succeeded

ringVars == <<buffer, read_idx, write_idx, count, overflow_policy, mutex, out>>

Slots == 0..(Capacity - 1)
Policies == {"drop_oldest", "drop_newest"}

RingTypeOK ==
  /\ buffer \in [Slots -> Item \cup {None}]
  /\ read_idx \in Slots /\ write_idx \in Slots
  /\ count \in 0..Capacity
  /\ overflow_policy \in Policies
  /\ mutex \in BOOLEAN
  /\ out \in Item \cup {None}

\* Mutant: the index is not wrapped at the capacity but one slot later.
NextLate(i) == (i + 1) % (Capacity + 1)

ringbuf_next(i) == (i + 1) % Capacity

\* ringbuf_init on storage whose contents do not matter
RingInit ==
  /\ buffer = [i \in Slots |-> None]
  /\ read_idx = 0 /\ write_idx = 0 /\ count = 0
  /\ overflow_policy \in Policies
  /\ mutex = TRUE
  /\ out = None

ringbuf_init(p) ==
  /\ ~mutex
  /\ mutex' = TRUE
  /\ read_idx' = 0 /\ write_idx' = 0 /\ count' = 0
  /\ overflow_policy' = p
  /\ UNCHANGED <<buffer, out>>

ringbuf_deinit ==
  /\ mutex
  /\ mutex' = FALSE
  /\ UNCHANGED <<buffer, read_idx, write_idx, count, overflow_policy, out>>

\* Mutant: the write index survives a clear.
ClearKeepsWrite ==
  /\ mutex
  /\ read_idx' = 0 /\ count' = 0
  /\ UNCHANGED <<buffer, write_idx, overflow_policy, mutex, out>>

ringbuf_clear ==
  /\ mutex
  /\ read_idx' = 0 /\ write_idx' = 0 /\ count' = 0
  /\ UNCHANGED <<buffer, overflow_policy, mutex, out>>

\* A pop from an empty buffer fails and changes nothing.
ringbuf_pop ==
  /\ mutex /\ count # 0
  /\ out' = buffer[read_idx]
  /\ read_idx' = ringbuf_next(read_idx)
  /\ count' = count - 1
  /\ UNCHANGED <<buffer, write_idx, overflow_policy, mutex>>

\* The slot is filled and the write index advances; n is the count before.
Store(x, n) ==
  /\ buffer' = [buffer EXCEPT ![write_idx] = x]
  /\ write_idx' = ringbuf_next(write_idx)
  /\ count' = n + 1

\* Mutant: an overflow gives up a count but leaves the read index behind.
PushKeepsRead(x) ==
  /\ mutex
  /\ \/ count < Capacity /\ Store(x, count)
     \/ count = Capacity /\ overflow_policy = "drop_oldest" /\ Store(x, count - 1)
  /\ UNCHANGED <<read_idx, overflow_policy, mutex, out>>

\* A push into a full buffer drops the oldest item, or fails and changes nothing.
ringbuf_push(x) ==
  /\ mutex
  /\ \/ count < Capacity /\ Store(x, count) /\ UNCHANGED read_idx
     \/ /\ count = Capacity /\ overflow_policy = "drop_oldest"
        /\ Store(x, count - 1)
        /\ read_idx' = ringbuf_next(read_idx)
  /\ UNCHANGED <<overflow_policy, mutex, out>>

RingNext ==
  \/ \E x \in Item : ringbuf_push(x)
  \/ ringbuf_pop \/ ringbuf_clear \/ ringbuf_deinit
  \/ \E p \in Policies : ringbuf_init(p)

RingSpec == RingInit /\ [][RingNext]_ringVars

-----------------------------------------------------------------------------
\* The three redundant fields agree: the write index is count slots behind the read
\* index.  configASSERT(rb->count <= rb->capacity) is the only check the code makes.
IndicesAgree == write_idx = (read_idx + count) % Capacity

\* The slot of the i-th oldest item.
SlotOf(i) == (read_idx + i - 1) % Capacity

\* The items between the indices, oldest first.
Contents == [i \in 1..count |-> buffer[SlotOf(i)]]

\* The ring buffer is a bounded queue: whatever the wrap-around, a pop returns the oldest
\* item that no overflow has dropped.
Abs == INSTANCE Fifo WITH queue <- Contents, policy <- overflow_policy, open <- mutex

ImplementsFifo == Abs!FifoSpec
=============================================================================
