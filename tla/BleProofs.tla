------------------------------ MODULE BleProofs -------------------------------
(***************************************************************************)
(* Proofs about the BLE link.  The ring buffer below its fifos implements  *)
(* Fifo, for every capacity and every set of items.  In a session, for     *)
(* every set of transfers, every size of the fifo and every order of       *)
(* events, the watch knows its link and can be found, and the parser stays *)
(* within the size it was told and owns exactly one buffer while a         *)
(* transfer is under way.                                                  *)
(***************************************************************************)
EXTENDS RingBuffer, BleSession, SequenceTheorems, TLAPS

-----------------------------------------------------------------------------
(* The ring buffer                                                         *)

Value == Item \cup {None}

\* Wrapping an index that is at most one turn ahead.
Wrap(x) == IF x < Capacity THEN x ELSE x - Capacity

\* n slots of b from slot r on, as a sequence.
Stretch(b, r, n) == [i \in 1..n |-> b[Wrap(r + i - 1)]]

\* The remainder of an index that is at most one turn ahead.
LEMMA ModWraps ==
  ASSUME NEW x \in Nat, x < Capacity + Capacity
  PROVE  x % Capacity = Wrap(x)
<1>1. CASE x < Capacity
  BY <1>1, RingAssumption DEF Wrap
<1>2. CASE x >= Capacity
  BY <1>2, RingAssumption DEF Wrap
<1> QED BY <1>1, <1>2, RingAssumption

\* ringbuf_next stays within the array.
LEMMA NextWraps ==
  ASSUME NEW i \in Slots
  PROVE  ringbuf_next(i) = Wrap(i + 1) /\ ringbuf_next(i) \in Slots
<1>1. i \in Nat /\ i + 1 \in Nat /\ i + 1 < Capacity + Capacity /\ i < Capacity /\ Capacity \in Nat
  BY RingAssumption DEF Slots
<1>2. ringbuf_next(i) = Wrap(i + 1)
  BY <1>1, ModWraps DEF ringbuf_next
<1> QED BY <1>1, <1>2 DEF Wrap, Slots

\* A stretch is a sequence of its length.
LEMMA StretchSeq ==
  ASSUME NEW b \in [Slots -> Value], NEW r \in Slots, NEW n \in 0..Capacity
  PROVE  /\ Stretch(b, r, n) \in Seq(Value)
         /\ Len(Stretch(b, r, n)) = n
         /\ \A i \in 1..n : /\ Stretch(b, r, n)[i] = b[Wrap(r + i - 1)]
                            /\ Wrap(r + i - 1) \in Slots
<1>1. r \in Nat /\ r < Capacity /\ Capacity \in Nat /\ n \in Nat /\ n <= Capacity
  BY RingAssumption DEF Slots
<1>2. ASSUME NEW i \in 1..n PROVE Wrap(r + i - 1) \in Slots
  BY <1>1 DEF Wrap, Slots
<1>3. \A i \in 1..n : b[Wrap(r + i - 1)] \in Value
  BY <1>2
<1>4. Stretch(b, r, n) \in [1..n -> Value]
  BY <1>3 DEF Stretch
<1>5. Stretch(b, r, n) \in Seq(Value) /\ Len(Stretch(b, r, n)) = n
  BY <1>1, <1>4
<1>6. \A i \in 1..n : Stretch(b, r, n)[i] = b[Wrap(r + i - 1)]
  BY DEF Stretch
<1> QED BY <1>2, <1>5, <1>6

\* Filling the slot behind a stretch appends to it and disturbs none of its items.
LEMMA StoreAppends ==
  ASSUME NEW b \in [Slots -> Value], NEW r \in Slots, NEW n \in 0..Capacity, n < Capacity,
         NEW x \in Value
  PROVE  Stretch([b EXCEPT ![Wrap(r + n)] = x], r, n + 1) = Append(Stretch(b, r, n), x)
<1> DEFINE w == Wrap(r + n)
           c == [b EXCEPT ![w] = x]
           s == Stretch(c, r, n + 1)
           t == Append(Stretch(b, r, n), x)
<1>1. /\ r \in Nat /\ r < Capacity /\ Capacity \in Nat /\ n \in Nat /\ n < Capacity
      /\ n + 1 \in 0..Capacity
  BY RingAssumption DEF Slots
<1>2. w \in Slots /\ c \in [Slots -> Value]
  BY <1>1 DEF Wrap, Slots
<1> HIDE DEF c
<1>3. /\ s \in Seq(Value) /\ Len(s) = n + 1
      /\ \A i \in 1..(n + 1) : s[i] = c[Wrap(r + i - 1)] /\ Wrap(r + i - 1) \in Slots
  BY <1>1, <1>2, StretchSeq
<1>4. /\ Stretch(b, r, n) \in Seq(Value) /\ Len(Stretch(b, r, n)) = n
      /\ \A i \in 1..n : Stretch(b, r, n)[i] = b[Wrap(r + i - 1)]
  BY StretchSeq
<1>5. /\ t \in Seq(Value) /\ Len(t) = n + 1
      /\ \A i \in 1..n : t[i] = Stretch(b, r, n)[i]
      /\ t[n + 1] = x
  BY <1>1, <1>4, AppendProperties
<1>6. ASSUME NEW i \in 1..n PROVE s[i] = t[i]
  <2>1. Wrap(r + i - 1) # w
    BY <1>1 DEF Wrap
  <2>2. c[Wrap(r + i - 1)] = b[Wrap(r + i - 1)] /\ i \in 1..(n + 1)
    BY <1>1, <1>3, <2>1 DEF c
  <2> QED BY <1>3, <1>4, <1>5, <2>2
<1>7. s[n + 1] = t[n + 1]
  <2>1. r + (n + 1) - 1 = r + n /\ n + 1 \in 1..(n + 1)
    BY <1>1
  <2> QED BY <1>2, <1>3, <1>5, <2>1 DEF c
<1> HIDE DEF s, t
<1>8. \A i \in 1..Len(s) : s[i] = t[i]
  <2>1. \A i \in 1..Len(s) : i \in 1..n \/ i = n + 1
    BY <1>1, <1>3
  <2> QED BY <1>6, <1>7, <2>1
<1>9. s = t
  BY <1>3, <1>5, <1>8, SeqEqual
<1> QED BY <1>9 DEF s, t, c

\* Advancing the start of a stretch drops its head.
LEMMA AdvanceDrops ==
  ASSUME NEW b \in [Slots -> Value], NEW r \in Slots, NEW n \in 0..Capacity, n > 0
  PROVE  /\ Stretch(b, r, n) # <<>>
         /\ Head(Stretch(b, r, n)) = b[r]
         /\ Stretch(b, Wrap(r + 1), n - 1) = Tail(Stretch(b, r, n))
<1> DEFINE u == Stretch(b, r, n)
           s == Stretch(b, Wrap(r + 1), n - 1)
<1>1. /\ r \in Nat /\ r < Capacity /\ Capacity \in Nat /\ n \in Nat /\ n <= Capacity
      /\ n - 1 \in 0..Capacity /\ 1 \in 1..n
  BY RingAssumption DEF Slots
<1>2. Wrap(r + 1) \in Slots
  BY <1>1 DEF Wrap, Slots
<1>3. /\ u \in Seq(Value) /\ Len(u) = n
      /\ \A i \in 1..n : u[i] = b[Wrap(r + i - 1)]
  BY StretchSeq
<1>4. /\ s \in Seq(Value) /\ Len(s) = n - 1
      /\ \A i \in 1..(n - 1) : s[i] = b[Wrap(Wrap(r + 1) + i - 1)]
  BY <1>1, <1>2, StretchSeq
<1> HIDE DEF u, s
<1>5. u # <<>>
  BY <1>1, <1>3, EmptySeq
<1>6. Head(u) = b[r]
  <2>1. Wrap(r + 1 - 1) = r
    BY <1>1 DEF Wrap
  <2>2. u[1] = b[r]
    BY <1>1, <1>3, <2>1
  <2> QED BY <1>3, <1>5, <2>2
<1>7. /\ Tail(u) \in Seq(Value) /\ Len(Tail(u)) = n - 1
      /\ \A i \in 1..(n - 1) : Tail(u)[i] = u[i + 1]
  BY <1>3, <1>5, HeadTailProperties
<1>8. ASSUME NEW i \in 1..Len(s) PROVE s[i] = Tail(u)[i]
  <2>1. i \in 1..(n - 1) /\ i + 1 \in 1..n
    BY <1>1, <1>4
  <2>2. Wrap(Wrap(r + 1) + i - 1) = Wrap(r + (i + 1) - 1)
    BY <1>1, <2>1 DEF Wrap
  <2> QED BY <1>3, <1>4, <1>7, <2>1, <2>2
<1>9. s = Tail(u)
  BY <1>4, <1>7, <1>8, SeqEqual
<1> QED BY <1>5, <1>6, <1>9 DEF u, s
-----------------------------------------------------------------------------
(***************************************************************************)
(* The invariant the refinement rests on: the write index is where the     *)
(* next item belongs.                                                      *)
(***************************************************************************)
RingInv == RingTypeOK /\ IndicesAgree

\* The invariant in terms of Wrap.
LEMMA WriteIndex ==
  ASSUME RingTypeOK
  PROVE  IndicesAgree <=> write_idx = Wrap(read_idx + count)
<1>1. /\ read_idx \in Nat /\ read_idx < Capacity /\ count \in Nat /\ count <= Capacity
      /\ Capacity \in Nat
  BY RingAssumption DEF RingTypeOK, Slots
<1>2. read_idx + count \in Nat /\ read_idx + count < Capacity + Capacity
  BY <1>1
<1> QED BY <1>2, ModWraps DEF IndicesAgree

\* The queue of the refinement mapping is the stretch between the indices.
LEMMA ContentsStretch ==
  ASSUME RingTypeOK
  PROVE  Contents = Stretch(buffer, read_idx, count)
<1>1. /\ read_idx \in Nat /\ read_idx < Capacity /\ count \in Nat /\ count <= Capacity
      /\ Capacity \in Nat
  BY RingAssumption DEF RingTypeOK, Slots
<1>2. ASSUME NEW i \in 1..count PROVE (read_idx + i - 1) % Capacity = Wrap(read_idx + i - 1)
  <2>1. read_idx + i - 1 \in Nat /\ read_idx + i - 1 < Capacity + Capacity
    BY <1>1
  <2> QED BY <2>1, ModWraps
<1> QED BY <1>2 DEF Contents, Stretch, SlotOf

\* Every operation keeps the indices and the count in step.
LEMMA RingInvStep == RingInv /\ [RingNext]_ringVars => RingInv'
<1> SUFFICES ASSUME RingInv, [RingNext]_ringVars PROVE RingInv'
  OBVIOUS
<1>1. /\ read_idx \in Slots /\ write_idx \in Slots /\ count \in 0..Capacity
      /\ buffer \in [Slots -> Value] /\ mutex \in BOOLEAN
      /\ overflow_policy \in Policies /\ out \in Value
  BY DEF RingInv, RingTypeOK, Value
<1>2. write_idx = Wrap(read_idx + count)
  BY WriteIndex DEF RingInv
<1>3. Capacity \in Nat /\ Capacity > 0 /\ 0 \in Slots
  BY RingAssumption DEF Slots
<1>4. SUFFICES /\ RingTypeOK'
               /\ write_idx' = Wrap(read_idx' + count')
  <2>1. ASSUME RingTypeOK', write_idx' = Wrap(read_idx' + count') PROVE IndicesAgree'
    <3>1. /\ read_idx' \in Nat /\ read_idx' < Capacity /\ count' \in Nat /\ count' <= Capacity
      BY <1>3, <2>1 DEF RingTypeOK, Slots
    <3>2. ASSUME NEW r \in Nat, NEW n \in Nat, r < Capacity, n <= Capacity
          PROVE  (r + n) % Capacity = Wrap(r + n)
      <4>1. r + n \in Nat /\ r + n < Capacity + Capacity
        BY <1>3, <3>2
      <4> QED BY <4>1, ModWraps
    <3> QED BY <2>1, <3>1, <3>2 DEF IndicesAgree
  <2> QED BY <2>1 DEF RingInv
<1>5. ASSUME NEW x \in Item, ringbuf_push(x) PROVE RingTypeOK' /\ write_idx' = Wrap(read_idx' + count')
  <2>1. /\ write_idx' = Wrap(write_idx + 1) /\ write_idx' \in Slots
        /\ buffer' = [buffer EXCEPT ![write_idx] = x]
        /\ UNCHANGED <<overflow_policy, mutex, out>>
    BY <1>1, <1>5, NextWraps DEF ringbuf_push, Store
  <2>2. /\ read_idx' \in Slots /\ count' \in 0..Capacity
        /\ write_idx' = Wrap(read_idx' + count')
    <3>1. CASE count < Capacity /\ count' = count + 1 /\ read_idx' = read_idx
      BY <1>1, <1>2, <1>3, <2>1, <3>1 DEF Wrap, Slots
    <3>2. CASE count = Capacity /\ count' = count - 1 + 1 /\ read_idx' = ringbuf_next(read_idx)
      <4>1. read_idx' = Wrap(read_idx + 1) /\ read_idx' \in Slots
        BY <1>1, <3>2, NextWraps
      <4> QED BY <1>1, <1>2, <1>3, <2>1, <3>2, <4>1 DEF Wrap, Slots
    <3> QED BY <1>5, <3>1, <3>2 DEF ringbuf_push, Store
  <2>3. buffer' \in [Slots -> Value]
    BY <1>1, <2>1 DEF Value
  <2> QED BY <1>1, <2>1, <2>2, <2>3 DEF RingTypeOK, Value
<1>6. ASSUME ringbuf_pop PROVE RingTypeOK' /\ write_idx' = Wrap(read_idx' + count')
  <2>1. /\ read_idx' = Wrap(read_idx + 1) /\ read_idx' \in Slots /\ count' = count - 1 /\ count # 0
        /\ out' = buffer[read_idx]
        /\ UNCHANGED <<buffer, write_idx, overflow_policy, mutex>>
    BY <1>1, <1>6, NextWraps DEF ringbuf_pop
  <2>2. write_idx' = Wrap(read_idx' + count') /\ count' \in 0..Capacity
    BY <1>1, <1>2, <1>3, <2>1 DEF Wrap, Slots
  <2>3. out' \in Value
    BY <1>1, <2>1
  <2> QED BY <1>1, <2>1, <2>2, <2>3 DEF RingTypeOK, Value
<1>7. ASSUME ringbuf_clear PROVE RingTypeOK' /\ write_idx' = Wrap(read_idx' + count')
  BY <1>1, <1>3, <1>7 DEF ringbuf_clear, RingTypeOK, Value, Wrap
<1>8. ASSUME ringbuf_deinit PROVE RingTypeOK' /\ write_idx' = Wrap(read_idx' + count')
  BY <1>1, <1>2, <1>8 DEF ringbuf_deinit, RingTypeOK, Value
<1>9. ASSUME NEW p \in Policies, ringbuf_init(p) PROVE RingTypeOK' /\ write_idx' = Wrap(read_idx' + count')
  BY <1>1, <1>3, <1>9 DEF ringbuf_init, RingTypeOK, Value, Wrap
<1>10. ASSUME UNCHANGED ringVars PROVE RingTypeOK' /\ write_idx' = Wrap(read_idx' + count')
  BY <1>1, <1>2, <1>10 DEF ringVars, RingTypeOK, Value
<1> QED BY <1>5, <1>6, <1>7, <1>8, <1>9, <1>10 DEF RingNext

\* ringbuf_init leaves the indices together.
LEMMA RingInvInit == RingInit => RingInv
<1> SUFFICES ASSUME RingInit PROVE RingInv
  OBVIOUS
<1>1. RingTypeOK
  BY RingAssumption DEF RingInit, RingTypeOK, Slots
<1>2. write_idx = Wrap(read_idx + count)
  BY RingAssumption DEF RingInit, Wrap
<1> QED BY <1>1, <1>2, WriteIndex DEF RingInv

\* The read index, the write index and the count never disagree, for every capacity.
THEOREM IndicesCorrect == RingSpec => []IndicesAgree
<1>1. RingInv => IndicesAgree
  BY DEF RingInv
<1> QED BY <1>1, RingInvInit, RingInvStep, PTL DEF RingSpec
-----------------------------------------------------------------------------
(***************************************************************************)
(* Refinement.                                                             *)
(***************************************************************************)
\* Each operation of the ring buffer is the operation of the queue, or a stutter.
LEMMA StepRefines == RingInv /\ RingInv' /\ [RingNext]_ringVars => [Abs!FifoNext]_(Abs!fifoVars)
<1> SUFFICES ASSUME RingInv, RingInv', [RingNext]_ringVars PROVE [Abs!FifoNext]_(Abs!fifoVars)
  OBVIOUS
<1> DEFINE q == Stretch(buffer, read_idx, count)
<1>1. /\ read_idx \in Slots /\ write_idx \in Slots /\ count \in 0..Capacity
      /\ buffer \in [Slots -> Value]
      /\ Capacity \in Nat /\ Capacity > 0
  BY RingAssumption DEF RingInv, RingTypeOK, Value
<1>2. write_idx = Wrap(read_idx + count)
  BY WriteIndex DEF RingInv
<1>3. Contents = q
  BY ContentsStretch DEF RingInv
<1>4. Contents' = Stretch(buffer', read_idx', count')
  <2>1. /\ read_idx' \in Nat /\ read_idx' < Capacity /\ count' \in Nat /\ count' <= Capacity
    BY <1>1 DEF RingInv, RingTypeOK, Slots
  <2>2. ASSUME NEW r \in Nat, NEW n \in Nat, r < Capacity, n <= Capacity, NEW i \in 1..n
        PROVE  (r + i - 1) % Capacity = Wrap(r + i - 1)
    <3>1. r + i - 1 \in Nat /\ r + i - 1 < Capacity + Capacity
      BY <1>1, <2>2
    <3> QED BY <3>1, ModWraps
  <2>3. \A i \in 1..count' : (read_idx' + i - 1) % Capacity = Wrap(read_idx' + i - 1)
    BY <2>1, <2>2
  <2> QED BY <2>3 DEF Contents, Stretch, SlotOf
<1>5. q \in Seq(Value) /\ Len(q) = count
  BY <1>1, StretchSeq
<1> HIDE DEF q
<1>6. ASSUME NEW x \in Item, ringbuf_push(x) PROVE Abs!Push(x)
  <2>1. mutex /\ UNCHANGED <<overflow_policy, mutex, out>> /\ x \in Value
    BY <1>6 DEF ringbuf_push, Value
  <2>2. CASE count < Capacity /\ Store(x, count) /\ UNCHANGED read_idx
    <3>1. Contents' = Stretch([buffer EXCEPT ![Wrap(read_idx + count)] = x], read_idx, count + 1)
      BY <1>2, <1>4, <2>2 DEF Store
    <3>2. Contents' = Append(q, x)
      BY <1>1, <2>1, <2>2, <3>1, StoreAppends DEF q
    <3>3. Contents' = Abs!Pushed(Contents, x, overflow_policy)
      BY <1>3, <1>5, <2>2, <3>2 DEF Abs!Pushed
    <3> QED BY <2>1, <3>3 DEF Abs!Push
  <2>3. CASE /\ count = Capacity /\ overflow_policy = "drop_oldest" /\ Store(x, count - 1)
             /\ read_idx' = ringbuf_next(read_idx)
    <3> DEFINE r == Wrap(read_idx + 1)
    <3>1. read_idx' = r /\ r \in Slots
      BY <1>1, <2>3, NextWraps
    <3>2. write_idx = Wrap(r + (count - 1)) /\ count - 1 \in 0..Capacity /\ count - 1 < Capacity
          /\ count - 1 + 1 = (count - 1) + 1
      BY <1>1, <1>2, <2>3 DEF Wrap, Slots
    <3> HIDE DEF r
    <3>3. Contents' = Stretch([buffer EXCEPT ![Wrap(r + (count - 1))] = x], r, (count - 1) + 1)
      BY <1>4, <2>3, <3>1, <3>2 DEF Store
    <3>4. Contents' = Append(Stretch(buffer, r, count - 1), x)
      BY <1>1, <2>1, <3>1, <3>2, <3>3, StoreAppends
    <3>5. Stretch(buffer, r, count - 1) = Tail(q)
      <4>1. count > 0
        BY <1>1, <2>3
      <4> QED BY <1>1, <4>1, AdvanceDrops DEF q, r
    <3>6. Contents' = Abs!Pushed(Contents, x, overflow_policy)
      BY <1>1, <1>3, <1>5, <2>3, <3>4, <3>5 DEF Abs!Pushed
    <3> QED BY <2>1, <3>6 DEF Abs!Push
  <2> QED BY <1>6, <2>2, <2>3 DEF ringbuf_push
<1>7. ASSUME ringbuf_pop PROVE Abs!Pop
  <2>1. /\ mutex /\ count # 0 /\ count > 0
        /\ out' = buffer[read_idx] /\ read_idx' = Wrap(read_idx + 1) /\ count' = count - 1
        /\ buffer' = buffer /\ overflow_policy' = overflow_policy /\ mutex' = mutex
    BY <1>1, <1>7, NextWraps DEF ringbuf_pop
  <2>2. q # <<>> /\ Head(q) = buffer[read_idx]
        /\ Stretch(buffer, Wrap(read_idx + 1), count - 1) = Tail(q)
    BY <1>1, <2>1, AdvanceDrops DEF q
  <2> QED BY <1>3, <1>4, <2>1, <2>2 DEF Abs!Pop
<1>8. ASSUME count' = 0 PROVE Contents' = <<>>
  BY <1>8 DEF Contents
<1>9. ASSUME ringbuf_clear PROVE Abs!Clear
  BY <1>8, <1>9 DEF ringbuf_clear, Abs!Clear
<1>10. ASSUME ringbuf_deinit PROVE Abs!Close
  BY <1>3, <1>4, <1>10 DEF ringbuf_deinit, Abs!Close, q
<1>11. ASSUME NEW p \in Policies, ringbuf_init(p) PROVE Abs!Reopen(p)
  BY <1>8, <1>11 DEF ringbuf_init, Abs!Reopen
<1>12. ASSUME UNCHANGED ringVars PROVE UNCHANGED Abs!fifoVars
  BY <1>3, <1>4, <1>12 DEF ringVars, Abs!fifoVars, q
<1>13. Policies = Abs!Policies
  BY DEF Policies, Abs!Policies
<1> QED BY <1>6, <1>7, <1>9, <1>10, <1>11, <1>12, <1>13 DEF RingNext, Abs!FifoNext

\* For every capacity the ring buffer is a bounded queue that drops its oldest item, or
\* refuses the newest, when it is full: a pop returns what the queue would return.
THEOREM RingRefinesFifo == RingSpec => ImplementsFifo
<1>1. RingInit => Abs!FifoInit
  BY DEF RingInit, Abs!FifoInit, Contents, Policies, Abs!Policies
<1> QED BY <1>1, RingInvInit, RingInvStep, StepRefines, PTL DEF RingSpec, ImplementsFifo, Abs!FifoSpec

-----------------------------------------------------------------------------
(* The session                                                             *)

GType == [connected : BOOLEAN, notify : BOOLEAN, shutdown : BOOLEAN, sem : {"none", "empty", "given"}]
HType == [running : BOOLEAN, synced : BOOLEAN, adv : BOOLEAN, conn : BOOLEAN]

-----------------------------------------------------------------------------
(* The link                                                                *)

\* Types of the connection
LinkTypes ==
  /\ main \in {"off", "on", "flagged", "waiting", "stopping"} /\ g_ble \in GType /\ host \in HType

\* The sequences of events are different.
LEMMA EventsDiffer ==
  /\ <<"connect">> # <<>> /\ <<"disconnect">> # <<>> /\ <<"connect_failed">> # <<>>
  /\ <<"adv_complete">> # <<>> /\ <<"connect", "disconnect">> # <<>>
  /\ <<"connect">> # <<"disconnect">> /\ <<"connect">> # <<"connect", "disconnect">>
  /\ <<"connect">> # <<"connect_failed">> /\ <<"connect">> # <<"adv_complete">>
  /\ <<"disconnect">> # <<"connect", "disconnect">> /\ <<"disconnect">> # <<"connect_failed">>
  /\ <<"disconnect">> # <<"adv_complete">>
OBVIOUS

\* A disconnection behind a connection
LEMMA TwoEvents == Append(<<"connect">>, "disconnect") = <<"connect", "disconnect">>
<1> DEFINE a == Append(<<"connect">>, "disconnect")
           b == <<"connect", "disconnect">>
           S == {"connect", "disconnect"}
<1>1. <<"connect">> \in Seq(S) /\ "disconnect" \in S /\ Len(<<"connect">>) = 1
  OBVIOUS
<1>2. a \in Seq(S) /\ Len(a) = 2 /\ a[2] = "disconnect" /\ a[1] = "connect"
  BY <1>1
<1>3. b \in Seq(S) /\ Len(b) = 2 /\ b[1] = "connect" /\ b[2] = "disconnect"
  OBVIOUS
<1> HIDE DEF a, b, S
<1>4. \A i \in 1..2 : a[i] = b[i]
  BY <1>2, <1>3
<1>5. a = b
  BY <1>2, <1>3, <1>4, SeqEqual
<1> QED BY <1>5 DEF a, b

\* What ble_gap_event takes from the pending events, and what is left
LEMMA EventTaken ==
  ASSUME LinkInv, events # <<>>
  PROVE  /\ Head(events) = "connect" <=> events \in {<<"connect">>, <<"connect", "disconnect">>}
         /\ Head(events) = "disconnect" <=> events = <<"disconnect">>
         /\ Head(events) = "connect_failed" <=> events = <<"connect_failed">>
         /\ Head(events) = "adv_complete" <=> events = <<"adv_complete">>
         /\ Tail(events) = IF events = <<"connect", "disconnect">> THEN <<"disconnect">> ELSE <<>>
<1>1. events \in {<<"connect">>, <<"disconnect">>} \cup Unconnected
  BY DEF LinkInv
<1>2. CASE events = <<"connect">>
  BY <1>2
<1>3. CASE events = <<"disconnect">>
  BY <1>3
<1>4. CASE events = <<"connect", "disconnect">>
  <2>1. Head(events) = "connect" /\ Tail(events) = <<"disconnect">>
    BY <1>4
  <2> QED BY <2>1, <1>4
<1>5. CASE events = <<"connect_failed">>
  BY <1>5
<1>6. CASE events = <<"adv_complete">>
  BY <1>6
<1> QED BY <1>1, <1>2, <1>3, <1>4, <1>5, <1>6 DEF Unconnected

\* What start_advertising leaves
LEMMA Advertises ==
  ASSUME NEW x \in HType, start_advertising(x)
  PROVE  /\ host' \in HType /\ advFailed' \in BOOLEAN
         /\ host'.running = x.running /\ host'.synced = x.synced /\ host'.conn = x.conn
         /\ host'.adv => x.adv \/ ~advFailed'
         /\ ~advFailed' => host'.adv
BY DEF start_advertising, HType

\* The main task
LEMMA MainKeepsLink ==
  ASSUME LinkTypes, LinkInv, ble_manager_init \/ Main
  PROVE  LinkTypes' /\ LinkInv'
<1> USE DEF LinkTypes, GType, HType, LinkInv
<1>1. CASE ble_manager_init
  <2>1. /\ main' = "on" /\ events' = <<>>
        /\ g_ble' = [connected |-> FALSE, notify |-> FALSE, shutdown |-> FALSE, sem |-> "empty"]
        /\ host' = [running |-> TRUE, synced |-> FALSE, adv |-> FALSE, conn |-> FALSE]
    BY <1>1 DEF ble_manager_init
  <2> QED BY <2>1
<1>2. CASE ShutdownFlag
  <2>1. /\ main = "on" /\ main' = "flagged" /\ events' = events /\ host' = host /\ advFailed' = advFailed
        /\ g_ble' = [g_ble EXCEPT !.shutdown = TRUE]
    BY <1>2 DEF ShutdownFlag
  <2> QED BY <2>1
<1>3. CASE Terminate
  <2>1. CASE g_ble.connected /\ host.conn
    <3>1. /\ main = "flagged" /\ main' = "waiting" /\ g_ble' = g_ble
          /\ host' = [host EXCEPT !.conn = FALSE] /\ events' = Append(events, "disconnect")
      BY <1>3, <2>1 DEF Terminate
    <3>2. events = <<>>
      BY <2>1, EventsDiffer
    <3>3. events' = <<"disconnect">>
      BY <3>1, <3>2
    <3> QED BY <2>1, <3>1, <3>2, <3>3, EventsDiffer
  <2>2. CASE g_ble.connected /\ ~host.conn
    <3>1. main = "flagged" /\ main' = "stopping" /\ UNCHANGED <<g_ble, host, events, advFailed>>
      BY <1>3, <2>2 DEF Terminate
    <3> QED BY <3>1
  <2>3. CASE ~g_ble.connected
    <3>1. /\ main = "flagged" /\ main' = "stopping" /\ UNCHANGED <<g_ble, events, advFailed>>
          /\ host' = [host EXCEPT !.adv = FALSE]
      BY <1>3, <2>3 DEF Terminate
    <3> QED BY <3>1
  <2> QED BY <2>1, <2>2, <2>3
<1>4. CASE WaitDisconnect
  <2>1. /\ main = "waiting" /\ main' = "stopping" /\ events' = events /\ host' = host
        /\ advFailed' = advFailed /\ g_ble' = [g_ble EXCEPT !.sem = "empty"]
    BY <1>4 DEF WaitDisconnect
  <2> QED BY <2>1
<1>5. CASE StopHost
  <2>1. /\ main' = "off" /\ events' = <<>>
        /\ g_ble' = [g_ble EXCEPT !.shutdown = FALSE, !.sem = "none"]
        /\ host' = [running |-> FALSE, synced |-> FALSE, adv |-> FALSE, conn |-> FALSE]
    BY <1>5 DEF StopHost
  <2> QED BY <2>1
<1> QED BY <1>1, <1>2, <1>3, <1>4, <1>5 DEF Main

\* The host task: what is left of the events leads from what it now knows to the link.
LEMMA HostKeepsLink ==
  ASSUME LinkTypes, LinkInv,
         ble_on_sync \/ Connect \/ ConnectFailed \/ Disconnect \/ AdvComplete \/ Subscribe
  PROVE  LinkTypes' /\ LinkInv'
<1> USE DEF LinkTypes, GType, HType, LinkInv
<1>1. CASE ble_on_sync
  <2>1. [host EXCEPT !.synced = TRUE] \in HType
    OBVIOUS
  <2>2. /\ start_advertising([host EXCEPT !.synced = TRUE]) /\ ~host.synced /\ host.running
        /\ UNCHANGED <<main, g_ble, events>>
    BY <1>1 DEF ble_on_sync
  <2>3. /\ host' \in HType /\ host'.running = host.running /\ host'.synced /\ host'.conn = host.conn
        /\ (host'.adv => host.adv \/ ~advFailed') /\ (~advFailed' => host'.adv)
    BY <2>1, <2>2, Advertises
  <2> QED BY <2>2, <2>3
<1>2. CASE Connect
  <2>1. /\ events \in {<<"connect">>, <<"connect", "disconnect">>}
        /\ events' = (IF events = <<"connect", "disconnect">> THEN <<"disconnect">> ELSE <<>>)
        /\ g_ble' = [g_ble EXCEPT !.connected = TRUE] /\ UNCHANGED <<main, host, advFailed>>
    BY <1>2, EventTaken DEF Connect, GapEvent
  <2> QED BY <2>1, EventsDiffer DEF Unconnected
<1>3. CASE ConnectFailed
  <2>1. /\ events = <<"connect_failed">> /\ events' = <<>> /\ start_advertising(host)
        /\ UNCHANGED <<main, g_ble>>
    BY <1>3, EventTaken, EventsDiffer DEF ConnectFailed, GapEvent, OnConnectFailed
  <2>2. /\ host' \in HType /\ host'.running = host.running /\ host'.synced = host.synced
        /\ host'.conn = host.conn /\ (~advFailed' => host'.adv)
    BY <2>1, Advertises
  <2> QED BY <2>1, <2>2, EventsDiffer
<1>4. CASE Disconnect
  <2>1. events = <<"disconnect">> /\ events' = <<>> /\ main' = main
    BY <1>4, EventTaken, EventsDiffer DEF Disconnect, GapEvent
  <2>2. g_ble' \in GType /\ g_ble'.shutdown = g_ble.shutdown /\ ~g_ble'.connected /\ ~g_ble'.notify
    BY <1>4, ZenonT(60) DEF Disconnect, Disconnected
  <2>3. CASE g_ble.shutdown
    <3>1. UNCHANGED <<host, advFailed>>
      BY <1>4, <2>3 DEF Disconnect
    <3> QED BY <2>1, <2>2, <2>3, <3>1, EventsDiffer
  <2>4. CASE ~g_ble.shutdown
    <3>1. /\ host' \in HType /\ host'.running = host.running /\ host'.synced = host.synced
          /\ host'.conn = host.conn /\ (~advFailed' => host'.adv)
      BY <1>4, <2>4, Advertises DEF Disconnect
    <3> QED BY <2>1, <2>2, <2>4, <3>1, EventsDiffer
  <2> QED BY <2>3, <2>4
<1>5. CASE AdvComplete
  <2>1. events = <<"adv_complete">> /\ events' = <<>> /\ UNCHANGED <<main, g_ble>>
    BY <1>5, EventTaken, EventsDiffer DEF AdvComplete, GapEvent
  <2>2. CASE g_ble.shutdown
    BY <1>5, <2>1, <2>2, EventsDiffer DEF AdvComplete
  <2>3. CASE ~g_ble.shutdown
    <3>1. /\ host' \in HType /\ host'.running = host.running /\ host'.synced = host.synced
          /\ host'.conn = host.conn /\ (~advFailed' => host'.adv)
      BY <1>5, <2>3, Advertises DEF AdvComplete
    <3> QED BY <2>1, <2>3, <3>1, EventsDiffer
  <2> QED BY <2>2, <2>3
<1>6. CASE Subscribe
  <2>1. /\ g_ble' = [g_ble EXCEPT !.notify = ~@] /\ g_ble.connected
        /\ UNCHANGED <<main, host, events, advFailed>>
    BY <1>6 DEF Subscribe
  <2> QED BY <2>1
<1> QED BY <1>1, <1>2, <1>3, <1>4, <1>5, <1>6

\* The radio: every change of the link is announced.
LEMMA RadioKeepsLink ==
  ASSUME LinkTypes, LinkInv, LinkUp \/ LinkDown
  PROVE  LinkTypes' /\ LinkInv'
<1> USE DEF LinkTypes, GType, HType, LinkInv
<1>1. CASE LinkUp
  <2>1. host.adv /\ events = <<>> /\ ~host.conn /\ UNCHANGED <<main, g_ble, advFailed>>
    BY <1>1 DEF LinkUp
  <2>2. ~g_ble.connected /\ host.synced /\ host.running
    BY <2>1
  <2>3. CASE host' = [host EXCEPT !.adv = FALSE, !.conn = TRUE] /\ events' = <<"connect">>
    BY <2>1, <2>2, <2>3, EventsDiffer
  <2>4. CASE /\ host' = [host EXCEPT !.adv = FALSE]
             /\ events' = <<"connect_failed">> \/ events' = <<"adv_complete">>
    BY <2>1, <2>2, <2>4, EventsDiffer DEF Unconnected
  <2>5. /\ Append(<<>>, "connect") = <<"connect">> /\ Append(<<>>, "connect_failed") = <<"connect_failed">>
        /\ Append(<<>>, "adv_complete") = <<"adv_complete">>
    OBVIOUS
  <2> QED BY <1>1, <2>1, <2>3, <2>4, <2>5 DEF LinkUp
<1>2. CASE LinkDown
  <2>1. /\ host.conn /\ host' = [host EXCEPT !.conn = FALSE] /\ events' = Append(events, "disconnect")
        /\ UNCHANGED <<main, g_ble, advFailed>>
    BY <1>2 DEF LinkDown
  <2>2. host.synced /\ ~host.adv
    BY <2>1
  <2>3. CASE events = <<>>
    <3>1. events' = <<"disconnect">>
      BY <2>1, <2>3
    <3>2. host.running
      <4>1. host.conn => host.running
        BY DEF LinkInv
      <4> QED BY <2>1, <4>1
    <3> QED BY <2>1, <2>2, <2>3, <3>1, <3>2, EventsDiffer
  <2>4. CASE events = <<"connect">>
    <3>1. events' = <<"connect", "disconnect">>
      BY <2>1, <2>4, TwoEvents
    <3> QED BY <2>1, <2>2, <2>4, <3>1, EventsDiffer DEF Unconnected
  <2> QED BY <2>1, <2>3, <2>4
<1> QED BY <1>1, <1>2

-----------------------------------------------------------------------------
(* The parser                                                              *)

Bytes == Seq(0..255)
PType == [state : {"header", "chunks", "crc"}, chunks : Nat, size : Nat, cid : Nat, read : Nat,
          crc : Bytes, out : Bytes]

\* The parser is between two messages.
Between(p) ==
  /\ p \in PType
  /\ p.state = "header" => p = ParserIdle
  /\ p.state # "header" => Len(p.out) <= p.size /\ p.size <= MaxSize
  /\ p.state = "chunks" => p.read = Len(p.out) /\ p.cid < p.chunks /\ p.crc = <<>>
  /\ p.state = "crc" => p.read = Len(p.crc) /\ p.read < 4

LEMMA IdleBetween == Between(ParserIdle)
<1>1. <<>> \in Bytes
  BY DEF Bytes
<1> QED BY <1>1 DEF Between, ParserIdle, PType

\* A piece of a message is as long as it should be.
LEMMA Piece ==
  ASSUME NEW b \in Bytes, NEW k \in Nat, NEW n \in Nat, k + n <= Len(b), NEW q \in Bytes
  PROVE  /\ q \o SubSeq(b, k + 1, k + n) \in Bytes
         /\ Len(q \o SubSeq(b, k + 1, k + n)) = Len(q) + n
<1> DEFINE x == SubSeq(b, k + 1, k + n)
<1>1. Len(b) \in Nat /\ Len(q) \in Nat
  BY DEF Bytes
<1>2. x \in Bytes /\ Len(x) = IF k + 1 <= k + n THEN (k + n) - (k + 1) + 1 ELSE 0
  <2>1. \A i \in (k + 1)..(k + n) : b[i] \in 0..255
    <3>1. \A i \in 1..Len(b) : b[i] \in 0..255
      BY ElementOfSeq DEF Bytes
    <3>2. \A i \in (k + 1)..(k + n) : i \in 1..Len(b)
      BY <1>1
    <3> QED BY <3>1, <3>2
  <2>2. k + 1 \in Int /\ k + n \in Int
    OBVIOUS
  <2> QED BY <2>1, <2>2, SubSeqProperties DEF Bytes
<1> HIDE DEF x
<1>3. Len(x) = n
  BY <1>2
<1>4. q \o x \in Bytes /\ Len(q \o x) = Len(q) + Len(x)
  BY <1>2, ConcatProperties, ZenonT(60) DEF Bytes
<1> QED BY <1>3, <1>4 DEF x

\* PARSER_STATE_READ_CRC reads at most the four bytes of the checksum.
LEMMA ReadCrcBetween ==
  ASSUME NEW p \in PType, p.state = "crc", p.read = Len(p.crc), p.read < 4,
         Len(p.out) <= p.size, p.size <= MaxSize,
         NEW b \in Bytes, NEW offset \in Nat, offset <= Len(b)
  PROVE  Between(ReadCrc(p, b, offset).p)
<1> DEFINE n == Smaller(4 - p.read, Len(b) - offset)
           q == [p EXCEPT !.read = @ + n, !.crc = @ \o SubSeq(b, offset + 1, offset + n)]
<1>1. p.read \in Nat /\ Len(b) \in Nat /\ p.crc \in Bytes
  BY DEF PType, Bytes
<1>2. n \in Nat /\ offset + n <= Len(b)
  <2> DEFINE l == Len(b)
             r == p.read
  <2>1. l \in Nat /\ r \in Nat /\ r < 4 /\ offset <= l
    BY <1>1
  <2> HIDE DEF l, r
  <2>2. Smaller(4 - r, l - offset) \in Nat /\ offset + Smaller(4 - r, l - offset) <= l
    BY <2>1 DEF Smaller
  <2> QED BY <2>2 DEF l, r
<1> HIDE DEF n
<1> DEFINE t == p.crc \o SubSeq(b, offset + 1, offset + n)
<1>3. t \in Bytes /\ Len(t) = Len(p.crc) + n
  <2> DEFINE c == p.crc
  <2>1. c \in Bytes /\ n \in Nat /\ offset + n <= Len(b)
    BY <1>1, <1>2
  <2> HIDE DEF c
  <2>2. /\ c \o SubSeq(b, offset + 1, offset + n) \in Bytes
        /\ Len(c \o SubSeq(b, offset + 1, offset + n)) = Len(c) + n
    BY <2>1, Piece
  <2> QED BY <2>2 DEF c
<1>4. /\ q \in PType /\ q.state = "crc" /\ q.out = p.out /\ q.size = p.size
      /\ q.read = Len(q.crc)
  <2>1. q = [p EXCEPT !.read = @ + n, !.crc = t]
    OBVIOUS
  <2> HIDE DEF q, t
  <2>2. p.read + n \in Nat /\ p.read + n = Len(t)
    BY <1>1, <1>2, <1>3
  <2> QED BY <2>1, <2>2, <1>3 DEF PType
<1> HIDE DEF q
<1>5. CASE q.read < 4
  <2>1. ReadCrc(p, b, offset).p = q
    BY <1>5 DEF ReadCrc, q, n
  <2> QED BY <1>4, <1>5, <2>1 DEF Between
<1>6. CASE ~(q.read < 4)
  <2>1. ReadCrc(p, b, offset).p = ParserIdle
    BY <1>6 DEF ReadCrc, q, n, Rejected
  <2> QED BY <2>1, IdleBetween
<1> QED BY <1>5, <1>6

\* PARSER_STATE_READ_CHUNKS never reads past the size the header announced.
LEMMA ReadChunkBetween ==
  ASSUME NEW p \in PType, p.state = "chunks", p.read = Len(p.out), p.cid < p.chunks, p.crc = <<>>,
         Len(p.out) <= p.size, p.size <= MaxSize, NEW b \in Bytes
  PROVE  Between(ReadChunk(p, b).p)
<1> DEFINE offset == IF p.cid = 0 THEN 5 ELSE 0
           n == Smaller(p.size - p.read, Len(b) - offset - 1)
           q == [p EXCEPT !.out = @ \o SubSeq(b, offset + 2, offset + 1 + n), !.read = @ + n, !.cid = @ + 1]
<1>1. /\ p.read \in Nat /\ p.size \in Nat /\ p.cid \in Nat /\ p.chunks \in Nat /\ Len(b) \in Nat
      /\ p.out \in Bytes /\ offset \in Nat
  BY DEF PType, Bytes
<1> HIDE DEF offset
<1>2. CASE Len(b) <= offset + 1 \/ b[offset + 1] # p.cid
  <2>1. ReadChunk(p, b).p = ParserIdle
    BY <1>2 DEF ReadChunk, Rejected, offset
  <2> QED BY <2>1, IdleBetween
<1>3. CASE ~(Len(b) <= offset + 1 \/ b[offset + 1] # p.cid)
  <2>1. n \in Nat /\ offset + 1 + n <= Len(b) /\ p.read + n <= p.size
    <3> DEFINE l == Len(b)
               r == p.read
               s == p.size
    <3>1. l \in Nat /\ r \in Nat /\ s \in Nat /\ r <= s /\ ~(l <= offset + 1) /\ offset \in Nat
      BY <1>1, <1>3
    <3> HIDE DEF l, r, s
    <3>2. /\ Smaller(s - r, l - offset - 1) \in Nat /\ offset + 1 + Smaller(s - r, l - offset - 1) <= l
          /\ r + Smaller(s - r, l - offset - 1) <= s
      BY <3>1 DEF Smaller
    <3> QED BY <3>2 DEF l, r, s
  <2> HIDE DEF n
  <2> DEFINE t == p.out \o SubSeq(b, offset + 2, offset + 1 + n)
  <2>2. t \in Bytes /\ Len(t) = Len(p.out) + n
    <3> DEFINE c == p.out
               k == offset + 1
    <3>1. c \in Bytes /\ k \in Nat /\ k + 1 = offset + 2 /\ k + n = offset + 1 + n /\ k + n <= Len(b)
      BY <1>1, <2>1
    <3>2. t = c \o SubSeq(b, k + 1, k + n)
      BY <3>1
    <3> HIDE DEF c, k, t
    <3>3. /\ c \o SubSeq(b, k + 1, k + n) \in Bytes
          /\ Len(c \o SubSeq(b, k + 1, k + n)) = Len(c) + n
      BY <2>1, <3>1, Piece
    <3> QED BY <3>2, <3>3 DEF c
  <2>3. /\ q \in PType /\ q.state = "chunks" /\ q.size = p.size /\ q.chunks = p.chunks
        /\ q.cid = p.cid + 1 /\ q.read = Len(q.out) /\ q.read <= q.size /\ q.crc = <<>>
    <3>1. q = [p EXCEPT !.out = t, !.read = @ + n, !.cid = @ + 1]
      OBVIOUS
    <3> HIDE DEF q, t
    <3>2. p.read + n \in Nat /\ p.read + n = Len(t) /\ p.cid + 1 \in Nat
      BY <1>1, <2>1, <2>2
    <3> QED BY <3>1, <3>2, <2>1, <2>2 DEF PType
  <2> HIDE DEF q
  <2>4. CASE (q.read = q.size) # (q.cid = q.chunks)
    <3>1. ReadChunk(p, b).p = ParserIdle
      BY <1>3, <2>4 DEF ReadChunk, Rejected, q, n, offset
    <3> QED BY <3>1, IdleBetween
  <2>5. CASE q.read = q.size /\ q.cid = q.chunks
    <3> DEFINE c == [q EXCEPT !.state = "crc", !.read = 0]
    <3>1. ReadChunk(p, b) = ReadCrc(c, b, offset + 1 + n)
      BY <1>3, <2>5 DEF ReadChunk, q, n, offset
    <3>2. /\ c \in PType /\ c.state = "crc" /\ c.read = 0 /\ c.crc = <<>> /\ c.out = q.out
          /\ c.size = q.size
      BY <2>3 DEF PType
    <3> HIDE DEF c
    <3>3. /\ c.read = Len(c.crc) /\ c.read < 4 /\ Len(c.out) <= c.size /\ c.size <= MaxSize
          /\ offset + 1 + n \in Nat
      BY <2>1, <2>3, <3>2, <1>1
    <3> QED BY <3>1, <3>2, <3>3, <2>1, ReadCrcBetween
  <2>6. CASE q.read # q.size /\ q.cid # q.chunks
    <3>1. ReadChunk(p, b).p = q
      BY <1>3, <2>6 DEF ReadChunk, q, n, offset
    <3>2. q.cid < q.chunks
      BY <2>3, <2>6, <1>1
    <3> QED BY <2>3, <3>1, <3>2 DEF Between
  <2> QED BY <2>4, <2>5, <2>6
<1> QED BY <1>2, <1>3

\* parse_new_chunk leaves the parser between two messages.
LEMMA ParseBetween ==
  ASSUME NEW p, Between(p), NEW b \in Bytes
  PROVE  Between(Parse(p, b).p)
<1>1. CASE p.state = "header" /\ HeaderValid(b)
  <2> DEFINE c == [p EXCEPT !.state = "chunks", !.chunks = b[3], !.size = HeaderSize(b)]
  <2>1. Parse(p, b) = ReadChunk(c, b)
    BY <1>1 DEF Parse
  <2>2. b[3] \in Nat \ {0} /\ HeaderSize(b) \in Nat \ {0} /\ HeaderSize(b) <= MaxSize
    <3>1. Len(b) > 6 /\ b[3] # 0 /\ HeaderSize(b) # 0 /\ HeaderSize(b) <= MaxSize /\ Len(b) \in Nat
      BY <1>1 DEF HeaderValid, Bytes
    <3>2. 3 \in 1..Len(b) /\ 4 \in 1..Len(b) /\ 5 \in 1..Len(b)
      BY <3>1
    <3>3. b[3] \in 0..255 /\ b[4] \in 0..255 /\ b[5] \in 0..255
      BY <3>2, ElementOfSeq, SMTT(40) DEF Bytes
    <3>4. HeaderSize(b) \in Nat
      <4> DEFINE x == b[4]
                 y == b[5]
      <4>1. x \in Nat /\ y \in Nat /\ HeaderSize(b) = x * 256 + y
        BY <3>3 DEF HeaderSize
      <4> HIDE DEF x, y
      <4>2. x * 256 + y \in Nat
        BY <4>1
      <4> QED BY <4>1, <4>2
    <3>5. b[3] \in Nat
      BY <3>3
    <3> QED BY <3>1, <3>4, <3>5
  <2>3. p = ParserIdle /\ p \in PType
    BY <1>1 DEF Between
  <2>4. /\ c \in PType /\ c.state = "chunks" /\ c.read = 0 /\ c.out = <<>> /\ c.cid = 0
        /\ c.crc = <<>> /\ c.size = HeaderSize(b) /\ c.chunks = b[3]
    BY <2>2, <2>3 DEF PType, ParserIdle
  <2> HIDE DEF c
  <2>5. c.read = Len(c.out) /\ c.cid < c.chunks /\ Len(c.out) <= c.size /\ c.size <= MaxSize
    BY <2>2, <2>4
  <2> QED BY <2>1, <2>4, <2>5, ReadChunkBetween
<1>2. CASE p.state = "header" /\ ~HeaderValid(b)
  <2>1. Parse(p, b).p = ParserIdle
    BY <1>2 DEF Parse, Rejected
  <2> QED BY <2>1, IdleBetween
<1>3. CASE p.state = "chunks"
  <2>1. Parse(p, b) = ReadChunk(p, b)
    BY <1>3 DEF Parse
  <2> QED BY <1>3, <2>1, ReadChunkBetween DEF Between
<1>4. CASE p.state = "crc"
  <2>1. Parse(p, b) = ReadCrc(p, b, 0)
    BY <1>4 DEF Parse
  <2>2. 0 \in Nat /\ 0 <= Len(b)
    BY DEF Bytes
  <2> QED BY <1>4, <2>1, <2>2, ReadCrcBetween DEF Between
<1> QED BY <1>1, <1>2, <1>3, <1>4 DEF Between, PType

-----------------------------------------------------------------------------
(* The line                                                                *)

Msg == [t : Nat, i : Nat]

\* The messages of a transfer
LEMMA MessageFacts ==
  /\ \A t \in DOMAIN Transfers : /\ t \in Nat /\ 1 \in DOMAIN Transfers[t].msgs
                                 /\ Len(Transfers[t].msgs) \in Nat
                                 /\ DOMAIN Transfers[t].msgs = 1..Len(Transfers[t].msgs)
  /\ \A m \in Msg : Sent(m) => Transfers[m.t].msgs[m.i] \in Bytes
<1> DEFINE T == [good : BOOLEAN, data : Seq(0..255), msgs : Seq(Seq(0..255))]
<1>1. Transfers \in Seq(T) /\ \A t \in DOMAIN Transfers : Transfers[t].msgs # <<>>
  BY SessionAssumption
<1>2. \A t \in DOMAIN Transfers : t \in Nat /\ Transfers[t] \in T
  <2>1. Transfers \in Seq(T)
    BY <1>1
  <2> HIDE DEF T
  <2>2. DOMAIN Transfers = 1..Len(Transfers) /\ Len(Transfers) \in Nat
    BY <2>1
  <2>3. \A t \in 1..Len(Transfers) : Transfers[t] \in T
    BY <2>1, ElementOfSeq
  <2> QED BY <2>2, <2>3
<1>3. \A t \in DOMAIN Transfers : Transfers[t].msgs \in Seq(Bytes)
  BY <1>2, ZenonT(60) DEF Bytes
<1> HIDE DEF T
<1>4. ASSUME NEW t \in DOMAIN Transfers
      PROVE  /\ 1 \in DOMAIN Transfers[t].msgs /\ Len(Transfers[t].msgs) \in Nat
             /\ DOMAIN Transfers[t].msgs = 1..Len(Transfers[t].msgs)
             /\ \A i \in DOMAIN Transfers[t].msgs : Transfers[t].msgs[i] \in Bytes
  <2> DEFINE q == Transfers[t].msgs
  <2>1. q \in Seq(Bytes) /\ q # <<>>
    BY <1>1, <1>3
  <2> HIDE DEF q
  <2>2. Len(q) \in Nat /\ DOMAIN q = 1..Len(q) /\ 1 \in DOMAIN q /\ \A i \in DOMAIN q : q[i] \in Bytes
    BY <2>1
  <2> QED BY <2>2 DEF q
<1>5. ASSUME NEW m \in Msg, Sent(m) PROVE Transfers[m.t].msgs[m.i] \in Bytes
  BY <1>4, <1>5 DEF Sent
<1> QED BY <1>2, <1>4, <1>5

\* A message taken from the fifo is one that was sent, and the rest are, too.
LEMMA MessageTaken ==
  ASSUME LineInv, rx # <<>>, rx' = Tail(rx), phone' = phone, Len(rx) <= FifoSize
  PROVE  LineInv' /\ Len(rx') <= FifoSize /\ Head(rx) \in Msg /\ Sent(Head(rx))
<1>1. rx \in Seq(Msg) /\ FifoSize \in Nat
  BY SessionAssumption DEF LineInv, Msg
<1>2. /\ Tail(rx) \in Seq(Msg) /\ Len(Tail(rx)) = Len(rx) - 1 /\ Len(rx) \in Nat
      /\ \A k \in 1..Len(Tail(rx)) : Tail(rx)[k] = rx[k + 1]
      /\ Head(rx) = rx[1] /\ 1 \in DOMAIN rx /\ DOMAIN rx = 1..Len(rx) /\ rx[1] \in Msg
      /\ DOMAIN Tail(rx) = 1..Len(Tail(rx))
  BY <1>1, HeadTailProperties
<1>3. ASSUME NEW k \in DOMAIN Tail(rx) PROVE Sent(Tail(rx)[k])
  <2>1. k + 1 \in DOMAIN rx /\ Tail(rx)[k] = rx[k + 1]
    BY <1>2
  <2> QED BY <2>1 DEF LineInv
<1>4. Len(rx') <= FifoSize
  BY <1>1, <1>2
<1> QED BY <1>2, <1>3, <1>4 DEF LineInv, Msg

\* A message the phone sends joins them; the oldest makes room.
LEMMA MessagePushed ==
  ASSUME LineInv, Len(rx) <= FifoSize, NEW m \in Msg, Sent(m)
  PROVE  /\ Pushed(m) \in Seq(Msg) /\ Len(Pushed(m)) <= FifoSize
         /\ \A k \in DOMAIN Pushed(m) : Sent(Pushed(m)[k])
<1> DEFINE r == IF Len(rx) < FifoSize THEN rx ELSE Tail(rx)
<1>1. rx \in Seq(Msg) /\ FifoSize \in Nat \ {0} /\ Len(rx) \in Nat
  BY SessionAssumption DEF LineInv, Msg
<1>2. r \in Seq(Msg) /\ Len(r) < FifoSize /\ \A k \in DOMAIN r : Sent(r[k])
  <2>1. CASE Len(rx) < FifoSize
    BY <1>1, <2>1, SMTT(40) DEF LineInv
  <2>2. CASE ~(Len(rx) < FifoSize)
    <3>1. r = Tail(rx) /\ rx # <<>>
      BY <1>1, <2>2
    <3>2. /\ Tail(rx) \in Seq(Msg) /\ Len(Tail(rx)) = Len(rx) - 1
          /\ \A k \in 1..Len(Tail(rx)) : Tail(rx)[k] = rx[k + 1]
      BY <1>1, <3>1, HeadTailProperties
    <3>3. ASSUME NEW k \in DOMAIN Tail(rx) PROVE Sent(Tail(rx)[k])
      <4>1. k + 1 \in DOMAIN rx /\ Tail(rx)[k] = rx[k + 1]
        BY <1>1, <3>2
      <4> QED BY <4>1 DEF LineInv
    <3>4. Len(Tail(rx)) < FifoSize
      BY <1>1, <3>2
    <3> QED BY <3>1, <3>2, <3>3, <3>4
  <2> QED BY <2>1, <2>2
<1> HIDE DEF r
<1>3. Append(r, m) \in Seq(Msg) /\ Len(Append(r, m)) = Len(r) + 1 /\ Len(r) \in Nat
  BY <1>2
<1>4. ASSUME NEW k \in DOMAIN Append(r, m) PROVE Sent(Append(r, m)[k])
  <2>1. k \in 1..(Len(r) + 1) /\ Append(r, m)[k] = IF k = Len(r) + 1 THEN m ELSE r[k]
    BY <1>2, <1>3
  <2>2. k = Len(r) + 1 \/ k \in DOMAIN r
    BY <1>2, <2>1
  <2> QED BY <1>2, <2>1, <2>2
<1>5. Len(r) + 1 <= FifoSize
  BY <1>1, <1>2, <1>3
<1> QED BY <1>3, <1>4, <1>5 DEF Pushed, r

-----------------------------------------------------------------------------
(* The invariant                                                           *)

\* The parts of the invariant, by what they speak of
LEMMA InvParts ==
  SessionInv <=> /\ LinkTypes /\ LinkInv
                 /\ Between(parser) /\ BufferOwned
                 /\ LineInv /\ Len(rx) <= FifoSize
<1>1. TypeOK /\ ParserInv <=> LinkTypes /\ Between(parser) /\ Len(rx) <= FifoSize
  <2>1. ParserInv => parser \in PType
    BY DEF ParserInv, PType, Bytes
  <2>2. parser \in PType => parser.state \in {"header", "chunks", "crc"}
    BY DEF PType
  <2> QED BY <2>1, <2>2 DEF TypeOK, ParserInv, LinkTypes, GType, HType, Between, PType, Bytes
<1> QED BY <1>1 DEF SessionInv

\* The buffer goes with the parser's state.
LEMMA BufferFollows ==
  ASSUME BufferOwned, heap' = BuffersAfter(parser, parser')
  PROVE  BufferOwned'
<1>1. heap \in Int
  BY DEF BufferOwned
<1>2. CASE parser.state = "header" /\ parser'.state # "header"
  BY <1>1, <1>2 DEF BufferOwned, BuffersAfter
<1>3. CASE parser.state # "header" /\ parser'.state = "header"
  BY <1>1, <1>3 DEF BufferOwned, BuffersAfter
<1>4. CASE (parser.state = "header") <=> (parser'.state = "header")
  BY <1>4 DEF BufferOwned, BuffersAfter
<1> QED BY <1>2, <1>3, <1>4

\* The watch starts with the stack down and nothing received.
LEMMA SessionInvInit == Init => SessionInv
<1> SUFFICES ASSUME Init PROVE SessionInv
  OBVIOUS
<1>1. LinkTypes /\ LinkInv
  BY DEF Init, LinkTypes, LinkInv, GType, HType
<1>2. Between(parser)
  BY IdleBetween DEF Init
<1>3. BufferOwned
  BY DEF Init, BufferOwned, ParserIdle
<1>4. LineInv /\ Len(rx) <= FifoSize
  <2>1. rx = <<>> /\ phone = NoPhone /\ FifoSize \in Nat
    BY SessionAssumption DEF Init
  <2>2. rx \in Seq([t : Nat, i : Nat]) /\ Len(rx) = 0 /\ DOMAIN rx = {}
    BY <2>1
  <2> QED BY <2>1, <2>2 DEF LineInv, NoPhone
<1> QED BY <1>1, <1>2, <1>3, <1>4, InvParts

\* What a step of the connection does not touch
LEMMA LineKept ==
  ASSUME SessionInv, UNCHANGED <<rx, parser, heap>>, phone' \in {phone, NoPhone}
  PROVE  Between(parser)' /\ BufferOwned' /\ LineInv' /\ (Len(rx) <= FifoSize)'
<1>1. Between(parser) /\ BufferOwned /\ LineInv /\ Len(rx) <= FifoSize
  BY InvParts
<1>2. Between(parser)' /\ BufferOwned' /\ (Len(rx) <= FifoSize)'
  BY <1>1 DEF Between, BufferOwned
<1>3. LineInv'
  BY <1>1 DEF LineInv, NoPhone
<1> QED BY <1>2, <1>3

\* What a step of the parser or the phone does not touch
LEMMA LinkKept ==
  ASSUME SessionInv, UNCHANGED <<main, g_ble, host, events, advFailed>>
  PROVE  LinkTypes' /\ LinkInv'
BY InvParts DEF LinkTypes, LinkInv

\* process_rx_buffers
LEMMA ParserKeepsInv ==
  ASSUME SessionInv, process_rx_buffers \/ OutOfMemory
  PROVE  SessionInv'
<1>1. Between(parser) /\ BufferOwned /\ LineInv /\ Len(rx) <= FifoSize
  BY InvParts
<1>2. rx # <<>> /\ rx' = Tail(rx) /\ UNCHANGED <<main, g_ble, host, events, phone, advFailed>>
  BY DEF process_rx_buffers, OutOfMemory
<1>3. LinkTypes' /\ LinkInv'
  BY <1>2, LinkKept
<1>4. LineInv' /\ Len(rx') <= FifoSize /\ Head(rx) \in Msg /\ Sent(Head(rx))
  BY <1>1, <1>2, MessageTaken
<1>5. (Len(rx) <= FifoSize)'
  BY <1>4
<1>6. CASE process_rx_buffers
  <2> DEFINE b == Transfers[Head(rx).t].msgs[Head(rx).i]
  <2>1. b \in Bytes
    BY <1>4, MessageFacts, SMTT(40)
  <2>2. parser' = Parse(parser, b).p /\ heap' = BuffersAfter(parser, parser')
    BY <1>6 DEF process_rx_buffers
  <2> HIDE DEF b
  <2>3. Between(parser')
    BY <1>1, <2>1, <2>2, ParseBetween
  <2>4. BufferOwned'
    BY <1>1, <2>2, BufferFollows
  <2>5. Between(parser)'
    BY <2>3 DEF Between
  <2> QED BY <1>3, <1>4, <1>5, <2>4, <2>5, InvParts, PTL
<1>7. CASE OutOfMemory
  <2>1. parser.state = "header" /\ parser' = ParserIdle /\ heap' = heap
    BY <1>7 DEF OutOfMemory
  <2>2. Between(parser)'
    BY <2>1, IdleBetween DEF Between
  <2>3. BufferOwned'
    BY <1>1, <2>1 DEF BufferOwned, ParserIdle
  <2> QED BY <1>3, <1>4, <1>5, <2>2, <2>3, InvParts, PTL
<1> QED BY <1>6, <1>7

\* The phone sends the messages of a transfer one after the other.
LEMMA PhoneKeepsInv ==
  ASSUME SessionInv, PhoneSend \/ PhoneGivesUp \/ \E t \in DOMAIN Transfers : PhoneStart(t)
  PROVE  SessionInv'
<1>1. Between(parser) /\ BufferOwned /\ LineInv /\ Len(rx) <= FifoSize
  BY InvParts
<1>2. UNCHANGED <<main, g_ble, host, events, parser, heap, advFailed>>
  BY DEF PhoneSend, PhoneGivesUp, PhoneStart
<1>3. LinkTypes' /\ LinkInv' /\ Between(parser)' /\ BufferOwned'
  BY <1>1, <1>2, LinkKept DEF Between, BufferOwned
<1>4. CASE PhoneGivesUp
  <2>1. LineInv' /\ (Len(rx) <= FifoSize)'
    BY <1>2, <1>4, LineKept DEF PhoneGivesUp
  <2> QED BY <1>3, <2>1, InvParts, PTL
<1>5. CASE \E t \in DOMAIN Transfers : PhoneStart(t)
  <2>1. PICK t \in DOMAIN Transfers : PhoneStart(t)
    BY <1>5
  <2>2. rx' = rx /\ phone' = [t |-> t, i |-> 1]
    BY <2>1 DEF PhoneStart
  <2>3. t \in Nat /\ 1 \in DOMAIN Transfers[t].msgs
    BY MessageFacts
  <2>4. phone' \in [t : Nat, i : Nat] /\ Sent(phone')
    BY <2>2, <2>3 DEF Sent
  <2>5. LineInv' /\ (Len(rx) <= FifoSize)'
    BY <1>1, <2>2, <2>4 DEF LineInv, Sent
  <2> QED BY <1>3, <2>5, InvParts, PTL
<1>6. CASE PhoneSend
  <2> DEFINE l == Len(Transfers[phone.t].msgs)
  <2>1. /\ phone # NoPhone /\ rx' = Pushed(phone)
        /\ phone' = IF phone.i = l THEN NoPhone ELSE [phone EXCEPT !.i = @ + 1]
    BY <1>6 DEF PhoneSend
  <2>2. phone \in Msg /\ Sent(phone)
    BY <1>1, <2>1 DEF LineInv, Msg
  <2>3. rx' \in Seq(Msg) /\ Len(rx') <= FifoSize /\ \A k \in DOMAIN rx' : Sent(rx'[k])
    BY <1>1, <2>1, <2>2, MessagePushed
  <2>4. l \in Nat /\ phone.i \in 1..l /\ DOMAIN Transfers[phone.t].msgs = 1..l /\ phone.t \in DOMAIN Transfers
    BY <2>2, MessageFacts DEF Sent
  <2> HIDE DEF l
  <2>5. phone' \in Msg /\ (phone' # NoPhone => Sent(phone'))
    <3>1. CASE phone.i = l
      BY <2>1, <3>1 DEF NoPhone, Msg
    <3>2. CASE phone.i # l
      <4>1. phone' = [t |-> phone.t, i |-> phone.i + 1]
        BY <2>1, <2>2, <3>2 DEF Msg
      <4>2. phone.i + 1 \in 1..l /\ phone.i + 1 \in Nat
        BY <2>4, <3>2
      <4> QED BY <2>2, <2>4, <4>1, <4>2 DEF Msg, Sent
    <3> QED BY <3>1, <3>2
  <2>6. LineInv' /\ (Len(rx) <= FifoSize)'
    BY <2>3, <2>5 DEF LineInv, Msg, Sent
  <2> QED BY <1>3, <2>6, InvParts, PTL
<1> QED BY <1>4, <1>5, <1>6

\* Every step keeps the invariant.
LEMMA SessionInvNext == SessionInv /\ [Next]_svars => SessionInv'
<1> SUFFICES ASSUME SessionInv, [Next]_svars PROVE SessionInv'
  OBVIOUS
<1>1. LinkTypes /\ LinkInv
  BY InvParts
<1>2. CASE ble_manager_init
  <2>1. LinkTypes' /\ LinkInv'
    BY <1>1, <1>2, MainKeepsLink
  <2>2. rx' = <<>> /\ parser' = ParserIdle /\ heap' = 0 /\ phone' = phone
    BY <1>2 DEF ble_manager_init
  <2>3. Between(parser)' /\ BufferOwned'
    BY <2>2, IdleBetween DEF Between, BufferOwned, ParserIdle
  <2>4. LineInv' /\ (Len(rx) <= FifoSize)'
    <3>1. LineInv /\ FifoSize \in Nat
      BY InvParts, SessionAssumption
    <3>2. rx' \in Seq([t : Nat, i : Nat]) /\ Len(rx') = 0 /\ DOMAIN rx' = {}
      BY <2>2
    <3> QED BY <2>2, <3>1, <3>2 DEF LineInv, Sent
  <2> QED BY <2>1, <2>3, <2>4, InvParts, PTL
<1>3. CASE Main
  <2>1. LinkTypes' /\ LinkInv'
    BY <1>1, <1>3, MainKeepsLink
  <2>2. UNCHANGED <<rx, parser, heap>> /\ phone' \in {phone, NoPhone}
    BY <1>3 DEF Main, ShutdownFlag, Terminate, WaitDisconnect, StopHost
  <2> QED BY <2>1, <2>2, LineKept, InvParts, PTL
<1>4. CASE ble_on_sync \/ Connect \/ ConnectFailed \/ Disconnect \/ AdvComplete \/ Subscribe
  <2>1. LinkTypes' /\ LinkInv'
    BY <1>1, <1>4, HostKeepsLink
  <2>2. UNCHANGED <<rx, parser, heap>> /\ phone' \in {phone, NoPhone}
    BY <1>4 DEF ble_on_sync, Connect, ConnectFailed, Disconnect, AdvComplete, Subscribe
  <2> QED BY <2>1, <2>2, LineKept, InvParts, PTL
<1>5. CASE LinkUp \/ LinkDown
  <2>1. LinkTypes' /\ LinkInv'
    BY <1>1, <1>5, RadioKeepsLink
  <2>2. UNCHANGED <<rx, parser, heap>> /\ phone' \in {phone, NoPhone}
    BY <1>5 DEF LinkUp, LinkDown
  <2> QED BY <2>1, <2>2, LineKept, InvParts, PTL
<1>6. CASE UNCHANGED svars
  <2>1. LinkTypes' /\ LinkInv'
    BY <1>6, LinkKept DEF svars
  <2>2. UNCHANGED <<rx, parser, heap>> /\ phone' \in {phone, NoPhone}
    BY <1>6 DEF svars
  <2> QED BY <2>1, <2>2, LineKept, InvParts, PTL
<1> QED BY <1>2, <1>3, <1>4, <1>5, <1>6, ParserKeepsInv, PhoneKeepsInv DEF Next

\* For every set of transfers the phone may send, broken off anywhere, and whatever the
\* fifo drops: parse_new_chunk stays within the size its header announced and within four
\* bytes of checksum, holds a buffer exactly while a transfer is under way, and the events
\* still to be seen lead from what the watch knows of its link to what the link is.
THEOREM SessionInvCorrect == Spec => []SessionInv
<1>1. Init => SessionInv
  BY SessionInvInit
<1>2. SessionInv /\ [Next]_svars => SessionInv'
  BY SessionInvNext
<1> QED BY <1>1, <1>2, PTL DEF Spec

\* Once ble_gap_event has seen all events the watch knows whether it is connected, and
\* without a connection it can be found unless the stack refused to advertise.
THEOREM ReachableCorrect == Spec => []Reachable
<1>1. SessionInv => Reachable
  <2> SUFFICES ASSUME SessionInv PROVE Reachable
    OBVIOUS
  <2>1. LinkTypes /\ LinkInv
    BY InvParts
  <2>2. /\ g_ble.connected \in BOOLEAN /\ host.conn \in BOOLEAN /\ host.synced \in BOOLEAN
        /\ host.adv \in BOOLEAN /\ host.running \in BOOLEAN
    BY <2>1 DEF LinkTypes, GType, HType
  <2> QED BY <2>1, <2>2 DEF Reachable, LinkInv
<1> QED BY <1>1, SessionInvCorrect, PTL

==============================================================================
