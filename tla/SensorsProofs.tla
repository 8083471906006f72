---------------------------- MODULE SensorsProofs -----------------------------
(***************************************************************************)
(* Proofs about Sensors and ImuDriver, for every number of workers, every  *)
(* size of the queues and any number of failed bus accesses and of windows *)
(* closed by force, in any combination; and about StepDetector, for every  *)
(* set of levels, every size of history and windows and every threshold:   *)
(* steps are counted once and reported in confirmed walks only.            *)
(*                                                                         *)
(* The detector's search for peaks is a recursion over the samples of the  *)
(* history.  Induction is stated over sets of numbers, from the least      *)
(* element of a set, and gives the function that such a recursion defines. *)
(***************************************************************************)
EXTENDS Sensors, StepDetector, FiniteSetTheorems, SequenceTheorems, WellFoundedInduction, TLAPS

-----------------------------------------------------------------------------
(* The driver                                                              *)

\* A set of outcomes of an operation that succeeds in the state s only, and that gives
\* the sleep lock back also when it fails
Yields(S, s) ==
  /\ s \in ImuState
  /\ \A o \in S : /\ o \in [imu : ImuState, ok : BOOLEAN] /\ o.imu.locks = s.locks
                  /\ o.ok => o.imu = s

Held(i) == [i EXCEPT !.locks = @ + 1]

\* A write succeeds in its new state.
LEMMA WriteYields ==
  ASSUME NEW i \in ImuState, NEW s \in ImuState, s.locks = i.locks
  PROVE  Yields(Write(i, s), s)
BY DEF Yields, Write, ImuState

\* An access changes nothing.
LEMMA AccessYields ==
  ASSUME NEW i \in ImuState
  PROVE  Yields(Access(i), i)
BY WriteYields DEF Access

\* The rest of an operation starts where its first part has succeeded.
LEMMA ThenYields ==
  ASSUME NEW S, NEW s, Yields(S, s), NEW R, NEW t, Yields(R, t), t.locks = s.locks,
         NEW T, \A o \in T : (o \in S /\ ~o.ok) \/ o \in R
  PROVE  Yields(T, t)
BY DEF Yields

\* The lock is held in the body of a block and given back behind it.
LEMMA LockYields ==
  ASSUME NEW i \in ImuState, NEW R, NEW t \in ImuState, Yields(R, Held(t)), t.locks = i.locks,
         NEW T, \A o \in T : \E r \in R : o = [r EXCEPT !.imu.locks = @ - 1]
  PROVE  Yields(T, t)
<1>1. ASSUME NEW o \in T
      PROVE  /\ o \in [imu : ImuState, ok : BOOLEAN] /\ o.imu.locks = t.locks
             /\ o.ok => o.imu = t
  <2>1. PICK r \in R : o = [r EXCEPT !.imu.locks = @ - 1]
    OBVIOUS
  <2>2. /\ r \in [imu : ImuState, ok : BOOLEAN] /\ r.imu.locks = t.locks + 1
        /\ r.ok => r.imu = Held(t)
    BY DEF Yields, Held, ImuState
  <2>3. o = [imu |-> [r.imu EXCEPT !.locks = @ - 1], ok |-> r.ok]
    BY <2>1, <2>2
  <2>4. [r.imu EXCEPT !.locks = @ - 1] \in ImuState /\ [r.imu EXCEPT !.locks = @ - 1].locks = t.locks
    BY <2>2 DEF ImuState
  <2>5. r.ok => [r.imu EXCEPT !.locks = @ - 1] = t
    BY <2>2 DEF ImuState, Held
  <2> QED BY <2>2, <2>3, <2>4, <2>5
<1> QED BY <1>1 DEF Yields

\* The lock counts.
LEMMA HeldState ==
  ASSUME NEW i \in ImuState
  PROVE  /\ Held(i) \in ImuState /\ Held(i).locks = i.locks + 1
         /\ Held(i).aen = i.aen /\ Held(i).gen = i.gen /\ Held(i).fifo = i.fifo
BY DEF Held, ImuState

\* An access under the lock
LEMMA LockedAccessYields ==
  ASSUME NEW i \in ImuState
  PROVE  Yields(WithSleepLock(i, Access), i)
<1>1. Yields(Access(Held(i)), Held(i))
  BY AccessYields, HeldState
<1>2. \A o \in WithSleepLock(i, Access) : \E r \in Access(Held(i)) : o = [r EXCEPT !.imu.locks = @ - 1]
  BY DEF WithSleepLock, Held
<1> QED BY <1>1, <1>2, LockYields

\* Nothing to do
LEMMA DoneYields ==
  ASSUME NEW i \in ImuState
  PROVE  Yields({[imu |-> i, ok |-> TRUE]}, i)
BY DEF Yields

\* Two accesses
LEMMA TwoAccessesYield ==
  ASSUME NEW i \in ImuState
  PROVE  Yields(Then(Access(i), Access), i)
<1>1. Yields(Access(i), i)
  BY AccessYields
<1>2. \A o \in Then(Access(i), Access) : (o \in Access(i) /\ ~o.ok) \/ o \in Access(i)
  BY <1>1 DEF Then, Yields
<1> QED BY <1>1, <1>2, ThenYields

\* ctrl9_handshake changes nothing.
LEMMA HandshakeYields ==
  ASSUME NEW i \in ImuState
  PROVE  Yields(ctrl9_handshake(i), i)
<1> DEFINE R(j) == WithSleepLock(j, Access)
<1>1. Yields(Access(i), i) /\ Yields(R(i), i)
  BY AccessYields, LockedAccessYields
<1>2. ctrl9_handshake(i) = Then(Access(i), R)
  BY DEF ctrl9_handshake
<1> HIDE DEF R
<1>3. \A o \in ctrl9_handshake(i) : (o \in Access(i) /\ ~o.ok) \/ o \in R(i)
  BY <1>1, <1>2 DEF Then, Yields
<1> QED BY <1>1, <1>3, ThenYields

\* A bit of CTRL7 is read and written under the lock.
LEMMA SwitchYields ==
  ASSUME NEW i \in ImuState, NEW s \in ImuState, s.locks = i.locks,
         NEW B, B = {o \in Access(Held(i)) : ~o.ok} \cup Write(Held(i), Held(s)),
         NEW T, \A o \in T : \E r \in B : o = [r EXCEPT !.imu.locks = @ - 1]
  PROVE  Yields(T, s)
<1>1. Held(i) \in ImuState /\ Held(s) \in ImuState /\ Held(s).locks = Held(i).locks
  BY HeldState
<1>2. Yields(Access(Held(i)), Held(i)) /\ Yields(Write(Held(i), Held(s)), Held(s))
  BY <1>1, AccessYields, WriteYields
<1>3. Yields(B, Held(s))
  BY <1>1, <1>2, ThenYields
<1> QED BY <1>3, LockYields

\* imu_enable_accelerometer writes its bit and no other.
LEMMA EnableAccelYields ==
  ASSUME NEW i \in ImuState
  PROVE  Yields(imu_enable_accelerometer(i), [i EXCEPT !.aen = TRUE])
<1> DEFINE s == [i EXCEPT !.aen = TRUE]
           W(k) == Write(k, [k EXCEPT !.aen = TRUE])
           B(j) == Then(Access(j), W)
<1>1. s \in ImuState /\ s.locks = i.locks /\ [Held(i) EXCEPT !.aen = TRUE] = Held(s)
  BY DEF ImuState, Held
<1>2. W(Held(i)) = Write(Held(i), Held(s))
  BY <1>1
<1>3. imu_enable_accelerometer(i) = WithSleepLock(i, B)
  BY DEF imu_enable_accelerometer
<1>4. B(Held(i)) = {o \in Access(Held(i)) : ~o.ok} \cup Write(Held(i), Held(s))
  <2>1. Yields(Access(Held(i)), Held(i)) /\ [imu |-> Held(i), ok |-> TRUE] \in Access(Held(i))
    BY AccessYields, HeldState DEF Access, Write
  <2> HIDE DEF W
  <2> QED BY <1>2, <2>1 DEF Then, Yields
<1> HIDE DEF B
<1>5. \A o \in imu_enable_accelerometer(i) : \E r \in B(Held(i)) : o = [r EXCEPT !.imu.locks = @ - 1]
  BY <1>3 DEF WithSleepLock, Held
<1> HIDE DEF s
<1>6. Yields(imu_enable_accelerometer(i), s)
  BY <1>1, <1>4, <1>5, SwitchYields
<1> QED BY <1>6 DEF s

\* imu_disable_accelerometer writes its bit and no other.
LEMMA DisableAccelYields ==
  ASSUME NEW i \in ImuState
  PROVE  Yields(imu_disable_accelerometer(i), [i EXCEPT !.aen = FALSE])
<1> DEFINE s == [i EXCEPT !.aen = FALSE]
           W(k) == Write(k, [k EXCEPT !.aen = FALSE])
           B(j) == Then(Access(j), W)
<1>1. s \in ImuState /\ s.locks = i.locks /\ [Held(i) EXCEPT !.aen = FALSE] = Held(s)
  BY DEF ImuState, Held
<1>2. W(Held(i)) = Write(Held(i), Held(s))
  BY <1>1
<1>3. imu_disable_accelerometer(i) = WithSleepLock(i, B)
  BY DEF imu_disable_accelerometer
<1>4. B(Held(i)) = {o \in Access(Held(i)) : ~o.ok} \cup Write(Held(i), Held(s))
  <2>1. Yields(Access(Held(i)), Held(i)) /\ [imu |-> Held(i), ok |-> TRUE] \in Access(Held(i))
    BY AccessYields, HeldState DEF Access, Write
  <2> HIDE DEF W
  <2> QED BY <1>2, <2>1 DEF Then, Yields
<1> HIDE DEF B
<1>5. \A o \in imu_disable_accelerometer(i) : \E r \in B(Held(i)) : o = [r EXCEPT !.imu.locks = @ - 1]
  BY <1>3 DEF WithSleepLock, Held
<1> HIDE DEF s
<1>6. Yields(imu_disable_accelerometer(i), s)
  BY <1>1, <1>4, <1>5, SwitchYields
<1> QED BY <1>6 DEF s

\* imu_enable_gyro writes its bit and no other.
LEMMA EnableGyroYields ==
  ASSUME NEW i \in ImuState
  PROVE  Yields(imu_enable_gyro(i), [i EXCEPT !.gen = TRUE])
<1> DEFINE s == [i EXCEPT !.gen = TRUE]
           W(k) == Write(k, [k EXCEPT !.gen = TRUE])
           B(j) == Then(Access(j), W)
<1>1. s \in ImuState /\ s.locks = i.locks /\ [Held(i) EXCEPT !.gen = TRUE] = Held(s)
  BY DEF ImuState, Held
<1>2. W(Held(i)) = Write(Held(i), Held(s))
  BY <1>1
<1>3. imu_enable_gyro(i) = WithSleepLock(i, B)
  BY DEF imu_enable_gyro
<1>4. B(Held(i)) = {o \in Access(Held(i)) : ~o.ok} \cup Write(Held(i), Held(s))
  <2>1. Yields(Access(Held(i)), Held(i)) /\ [imu |-> Held(i), ok |-> TRUE] \in Access(Held(i))
    BY AccessYields, HeldState DEF Access, Write
  <2> HIDE DEF W
  <2> QED BY <1>2, <2>1 DEF Then, Yields
<1> HIDE DEF B
<1>5. \A o \in imu_enable_gyro(i) : \E r \in B(Held(i)) : o = [r EXCEPT !.imu.locks = @ - 1]
  BY <1>3 DEF WithSleepLock, Held
<1> HIDE DEF s
<1>6. Yields(imu_enable_gyro(i), s)
  BY <1>1, <1>4, <1>5, SwitchYields
<1> QED BY <1>6 DEF s

\* imu_disable_gyro writes its bit and no other.
LEMMA DisableGyroYields ==
  ASSUME NEW i \in ImuState
  PROVE  Yields(imu_disable_gyro(i), [i EXCEPT !.gen = FALSE])
<1> DEFINE s == [i EXCEPT !.gen = FALSE]
           W(k) == Write(k, [k EXCEPT !.gen = FALSE])
           B(j) == Then(Access(j), W)
<1>1. s \in ImuState /\ s.locks = i.locks /\ [Held(i) EXCEPT !.gen = FALSE] = Held(s)
  BY DEF ImuState, Held
<1>2. W(Held(i)) = Write(Held(i), Held(s))
  BY <1>1
<1>3. imu_disable_gyro(i) = WithSleepLock(i, B)
  BY DEF imu_disable_gyro
<1>4. B(Held(i)) = {o \in Access(Held(i)) : ~o.ok} \cup Write(Held(i), Held(s))
  <2>1. Yields(Access(Held(i)), Held(i)) /\ [imu |-> Held(i), ok |-> TRUE] \in Access(Held(i))
    BY AccessYields, HeldState DEF Access, Write
  <2> HIDE DEF W
  <2> QED BY <1>2, <2>1 DEF Then, Yields
<1> HIDE DEF B
<1>5. \A o \in imu_disable_gyro(i) : \E r \in B(Held(i)) : o = [r EXCEPT !.imu.locks = @ - 1]
  BY <1>3 DEF WithSleepLock, Held
<1> HIDE DEF s
<1>6. Yields(imu_disable_gyro(i), s)
  BY <1>1, <1>4, <1>5, SwitchYields
<1> QED BY <1>6 DEF s

\* Register writes one after the other end in the last.
LEMMA SequenceYields ==
  ASSUME NEW i \in ImuState, NEW first \in ImuState, NEW rest \in ImuState,
         first.locks = i.locks, rest.locks = i.locks
  PROVE  Yields(execute_sequential_cmds(i, first, rest), rest)
<1> DEFINE W(l) == Write(l, [rest EXCEPT !.locks = l.locks])
           R(k) == Then(Access(k), W)
           F(j) == Write(j, [first EXCEPT !.locks = j.locks])
           B(j) == Then(F(j), R)
           h == Held(i)
           f == Held(first)
           r == Held(rest)
<1>1. execute_sequential_cmds(i, first, rest) = WithSleepLock(i, B)
  BY DEF execute_sequential_cmds
<1>2. /\ h \in ImuState /\ f \in ImuState /\ r \in ImuState /\ f.locks = h.locks /\ r.locks = h.locks
      /\ [first EXCEPT !.locks = h.locks] = f /\ [rest EXCEPT !.locks = f.locks] = r
  BY DEF Held, ImuState
<1>3. Yields(F(h), f)
  BY <1>2, WriteYields
<1>4. Yields(W(f), r) /\ Yields(Access(f), f)
  BY <1>2, WriteYields, AccessYields
<1> HIDE DEF W, F, h, f, r
<1>5. Yields(R(f), r)
  <2>1. \A o \in R(f) : (o \in Access(f) /\ ~o.ok) \/ o \in W(f)
    BY <1>4 DEF Then, Yields
  <2> HIDE DEF R
  <2> QED BY <1>2, <1>4, <2>1, ThenYields
<1> HIDE DEF R
<1>6. Yields(B(h), r)
  <2>1. \A o \in B(h) : (o \in F(h) /\ ~o.ok) \/ o \in R(f)
    BY <1>3 DEF Then, Yields
  <2> HIDE DEF B
  <2> QED BY <1>2, <1>3, <1>5, <2>1, ThenYields
<1> HIDE DEF B
<1>7. \A o \in WithSleepLock(i, B) : \E b \in B(h) : o = [b EXCEPT !.imu.locks = @ - 1]
  BY DEF WithSleepLock, h, Held
<1> DEFINE T == WithSleepLock(i, B)
<1>8. Yields(T, rest)
  <2>1. (\A o \in T : \E b \in B(h) : o = [b EXCEPT !.imu.locks = @ - 1]) /\ Yields(B(h), Held(rest))
    BY <1>6, <1>7 DEF r
  <2> HIDE DEF T
  <2> QED BY <2>1, LockYields
<1> QED BY <1>1, <1>8

\* The reset leaves the sensor as after power-on.
LEMMA ResetYields ==
  ASSUME NEW i \in ImuState
  PROVE  Yields(imu_reset(i), ResetState(i)) /\ ResetState(i).locks = i.locks
<1> DEFINE s == ResetState(i)
           h == Held(i)
           r == Held(s)
           W(j) == Write(j, ResetState(j))
           B(j) == Then(W(j), Access)
<1>1. imu_reset(i) = WithSleepLock(i, B)
  BY DEF imu_reset
<1>2. /\ s \in ImuState /\ s.locks = i.locks /\ h \in ImuState /\ r \in ImuState
      /\ r.locks = h.locks /\ ResetState(h) = r
  <2>1. s \in ImuState /\ s.locks = i.locks
    BY DEF ImuState, ResetState
  <2>2. ResetState(h) = r
    BY DEF Held, ImuState, ResetState
  <2> HIDE DEF s
  <2> QED BY <2>1, <2>2, HeldState
<1>3. Yields(W(h), r) /\ Yields(Access(r), r)
  BY <1>2, WriteYields, AccessYields
<1> HIDE DEF W, h, r, s
<1>4. Yields(B(h), r)
  <2>1. \A o \in B(h) : (o \in W(h) /\ ~o.ok) \/ o \in Access(r)
    BY <1>3 DEF Then, Yields
  <2> HIDE DEF B
  <2> QED BY <1>2, <1>3, <2>1, ThenYields
<1> HIDE DEF B
<1>5. \A o \in WithSleepLock(i, B) : \E b \in B(h) : o = [b EXCEPT !.imu.locks = @ - 1]
  BY DEF WithSleepLock, h, Held
<1> DEFINE T == WithSleepLock(i, B)
<1>6. Yields(T, s)
  <2>1. (\A o \in T : \E b \in B(h) : o = [b EXCEPT !.imu.locks = @ - 1]) /\ Yields(B(h), Held(s))
    BY <1>4, <1>5 DEF r
  <2> HIDE DEF T
  <2> QED BY <1>2, <2>1, LockYields
<1> QED BY <1>1, <1>2, <1>6 DEF s

\* imu_init: the queue streams and the accelerometer is on.
LEMMA InitYields ==
  ASSUME NEW i \in ImuState
  PROVE  Yields(imu_init(i), [ResetState(i) EXCEPT !.fifo = "stream", !.aen = TRUE, !.gen = FALSE])
<1> DEFINE s == ResetState(i)
           f == [s EXCEPT !.fifo = "stream"]
           r == [s EXCEPT !.fifo = "stream", !.aen = TRUE, !.gen = FALSE]
           R(j) == Then(Access(j), init_cmds)
<1>1. imu_init(i) = Then(imu_reset(i), R)
  BY DEF imu_init
<1>2. Yields(imu_reset(i), s) /\ s \in ImuState /\ s.locks = i.locks
  BY ResetYields DEF Yields
<1>3. init_cmds(s) = execute_sequential_cmds(s, f, r)
  BY DEF init_cmds
<1> HIDE DEF s
<1>4. f \in ImuState /\ r \in ImuState /\ f.locks = s.locks /\ r.locks = s.locks
  BY <1>2 DEF ImuState
<1> HIDE DEF f, r
<1>5. Yields(init_cmds(s), r) /\ Yields(Access(s), s)
  BY <1>2, <1>3, <1>4, SequenceYields, AccessYields
<1>6. Yields(R(s), r)
  <2>1. \A o \in R(s) : (o \in Access(s) /\ ~o.ok) \/ o \in init_cmds(s)
    BY <1>5 DEF Then, Yields
  <2> HIDE DEF R
  <2> QED BY <1>4, <1>5, <2>1, ThenYields
<1> HIDE DEF R
<1>7. \A o \in imu_init(i) : (o \in imu_reset(i) /\ ~o.ok) \/ o \in R(s)
  BY <1>1, <1>2 DEF Then, Yields
<1>8. Yields(imu_init(i), r)
  BY <1>2, <1>4, <1>6, <1>7, ThenYields
<1> QED BY <1>8 DEF r, s

\* imu_enter_low_power_mode switches both sensors off.
LEMMA LowPowerYields ==
  ASSUME NEW i \in ImuState
  PROVE  Yields(imu_enter_low_power_mode(i), [i EXCEPT !.aen = FALSE, !.gen = FALSE])
<1> DEFINE s == [i EXCEPT !.aen = FALSE, !.gen = FALSE]
           W(j) == Write(j, [j EXCEPT !.aen = FALSE, !.gen = FALSE])
<1>1. imu_enter_low_power_mode(i) = Then(Access(i), W)
  BY DEF imu_enter_low_power_mode
<1>2. s \in ImuState /\ s.locks = i.locks
  BY DEF ImuState
<1>3. Yields(Access(i), i) /\ Yields(W(i), s)
  BY <1>2, AccessYields, WriteYields
<1> HIDE DEF W, s
<1>4. \A o \in imu_enter_low_power_mode(i) : (o \in Access(i) /\ ~o.ok) \/ o \in W(i)
  BY <1>1, <1>3 DEF Then, Yields
<1>5. Yields(imu_enter_low_power_mode(i), s)
  BY <1>2, <1>3, <1>4, ThenYields
<1> QED BY <1>5 DEF s

\* RestoreEnables switches on what was on.
LEMMA RestoreYields ==
  ASSUME NEW i \in ImuState, ~i.aen, ~i.gen, NEW was \in ImuState
  PROVE  Yields(RestoreEnables(i, was), [i EXCEPT !.aen = was.aen, !.gen = was.gen])
<1> DEFINE a == [i EXCEPT !.aen = was.aen]
           r == [i EXCEPT !.aen = was.aen, !.gen = was.gen]
           A == IF was.aen THEN imu_enable_accelerometer(i) ELSE {[imu |-> i, ok |-> TRUE]}
           G(j) == IF was.gen THEN imu_enable_gyro(j) ELSE {[imu |-> j, ok |-> TRUE]}
<1>1. RestoreEnables(i, was) = Then(A, G)
  BY DEF RestoreEnables
<1>2. a \in ImuState /\ r \in ImuState /\ a.locks = i.locks /\ r.locks = i.locks
  BY DEF ImuState
<1>3. Yields(A, a)
  <2>1. CASE was.aen
    <3>1. a = [i EXCEPT !.aen = TRUE]
      BY <2>1 DEF ImuState
    <3> QED BY <2>1, <3>1, EnableAccelYields
  <2>2. CASE ~was.aen
    <3>1. a = i
      BY <2>2 DEF ImuState
    <3>2. A = {[imu |-> i, ok |-> TRUE]}
      BY <2>2
    <3> HIDE DEF A, a
    <3> QED BY <3>1, <3>2, DoneYields
  <2> QED BY <2>1, <2>2
<1>4. Yields(G(a), r)
  <2>1. CASE was.gen
    <3>1. r = [a EXCEPT !.gen = TRUE]
      BY <2>1 DEF ImuState
    <3> HIDE DEF a, r
    <3> QED BY <1>2, <2>1, <3>1, EnableGyroYields
  <2>2. CASE ~was.gen
    <3>1. r = a
      BY <2>2 DEF ImuState
    <3>2. G(a) = {[imu |-> a, ok |-> TRUE]}
      BY <2>2
    <3> HIDE DEF G, a, r
    <3> QED BY <1>2, <3>1, <3>2, DoneYields
  <2> QED BY <2>1, <2>2
<1> HIDE DEF A, G, a, r
<1>5. \A o \in RestoreEnables(i, was) : (o \in A /\ ~o.ok) \/ o \in G(a)
  BY <1>1, <1>3 DEF Then, Yields
<1>6. Yields(RestoreEnables(i, was), r)
  BY <1>2, <1>3, <1>4, <1>5, ThenYields
<1> QED BY <1>6 DEF r

\* The sensors are off and on again as they were.
LEMMA OffAndOn ==
  ASSUME NEW i \in ImuState
  PROVE  LET k == [i EXCEPT !.aen = FALSE, !.gen = FALSE]
         IN  /\ k \in ImuState /\ k.locks = i.locks /\ Yields(imu_enter_low_power_mode(i), k)
             /\ Yields(RestoreEnables(k, i), i)
<1> DEFINE k == [i EXCEPT !.aen = FALSE, !.gen = FALSE]
<1>1. k \in ImuState /\ k.locks = i.locks /\ ~k.aen /\ ~k.gen /\ Yields(imu_enter_low_power_mode(i), k)
  BY LowPowerYields DEF ImuState
<1>2. [k EXCEPT !.aen = i.aen, !.gen = i.gen] = i
  BY DEF ImuState
<1> HIDE DEF k
<1>3. Yields(RestoreEnables(k, i), i)
  BY <1>1, <1>2, RestoreYields
<1> QED BY <1>1, <1>3 DEF k

\* A detector is configured and the sensors are on as before.
LEMMA ConfigureYields ==
  ASSUME NEW i \in ImuState
  PROVE  Yields(ConfigureDetector(i), i)
<1> DEFINE Z(v) == RestoreEnables(v, i)
           B(v) == Then(ctrl9_handshake(v), Z)
           A(v) == Then(Access(v), B)
           L(j) == Then(imu_enter_low_power_mode(j), LAMBDA x :
                     Then(Access(x), LAMBDA y :
                       Then(ctrl9_handshake(y), LAMBDA z : RestoreEnables(z, j))))
           k == [i EXCEPT !.aen = FALSE, !.gen = FALSE]
<1>1. ConfigureDetector(i) = Then(Access(i), L)
  BY DEF ConfigureDetector
<1>2. L(i) = Then(imu_enter_low_power_mode(i), A)
  OBVIOUS
<1>3. /\ k \in ImuState /\ k.locks = i.locks /\ Yields(imu_enter_low_power_mode(i), k)
      /\ Yields(RestoreEnables(k, i), i)
  BY OffAndOn
<1>4. Yields(Access(i), i) /\ Yields(Access(k), k) /\ Yields(ctrl9_handshake(k), k)
  BY <1>3, AccessYields, HandshakeYields
<1> HIDE DEF L, k
<1>5. Yields(Z(k), i)
  BY <1>3
<1> HIDE DEF Z
<1>6. Yields(B(k), i)
  <2>1. \A o \in B(k) : (o \in ctrl9_handshake(k) /\ ~o.ok) \/ o \in Z(k)
    BY <1>4 DEF Then, Yields
  <2> HIDE DEF B
  <2> QED BY <1>3, <1>4, <1>5, <2>1, ThenYields
<1> HIDE DEF B
<1>7. Yields(A(k), i)
  <2>1. \A o \in A(k) : (o \in Access(k) /\ ~o.ok) \/ o \in B(k)
    BY <1>4 DEF Then, Yields
  <2> HIDE DEF A
  <2> QED BY <1>3, <1>4, <1>6, <2>1, ThenYields
<1> HIDE DEF A
<1>8. Yields(L(i), i)
  <2>1. \A o \in L(i) : (o \in imu_enter_low_power_mode(i) /\ ~o.ok) \/ o \in A(k)
    BY <1>2, <1>3 DEF Then, Yields
  <2> QED BY <1>3, <1>7, <2>1, ThenYields
<1>9. \A o \in ConfigureDetector(i) : (o \in Access(i) /\ ~o.ok) \/ o \in L(i)
  BY <1>1, <1>4 DEF Then, Yields
<1> QED BY <1>4, <1>8, <1>9, ThenYields

\* The same with two handshakes and CTRL8, ...
LEMMA NoMotionYields ==
  ASSUME NEW i \in ImuState
  PROVE  Yields(imu_setup_detect_no_motion(i), i)
<1> DEFINE Z(v) == RestoreEnables(v, i)
           C(v) == Then(Access(v), Z)
           B(v) == Then(ctrl9_handshake(v), C)
           A(v) == Then(ctrl9_handshake(v), B)
           L(j) == Then(imu_enter_low_power_mode(j), LAMBDA x :
                     Then(ctrl9_handshake(x), LAMBDA y :
                       Then(ctrl9_handshake(y), LAMBDA z :
                         Then(Access(z), LAMBDA u : RestoreEnables(u, j)))))
           k == [i EXCEPT !.aen = FALSE, !.gen = FALSE]
<1>1. imu_setup_detect_no_motion(i) = Then(Access(i), L)
  BY DEF imu_setup_detect_no_motion
<1>2. L(i) = Then(imu_enter_low_power_mode(i), A)
  OBVIOUS
<1>3. /\ k \in ImuState /\ k.locks = i.locks /\ Yields(imu_enter_low_power_mode(i), k)
      /\ Yields(RestoreEnables(k, i), i)
  BY OffAndOn
<1>4. Yields(Access(i), i) /\ Yields(Access(k), k) /\ Yields(ctrl9_handshake(k), k)
  BY <1>3, AccessYields, HandshakeYields
<1> HIDE DEF L, k
<1>5. Yields(Z(k), i)
  BY <1>3
<1> HIDE DEF Z
<1>6. Yields(C(k), i)
  <2>1. \A o \in C(k) : (o \in Access(k) /\ ~o.ok) \/ o \in Z(k)
    BY <1>4 DEF Then, Yields
  <2> HIDE DEF C
  <2> QED BY <1>3, <1>4, <1>5, <2>1, ThenYields
<1> HIDE DEF C
<1>7. Yields(B(k), i)
  <2>1. \A o \in B(k) : (o \in ctrl9_handshake(k) /\ ~o.ok) \/ o \in C(k)
    BY <1>4 DEF Then, Yields
  <2> HIDE DEF B
  <2> QED BY <1>3, <1>4, <1>6, <2>1, ThenYields
<1> HIDE DEF B
<1>8. Yields(A(k), i)
  <2>1. \A o \in A(k) : (o \in ctrl9_handshake(k) /\ ~o.ok) \/ o \in B(k)
    BY <1>4 DEF Then, Yields
  <2> HIDE DEF A
  <2> QED BY <1>3, <1>4, <1>7, <2>1, ThenYields
<1> HIDE DEF A
<1>9. Yields(L(i), i)
  <2>1. \A o \in L(i) : (o \in imu_enter_low_power_mode(i) /\ ~o.ok) \/ o \in A(k)
    BY <1>2, <1>3 DEF Then, Yields
  <2> QED BY <1>3, <1>8, <2>1, ThenYields
<1>10. \A o \in imu_setup_detect_no_motion(i) : (o \in Access(i) /\ ~o.ok) \/ o \in L(i)
  BY <1>1, <1>4 DEF Then, Yields
<1> QED BY <1>4, <1>9, <1>10, ThenYields

\* ... and with CTRL8 behind them
LEMMA PedometerYields ==
  ASSUME NEW i \in ImuState
  PROVE  Yields(imu_enable_pedometer(i), i)
<1> DEFINE Y(v) == WithSleepLock(v, Access)
           Z(v) == Then(RestoreEnables(v, i), Y)
           B(v) == Then(ctrl9_handshake(v), Z)
           A(v) == Then(ctrl9_handshake(v), B)
           L(j) == Then(imu_enter_low_power_mode(j), LAMBDA x :
                     Then(ctrl9_handshake(x), LAMBDA y :
                       Then(ctrl9_handshake(y), LAMBDA z :
                         Then(RestoreEnables(z, j), LAMBDA u : WithSleepLock(u, Access)))))
           k == [i EXCEPT !.aen = FALSE, !.gen = FALSE]
<1>1. imu_enable_pedometer(i) = Then(Access(i), L)
  BY DEF imu_enable_pedometer
<1>2. L(i) = Then(imu_enter_low_power_mode(i), A)
  OBVIOUS
<1>3. /\ k \in ImuState /\ k.locks = i.locks /\ Yields(imu_enter_low_power_mode(i), k)
      /\ Yields(RestoreEnables(k, i), i)
  BY OffAndOn
<1>4. Yields(Access(i), i) /\ Yields(Access(k), k) /\ Yields(ctrl9_handshake(k), k)
  BY <1>3, AccessYields, HandshakeYields
<1> HIDE DEF L, k
<1>5. Yields(Z(k), i)
  <2>1. Yields(Y(i), i)
    BY LockedAccessYields
  <2> HIDE DEF Y
  <2>2. \A o \in Z(k) : (o \in RestoreEnables(k, i) /\ ~o.ok) \/ o \in Y(i)
    BY <1>3 DEF Then, Yields
  <2> HIDE DEF Z
  <2> QED BY <1>3, <2>1, <2>2, ThenYields
<1> HIDE DEF Z
<1>6. Yields(B(k), i)
  <2>1. \A o \in B(k) : (o \in ctrl9_handshake(k) /\ ~o.ok) \/ o \in Z(k)
    BY <1>4 DEF Then, Yields
  <2> HIDE DEF B
  <2> QED BY <1>3, <1>4, <1>5, <2>1, ThenYields
<1> HIDE DEF B
<1>7. Yields(A(k), i)
  <2>1. \A o \in A(k) : (o \in ctrl9_handshake(k) /\ ~o.ok) \/ o \in B(k)
    BY <1>4 DEF Then, Yields
  <2> HIDE DEF A
  <2> QED BY <1>3, <1>4, <1>6, <2>1, ThenYields
<1> HIDE DEF A
<1>8. Yields(L(i), i)
  <2>1. \A o \in L(i) : (o \in imu_enter_low_power_mode(i) /\ ~o.ok) \/ o \in A(k)
    BY <1>2, <1>3 DEF Then, Yields
  <2> QED BY <1>3, <1>7, <2>1, ThenYields
<1>9. \A o \in imu_enable_pedometer(i) : (o \in Access(i) /\ ~o.ok) \/ o \in L(i)
  BY <1>1, <1>4 DEF Then, Yields
<1> QED BY <1>4, <1>8, <1>9, ThenYields

\* imu_disable_wake_on_motion
LEMMA DisarmYields ==
  ASSUME NEW i \in ImuState
  PROVE  Yields(imu_disable_wake_on_motion(i), i)
<1>1. Yields(Access(i), i) /\ Yields(ConfigureDetector(i), i)
  BY AccessYields, ConfigureYields
<1>2. \A o \in imu_disable_wake_on_motion(i) : (o \in Access(i) /\ ~o.ok) \/ o \in ConfigureDetector(i)
  BY <1>1 DEF imu_disable_wake_on_motion, Then, Yields
<1> QED BY <1>1, <1>2, ThenYields

\* imu_reset_fifo_buffer
LEMMA ResetFifoYields ==
  ASSUME NEW i \in ImuState
  PROVE  Yields(imu_reset_fifo_buffer(i), i)
<1> DEFINE R(j) == Then(ctrl9_handshake(j), Access)
<1>1. Yields(Access(i), i) /\ Yields(ctrl9_handshake(i), i)
  BY AccessYields, HandshakeYields
<1>2. imu_reset_fifo_buffer(i) = Then(Access(i), R)
  BY DEF imu_reset_fifo_buffer
<1>3. Yields(R(i), i)
  <2>1. \A o \in R(i) : (o \in ctrl9_handshake(i) /\ ~o.ok) \/ o \in Access(i)
    BY <1>1 DEF Then, Yields
  <2> HIDE DEF R
  <2> QED BY <1>1, <2>1, ThenYields
<1> HIDE DEF R
<1>4. \A o \in imu_reset_fifo_buffer(i) : (o \in Access(i) /\ ~o.ok) \/ o \in R(i)
  BY <1>1, <1>2 DEF Then, Yields
<1> QED BY <1>1, <1>3, <1>4, ThenYields

-----------------------------------------------------------------------------
(* Handlers                                                                *)

TaskType ==
  [pc : {"idle"} \cup ImuPC \cup BmpPC \cup BatPC, len : 0..Buffer, polls : 0..(MaxPolls - 1),
   flag : BOOLEAN]
BatteryType == [divider : BOOLEAN, first_run : BOOLEAN, pct : 0..100, mv : Nat]

\* Whether a worker holds the sleep lock there
Takes(pc) == IF pc \in Locked THEN 1 ELSE 0

\* What a step of a handler does to its worker, ...
Moves(w) ==
  /\ Busy(w) /\ task' = [task EXCEPT ![w] = task'[w]] /\ task'[w] \in TaskType
  /\ task'[w] = Idle \/ (task'[w].pc # "idle" /\ KindOf(task'[w].pc) = KindOf(At(w)))
  /\ faults' \in faults..MaxFaults /\ fifo' \in 0..fifo
  /\ faults' = 0 /\ task[w].len <= 1 /\ fifo <= 1 => task'[w].len <= 1

\* ... to the motion sensor and the sleep lock, ...
MovesImu(w) ==
  /\ imu' \in ImuState /\ imu'.aen = imu.aen /\ imu'.gen = imu.gen
  /\ imu'.locks = imu.locks + Takes(task'[w].pc) - Takes(At(w))
  /\ imu'.fifo = "reading" =>
       \/ faults' > 0 \/ "timeout" \in killed'
       \/ task'[w].pc \in ReadMode \/ (imu.fifo = "reading" /\ At(w) \notin ReadMode)

\* ... and to what the sensors gave
MovesData(w) ==
  /\ elements' \in 0..History /\ bmp' = bmp
  /\ crash' \in BOOLEAN /\ (crash' => faults' > 0 \/ late)
  /\ battery' \in BatteryType /\ (ReportNearMeasurement => ReportNearMeasurement')
  /\ battery'.divider = (IF task'[w].pc = "bat_sample" THEN TRUE
                         ELSE IF At(w) = "bat_sample" THEN FALSE ELSE battery.divider)

\* An idle worker
LEMMA IdleType == Idle \in TaskType /\ Idle.pc = "idle" /\ Idle.len = 0
BY SensorsAssumption DEF Idle, TaskType

\* A worker's state is replaced.
LEMMA Replaced ==
  ASSUME TypeOK, NEW w \in Workers, NEW t \in TaskType, task' = [task EXCEPT ![w] = t]
  PROVE  /\ task'[w] = t /\ task' \in [Workers -> TaskType] /\ task' = [task EXCEPT ![w] = task'[w]]
         /\ \A v \in Workers \ {w} : task'[v] = task[v]
<1>1. task \in [Workers -> TaskType]
  BY DEF TypeOK, TaskType
<1> QED BY <1>1

\* Only the program counter changes.
LEMMA Gone ==
  ASSUME TypeOK, NEW w \in Workers, NEW pc \in ImuPC \cup BmpPC \cup BatPC, Goto(w, pc)
  PROVE  /\ task' = [task EXCEPT ![w] = task'[w]] /\ task'[w] \in TaskType
         /\ task'[w].pc = pc /\ task'[w].len = task[w].len /\ pc # "idle"
<1> DEFINE t == [task[w] EXCEPT !.pc = pc]
<1>1. task \in [Workers -> TaskType]
  BY DEF TypeOK, TaskType
<1>2. task[w] \in TaskType
  BY <1>1
<1>3. t \in TaskType /\ t.pc = pc /\ t.len = task[w].len
  BY <1>2 DEF TaskType
<1>4. task' = [task EXCEPT ![w] = t]
  BY <1>1 DEF Goto
<1> HIDE DEF t
<1>5. pc # "idle"
  BY DEF ImuPC, BmpPC, BatPC
<1> QED BY <1>3, <1>4, <1>5, Replaced

\* A handler returns.
LEMMA Returned ==
  ASSUME TypeOK, NEW w \in Workers, Return(w)
  PROVE  /\ task' = [task EXCEPT ![w] = task'[w]] /\ task'[w] \in TaskType /\ task'[w] = Idle
         /\ task'[w].pc = "idle" /\ task'[w].len = 0
<1>1. task' = [task EXCEPT ![w] = Idle]
  BY DEF Return
<1> QED BY <1>1, IdleType, Replaced

\* Numbers a handler works with
LEMMA Numbers ==
  ASSUME TypeOK, NEW w \in Workers
  PROVE  /\ task[w] \in TaskType /\ task[w].len \in 0..Buffer /\ task[w].polls \in 0..(MaxPolls - 1)
         /\ faults \in Nat /\ faults <= MaxFaults /\ MaxFaults \in Nat /\ faults \in faults..MaxFaults
         /\ fifo \in Nat /\ fifo <= Depth /\ Depth \in Nat /\ Buffer \in Nat /\ fifo \in 0..fifo
         /\ imu \in ImuState /\ imu.locks \in Int /\ battery \in BatteryType
         /\ elements \in 0..History /\ History \in Nat /\ bmp \in [bus : BOOLEAN, cal : BOOLEAN]
         /\ late \in BOOLEAN
<1>1. task[w] \in TaskType
  BY DEF TypeOK, TaskType
<1>2. task[w].len \in 0..Buffer /\ task[w].polls \in 0..(MaxPolls - 1)
  BY <1>1 DEF TaskType
<1>3. imu \in ImuState /\ imu.locks \in Int
  BY DEF TypeOK, ImuState
<1> QED BY <1>1, <1>2, <1>3, SensorsAssumption DEF TypeOK, BatteryType

\* A bus access fails.
LEMMA Failed ==
  ASSUME TypeOK, Fail
  PROVE  faults' \in faults..MaxFaults /\ faults' > 0 /\ faults' # 0
BY SensorsAssumption DEF TypeOK, Fail

\* A report that does not change
LEMMA ReportKept ==
  ASSUME battery'.first_run = battery.first_run, battery'.mv = battery.mv, battery'.pct = battery.pct
  PROVE  ReportNearMeasurement => ReportNearMeasurement'
BY DEF ReportNearMeasurement

\* What is not touched
LEMMA DataKept ==
  ASSUME TypeOK, CrashHasCause, NEW w \in Workers,
         UNCHANGED <<elements, bmp, battery, crash>>, faults' \in faults..MaxFaults,
         task'[w].pc # "bat_sample", At(w) # "bat_sample"
  PROVE  MovesData(w)
<1>1. faults \in Nat /\ (crash' => faults' > 0 \/ late)
  BY SensorsAssumption DEF TypeOK, CrashHasCause
<1>2. ReportNearMeasurement => ReportNearMeasurement'
  BY ReportKept
<1> QED BY <1>1, <1>2 DEF MovesData, TypeOK, BatteryType

\* The program counters
LEMMA Counters ==
  /\ {"imu", "ctrl", "poll", "ack", "fetch", "leave", "check"} \subseteq ImuPC
  /\ \A pc \in ImuPC : pc # "idle" /\ pc # "bat_sample" /\ KindOf(pc) = "imu"
  /\ \A pc \in BmpPC : pc # "idle" /\ pc # "bat_sample" /\ pc \notin ReadMode /\ KindOf(pc) = "bmp"
  /\ \A pc \in BatPC : pc # "idle" /\ pc \notin ReadMode /\ KindOf(pc) = "battery"
  /\ ReadMode \subseteq ImuPC /\ \A pc \in {"imu", "ctrl", "poll", "check"} : pc \notin ReadMode
  /\ Takes("poll") = 1 /\ Takes("ack") = 1 /\ Takes("bmp_temp") = 1 /\ Takes("bmp_pressure") = 1 /\ Takes("bat_sample") = 1
  /\ \A pc \in {"idle", "imu", "ctrl", "fetch", "leave", "check", "bmp", "bmp_between", "battery"} :
       Takes(pc) = 0
BY DEF ImuPC, BmpPC, BatPC, KindOf, Takes, Locked, ReadMode

\* The lock is taken ...
LEMMA LockCounts ==
  ASSUME TypeOK, Lock
  PROVE  /\ imu' \in ImuState /\ imu'.locks = imu.locks + 1 /\ imu'.fifo = imu.fifo
         /\ imu'.aen = imu.aen /\ imu'.gen = imu.gen
<1>1. imu \in ImuState
  BY DEF TypeOK
<1> QED BY <1>1 DEF ImuState, Lock

\* ... and given back.
LEMMA UnlockCounts ==
  ASSUME TypeOK, Unlock
  PROVE  /\ imu' \in ImuState /\ imu'.locks = imu.locks - 1 /\ imu'.fifo = imu.fifo
         /\ imu'.aen = imu.aen /\ imu'.gen = imu.gen
<1>1. imu \in ImuState
  BY DEF TypeOK
<1> QED BY <1>1 DEF ImuState, Unlock

\* Reading the count and the request
LEMMA ReadCountMoves ==
  ASSUME TypeOK, CrashHasCause, NEW w \in Workers, ReadCount(w)
  PROVE  Moves(w) /\ MovesImu(w) /\ MovesData(w)
<1>1. /\ At(w) = "imu" /\ UNCHANGED <<imu, fifo, elements, bmp, battery, crash>>
      /\ Busy(w) /\ KindOf(At(w)) = "imu" /\ Takes(At(w)) = 0 /\ At(w) # "bat_sample" /\ At(w) \notin ReadMode
  BY Counters DEF ReadCount, Busy
<1> DEFINE t == task[w]
           n == IF fifo = 0 THEN 0 ELSE ReadLen(fifo)
           x == [t EXCEPT !.len = Buffer, !.pc = "check"]
           y == [t EXCEPT !.len = n, !.pc = IF fifo = 0 THEN "check" ELSE "ctrl"]
<1>2. t \in TaskType /\ task \in [Workers -> TaskType]
  BY Numbers DEF TypeOK, TaskType
<1>3. \/ task' = [task EXCEPT ![w] = x] /\ Fail
      \/ task' = [task EXCEPT ![w] = y] /\ faults' = faults
  BY <1>2 DEF ReadCount
<1>4. n \in 0..Buffer /\ (fifo <= 1 => n <= 1)
  BY Numbers DEF ReadLen
<1>5. /\ x \in TaskType /\ x.pc = "check" /\ y \in TaskType /\ y.pc \in {"check", "ctrl"} /\ y.len = n
  <2> HIDE DEF n, t
  <2>1. "check" \in ImuPC /\ "ctrl" \in ImuPC /\ Buffer \in 0..Buffer
    BY Numbers, Counters
  <2> QED BY <1>2, <1>4, <2>1 DEF TaskType
<1> HIDE DEF x, y, n, t
<1>6. /\ task' = [task EXCEPT ![w] = task'[w]] /\ task'[w] \in TaskType
      /\ (task'[w] = x /\ Fail) \/ (task'[w] = y /\ faults' = faults)
  BY <1>3, <1>5, Replaced
<1>7. /\ task'[w].pc \in {"check", "ctrl"} /\ task'[w].pc # "idle" /\ KindOf(task'[w].pc) = "imu"
      /\ Takes(task'[w].pc) = 0 /\ task'[w].pc # "bat_sample"
  BY <1>5, <1>6, Counters
<1>8. faults' \in faults..MaxFaults /\ (faults' = 0 => task'[w] = y)
  BY <1>6, Failed, Numbers
<1>9. Moves(w)
  BY <1>1, <1>4, <1>5, <1>6, <1>7, <1>8, Numbers DEF Moves
<1>10. MovesImu(w)
  BY <1>1, <1>7, Numbers DEF MovesImu
<1> QED BY <1>1, <1>7, <1>8, <1>9, <1>10, DataKept

\* FIFO_CTRL and the lock of the handshake
LEMMA RequestFifoMoves ==
  ASSUME TypeOK, CrashHasCause, NEW w \in Workers, RequestFifo(w)
  PROVE  Moves(w) /\ MovesImu(w) /\ MovesData(w)
<1>1. /\ At(w) = "ctrl" /\ UNCHANGED <<fifo, elements, bmp, battery, crash>>
      /\ Busy(w) /\ KindOf(At(w)) = "imu" /\ Takes(At(w)) = 0 /\ At(w) # "bat_sample" /\ At(w) \notin ReadMode
  BY Counters DEF RequestFifo, Busy
<1>2. CASE Goto(w, "check") /\ Fail /\ imu' = imu
  <2>1. /\ task' = [task EXCEPT ![w] = task'[w]] /\ task'[w] \in TaskType
        /\ task'[w].pc = "check" /\ task'[w].len = task[w].len
    BY <1>2, Gone, Counters
  <2>2. KindOf("check") = "imu" /\ Takes("check") = 0
    BY Counters
  <2>3. Moves(w)
    BY <1>1, <1>2, <2>1, <2>2, Failed, Numbers DEF Moves
  <2>4. MovesImu(w)
    BY <1>1, <1>2, <2>1, <2>2, Numbers DEF MovesImu
  <2> QED BY <1>1, <1>2, <2>1, <2>3, <2>4, Failed, DataKept
<1>3. CASE /\ task' = [task EXCEPT ![w].pc = "poll", ![w].polls = 0]
           /\ Lock /\ UNCHANGED faults
  <2> DEFINE x == [task[w] EXCEPT !.pc = "poll", !.polls = 0]
  <2>1. task' = [task EXCEPT ![w] = x]
    BY <1>3, Numbers DEF TypeOK
  <2>2. x \in TaskType /\ x.pc = "poll" /\ x.len = task[w].len
    <3>1. task[w] \in TaskType /\ 0 \in 0..(MaxPolls - 1) /\ "poll" \in ImuPC
      BY Numbers, Counters, SensorsAssumption
    <3> QED BY <3>1 DEF TaskType
  <2> HIDE DEF x
  <2>3. /\ task' = [task EXCEPT ![w] = task'[w]] /\ task'[w] \in TaskType
        /\ task'[w].pc = "poll" /\ task'[w].len = task[w].len
    BY <2>1, <2>2, Replaced
  <2>4. KindOf("poll") = "imu" /\ Takes("poll") = 1
    BY Counters
  <2>5. Moves(w)
    BY <1>1, <1>3, <2>3, <2>4, Numbers DEF Moves
  <2>6. MovesImu(w)
    BY <1>1, <1>3, <2>3, <2>4, LockCounts, Numbers DEF MovesImu
  <2>7. faults' \in faults..MaxFaults
    BY <1>3, Numbers
  <2> QED BY <1>1, <2>3, <2>5, <2>6, <2>7, DataKept
<1> QED BY <1>2, <1>3 DEF RequestFifo

\* A handshake is given up.
LEMMA GivenUp ==
  ASSUME TypeOK, NEW w \in Workers, GiveUp(w)
  PROVE  /\ imu' \in ImuState /\ imu'.locks = imu.locks - 1
         /\ imu'.aen = imu.aen /\ imu'.gen = imu.gen
<1>1. imu \in ImuState
  BY DEF TypeOK
<1>2. PICK m \in {imu.fifo, "reading"} : imu' = [imu EXCEPT !.fifo = m, !.locks = @ - 1]
  BY DEF GiveUp, Modes
<1>3. m \in {"bypass", "stream", "reading"}
  BY <1>1, <1>2 DEF ImuState
<1> DEFINE i == [imu EXCEPT !.fifo = m]
<1>4. i \in ImuState /\ i.locks = imu.locks /\ i.aen = imu.aen /\ i.gen = imu.gen
  BY <1>1, <1>3 DEF ImuState
<1>5. imu' = [i EXCEPT !.locks = @ - 1]
  BY <1>2
<1> HIDE DEF i
<1> QED BY <1>4, <1>5 DEF ImuState

\* The handshake is polled.
LEMMA PollMoves ==
  ASSUME TypeOK, CrashHasCause, NEW w \in Workers, Poll(w) \/ (PollFails(w) /\ killed' = killed)
  PROVE  Moves(w) /\ MovesImu(w) /\ MovesData(w) /\ killed' \in {killed, killed \cup {"timeout"}}
<1>1. /\ At(w) \in {"poll", "ack"} /\ UNCHANGED <<fifo, elements, bmp, battery, crash>>
      /\ Busy(w) /\ KindOf(At(w)) = "imu" /\ Takes(At(w)) = 1 /\ At(w) # "bat_sample"
  BY Counters DEF Poll, PollFails, Busy
<1>2. (faults' = faults \/ Fail) /\ killed' \in {killed, killed \cup {"timeout"}}
  BY DEF Poll, PollFails
<1>3. faults' \in faults..MaxFaults
  BY <1>2, Failed, Numbers
<1>4. CASE /\ Goto(w, "check") /\ GiveUp(w)
           /\ Fail \/ killed' = IF imu'.fifo = "reading" THEN killed \cup {"timeout"} ELSE killed
  <2>1. /\ task' = [task EXCEPT ![w] = task'[w]] /\ task'[w] \in TaskType
        /\ task'[w].pc = "check" /\ task'[w].len = task[w].len
    BY <1>4, Gone, Counters
  <2>2. KindOf("check") = "imu" /\ Takes("check") = 0
    BY Counters
  <2>3. Moves(w)
    BY <1>1, <1>3, <2>1, <2>2, Numbers DEF Moves
  <2>4. imu'.fifo = "reading" => faults' > 0 \/ "timeout" \in killed'
    BY <1>4, Failed
  <2>5. MovesImu(w)
    BY <1>1, <1>4, <2>1, <2>2, <2>4, Numbers, GivenUp DEF MovesImu
  <2> QED BY <1>1, <1>2, <1>3, <2>1, <2>3, <2>5, DataKept
<1>5. CASE At(w) = "ack" /\ Goto(w, "fetch") /\ Unlock
  <2>1. /\ task' = [task EXCEPT ![w] = task'[w]] /\ task'[w] \in TaskType
        /\ task'[w].pc = "fetch" /\ task'[w].len = task[w].len
    BY <1>5, Gone, Counters
  <2>2. KindOf("fetch") = "imu" /\ Takes("fetch") = 0 /\ "fetch" \in ReadMode
    BY Counters DEF ReadMode
  <2>3. Moves(w)
    BY <1>1, <1>3, <2>1, <2>2, Numbers DEF Moves
  <2>4. MovesImu(w)
    BY <1>1, <1>5, <2>1, <2>2, Numbers, UnlockCounts DEF MovesImu
  <2> QED BY <1>1, <1>2, <1>3, <2>1, <2>3, <2>4, DataKept
<1>6. CASE /\ task[w].polls + 1 < MaxPolls
           /\ \/ /\ task' = [task EXCEPT ![w].polls = @ + 1, ![w].pc = "ack"]
                 /\ imu' = [imu EXCEPT !.fifo = "reading"]
              \/ task' = [task EXCEPT ![w].polls = @ + 1] /\ imu' = imu
  <2> DEFINE x == [task[w] EXCEPT !.polls = @ + 1, !.pc = "ack"]
             y == [task[w] EXCEPT !.polls = @ + 1]
  <2>1. \/ task' = [task EXCEPT ![w] = x] /\ imu' = [imu EXCEPT !.fifo = "reading"]
        \/ task' = [task EXCEPT ![w] = y] /\ imu' = imu
    BY <1>6, Numbers DEF TypeOK
  <2>2. /\ x \in TaskType /\ x.pc = "ack" /\ x.len = task[w].len
        /\ y \in TaskType /\ y.pc = At(w) /\ y.len = task[w].len
    <3>1. task[w] \in TaskType /\ task[w].polls + 1 \in 0..(MaxPolls - 1) /\ "ack" \in ImuPC
      BY <1>6, Numbers, Counters, SensorsAssumption
    <3> QED BY <3>1 DEF TaskType, At
  <2> HIDE DEF x, y
  <2>3. /\ task' = [task EXCEPT ![w] = task'[w]] /\ task'[w] \in TaskType
        /\ task'[w].pc \in {"poll", "ack"} /\ task'[w].len = task[w].len
        /\ \/ task'[w].pc = "ack" /\ imu' = [imu EXCEPT !.fifo = "reading"]
           \/ task'[w].pc = At(w) /\ imu' = imu
    BY <1>1, <2>1, <2>2, Replaced
  <2>4. \A pc \in {"poll", "ack"} : KindOf(pc) = "imu" /\ Takes(pc) = 1 /\ pc # "idle" /\ pc # "bat_sample"
    BY Counters
  <2>5. Moves(w)
    BY <1>1, <1>3, <2>3, <2>4, Numbers DEF Moves
  <2>6. /\ imu' \in ImuState /\ imu'.aen = imu.aen /\ imu'.gen = imu.gen /\ imu'.locks = imu.locks
    BY <2>3, Numbers DEF ImuState
  <2>7. imu'.fifo = "reading" => task'[w].pc \in ReadMode \/ (imu.fifo = "reading" /\ At(w) \notin ReadMode)
    BY <2>3 DEF ReadMode
  <2>8. MovesImu(w)
    BY <1>1, <2>3, <2>4, <2>6, <2>7, Numbers DEF MovesImu
  <2> QED BY <1>1, <1>2, <1>3, <2>3, <2>4, <2>5, <2>8, DataKept
<1> QED BY <1>4, <1>5, <1>6 DEF Poll, PollFails

\* The samples are fetched.
LEMMA FetchMoves ==
  ASSUME TypeOK, CrashHasCause, NEW w \in Workers, FetchSamples(w)
  PROVE  Moves(w) /\ MovesImu(w) /\ MovesData(w)
<1>1. /\ At(w) = "fetch" /\ UNCHANGED <<imu, elements, bmp, battery, crash>>
      /\ Busy(w) /\ KindOf(At(w)) = "imu" /\ Takes(At(w)) = 0 /\ At(w) # "bat_sample"
  BY Counters DEF FetchSamples, Busy
<1>2. /\ task' = [task EXCEPT ![w] = task'[w]] /\ task'[w] \in TaskType
      /\ task'[w].pc \in {"check", "leave"} /\ task'[w].len = task[w].len
      /\ task'[w].pc = "check" => Fail
  BY Gone, Counters DEF FetchSamples
<1>3. \A pc \in {"check", "leave"} : KindOf(pc) = "imu" /\ Takes(pc) = 0 /\ pc # "idle" /\ pc # "bat_sample"
  BY Counters
<1>4. faults' \in faults..MaxFaults /\ (task'[w].pc # "leave" => faults' > 0)
  BY <1>2, Failed, Numbers DEF FetchSamples
<1>5. fifo' \in 0..fifo
  <2>1. fifo' = fifo \/ fifo' = IF fifo > task[w].len THEN fifo - task[w].len ELSE 0
    BY DEF FetchSamples
  <2> QED BY <2>1, Numbers
<1>6. Moves(w)
  BY <1>1, <1>2, <1>3, <1>4, <1>5, Numbers DEF Moves
<1>7. MovesImu(w)
  BY <1>1, <1>2, <1>3, <1>4, Numbers DEF MovesImu, ReadMode
<1> QED BY <1>1, <1>2, <1>3, <1>4, <1>6, <1>7, DataKept

\* FIFO_CTRL is written again.
LEMMA LeaveMoves ==
  ASSUME TypeOK, CrashHasCause, NEW w \in Workers, LeaveReadMode(w)
  PROVE  Moves(w) /\ MovesImu(w) /\ MovesData(w)
<1>1. /\ At(w) = "leave" /\ UNCHANGED <<fifo, elements, bmp, battery, crash>>
      /\ Busy(w) /\ KindOf(At(w)) = "imu" /\ Takes(At(w)) = 0 /\ At(w) # "bat_sample"
  BY Counters DEF LeaveReadMode, Busy
<1>2. /\ task' = [task EXCEPT ![w] = task'[w]] /\ task'[w] \in TaskType
      /\ task'[w].pc = "check" /\ task'[w].len = task[w].len
  BY Gone, Counters DEF LeaveReadMode
<1>3. KindOf("check") = "imu" /\ Takes("check") = 0
  BY Counters
<1>4. faults' \in faults..MaxFaults
  BY Failed, Numbers DEF LeaveReadMode
<1>5. Moves(w)
  BY <1>1, <1>2, <1>3, <1>4, Numbers DEF Moves
<1>6. /\ imu' \in ImuState /\ imu'.aen = imu.aen /\ imu'.gen = imu.gen /\ imu'.locks = imu.locks
      /\ imu'.fifo = "reading" => faults' > 0
  <2>1. CASE Fail /\ imu' = imu
    BY <2>1, Numbers, Failed
  <2>2. CASE imu' = [imu EXCEPT !.fifo = "stream"]
    BY <2>2, Numbers DEF ImuState
  <2> QED BY <2>1, <2>2 DEF LeaveReadMode
<1>7. MovesImu(w)
  BY <1>1, <1>2, <1>3, <1>6, Numbers DEF MovesImu
<1> QED BY <1>1, <1>2, <1>4, <1>5, <1>7, DataKept

\* process_imu_data: with one tick's worth of samples the detector's history is longer.
LEMMA ImuDataMoves ==
  ASSUME TypeOK, CrashHasCause, DataInTime, NEW w \in Workers, process_imu_data(w)
  PROVE  Moves(w) /\ MovesImu(w) /\ MovesData(w)
<1> DEFINE n == task[w].len
           all == IF elements + n > History THEN History ELSE elements + n
<1>1. /\ At(w) = "check" /\ UNCHANGED <<imu, fifo, bmp, battery, faults>>
      /\ Busy(w) /\ KindOf(At(w)) = "imu" /\ Takes(At(w)) = 0 /\ At(w) # "bat_sample" /\ At(w) \notin ReadMode
  BY Counters DEF process_imu_data, Busy
<1>2. /\ task' = [task EXCEPT ![w] = task'[w]] /\ task'[w] \in TaskType /\ task'[w] = Idle
      /\ task'[w].pc = "idle" /\ task'[w].len = 0 /\ Takes("idle") = 0
  BY Returned, Counters DEF process_imu_data
<1>3. Moves(w)
  BY <1>1, <1>2, Numbers DEF Moves
<1>4. MovesImu(w)
  BY <1>1, <1>2, Numbers DEF MovesImu
<1>5. \/ elements' = elements /\ crash' = crash
      \/ elements' = all /\ crash' = (all >= MinInference /\ n >= all)
  BY DEF process_imu_data
<1>6. n \in Nat /\ elements \in 0..History /\ History \in Nat /\ MinInference \in Nat /\ MinInference >= 2
  BY Numbers, SensorsAssumption
<1> HIDE DEF n
<1>7. elements' \in 0..History
  BY <1>5, <1>6
<1>8. crash' \in BOOLEAN /\ (crash' => faults' > 0 \/ late)
  <2>1. CASE crash' = crash
    BY <1>1, <2>1 DEF TypeOK, CrashHasCause
  <2>2. CASE crash' = (all >= MinInference /\ n >= all)
    <3>1. faults = 0 /\ ~late => n <= 1
      BY DEF DataInTime, n
    <3> DEFINE C == all >= MinInference /\ n >= all
    <3>2. (C => n > 1) /\ C \in BOOLEAN
      BY <1>6
    <3>3. crash' = C
      BY <2>2
    <3> HIDE DEF C
    <3>4. C => faults # 0 \/ late
      BY <1>6, <3>1, <3>2, Numbers
    <3>5. C => faults' > 0 \/ late
      BY <1>1, <3>4, Numbers
    <3> QED BY <3>2, <3>3, <3>5
  <2> QED BY <1>5, <2>1, <2>2
<1>9. MovesData(w)
  BY <1>1, <1>2, <1>7, <1>8, ReportKept, Numbers DEF MovesData
<1> QED BY <1>3, <1>4, <1>9

\* The barometer, whose structure and calibration are there unless an access failed
LEMMA BmpMoves ==
  ASSUME TypeOK, CrashHasCause, DataInTime, up, NEW w \in Workers, process_bmp_data(w)
  PROVE  Moves(w) /\ MovesImu(w) /\ MovesData(w)
<1> DEFINE P == {"bmp", "bmp_temp", "bmp_between", "bmp_pressure"}
<1>1. \A pc \in P : pc # "idle" /\ pc \notin ReadMode /\ pc # "bat_sample" /\ KindOf(pc) = "bmp" /\ pc \in BmpPC
  BY Counters DEF BmpPC
<1>2. At(w) \in P /\ UNCHANGED <<fifo, elements, bmp, battery>>
  BY DEF process_bmp_data, BmpCommand, BmpRead
<1>3. /\ task' = [task EXCEPT ![w] = task'[w]] /\ task'[w] \in TaskType
      /\ \/ task'[w] = Idle /\ task'[w].len = 0 /\ task'[w].pc = "idle"
         \/ task'[w].pc \in P /\ task'[w].len = task[w].len
  <2>1. Return(w) \/ \E pc \in P : Goto(w, pc)
    BY DEF process_bmp_data, BmpCommand, BmpRead
  <2> QED BY <1>1, <2>1, Returned, Gone
<1>4. faults' \in faults..MaxFaults
  BY Failed, Numbers DEF process_bmp_data, BmpCommand, BmpRead
<1>5. Moves(w)
  BY <1>1, <1>2, <1>3, <1>4, Numbers DEF Moves, Busy
<1>6. ASSUME imu' = imu \/ Lock \/ Unlock,
             imu'.locks = imu.locks + Takes(task'[w].pc) - Takes(At(w))
      PROVE  MovesImu(w)
  BY <1>1, <1>2, <1>6, LockCounts, UnlockCounts, Numbers DEF MovesImu
<1>7. ASSUME crash' \in BOOLEAN, crash' => ~bmp.bus \/ ~bmp.cal \/ crash
      PROVE  MovesData(w)
  <2>1. crash' => faults' > 0 \/ late
    BY <1>4, <1>7, Numbers DEF DataInTime, CrashHasCause
  <2> QED BY <1>1, <1>2, <1>3, <1>7, <2>1, ReportKept, Numbers DEF MovesData
<1>8. ASSUME NEW from \in P, NEW to \in P, Takes(from) = 0, Takes(to) = 1, BmpCommand(w, from, to)
      PROVE  MovesImu(w) /\ MovesData(w)
  <2>1. At(w) = from /\ Takes("idle") = 0
    BY <1>8, Counters DEF BmpCommand
  <2>2. CASE Goto(w, to) /\ Lock
    <3>1. task'[w].pc = to /\ imu'.locks = imu.locks + 1
      BY <1>1, <2>2, Gone, LockCounts
    <3>2. crash' \in BOOLEAN /\ (crash' => ~bmp.bus \/ ~bmp.cal \/ crash)
      BY <1>8, <2>2, Numbers DEF BmpCommand, TypeOK
    <3>3. MovesImu(w)
      BY <1>6, <1>8, <2>1, <2>2, <3>1, Numbers
    <3> QED BY <1>7, <3>2, <3>3
  <2>3. CASE Return(w) /\ imu' = imu /\ crash' = crash
    <3>1. task'[w].pc = "idle"
      BY <2>3, Returned
    <3> QED BY <1>6, <1>7, <1>8, <2>1, <2>3, <3>1, Numbers, SMTT(40) DEF TypeOK
  <2> QED BY <1>8, <2>2, <2>3 DEF BmpCommand
<1>9. ASSUME NEW from \in P, Takes(from) = 1, BmpRead(w, from)
      PROVE  MovesImu(w) /\ MovesData(w)
  <2>1. At(w) = from /\ Unlock /\ Takes("idle") = 0 /\ Takes("bmp_between") = 0
    BY <1>9, Counters DEF BmpRead
  <2>2. task'[w].pc \in {"idle", "bmp_between"}
    BY <1>1, <1>9, Returned, Gone DEF BmpRead
  <2>3. imu'.locks = imu.locks - 1 /\ Takes(task'[w].pc) = 0
    BY <2>1, <2>2, UnlockCounts
  <2>4. MovesImu(w)
    BY <1>6, <1>9, <2>1, <2>3, Numbers
  <2>5. crash' = crash \/ crash' = ~bmp.cal
    BY <1>9 DEF BmpRead
  <2> QED BY <1>7, <2>4, <2>5, Numbers DEF TypeOK
<1>10. /\ Takes("bmp") = 0 /\ Takes("bmp_temp") = 1 /\ Takes("bmp_between") = 0
       /\ Takes("bmp_pressure") = 1
  BY Counters
<1> QED BY <1>5, <1>8, <1>9, <1>10 DEF process_bmp_data

-----------------------------------------------------------------------------
(* The battery                                                             *)

\* The points of the curve rise.
LEMMA CurveRises ==
  /\ lipo_curve_mv[1] = 3270 /\ lipo_curve_mv[2] = 3610 /\ lipo_curve_mv[3] = 3690
  /\ lipo_curve_mv[4] = 3710 /\ lipo_curve_mv[5] = 3730 /\ lipo_curve_mv[6] = 3770
  /\ lipo_curve_mv[7] = 3790 /\ lipo_curve_mv[8] = 3820 /\ lipo_curve_mv[9] = 3870
  /\ lipo_curve_mv[10] = 3950 /\ lipo_curve_mv[11] = 4200
BY DEF lipo_curve_mv

\* Between two points the interpolation stays within ten percent.
LEMMA Interpolated ==
  ASSUME NEW a \in Nat, NEW b \in {20, 30, 40, 50, 80, 250, 340}, a <= b
  PROVE  (a * 10) \div b \in 0..10
<1>1. CASE b = 20
  BY <1>1
<1>2. CASE b = 30
  BY <1>2
<1>3. CASE b = 40
  BY <1>3
<1>4. CASE b = 50
  BY <1>4
<1>5. CASE b = 80
  BY <1>5
<1>6. CASE b = 250
  BY <1>6
<1>7. CASE b = 340
  BY <1>7
<1> QED BY <1>1, <1>2, <1>3, <1>4, <1>5, <1>6, <1>7

\* Every voltage has its percentage.
LEMMA CurvePctType == \A mv \in Nat : CurvePct(mv) \in 0..100
<1> SUFFICES ASSUME NEW mv \in Nat, ~(mv <= lipo_curve_mv[1]), ~(mv >= lipo_curve_mv[11])
             PROVE  CurvePct(mv) \in 0..100
  <2>1. \A mv \in Nat : mv <= lipo_curve_mv[1] => CurvePct(mv) = 0
    BY ZenonT(60) DEF CurvePct
  <2>2. \A mv \in Nat : ~(mv <= lipo_curve_mv[1]) /\ mv >= lipo_curve_mv[11] => CurvePct(mv) = 100
    BY DEF CurvePct
  <2> QED BY <2>1, <2>2, SMTT(40)
<1> DEFINE P(k) == /\ lipo_curve_mv[k] <= mv /\ mv <= lipo_curve_mv[k + 1]
                   /\ \A j \in 1..(k - 1) : mv > lipo_curve_mv[j + 1]
           i == CHOOSE k \in 1..10 : P(k)
           d == lipo_curve_mv[i + 1] - lipo_curve_mv[i]
           x == mv - lipo_curve_mv[i]
<1>1. CurvePct(mv) = (i - 1) * 10 + (x * 10) \div d
  BY DEF CurvePct
<1>2. \E k \in 1..10 : P(k)
  <2>1. CASE mv <= 3610
    BY <2>1, CurveRises
  <2>2. CASE mv > 3610 /\ mv <= 3690
    <3>1. P(2)
      BY <2>2, CurveRises
    <3> QED BY <3>1
  <2>3. CASE mv > 3690 /\ mv <= 3710
    <3>1. P(3)
      BY <2>3, CurveRises
    <3> QED BY <3>1
  <2>4. CASE mv > 3710 /\ mv <= 3730
    <3>1. P(4)
      BY <2>4, CurveRises
    <3> QED BY <3>1
  <2>5. CASE mv > 3730 /\ mv <= 3770
    <3>1. P(5)
      BY <2>5, CurveRises
    <3> QED BY <3>1
  <2>6. CASE mv > 3770 /\ mv <= 3790
    <3>1. P(6)
      BY <2>6, CurveRises
    <3> QED BY <3>1
  <2>7. CASE mv > 3790 /\ mv <= 3820
    <3>1. P(7)
      BY <2>7, CurveRises
    <3> QED BY <3>1
  <2>8. CASE mv > 3820 /\ mv <= 3870
    <3>1. P(8)
      BY <2>8, CurveRises
    <3> QED BY <3>1
  <2>9. CASE mv > 3870 /\ mv <= 3950
    <3>1. P(9)
      BY <2>9, CurveRises
    <3> QED BY <3>1
  <2>10. CASE mv > 3950
    <3>1. P(10)
      BY <2>10, CurveRises
    <3> QED BY <3>1
  <2> QED BY <2>1, <2>2, <2>3, <2>4, <2>5, <2>6, <2>7, <2>8, <2>9, <2>10
<1> HIDE DEF P
<1>3. i \in 1..10 /\ P(i)
  BY <1>2
<1> HIDE DEF i
<1>4. d \in {20, 30, 40, 50, 80, 250, 340}
  BY <1>3, CurveRises
<1>5. x \in Nat /\ x <= d
  <2>1. lipo_curve_mv[i] \in Nat /\ lipo_curve_mv[i + 1] \in Nat
    BY <1>3, CurveRises
  <2> QED BY <1>3, <2>1 DEF P
<1> HIDE DEF d, x
<1>6. (x * 10) \div d \in 0..10
  BY <1>4, <1>5, Interpolated
<1> QED BY <1>1, <1>3, <1>6

\* The filter reports a percentage just below the measured one.
LEMMA Reported ==
  ASSUME battery \in BatteryType, NEW mv \in Nat, NEW c \in BOOLEAN, NEW d \in BOOLEAN,
         battery' = Measured(d, mv, c)
  PROVE  battery' \in BatteryType /\ ReportNearMeasurement' /\ battery'.divider = d
<1> DEFINE m == CurvePct(mv)
           r == ReportedPct(m, c)
<1>1. m \in 0..100 /\ battery.pct \in 0..100
  BY CurvePctType DEF BatteryType
<1> HIDE DEF m
<1>2. r \in 0..100 /\ m - r \in 0..2
  BY <1>1 DEF ReportedPct
<1>3. battery' = [battery EXCEPT !.divider = d, !.mv = mv, !.first_run = FALSE, !.pct = r]
  BY DEF Measured, m
<1> HIDE DEF r
<1>4. battery' \in BatteryType /\ battery'.mv = mv /\ battery'.pct = r /\ battery'.divider = d
  BY <1>2, <1>3 DEF BatteryType
<1>5. CurvePct(battery'.mv) - battery'.pct \in 0..2
  BY <1>2, <1>4 DEF m
<1> QED BY <1>4, <1>5 DEF ReportNearMeasurement

\* The battery is measured.
LEMMA BatteryMoves ==
  ASSUME TypeOK, CrashHasCause, NEW w \in Workers, BatteryEnable(w) \/ BatteryReport(w)
  PROVE  Moves(w) /\ MovesImu(w) /\ MovesData(w)
<1>1. UNCHANGED <<fifo, elements, bmp, crash, faults>>
  BY DEF BatteryEnable, BatteryReport
<1>2. /\ \A pc \in {"battery", "bat_sample"} : /\ pc # "idle" /\ pc \notin ReadMode /\ pc \in BatPC
                                              /\ KindOf(pc) = "battery"
      /\ Takes("bat_sample") = 1 /\ Takes("battery") = 0 /\ Takes("idle") = 0
  BY Counters DEF BatPC
<1>3. crash' \in BOOLEAN /\ (crash' => faults' > 0 \/ late)
  BY <1>1 DEF TypeOK, CrashHasCause
<1>4. CASE BatteryEnable(w)
  <2>1. At(w) = "battery" /\ Goto(w, "bat_sample") /\ Lock /\ battery' = [battery EXCEPT !.divider = TRUE]
    BY <1>4 DEF BatteryEnable
  <2>2. /\ task' = [task EXCEPT ![w] = task'[w]] /\ task'[w] \in TaskType
        /\ task'[w].pc = "bat_sample" /\ task'[w].len = task[w].len
    BY <1>2, <2>1, Gone
  <2>3. Moves(w)
    BY <1>1, <1>2, <2>1, <2>2, Numbers DEF Moves, Busy
  <2>4. MovesImu(w)
    BY <1>1, <1>2, <2>1, <2>2, LockCounts, Numbers DEF MovesImu
  <2>5. /\ battery' \in BatteryType /\ battery'.divider = TRUE
        /\ battery'.first_run = battery.first_run /\ battery'.mv = battery.mv /\ battery'.pct = battery.pct
    BY <2>1, Numbers DEF BatteryType
  <2> QED BY <1>1, <1>3, <2>2, <2>3, <2>4, <2>5, ReportKept, Numbers DEF MovesData
<1>5. CASE BatteryReport(w)
  <2>1. PICK mv \in Millivolts, c \in BOOLEAN :
          At(w) = "bat_sample" /\ Return(w) /\ Unlock /\ battery' = Measured(FALSE, mv, c)
    BY <1>5 DEF BatteryReport
  <2>2. /\ task' = [task EXCEPT ![w] = task'[w]] /\ task'[w] \in TaskType
        /\ task'[w] = Idle /\ task'[w].pc = "idle" /\ task'[w].len = 0
    BY <2>1, Returned
  <2>3. Moves(w)
    BY <1>1, <1>2, <2>1, <2>2, Numbers DEF Moves, Busy
  <2>4. MovesImu(w)
    BY <1>1, <1>2, <2>1, <2>2, UnlockCounts, Numbers DEF MovesImu
  <2>5. battery' \in BatteryType /\ ReportNearMeasurement' /\ battery'.divider = FALSE
    <3>1. mv \in Nat /\ FALSE \in BOOLEAN /\ battery \in BatteryType
      BY SensorsAssumption, Numbers
    <3> QED BY <2>1, <3>1, Reported
  <2> QED BY <1>1, <1>3, <2>1, <2>2, <2>3, <2>4, <2>5, Numbers DEF MovesData
<1> QED BY <1>4, <1>5

\* A step of a handler
LEMMA HandlerMoves ==
  ASSUME TypeOK, CrashHasCause, DataInTime, TasksInWindow, NEW w \in Workers, Handler(w)
  PROVE  Moves(w) /\ MovesImu(w) /\ MovesData(w) /\ killed' \in {killed, killed \cup {"timeout"}}
<1>1. window /\ up
  BY DEF Handler, TasksInWindow
<1>2. CASE process_bmp_data(w) /\ killed' = killed
  BY <1>1, <1>2, BmpMoves
<1>3. CASE process_imu_data(w) /\ killed' = killed
  BY <1>3, ImuDataMoves
<1> QED BY <1>2, <1>3, ReadCountMoves, RequestFifoMoves, PollMoves, FetchMoves, LeaveMoves, BatteryMoves
        DEF Handler

-----------------------------------------------------------------------------
(* The invariant                                                           *)

\* Inductive
Healthy ==
  /\ SensorsInv
  /\ SleepLockBalanced /\ SamplesFlow /\ DividerOnlySampling
  /\ CrashHasCause /\ EnablesAsAsked /\ ReportNearMeasurement

\* How many workers hold the lock
LEMMA Counted ==
  /\ IsFiniteSet(Running(Locked)) /\ Cardinality(Running(Locked)) \in Nat
  /\ IsFiniteSet(Running(Locked))' /\ Cardinality(Running(Locked))' \in Nat
<1>1. IsFiniteSet(Workers)
  BY SensorsAssumption
<1>2. Running(Locked) \subseteq Workers /\ {v \in Workers : task'[v].pc \in Locked} \subseteq Workers
  BY DEF Running
<1>3. Running(Locked)' = {v \in Workers : task'[v].pc \in Locked}
  BY DEF Running, At, Locked
<1> QED BY <1>1, <1>2, <1>3, FS_Subset, FS_CardinalityType

\* A step of a worker counts for itself only.
LEMMA CountedMove ==
  ASSUME TypeOK, NEW w \in Workers, Moves(w)
  PROVE  Cardinality(Running(Locked))' = Cardinality(Running(Locked)) + Takes(task'[w].pc) - Takes(At(w))
<1> DEFINE A == Running(Locked)
           B == {v \in Workers : task'[v].pc \in Locked}
<1>1. Running(Locked)' = B
  BY DEF Running, At, Locked
<1>2. IsFiniteSet(A) /\ IsFiniteSet(B) /\ Cardinality(A) \in Nat /\ Cardinality(B) \in Nat
  BY <1>1, Counted
<1>3. /\ \A v \in Workers \ {w} : task'[v] = task[v]
      /\ w \in A <=> At(w) \in Locked
      /\ w \in B <=> task'[w].pc \in Locked
  BY Replaced DEF Moves, Running
<1>4. A \subseteq Workers /\ B \subseteq Workers /\ \A v \in Workers \ {w} : v \in A <=> v \in B
  BY <1>3 DEF Running, At
<1> HIDE DEF A, B
<1>5. CASE w \in A /\ w \in B
  <2>1. A = B
    BY <1>4, <1>5
  <2>2. Takes(task'[w].pc) = 1 /\ Takes(At(w)) = 1
    BY <1>3, <1>5 DEF Takes
  <2> QED BY <1>1, <1>2, <2>1, <2>2 DEF A
<1>6. CASE w \notin A /\ w \notin B
  <2>1. A = B
    BY <1>4, <1>6
  <2>2. Takes(task'[w].pc) = 0 /\ Takes(At(w)) = 0
    BY <1>3, <1>6 DEF Takes
  <2> QED BY <1>1, <1>2, <2>1, <2>2 DEF A
<1>7. CASE w \notin A /\ w \in B
  <2>1. B = A \cup {w}
    BY <1>4, <1>7
  <2>2. Takes(task'[w].pc) = 1 /\ Takes(At(w)) = 0
    BY <1>3, <1>7 DEF Takes
  <2>3. Cardinality(B) = Cardinality(A) + 1
    BY <1>2, <1>7, <2>1, FS_AddElement
  <2> QED BY <1>1, <1>2, <2>2, <2>3 DEF A
<1>8. CASE w \in A /\ w \notin B
  <2>1. B = A \ {w}
    BY <1>4, <1>8
  <2>2. Takes(task'[w].pc) = 0 /\ Takes(At(w)) = 1
    BY <1>3, <1>8 DEF Takes
  <2>3. Cardinality(B) = Cardinality(A) - 1
    BY <1>2, <1>8, <2>1, FS_RemoveElement
  <2> QED BY <1>1, <1>2, <2>2, <2>3 DEF A
<1> QED BY <1>5, <1>6, <1>7, <1>8

\* Every step of a handler keeps the invariant.
LEMMA HandlerHealthy ==
  ASSUME Healthy, NEW w \in Workers, Handler(w)
  PROVE  Healthy'
<1> USE DEF Healthy, SensorsInv
<1>1. Moves(w) /\ MovesImu(w) /\ MovesData(w) /\ killed' \in {killed, killed \cup {"timeout"}}
  BY HandlerMoves
<1>2. window /\ up /\ UNCHANGED <<up, window, tick, queue, forced, late, leftover, wanted>>
  BY DEF Handler, Rest, TasksInWindow
<1>3. /\ task' \in [Workers -> TaskType] /\ \A v \in Workers \ {w} : task'[v] = task[v]
      /\ task'[w] = Idle \/ (task'[w].pc # "idle" /\ KindOf(task'[w].pc) = KindOf(At(w)))
  BY <1>1, Replaced DEF Moves
<1>4. /\ faults' \in Nat /\ faults \in Nat /\ faults <= faults' /\ faults' <= MaxFaults
      /\ fifo' \in Nat /\ fifo' <= fifo /\ fifo \in Nat /\ fifo <= Depth /\ Depth \in Nat
  BY <1>1, Numbers DEF Moves
<1>5. TypeOK'
  BY <1>1, <1>2, <1>3, <1>4, SensorsAssumption DEF TypeOK, TaskType, MovesImu, MovesData, BatteryType
<1>6. TasksInWindow'
  BY <1>2, <1>3 DEF TasksInWindow, At
<1>7. OneOfAKind'
  <2> SUFFICES ASSUME ~leftover' PROVE OneOfAKind'
    BY DEF OneOfAKind
  <2>1. \A v \in Workers : Busy(v)' => Busy(v) /\ KindOf(At(v))' = KindOf(At(v))
    <3>1. \A v \in Workers : Busy(v)' <=> task'[v].pc # "idle"
      BY DEF Busy, At
    <3>2. \A v \in Workers : KindOf(At(v))' = KindOf(task'[v].pc)
      BY DEF At, KindOf, ImuPC, BmpPC
    <3> QED BY <1>1, <1>3, <3>1, <3>2, IdleType DEF Moves, Busy, At
  <2> QED BY <1>2, <2>1 DEF OneOfAKind
<1>8. DataInTime'
  <2>1. up' => faults' > 0 \/ (bmp'.bus /\ bmp'.cal)
    BY <1>1, <1>2, <1>4 DEF DataInTime, MovesData
  <2>2. up' /\ ~late' => fifo' <= 1
    BY <1>2, <1>4 DEF DataInTime
  <2>3. ASSUME faults' = 0, ~late' PROVE \A v \in Workers : task'[v].len <= 1
    <3>1. faults = 0 /\ fifo <= 1 /\ \A v \in Workers : task[v].len <= 1
      BY <1>2, <1>4, <2>3 DEF DataInTime
    <3>2. task'[w].len <= 1
      BY <1>1, <2>3, <3>1 DEF Moves
    <3> QED BY <1>3, <3>1, <3>2
  <2> QED BY <2>1, <2>2, <2>3 DEF DataInTime
<1>9. SleepLockBalanced'
  <2> DEFINE c == Cardinality(Running(Locked))
             a == Takes(task'[w].pc)
             b == Takes(At(w))
  <2>1. c' = c + a - b /\ c \in Nat /\ a \in Int /\ b \in Int /\ imu.locks \in Int
    BY <1>1, CountedMove, Counted, Numbers DEF Takes
  <2>2. imu'.locks = imu.locks + a - b
    BY <1>1 DEF MovesImu
  <2>3. imu.locks >= c /\ ("locked" \notin killed => imu.locks = c)
    BY DEF SleepLockBalanced
  <2> HIDE DEF c, a, b
  <2>4. imu'.locks >= c' /\ ("locked" \notin killed' => imu'.locks = c')
    BY <1>1, <2>1, <2>2, <2>3
  <2> QED BY <2>4 DEF SleepLockBalanced, c
<1>10. SamplesFlow'
  <2> SUFFICES ASSUME imu'.fifo = "reading", ~(faults' > 0), killed' \cap {"reading", "timeout"} = {}
               PROVE  \E v \in Workers : task'[v].pc \in ReadMode
    BY DEF SamplesFlow, Running, At, ReadMode
  <2>1. task'[w].pc \in ReadMode \/ (imu.fifo = "reading" /\ At(w) \notin ReadMode)
    BY <1>1 DEF MovesImu
  <2>2. CASE imu.fifo = "reading" /\ At(w) \notin ReadMode
    <3>1. Running(ReadMode) # {}
      BY <1>1, <1>2, <1>4, <2>2 DEF SamplesFlow
    <3>2. PICK v \in Workers : At(v) \in ReadMode
      BY <3>1 DEF Running
    <3> QED BY <1>3, <2>2, <3>2 DEF At
  <2> QED BY <2>1, <2>2
<1>11. DividerOnlySampling'
  <2> SUFFICES ASSUME "divider" \notin killed', ~leftover'
               PROVE  battery'.divider <=> \E v \in Workers : task'[v].pc = "bat_sample"
    BY DEF DividerOnlySampling, Running, At
  <2>1. battery.divider <=> \E v \in Workers : At(v) = "bat_sample"
    BY <1>1, <1>2 DEF DividerOnlySampling, Running
  <2>2. CASE task'[w].pc = "bat_sample"
    BY <1>1, <2>2 DEF MovesData
  <2>3. CASE task'[w].pc # "bat_sample" /\ At(w) = "bat_sample"
    <3>1. ~battery'.divider
      BY <1>1, <2>3 DEF MovesData
    <3>2. ASSUME NEW v \in Workers \ {w} PROVE task[v].pc # "bat_sample"
      BY <1>2, <2>3 DEF OneOfAKind, Busy, At
    <3> QED BY <1>3, <2>3, <3>1, <3>2
  <2>4. CASE task'[w].pc # "bat_sample" /\ At(w) # "bat_sample"
    <3>1. battery'.divider = battery.divider
      BY <1>1, <2>4 DEF MovesData
    <3> QED BY <1>3, <2>1, <2>4, <3>1 DEF At
  <2> QED BY <2>2, <2>3, <2>4
<1>12. CrashHasCause' /\ ReportNearMeasurement'
  BY <1>1, <1>2 DEF MovesData, CrashHasCause
<1>13. EnablesAsAsked'
  BY <1>1, <1>2, <1>4 DEF EnablesAsAsked, MovesImu
<1> QED BY <1>5, <1>6, <1>7, <1>8, <1>9, <1>10, <1>11, <1>12, <1>13

-----------------------------------------------------------------------------
(* The driver, when no worker runs                                         *)

\* What an operation of the driver leaves, when it succeeds in s
CallLeaves(op, s) ==
  /\ Asked(op) \in [aen : BOOLEAN, gen : BOOLEAN]
  /\ Yields(ImuResult(op), s) /\ s.locks = imu.locks /\ s.fifo = imu.fifo
  /\ imu.aen = wanted.aen /\ imu.gen = wanted.gen => s.aen = Asked(op).aen /\ s.gen = Asked(op).gen

\* It leaves the enable bits as asked, the mode of the queue and the lock as they were.
LEMMA CallYields ==
  ASSUME imu \in ImuState, wanted \in [aen : BOOLEAN, gen : BOOLEAN], NEW op \in DriverOps
  PROVE  \E s : CallLeaves(op, s)
<1>1. CASE op \in {"arm_wakeup", "disarm_wakeup", "setup_no_motion", "disable_no_motion",
                   "enable_pedometer", "disable_pedometer", "reset_pedometer", "reset_fifo"}
  <2>1. Asked(op) = wanted
    BY <1>1 DEF Asked
  <2>2. Yields(ImuResult(op), imu)
    <3>1. /\ Yields(ConfigureDetector(imu), imu) /\ Yields(imu_disable_wake_on_motion(imu), imu)
          /\ Yields(imu_setup_detect_no_motion(imu), imu) /\ Yields(imu_enable_pedometer(imu), imu)
          /\ Yields(ctrl9_handshake(imu), imu) /\ Yields(imu_reset_fifo_buffer(imu), imu)
      BY ConfigureYields, DisarmYields, NoMotionYields, PedometerYields, HandshakeYields, ResetFifoYields
    <3>2. Yields(imu_disable_detect_no_motion(imu), imu) /\ Yields(imu_disable_pedometer(imu), imu)
      BY TwoAccessesYield DEF imu_disable_detect_no_motion, imu_disable_pedometer
    <3> QED BY <1>1, <3>1, <3>2 DEF ImuResult, imu_setup_wake_on_motion, imu_reset_pedometer
  <2>3. CallLeaves(op, imu)
    BY <2>1, <2>2 DEF CallLeaves
  <2> QED BY <2>3
<1>2. CASE op = "enable_accelerometer"
  <2> DEFINE s == [imu EXCEPT !.aen = TRUE]
  <2>1. Asked(op) = [wanted EXCEPT !.aen = TRUE] /\ ImuResult(op) = imu_enable_accelerometer(imu)
    BY <1>2 DEF Asked, ImuResult
  <2>2. Yields(ImuResult(op), s)
    BY <2>1, EnableAccelYields
  <2>3. s.locks = imu.locks /\ s.fifo = imu.fifo
    BY DEF ImuState
  <2>4. Asked(op) \in [aen : BOOLEAN, gen : BOOLEAN]
    BY <2>1
  <2>5. imu.aen = wanted.aen /\ imu.gen = wanted.gen => s.aen = Asked(op).aen /\ s.gen = Asked(op).gen
    BY <2>1 DEF ImuState
  <2> HIDE DEF s
  <2>6. CallLeaves(op, s)
    BY <2>2, <2>3, <2>4, <2>5 DEF CallLeaves
  <2> QED BY <2>6
<1>3. CASE op = "disable_accelerometer"
  <2> DEFINE s == [imu EXCEPT !.aen = FALSE]
  <2>1. Asked(op) = [wanted EXCEPT !.aen = FALSE] /\ ImuResult(op) = imu_disable_accelerometer(imu)
    BY <1>3 DEF Asked, ImuResult
  <2>2. Yields(ImuResult(op), s)
    BY <2>1, DisableAccelYields
  <2>3. s.locks = imu.locks /\ s.fifo = imu.fifo
    BY DEF ImuState
  <2>4. Asked(op) \in [aen : BOOLEAN, gen : BOOLEAN]
    BY <2>1
  <2>5. imu.aen = wanted.aen /\ imu.gen = wanted.gen => s.aen = Asked(op).aen /\ s.gen = Asked(op).gen
    BY <2>1 DEF ImuState
  <2> HIDE DEF s
  <2>6. CallLeaves(op, s)
    BY <2>2, <2>3, <2>4, <2>5 DEF CallLeaves
  <2> QED BY <2>6
<1>4. CASE op = "enable_gyro"
  <2> DEFINE s == [imu EXCEPT !.gen = TRUE]
  <2>1. Asked(op) = [wanted EXCEPT !.gen = TRUE] /\ ImuResult(op) = imu_enable_gyro(imu)
    BY <1>4 DEF Asked, ImuResult
  <2>2. Yields(ImuResult(op), s)
    BY <2>1, EnableGyroYields
  <2>3. s.locks = imu.locks /\ s.fifo = imu.fifo
    BY DEF ImuState
  <2>4. Asked(op) \in [aen : BOOLEAN, gen : BOOLEAN]
    BY <2>1
  <2>5. imu.aen = wanted.aen /\ imu.gen = wanted.gen => s.aen = Asked(op).aen /\ s.gen = Asked(op).gen
    BY <2>1 DEF ImuState
  <2> HIDE DEF s
  <2>6. CallLeaves(op, s)
    BY <2>2, <2>3, <2>4, <2>5 DEF CallLeaves
  <2> QED BY <2>6
<1>5. CASE op = "disable_gyro"
  <2> DEFINE s == [imu EXCEPT !.gen = FALSE]
  <2>1. Asked(op) = [wanted EXCEPT !.gen = FALSE] /\ ImuResult(op) = imu_disable_gyro(imu)
    BY <1>5 DEF Asked, ImuResult
  <2>2. Yields(ImuResult(op), s)
    BY <2>1, DisableGyroYields
  <2>3. s.locks = imu.locks /\ s.fifo = imu.fifo
    BY DEF ImuState
  <2>4. Asked(op) \in [aen : BOOLEAN, gen : BOOLEAN]
    BY <2>1
  <2>5. imu.aen = wanted.aen /\ imu.gen = wanted.gen => s.aen = Asked(op).aen /\ s.gen = Asked(op).gen
    BY <2>1 DEF ImuState
  <2> HIDE DEF s
  <2>6. CallLeaves(op, s)
    BY <2>2, <2>3, <2>4, <2>5 DEF CallLeaves
  <2> QED BY <2>6
<1>6. CASE op = "high_accuracy"
  <2> DEFINE f == [imu EXCEPT !.aen = FALSE, !.gen = FALSE]
             s == [imu EXCEPT !.aen = TRUE, !.gen = TRUE]
  <2>1. /\ Asked(op) = [aen |-> TRUE, gen |-> TRUE]
        /\ ImuResult(op) = execute_sequential_cmds(imu, f, s)
    BY <1>6 DEF Asked, ImuResult, imu_enter_high_accuracy_mode
  <2>2. /\ f \in ImuState /\ f.locks = imu.locks
        /\ s \in ImuState /\ s.locks = imu.locks /\ s.fifo = imu.fifo /\ s.aen = TRUE /\ s.gen = TRUE
    BY DEF ImuState
  <2> HIDE DEF f, s
  <2>3. Yields(ImuResult(op), s)
    BY <2>1, <2>2, SequenceYields
  <2>4. /\ Asked(op) \in [aen : BOOLEAN, gen : BOOLEAN]
        /\ s.aen = Asked(op).aen /\ s.gen = Asked(op).gen
    <3> DEFINE a == Asked(op)
    <3>1. a = [aen |-> TRUE, gen |-> TRUE]
      BY <2>1
    <3> HIDE DEF a
    <3>2. a \in [aen : BOOLEAN, gen : BOOLEAN] /\ a.aen = TRUE /\ a.gen = TRUE
      BY <3>1
    <3> QED BY <2>2, <3>2, Zenon DEF a
  <2>5. CallLeaves(op, s)
    BY <2>2, <2>3, <2>4 DEF CallLeaves
  <2> QED BY <2>5
<1>7. CASE op = "accel_only"
  <2> DEFINE f == [imu EXCEPT !.aen = FALSE, !.gen = FALSE]
             s == [imu EXCEPT !.aen = TRUE, !.gen = FALSE]
  <2>1. /\ Asked(op) = [aen |-> TRUE, gen |-> FALSE]
        /\ ImuResult(op) = execute_sequential_cmds(imu, f, s)
    BY <1>7 DEF Asked, ImuResult, imu_enter_low_power_accel_only_mode
  <2>2. /\ f \in ImuState /\ f.locks = imu.locks
        /\ s \in ImuState /\ s.locks = imu.locks /\ s.fifo = imu.fifo /\ s.aen = TRUE /\ s.gen = FALSE
    BY DEF ImuState
  <2> HIDE DEF f, s
  <2>3. Yields(ImuResult(op), s)
    BY <2>1, <2>2, SequenceYields
  <2>4. /\ Asked(op) \in [aen : BOOLEAN, gen : BOOLEAN]
        /\ s.aen = Asked(op).aen /\ s.gen = Asked(op).gen
    <3> DEFINE a == Asked(op)
    <3>1. a = [aen |-> TRUE, gen |-> FALSE]
      BY <2>1
    <3> HIDE DEF a
    <3>2. a \in [aen : BOOLEAN, gen : BOOLEAN] /\ a.aen = TRUE /\ a.gen = FALSE
      BY <3>1
    <3> QED BY <2>2, <3>2, Zenon DEF a
  <2>5. CallLeaves(op, s)
    BY <2>2, <2>3, <2>4 DEF CallLeaves
  <2> QED BY <2>5
<1> QED BY <1>1, <1>2, <1>3, <1>4, <1>5, <1>6, <1>7 DEF DriverOps

\* Where the start of the driver succeeds
Started == [ResetState(imu) EXCEPT !.fifo = "stream", !.aen = TRUE, !.gen = FALSE]

\* The queue streams and the accelerometer is on.
LEMMA StartYields ==
  ASSUME imu \in ImuState
  PROVE  /\ Yields(imu_init(imu), Started) /\ Started.locks = imu.locks
         /\ Started.fifo = "stream" /\ Started.aen = TRUE /\ Started.gen = FALSE
<1>1. Yields(imu_init(imu), Started)
  BY InitYields DEF Started
<1>2. ResetState(imu) \in ImuState /\ ResetState(imu).locks = imu.locks
  BY ResetYields DEF Yields
<1> DEFINE r == ResetState(imu)
<1>3. Started = [r EXCEPT !.fifo = "stream", !.aen = TRUE, !.gen = FALSE] /\ r \in ImuState
  BY <1>2 DEF Started
<1>4. r.locks = imu.locks
  BY <1>2
<1> HIDE DEF r
<1> QED BY <1>1, <1>3, <1>4 DEF ImuState

\* Starting, stopping or configuring the sensor keeps the lock, the workers and what they know.
LEMMA Configured ==
  ASSUME TypeOK, NEW S, NEW s, Yields(S, s), s.locks = imu.locks, NEW o \in Outcomes(S), imu' = o.imu
  PROVE  /\ imu' \in ImuState /\ imu'.locks = imu.locks /\ o.ok \in BOOLEAN
         /\ o.ok => imu' = s
         /\ ~o.ok => faults + 1 \in 1..MaxFaults
<1>1. o \in S /\ (o.ok \/ faults < MaxFaults)
  BY DEF Outcomes
<1>2. /\ o \in [imu : ImuState, ok : BOOLEAN] /\ o.imu.locks = s.locks /\ (o.ok => o.imu = s)
  BY <1>1 DEF Yields
<1>3. faults \in Nat /\ MaxFaults \in Nat
  BY SensorsAssumption DEF TypeOK
<1> QED BY <1>1, <1>2, <1>3

\* While nobody runs, starting, stopping or configuring keeps what concerns the workers.
LEMMA AtRest ==
  ASSUME Healthy, imu' \in ImuState, imu'.locks = imu.locks, UNCHANGED <<task, queue, window, leftover, killed>>
  PROVE  SleepLockBalanced' /\ OneOfAKind' /\ task' \in [Workers -> TaskType]
<1>1. SleepLockBalanced'
  BY DEF Healthy, SleepLockBalanced, Running, At, Locked
<1>2. OneOfAKind'
  BY DEF Healthy, SensorsInv, OneOfAKind, Busy, At, KindOf, ImuPC, BmpPC
<1> QED BY <1>1, <1>2 DEF Healthy, SensorsInv, TypeOK, TaskType

\* sensor_manager_init
LEMMA StartHealthy ==
  ASSUME Healthy, sensor_manager_init
  PROVE  Healthy'
<1> USE DEF Healthy, SensorsInv
<1>1. PICK b \in BmpStart, o \in Outcomes(imu_init(imu)) :
        /\ bmp' = b /\ imu' = o.imu /\ faults' = IF o.ok /\ b.bus /\ b.cal THEN faults ELSE faults + 1
  BY DEF sensor_manager_init
<1>2. /\ ~up /\ ~crash /\ up' = TRUE /\ elements' = 0 /\ fifo' \in {0, 1} /\ late' = (fifo' > 0) /\ tick' = 0
      /\ battery' = [battery EXCEPT !.first_run = TRUE, !.pct = 100, !.mv = 0]
      /\ wanted' = [aen |-> TRUE, gen |-> FALSE]
      /\ UNCHANGED <<window, queue, task, crash, forced, leftover, killed>>
  BY DEF sensor_manager_init
<1>3. /\ imu' \in ImuState /\ imu'.locks = imu.locks /\ o.ok \in BOOLEAN
      /\ (o.ok => imu' = Started) /\ (~o.ok => faults + 1 \in 1..MaxFaults)
  BY <1>1, StartYields, Configured DEF TypeOK
<1>4. /\ b \in [bus : BOOLEAN, cal : BOOLEAN]
      /\ ~(b.bus /\ b.cal) => faults + 1 \in 1..MaxFaults
  <2>1. \/ b = [bus |-> TRUE, cal |-> TRUE]
        \/ /\ faults < MaxFaults
           /\ b = [bus |-> FALSE, cal |-> FALSE] \/ b = [bus |-> TRUE, cal |-> FALSE]
    BY DEF BmpStart
  <2>2. faults \in Nat /\ MaxFaults \in Nat /\ (faults < MaxFaults => faults + 1 \in 1..MaxFaults)
    BY SensorsAssumption DEF TypeOK
  <2>3. b \in [bus : BOOLEAN, cal : BOOLEAN]
    <3>1. /\ [bus |-> TRUE, cal |-> TRUE] \in [bus : BOOLEAN, cal : BOOLEAN]
          /\ [bus |-> FALSE, cal |-> FALSE] \in [bus : BOOLEAN, cal : BOOLEAN]
          /\ [bus |-> TRUE, cal |-> FALSE] \in [bus : BOOLEAN, cal : BOOLEAN]
      OBVIOUS
    <3> QED BY <2>1, <3>1, Zenon
  <2>4. b = [bus |-> TRUE, cal |-> TRUE] => b.bus /\ b.cal
    OBVIOUS
  <2> QED BY <2>1, <2>2, <2>3, <2>4
<1>5. /\ faults' \in 0..MaxFaults /\ faults \in Nat
      /\ faults' = 0 => o.ok /\ bmp'.bus /\ bmp'.cal
  <2>1. faults \in 0..MaxFaults /\ MaxFaults \in Nat
    BY SensorsAssumption DEF TypeOK
  <2>2. CASE o.ok /\ b.bus /\ b.cal
    BY <1>1, <2>1, <2>2
  <2>3. CASE ~(o.ok /\ b.bus /\ b.cal)
    <3>1. faults' = faults + 1 /\ faults + 1 \in 1..MaxFaults
      BY <1>1, <1>3, <1>4, <2>3
    <3> QED BY <2>1, <3>1
  <2> QED BY <2>2, <2>3
<1>6. SleepLockBalanced' /\ OneOfAKind' /\ task' \in [Workers -> TaskType]
  BY <1>2, <1>3, AtRest
<1>7. \A w \in Workers : task[w] = Idle
  BY <1>2 DEF TasksInWindow
<1>8. /\ battery' \in BatteryType /\ battery'.divider = battery.divider /\ battery'.first_run = TRUE
  <2>1. battery \in BatteryType
    BY DEF TypeOK, BatteryType
  <2>2. battery' = [divider |-> battery.divider, first_run |-> TRUE, pct |-> 100, mv |-> 0]
    BY <1>2, <2>1 DEF BatteryType
  <2>3. battery.divider \in BOOLEAN /\ 100 \in 0..100 /\ 0 \in Nat /\ TRUE \in BOOLEAN
    BY <2>1 DEF BatteryType
  <2> QED BY <2>2, <2>3 DEF BatteryType
<1>9. TypeOK'
  <2>1. late' \in BOOLEAN /\ elements' \in 0..History /\ fifo' \in 0..Depth /\ tick' \in 0..(SensorEvery - 1)
    BY <1>2, SensorsAssumption
  <2> QED BY <1>1, <1>2, <1>3, <1>4, <1>5, <1>6, <1>8, <2>1 DEF TypeOK, TaskType, BatteryType
<1>10. TasksInWindow'
  BY <1>2, <1>7 DEF TasksInWindow, At
<1>11. DataInTime'
  <2>1. \A w \in Workers : task'[w].len <= 1
    BY <1>2, <1>7, IdleType
  <2>2. ~late' => fifo' <= 1
    BY <1>2
  <2>3. faults' > 0 \/ (bmp'.bus /\ bmp'.cal)
    BY <1>5, SensorsAssumption
  <2> QED BY <2>1, <2>2, <2>3 DEF DataInTime
<1>12. SamplesFlow' /\ EnablesAsAsked'
  <2>1. faults' > 0 \/ imu' = Started
    BY <1>3, <1>5, SensorsAssumption
  <2>2. imu' = Started => imu'.fifo # "reading" /\ imu'.aen = wanted'.aen /\ imu'.gen = wanted'.gen
    BY <1>2, StartYields DEF TypeOK
  <2>3. faults' > 0 => faults' # 0
    BY <1>5, SensorsAssumption
  <2> QED BY <2>1, <2>2, <2>3 DEF SamplesFlow, EnablesAsAsked
<1>13. DividerOnlySampling' /\ CrashHasCause' /\ ReportNearMeasurement'
  BY <1>2, <1>8 DEF DividerOnlySampling, CrashHasCause, ReportNearMeasurement, Running, At
<1> QED BY <1>6, <1>9, <1>10, <1>11, <1>12, <1>13

\* sensor_manager_deinit
LEMMA StopHealthy ==
  ASSUME Healthy, sensor_manager_deinit
  PROVE  Healthy'
<1> USE DEF Healthy, SensorsInv
<1>1. PICK o \in Outcomes(imu_enter_low_power_mode(imu)) :
        imu' = o.imu /\ faults' = IF o.ok THEN faults ELSE faults + 1
  BY DEF sensor_manager_deinit
<1>2. /\ up /\ ~crash /\ ~window /\ crash' = ~bmp.bus /\ bmp' = [bus |-> FALSE, cal |-> FALSE]
      /\ up' = FALSE /\ elements' = 0 /\ wanted' = [aen |-> FALSE, gen |-> FALSE]
      /\ UNCHANGED <<window, tick, queue, task, fifo, battery, forced, late, leftover, killed>>
  BY DEF sensor_manager_deinit, ReleaseAsserts
<1> DEFINE s == [imu EXCEPT !.aen = FALSE, !.gen = FALSE]
<1>3. imu \in ImuState /\ Yields(imu_enter_low_power_mode(imu), s) /\ s.locks = imu.locks
  BY LowPowerYields DEF TypeOK, ImuState
<1> HIDE DEF s
<1>4. /\ imu' \in ImuState /\ imu'.locks = imu.locks /\ o.ok \in BOOLEAN
      /\ (~o.ok => faults + 1 \in 1..MaxFaults)
  BY <1>1, <1>3, Configured
<1>5. faults' \in 0..MaxFaults /\ faults \in Nat /\ (faults > 0 => faults' > 0) /\ (faults' = 0 => faults = 0)
  <2>1. faults \in 0..MaxFaults /\ MaxFaults \in Nat
    BY SensorsAssumption DEF TypeOK
  <2> QED BY <1>1, <1>4, <2>1
<1>6. SleepLockBalanced' /\ OneOfAKind' /\ task' \in [Workers -> TaskType]
  BY <1>2, <1>4, AtRest
<1>7. TypeOK'
  <2>1. crash' \in BOOLEAN /\ 0 \in 0..History
    BY <1>2, SensorsAssumption
  <2> QED BY <1>1, <1>2, <1>4, <1>5, <1>6, <2>1 DEF TypeOK, TaskType
<1>8. TasksInWindow' /\ DataInTime'
  BY <1>2, <1>5 DEF TasksInWindow, DataInTime, At
<1>9. SamplesFlow' /\ EnablesAsAsked'
  BY <1>2 DEF SamplesFlow, EnablesAsAsked
<1>10. DividerOnlySampling' /\ ReportNearMeasurement'
  BY <1>2, ReportKept DEF DividerOnlySampling, Running, At
<1>11. CrashHasCause'
  BY <1>2, <1>5 DEF CrashHasCause, DataInTime, TypeOK
<1> QED BY <1>6, <1>7, <1>8, <1>9, <1>10, <1>11

\* An operation of the driver
LEMMA CallHealthy ==
  ASSUME Healthy, NEW op \in ImuOps, ImuCall(op)
  PROVE  Healthy'
<1> USE DEF Healthy, SensorsInv
<1>1. PICK o \in Outcomes(ImuResult(op)) :
        imu' = o.imu /\ faults' = IF o.ok THEN faults ELSE faults + 1
  BY DEF ImuCall
<1>2. /\ up /\ ~crash /\ ~window /\ queue = <<>>
      /\ fifo' = (IF op = "reset_fifo" THEN 0 ELSE fifo) /\ wanted' = Asked(op)
      /\ UNCHANGED <<up, window, tick, queue, task, elements, bmp, battery, crash,
                     forced, late, leftover, killed>>
  BY DEF ImuCall
<1>3. PICK s : CallLeaves(op, s)
  BY CallYields, SensorsAssumption DEF TypeOK
<1>4. /\ imu' \in ImuState /\ imu'.locks = imu.locks /\ o.ok \in BOOLEAN
      /\ (o.ok => imu' = s) /\ (~o.ok => faults + 1 \in 1..MaxFaults)
  BY <1>1, <1>3, Configured DEF CallLeaves
<1>5. /\ faults' \in 0..MaxFaults /\ faults \in Nat /\ faults' \in Nat
      /\ (faults > 0 => faults' > 0) /\ (faults' = 0 => faults = 0 /\ o.ok)
  <2>1. faults \in 0..MaxFaults /\ MaxFaults \in Nat
    BY SensorsAssumption DEF TypeOK
  <2> QED BY <1>1, <1>4, <2>1
<1>6. SleepLockBalanced' /\ OneOfAKind' /\ task' \in [Workers -> TaskType]
  BY <1>2, <1>4, AtRest
<1>7. fifo' \in 0..Depth /\ (fifo <= 1 => fifo' <= 1)
  BY <1>2, SensorsAssumption DEF TypeOK
<1>8. TypeOK'
  BY <1>2, <1>3, <1>4, <1>5, <1>6, <1>7 DEF TypeOK, TaskType, CallLeaves
<1>9. TasksInWindow' /\ DataInTime'
  BY <1>2, <1>5, <1>7 DEF TasksInWindow, DataInTime, At
<1>10. SamplesFlow'
  <2> SUFFICES ASSUME imu'.fifo = "reading", ~(faults' > 0), killed' \cap {"reading", "timeout"} = {}
               PROVE  FALSE
    BY DEF SamplesFlow
  <2>1. o.ok /\ imu.fifo = "reading" /\ ~(faults > 0)
    BY <1>3, <1>4, <1>5 DEF CallLeaves
  <2>2. Running(ReadMode) = {}
    BY <1>2 DEF Running, TasksInWindow, ReadMode
  <2> QED BY <1>2, <2>1, <2>2 DEF SamplesFlow
<1>11. EnablesAsAsked'
  BY <1>2, <1>3, <1>4, <1>5 DEF EnablesAsAsked, CallLeaves
<1>12. DividerOnlySampling' /\ ReportNearMeasurement' /\ CrashHasCause'
  BY <1>2, ReportKept DEF DividerOnlySampling, Running, At, CrashHasCause
<1> QED BY <1>6, <1>8, <1>9, <1>10, <1>11, <1>12

-----------------------------------------------------------------------------
(* Windows                                                                 *)

\* All workers wait: nobody holds the lock, reads the sensor or samples the battery.
LEMMA NobodyRuns ==
  ASSUME task' = [w \in Workers |-> Idle]
  PROVE  /\ task' \in [Workers -> TaskType] /\ \A w \in Workers : task'[w] = Idle /\ task'[w].pc = "idle"
         /\ Cardinality(Running(Locked))' = 0 /\ \A S : "idle" \notin S => Running(S)' = {}
<1>1. task' \in [Workers -> TaskType] /\ \A w \in Workers : task'[w] = Idle /\ task'[w].pc = "idle"
  BY IdleType
<1>2. {w \in Workers : task'[w].pc \in Locked} = {}
  BY <1>1 DEF Locked
<1>3. Running(Locked)' = {}
  BY <1>2 DEF Running, At, Locked
<1>4. \A S : "idle" \notin S => Running(S)' = {}
  BY <1>1 DEF Running, At
<1> QED BY <1>1, <1>3, <1>4, FS_EmptySet

\* The watch restarts.
LEMMA RestartHealthy ==
  ASSUME Healthy, Restart
  PROVE  Healthy'
<1> USE DEF Healthy, SensorsInv
<1>1. /\ ~crash' /\ up' = FALSE /\ window' = FALSE /\ tick' = 0 /\ queue' = <<>>
      /\ task' = [w \in Workers |-> Idle] /\ imu' = [imu EXCEPT !.locks = 0]
      /\ elements' = 0 /\ bmp' = [bus |-> FALSE, cal |-> FALSE]
      /\ battery' = [divider |-> FALSE, first_run |-> TRUE, pct |-> 100, mv |-> 0]
      /\ late' = FALSE /\ leftover' = FALSE /\ killed' = {} /\ wanted' = [aen |-> FALSE, gen |-> FALSE]
      /\ UNCHANGED <<fifo, faults, forced>> /\ crash' = FALSE
  BY DEF Restart
<1>2. /\ task' \in [Workers -> TaskType] /\ \A w \in Workers : task'[w] = Idle /\ task'[w].pc = "idle"
      /\ Cardinality(Running(Locked))' = 0 /\ Running({"bat_sample"})' = {}
  BY <1>1, NobodyRuns
<1>3. imu' \in ImuState /\ imu'.locks = 0
  <2>1. imu \in ImuState
    BY DEF TypeOK
  <2> QED BY <1>1, <2>1 DEF ImuState
<1>4. battery' \in BatteryType /\ ~battery'.divider /\ battery'.first_run
  BY <1>1 DEF BatteryType
<1>5. TypeOK'
  <2>1. 0 \in 0..(SensorEvery - 1) /\ 0 \in 0..History /\ queue' \in Seq(Kinds) /\ Len(queue') <= QueueLen
    BY <1>1, SensorsAssumption
  <2> QED BY <1>1, <1>2, <1>3, <1>4, <2>1 DEF TypeOK, TaskType, BatteryType
<1>6. TasksInWindow' /\ OneOfAKind'
  BY <1>1, <1>2 DEF TasksInWindow, OneOfAKind, Busy, At
<1>7. DataInTime'
  BY <1>1, <1>2, IdleType DEF DataInTime
<1>8. SleepLockBalanced'
  BY <1>2, <1>3 DEF SleepLockBalanced
<1>9. SamplesFlow' /\ EnablesAsAsked' /\ CrashHasCause'
  BY <1>1 DEF SamplesFlow, EnablesAsAsked, CrashHasCause
<1>10. DividerOnlySampling' /\ ReportNearMeasurement'
  BY <1>2, <1>4 DEF DividerOnlySampling, ReportNearMeasurement
<1> QED BY <1>5, <1>6, <1>7, <1>8, <1>9, <1>10

\* Grace is over and the workers still running are deleted: what they held is on record.
LEMMA ForceHealthy ==
  ASSUME Healthy, ForceSleep
  PROVE  Healthy'
<1> USE DEF Healthy, SensorsInv
<1>1. /\ window /\ ~crash /\ forced < MaxForced /\ forced' = forced + 1 /\ window' = FALSE
      /\ task' = [w \in Workers |-> Idle]
      /\ \E m \in Modes(Running({"poll"})) : imu' = [imu EXCEPT !.fifo = m]
      /\ killed' = killed \cup (IF Running(Locked) # {} THEN {"locked"} ELSE {})
                          \cup (IF Running({"bat_sample"}) # {} THEN {"divider"} ELSE {})
                          \cup (IF imu'.fifo = "reading" /\ Running({"poll"} \cup ReadMode) # {}
                                THEN {"reading"} ELSE {})
      /\ leftover' = (leftover \/ queue # <<>>)
      /\ UNCHANGED <<up, tick, queue, fifo, elements, bmp, battery, crash, faults, late, wanted>>
  BY DEF ForceSleep
<1>2. /\ task' \in [Workers -> TaskType] /\ \A w \in Workers : task'[w] = Idle /\ task'[w].pc = "idle"
      /\ Cardinality(Running(Locked))' = 0 /\ Running({"bat_sample"})' = {}
  BY <1>1, NobodyRuns
<1>3. /\ killed' \subseteq {"locked", "divider", "reading", "timeout"} /\ killed \subseteq killed'
      /\ "locked" \notin killed' => Running(Locked) = {}
      /\ "divider" \notin killed' => Running({"bat_sample"}) = {}
      /\ imu'.fifo = "reading" /\ "reading" \notin killed' => Running({"poll"} \cup ReadMode) = {}
  BY <1>1 DEF TypeOK
<1>13. /\ imu' \in ImuState /\ imu'.locks = imu.locks /\ imu'.aen = imu.aen /\ imu'.gen = imu.gen
       /\ imu'.fifo = imu.fifo \/ (imu'.fifo = "reading" /\ Running({"poll"}) # {})
  <2>1. imu \in ImuState
    BY DEF TypeOK
  <2>2. PICK m \in Modes(Running({"poll"})) : imu' = [imu EXCEPT !.fifo = m]
    BY <1>1
  <2>3. m = imu.fifo \/ (m = "reading" /\ Running({"poll"}) # {})
    BY <2>2 DEF Modes
  <2> QED BY <2>1, <2>2, <2>3 DEF ImuState
<1>4. leftover' \in BOOLEAN /\ (~leftover' => ~leftover /\ queue = <<>>) /\ forced' \in 0..MaxForced
  <2>1. leftover \in BOOLEAN /\ forced \in 0..MaxForced /\ MaxForced \in Nat
    BY SensorsAssumption DEF TypeOK
  <2>2. forced' \in 0..MaxForced
    BY <1>1, <2>1
  <2>3. leftover' \in BOOLEAN /\ (~leftover' => ~leftover /\ queue = <<>>)
    BY <1>1, <2>1, Zenon
  <2> QED BY <2>2, <2>3
<1>5. TypeOK'
  BY <1>1, <1>2, <1>3, <1>4, <1>13 DEF TypeOK, TaskType
<1>6. TasksInWindow'
  BY <1>1, <1>2, <1>4 DEF TasksInWindow, At
<1>7. OneOfAKind'
  BY <1>1, <1>2, <1>4 DEF OneOfAKind, Busy, At
<1>8. DataInTime'
  BY <1>1, <1>2, IdleType DEF DataInTime
<1>9. SleepLockBalanced'
  <2>1. imu.locks \in Int /\ Cardinality(Running(Locked)) \in Nat
    BY Counted DEF TypeOK, ImuState
  <2>2. "locked" \notin killed' => Cardinality(Running(Locked)) = 0
    BY <1>3, FS_EmptySet
  <2>3. imu.locks >= 0 /\ ("locked" \notin killed' => imu.locks = 0)
    BY <1>3, <2>1, <2>2 DEF SleepLockBalanced
  <2> QED BY <1>1, <1>2, <1>13, <2>3 DEF SleepLockBalanced
<1>10. SamplesFlow'
  <2> SUFFICES ASSUME up', imu'.fifo = "reading", ~(faults' > 0), killed' \cap {"reading", "timeout"} = {}
               PROVE  FALSE
    BY DEF SamplesFlow
  <2>1. Running({"poll"} \cup ReadMode) = {}
    BY <1>3
  <2>2. Running({"poll"}) = {} /\ Running(ReadMode) = {}
    BY <2>1 DEF Running
  <2> QED BY <1>1, <1>3, <1>13, <2>2 DEF SamplesFlow
<1>11. DividerOnlySampling'
  <2> SUFFICES ASSUME "divider" \notin killed', ~leftover' PROVE ~battery'.divider
    BY <1>2 DEF DividerOnlySampling
  <2> QED BY <1>1, <1>3, <1>4 DEF DividerOnlySampling
<1>12. EnablesAsAsked' /\ CrashHasCause' /\ ReportNearMeasurement'
  BY <1>1, <1>13, ReportKept DEF EnablesAsAsked, CrashHasCause
<1> QED BY <1>5, <1>6, <1>7, <1>8, <1>9, <1>10, <1>11, <1>12

\* A step that changes no program counter, no sensor and no history
LEMMA SameCounters ==
  ASSUME Healthy, task' \in [Workers -> TaskType],
         \A w \in Workers : /\ task'[w].pc = task[w].pc /\ task'[w].len = task[w].len
                            /\ task'[w].pc = "idle" => task'[w] = Idle,
         UNCHANGED <<up, tick, queue, imu, fifo, elements, bmp, battery, crash, faults, history>>,
         window' \in BOOLEAN, window' => up,
         ~window' => (\A w \in Workers : At(w) = "idle") /\ (queue = <<>> \/ leftover)
  PROVE  Healthy'
<1> USE DEF Healthy, SensorsInv
<1>1. \A S : Running(S)' = Running(S)
  BY DEF Running, At
<1>2. Running(Locked)' = Running(Locked)
  BY DEF Running, At, Locked
<1>3. UNCHANGED <<forced, late, leftover, killed, wanted>>
  BY DEF history
<1>4. TypeOK'
  BY <1>3 DEF TypeOK, TaskType
<1>5. TasksInWindow'
  BY <1>3 DEF TasksInWindow, At
<1>6. OneOfAKind'
  <2>1. \A v \in Workers : (Busy(v)' <=> Busy(v)) /\ KindOf(At(v))' = KindOf(At(v))
    BY DEF Busy, At, KindOf, ImuPC, BmpPC
  <2> QED BY <1>3, <2>1 DEF OneOfAKind
<1>7. DataInTime'
  BY <1>3 DEF DataInTime
<1>8. SleepLockBalanced'
  BY <1>2, <1>3 DEF SleepLockBalanced
<1>9. SamplesFlow' /\ DividerOnlySampling'
  BY <1>1, <1>3 DEF SamplesFlow, DividerOnlySampling
<1>10. EnablesAsAsked' /\ CrashHasCause' /\ ReportNearMeasurement'
  BY <1>3, ReportKept DEF EnablesAsAsked, CrashHasCause
<1> QED BY <1>4, <1>5, <1>6, <1>7, <1>8, <1>9, <1>10

\* The window closes early, or the flags are raised.
LEMMA FlagsHealthy ==
  ASSUME Healthy, CloseEarly \/ RaiseFlags \/ UNCHANGED svars
  PROVE  Healthy'
<1>1. /\ task \in [Workers -> TaskType] /\ window \in BOOLEAN /\ TasksInWindow
  BY DEF Healthy, SensorsInv, TypeOK, TaskType
<1>2. \A w \in Workers : task[w].pc = "idle" => task[w] = Idle
  BY <1>1 DEF TasksInWindow, At
<1>3. CASE CloseEarly
  <2>1. /\ window' = FALSE /\ task' = task /\ queue = <<>> /\ \A w \in Workers : At(w) = "idle"
    BY <1>3 DEF CloseEarly, Running
  <2>2. UNCHANGED <<up, tick, queue, imu, fifo, elements, bmp, battery, crash, faults, history>>
    BY <1>3 DEF CloseEarly
  <2> QED BY <1>1, <1>2, <2>1, <2>2, SameCounters
<1>4. CASE RaiseFlags
  <2>1. /\ window /\ window' = window
        /\ task' = [w \in Workers |-> IF At(w) = "idle" THEN task[w] ELSE [task[w] EXCEPT !.flag = TRUE]]
        /\ UNCHANGED <<up, tick, queue, imu, fifo, elements, bmp, battery, crash, faults, history>>
    BY <1>4 DEF RaiseFlags
  <2>2. ASSUME NEW w \in Workers
        PROVE  /\ task'[w] \in TaskType /\ task'[w].pc = task[w].pc /\ task'[w].len = task[w].len
               /\ task'[w].pc = "idle" => task'[w] = Idle
    <3>1. task[w] \in TaskType
      BY <1>1
    <3>2. /\ [task[w] EXCEPT !.flag = TRUE] \in TaskType
          /\ [task[w] EXCEPT !.flag = TRUE].pc = task[w].pc /\ [task[w] EXCEPT !.flag = TRUE].len = task[w].len
      BY <3>1 DEF TaskType
    <3>3. task'[w] = IF At(w) = "idle" THEN task[w] ELSE [task[w] EXCEPT !.flag = TRUE]
      BY <2>1
    <3> QED BY <1>2, <3>1, <3>2, <3>3 DEF At
  <2>3. task' \in [Workers -> TaskType]
    BY <2>1, <2>2
  <2>4. up
    BY <1>1, <2>1 DEF TasksInWindow
  <2> QED BY <2>1, <2>2, <2>3, <2>4, SameCounters
<1>5. CASE UNCHANGED svars
  <2>1. /\ UNCHANGED <<up, tick, queue, imu, fifo, elements, bmp, battery, crash, faults, history>>
        /\ window' = window /\ task' = task
    BY <1>5 DEF svars
  <2>2. /\ window => up
        /\ ~window => (\A w \in Workers : At(w) = "idle") /\ (queue = <<>> \/ leftover)
    BY <1>1 DEF TasksInWindow
  <2> QED BY <1>1, <1>2, <2>1, <2>2, SameCounters
<1> QED BY <1>3, <1>4, <1>5

\* What is scheduled: as much as the queue holds, in order
LEMMA ScheduledItems ==
  ASSUME queue \in Seq(Kinds), NEW items \in Seq(Kinds)
  PROVE  /\ Scheduled(items) \in Seq(Kinds) /\ Len(Scheduled(items)) <= QueueLen
         /\ queue = <<>> => \A i \in DOMAIN Scheduled(items) :
                              i \in DOMAIN items /\ Scheduled(items)[i] = items[i]
<1> DEFINE all == queue \o items
           s == SubSeq(all, 1, QueueLen)
<1>1. /\ all \in Seq(Kinds) /\ Len(all) \in Nat /\ QueueLen \in Nat \ {0}
      /\ queue = <<>> => all = items
  BY ConcatProperties, ConcatEmptySeq, SensorsAssumption
<1>2. Scheduled(items) = IF Len(all) <= QueueLen THEN all ELSE s
  BY DEF Scheduled
<1> HIDE DEF all
<1>3. CASE Len(all) <= QueueLen
  BY <1>1, <1>2, <1>3
<1>4. CASE ~(Len(all) <= QueueLen)
  <2>1. \A i \in 1..QueueLen : all[i] \in Kinds
    BY <1>1, <1>4, ElementOfSeq
  <2>2. s \in Seq(Kinds) /\ Len(s) = QueueLen /\ \A i \in 1..QueueLen : s[i] = all[i]
    <3>1. 1 \in Int /\ QueueLen \in Int /\ 1 <= QueueLen /\ QueueLen - 1 + 1 = QueueLen
      BY <1>1
    <3>2. /\ s \in Seq(Kinds)
          /\ Len(s) = IF 1 <= QueueLen THEN QueueLen - 1 + 1 ELSE 0
          /\ \A i \in 1..(QueueLen - 1 + 1) : s[i] = all[1 + i - 1]
      BY <2>1, <3>1, SubSeqProperties
    <3>3. \A i \in 1..QueueLen : 1 + i - 1 = i
      BY <1>1
    <3> QED BY <3>1, <3>2, <3>3
  <2> HIDE DEF s
  <2>3. DOMAIN s = 1..QueueLen /\ DOMAIN all = 1..Len(all)
    BY <1>1, <2>2
  <2>4. \A i \in DOMAIN s : i \in DOMAIN all
    BY <1>1, <1>4, <2>3
  <2> QED BY <1>1, <1>2, <1>4, <2>2, <2>3, <2>4
<1> QED BY <1>3, <1>4

\* The items of a tick are different.
LEMMA TickItems ==
  /\ <<"imu", "bmp", "battery">> \in Seq(Kinds) /\ <<"imu">> \in Seq(Kinds)
  /\ \A i, j \in DOMAIN <<"imu", "bmp", "battery">> :
       <<"imu", "bmp", "battery">>[i] = <<"imu", "bmp", "battery">>[j] => i = j
  /\ \A i, j \in DOMAIN <<"imu">> : i = j
<1>1. <<"imu", "bmp", "battery">> \in Seq(Kinds) /\ <<"imu">> \in Seq(Kinds)
  BY DEF Kinds
<1> DEFINE s == <<"imu", "bmp", "battery">>
<1>2. DOMAIN s = 1..3 /\ s[1] = "imu" /\ s[2] = "bmp" /\ s[3] = "battery"
  OBVIOUS
<1>3. DOMAIN <<"imu">> = 1..1
  OBVIOUS
<1> HIDE DEF s
<1>4. \A i, j \in 1..3 : s[i] = s[j] => i = j
  BY <1>2
<1>5. \A i, j \in DOMAIN s : s[i] = s[j] => i = j
  BY <1>2, <1>4
<1>6. \A i, j \in 1..1 : i = j
  OBVIOUS
<1> QED BY <1>1, <1>3, <1>5, <1>6 DEF s

\* EVENT_WORK_TICK
LEMMA TickHealthy ==
  ASSUME Healthy, WorkTick
  PROVE  Healthy'
<1> USE DEF Healthy, SensorsInv
<1> DEFINE items == IF tick' = 0 THEN <<"imu", "bmp", "battery">> ELSE <<"imu">>
<1>1. /\ up /\ ~crash /\ ~window /\ window' = TRUE /\ tick' = (tick + 1) % SensorEvery
      /\ queue' = Scheduled(items)
      /\ fifo' = (IF imu.aen /\ imu.fifo = "stream" /\ fifo < Depth THEN fifo + 1 ELSE fifo)
      /\ late' = (late \/ fifo > 0)
      /\ UNCHANGED <<up, task, imu, elements, bmp, battery, crash, faults, forced, leftover, killed, wanted>>
  BY DEF WorkTick
<1>2. \A w \in Workers : task[w] = Idle /\ At(w) = "idle"
  BY <1>1 DEF TasksInWindow
<1>3. items \in Seq(Kinds) /\ \A i, j \in DOMAIN items : items[i] = items[j] => i = j
  BY TickItems
<1> HIDE DEF items
<1>4. /\ queue' \in Seq(Kinds) /\ Len(queue') <= QueueLen
      /\ queue = <<>> => \A i, j \in DOMAIN queue' : queue'[i] = queue'[j] => i = j
  BY <1>1, <1>3, ScheduledItems DEF TypeOK
<1>5. tick' \in 0..(SensorEvery - 1)
  BY <1>1, SensorsAssumption DEF TypeOK
<1>6. fifo' \in 0..Depth /\ (~late' => fifo' <= 1 /\ ~late) /\ late' \in BOOLEAN /\ (late => late')
  <2>1. fifo \in 0..Depth /\ Depth \in Nat /\ late \in BOOLEAN
    BY SensorsAssumption DEF TypeOK
  <2>2. fifo' \in 0..Depth /\ (~(fifo > 0) => fifo' <= 1)
    BY <1>1, <2>1
  <2>3. late' \in BOOLEAN /\ (late => late') /\ (~late' => ~late /\ ~(fifo > 0))
    <3> DEFINE g == fifo > 0
    <3>1. late' = (late \/ g) /\ g \in BOOLEAN
      BY <1>1, <2>1
    <3> HIDE DEF g
    <3>2. late' \in BOOLEAN /\ (late => late') /\ (~late' => ~late /\ ~g)
      BY <2>1, <3>1, Zenon
    <3> QED BY <3>2 DEF g
  <2> QED BY <2>2, <2>3
<1>7. TypeOK'
  BY <1>1, <1>4, <1>5, <1>6 DEF TypeOK
<1>8. TasksInWindow'
  BY <1>1, <1>2 DEF TasksInWindow, At
<1>9. OneOfAKind'
  <2>1. ~leftover' => queue = <<>>
    BY <1>1 DEF TasksInWindow
  <2>2. \A w \in Workers : ~Busy(w)'
    BY <1>1, <1>2 DEF Busy, At
  <2> QED BY <1>4, <2>1, <2>2 DEF OneOfAKind
<1>10. DataInTime'
  BY <1>1, <1>2, <1>6, IdleType DEF DataInTime
<1>11. SleepLockBalanced'
  BY <1>1 DEF SleepLockBalanced, Running, At, Locked
<1>12. SamplesFlow' /\ DividerOnlySampling'
  BY <1>1 DEF SamplesFlow, DividerOnlySampling, Running, At
<1>13. EnablesAsAsked' /\ CrashHasCause' /\ ReportNearMeasurement'
  BY <1>1, <1>6, ReportKept DEF EnablesAsAsked, CrashHasCause
<1> QED BY <1>7, <1>8, <1>9, <1>10, <1>11, <1>12, <1>13

\* A worker receives an item.
LEMMA ReceiveHealthy ==
  ASSUME Healthy, NEW w \in Workers, Receive(w)
  PROVE  Healthy'
<1> USE DEF Healthy, SensorsInv
<1> DEFINE h == Head(queue)
           t == [Idle EXCEPT !.pc = h]
<1>1. /\ window /\ ~crash /\ At(w) = "idle" /\ queue # <<>> /\ queue' = Tail(queue)
      /\ task' = [task EXCEPT ![w] = t]
      /\ UNCHANGED <<up, window, tick, imu, fifo, elements, bmp, battery, crash, faults>>
      /\ UNCHANGED <<forced, late, leftover, killed, wanted>>
  BY DEF Receive, history
<1>2. /\ queue \in Seq(Kinds) /\ Len(queue) <= QueueLen /\ QueueLen \in Nat
  BY SensorsAssumption DEF TypeOK
<1>3. /\ h \in Kinds /\ h = queue[1] /\ 1 \in DOMAIN queue
      /\ Tail(queue) \in Seq(Kinds) /\ Len(Tail(queue)) <= QueueLen
      /\ \A i \in DOMAIN Tail(queue) : i \in Nat \ {0} /\ i + 1 \in DOMAIN queue /\ Tail(queue)[i] = queue[i + 1]
  <2>1. /\ Tail(queue) \in Seq(Kinds) /\ Len(Tail(queue)) = Len(queue) - 1 /\ Head(queue) = queue[1]
        /\ \A i \in 1..Len(Tail(queue)) : Tail(queue)[i] = queue[i + 1]
    BY <1>1, <1>2, HeadTailProperties
  <2>2. Len(queue) \in Nat /\ DOMAIN queue = 1..Len(queue) /\ DOMAIN Tail(queue) = 1..Len(Tail(queue))
    BY <1>2, <2>1
  <2>3. Len(queue) >= 1
    BY <1>1, <1>2, <2>2
  <2>4. 1 \in 1..Len(queue) /\ queue[1] \in Kinds
    BY <1>2, <2>2, <2>3, ElementOfSeq
  <2> QED BY <1>2, <2>1, <2>2, <2>3, <2>4
<1> HIDE DEF h
<1>4. /\ t \in TaskType /\ t.pc = h /\ t.len = 0 /\ h # "idle" /\ KindOf(h) = h /\ h \notin Locked
      /\ h \notin ReadMode /\ h # "bat_sample"
  <2>1. h \in ImuPC \cup BmpPC \cup BatPC /\ h # "idle" /\ h \notin Locked /\ h \notin ReadMode /\ h # "bat_sample"
    BY <1>3 DEF Kinds, ImuPC, BmpPC, BatPC, Locked, ReadMode
  <2>2. KindOf(h) = h
    BY <1>3 DEF Kinds, KindOf, ImuPC, BmpPC
  <2> QED BY <2>1, <2>2, IdleType DEF TaskType
<1> HIDE DEF t
<1>5. /\ task'[w] = t /\ task' \in [Workers -> TaskType] /\ \A v \in Workers \ {w} : task'[v] = task[v]
  BY <1>1, <1>4, Replaced
<1>6. TypeOK'
  BY <1>1, <1>3, <1>5 DEF TypeOK, TaskType
<1>7. TasksInWindow'
  BY <1>1, <1>4, <1>5 DEF TasksInWindow, At
<1>8. OneOfAKind'
  <2> SUFFICES ASSUME ~leftover PROVE OneOfAKind'
    BY <1>1 DEF OneOfAKind
  <2>1. /\ \A i, j \in DOMAIN queue : queue[i] = queue[j] => i = j
        /\ \A i \in DOMAIN queue, v \in Workers : Busy(v) => queue[i] # KindOf(At(v))
        /\ \A v, u \in Workers : Busy(v) /\ Busy(u) /\ KindOf(At(v)) = KindOf(At(u)) => v = u
    BY DEF OneOfAKind
  <2>2. \A v \in Workers \ {w} : (Busy(v)' <=> Busy(v)) /\ KindOf(At(v))' = KindOf(At(v))
    BY <1>5 DEF Busy, At, KindOf, ImuPC, BmpPC
  <2>3. KindOf(At(w))' = h
    <3>1. At(w)' = h
      BY <1>4, <1>5 DEF At
    <3> QED BY <1>4, <3>1 DEF KindOf, ImuPC, BmpPC
  <2>4. \A i, j \in DOMAIN queue' : queue'[i] = queue'[j] => i = j
    BY <1>1, <1>3, <2>1
  <2>5. \A i \in DOMAIN queue' : queue'[i] # h
    <3> SUFFICES ASSUME NEW i \in DOMAIN Tail(queue) PROVE Tail(queue)[i] # h
      BY <1>1
    <3>1. i + 1 \in DOMAIN queue /\ Tail(queue)[i] = queue[i + 1] /\ i + 1 # 1
      BY <1>3
    <3> QED BY <1>3, <2>1, <3>1
  <2>6. \A i \in DOMAIN queue', v \in Workers : Busy(v)' => queue'[i] # KindOf(At(v))'
    <3> SUFFICES ASSUME NEW i \in DOMAIN Tail(queue), NEW v \in Workers, Busy(v)'
                 PROVE  queue'[i] # KindOf(At(v))'
      BY <1>1
    <3>1. CASE v = w
      BY <1>1, <2>3, <2>5, <3>1
    <3>2. CASE v # w
      BY <1>1, <1>3, <2>1, <2>2, <3>2
    <3> QED BY <3>1, <3>2
  <2>7. ASSUME NEW v \in Workers, NEW u \in Workers, Busy(v)', Busy(u)', KindOf(At(v))' = KindOf(At(u))'
        PROVE  v = u
    <3>1. \A x \in Workers \ {w} : Busy(x)' => KindOf(At(x))' # h
      BY <1>3, <2>1, <2>2
    <3> QED BY <2>1, <2>2, <2>3, <2>7, <3>1
  <2> QED BY <2>4, <2>6, <2>7 DEF OneOfAKind
<1>9. DataInTime'
  BY <1>1, <1>4, <1>5 DEF DataInTime
<1>10. \A pc : pc # "idle" /\ pc # h => \A v \in Workers : (task'[v].pc = pc <=> task[v].pc = pc)
  BY <1>1, <1>4, <1>5 DEF At
<1>11. SleepLockBalanced'
  <2>1. \A v \in Workers : task'[v].pc \in Locked <=> task[v].pc \in Locked
    BY <1>1, <1>4, <1>5 DEF At, Locked
  <2>2. Running(Locked)' = Running(Locked)
    BY <2>1 DEF Running, At, Locked
  <2> QED BY <1>1, <2>2 DEF SleepLockBalanced
<1>12. SamplesFlow' /\ DividerOnlySampling'
  <2>1. Running(ReadMode)' = Running(ReadMode) /\ Running({"bat_sample"})' = Running({"bat_sample"})
    BY <1>4, <1>10 DEF Running, At, ReadMode
  <2> QED BY <1>1, <2>1 DEF SamplesFlow, DividerOnlySampling
<1>13. EnablesAsAsked' /\ CrashHasCause' /\ ReportNearMeasurement'
  BY <1>1, ReportKept DEF EnablesAsAsked, CrashHasCause
<1> QED BY <1>6, <1>7, <1>8, <1>9, <1>11, <1>12, <1>13

\* The watch starts with its sensors down.
LEMMA HealthyInit == Init => Healthy
<1> SUFFICES ASSUME Init PROVE Healthy
  OBVIOUS
<1> USE DEF Init
<1>1. task \in [Workers -> TaskType] /\ \A w \in Workers : task[w] = Idle /\ task[w].pc = "idle"
  BY IdleType
<1>2. imu \in ImuState /\ imu.locks = 0
  BY DEF ImuState
<1>3. Running(Locked) = {} /\ Running({"bat_sample"}) = {}
  BY <1>1 DEF Running, At, Locked
<1>4. TypeOK
  <2>1. queue \in Seq(Kinds) /\ Len(queue) <= QueueLen /\ 0 \in 0..(SensorEvery - 1)
    BY SensorsAssumption
  <2>2. battery \in BatteryType
    BY DEF BatteryType
  <2>3. wanted \in [aen : BOOLEAN, gen : BOOLEAN] /\ bmp \in [bus : BOOLEAN, cal : BOOLEAN]
    OBVIOUS
  <2>4. /\ faults \in 0..MaxFaults /\ forced \in 0..MaxForced /\ fifo \in 0..Depth
        /\ elements \in 0..History /\ tick \in 0..(SensorEvery - 1)
    BY <2>1, SensorsAssumption
  <2>5. /\ up \in BOOLEAN /\ window \in BOOLEAN /\ crash \in BOOLEAN /\ late \in BOOLEAN
        /\ leftover \in BOOLEAN /\ killed \subseteq {"locked", "divider", "reading", "timeout"}
    OBVIOUS
  <2> HIDE DEF Init
  <2> QED BY <1>1, <1>2, <2>1, <2>2, <2>3, <2>4, <2>5 DEF TypeOK, TaskType, BatteryType
<1>5. TasksInWindow /\ OneOfAKind
  BY <1>1 DEF TasksInWindow, OneOfAKind, Busy, At
<1>6. DataInTime
  BY <1>1, IdleType DEF DataInTime
<1>7. SleepLockBalanced
  BY <1>2, <1>3, FS_EmptySet DEF SleepLockBalanced
<1>8. DividerOnlySampling /\ ReportNearMeasurement
  BY <1>3 DEF DividerOnlySampling, ReportNearMeasurement
<1>9. SamplesFlow /\ EnablesAsAsked /\ CrashHasCause
  BY DEF SamplesFlow, EnablesAsAsked, CrashHasCause
<1> QED BY <1>4, <1>5, <1>6, <1>7, <1>8, <1>9 DEF Healthy, SensorsInv

\* The invariant holds in every state.
LEMMA HealthyAlways == Spec => []Healthy
<1>1. Init => Healthy
  BY HealthyInit
<1>2. Healthy /\ [Next]_svars => Healthy'
  BY StartHealthy, StopHealthy, RestartHealthy, CallHealthy, TickHealthy, FlagsHealthy, ForceHealthy,
     ReceiveHealthy, HandlerHealthy DEF Next
<1> QED BY <1>1, <1>2, PTL DEF Spec

\* Whatever bus access fails and wherever a worker is deleted, and however often: the
\* sleep lock, the sensor's queue and the battery's divider are given back, or the
\* deletion, failed access or timed-out handshake that kept them is on record
\* (imu_driver.c, bmp180_driver.c, battery_driver.c).
THEOREM ResourcesReturnedCorrect == Spec => []ResourcesReturned
<1>1. Healthy => ResourcesReturned
  BY DEF Healthy, ResourcesReturned
<1> QED BY <1>1, HealthyAlways, PTL

\* The detector's assertion, the cleared barometer structure and the missing calibration
\* are reached only after a failed bus access or a late read (sensor_manager.c).
THEOREM CrashHasCauseCorrect == Spec => []CrashHasCause
<1>1. Healthy => CrashHasCause
  BY DEF Healthy
<1> QED BY <1>1, HealthyAlways, PTL

\* One worker at a time uses the motion sensor unless an item was left over from a window
\* closed by force, its sensors are enabled as the callers asked while no bus access has
\* failed, and the reported charge is within the hysteresis of the measured one.
THEOREM DevicesTruthfulCorrect == Spec => []DevicesTruthful
<1>1. Healthy => ImuExclusive
  <2> SUFFICES ASSUME Healthy, ~leftover, Cardinality(Running(ImuPC)) > 1 PROVE FALSE
    BY DEF ImuExclusive
  <2> DEFINE R == Running(ImuPC)
  <2>1. \A v, w \in R : v = w
    <3>1. \A w \in R : w \in Workers /\ Busy(w) /\ KindOf(At(w)) = "imu"
      BY Counters DEF Running, Busy
    <3> QED BY <3>1 DEF Healthy, SensorsInv, OneOfAKind
  <2>2. Cardinality(R) \in {0, 1}
    <3> HIDE DEF R
    <3>1. CASE R = {}
      BY <3>1, FS_EmptySet
    <3>2. CASE R # {}
      <4>1. PICK v : R = {v}
        BY <2>1, <3>2
      <4> QED BY <4>1, FS_Singleton
    <3> QED BY <3>1, <3>2
  <2> QED BY <2>2
<1>2. Healthy => DevicesTruthful
  BY <1>1 DEF Healthy, DevicesTruthful
<1> QED BY <1>2, HealthyAlways, PTL

-----------------------------------------------------------------------------
(* Induction and recursion                                                 *)

\* A set of numbers that is not empty has a least one.
LEMMA LeastNumber ==
  ASSUME NEW S, S \subseteq Nat, S # {}
  PROVE  \E n \in S : \A m \in S : n <= m
<1>1. PICK k \in S : TRUE
  OBVIOUS
<1> DEFINE T == {0..n : n \in {m \in S : m <= k}}
<1>2. T \subseteq SUBSET (0..k) /\ T # {}
  BY <1>1
<1>3. IsFiniteSet(0..k)
  BY <1>1, FS_Interval
<1>4. PICK t \in T : \A u \in T : <<u, t>> \notin StrictSubsetOrdering(0..k)
  <2> HIDE DEF T
  <2>1. IsWellFoundedOn(StrictSubsetOrdering(0..k), SUBSET (0..k))
    BY <1>3, FS_StrictSubsetOrderingWellFounded, FS_FiniteSubsetsOfFinite
  <2> QED BY <1>2, <2>1, WFMin
<1>5. PICK n \in S : n <= k /\ t = 0..n
  BY <1>4
<1>6. ASSUME NEW m \in S, m < n PROVE FALSE
  <2>1. 0..m \in T
    BY <1>5, <1>6
  <2>2. 0..m \subseteq 0..n /\ 0..m # 0..n
    BY <1>6
  <2> QED BY <1>2, <1>4, <1>5, <2>1, <2>2 DEF StrictSubsetOrdering
<1>7. \A m \in S : n <= m
  BY <1>6
<1> QED BY <1>7

\* Induction, over a set: a set that has 0, and the next of each number it has, has all.
LEMMA Induct ==
  ASSUME NEW S, 0 \in S, \A n \in Nat : n \in S => n + 1 \in S
  PROVE  Nat \subseteq S
<1>1. SUFFICES ASSUME Nat \ S # {} PROVE FALSE
  OBVIOUS
<1>2. PICK n \in Nat \ S : \A m \in Nat \ S : n <= m
  BY <1>1, LeastNumber
<1>3. n # 0 /\ n - 1 \in Nat /\ ~(n <= n - 1)
  BY <1>2
<1> QED BY <1>2, <1>3

\* g is defined on 0..N by its first value and a step from each value to the next
Recursion(g, N, X, base, step) ==
  g \in [0..N -> X] /\ g[0] = base /\ \A i \in 1..N : g[i] = step[<<i, g[i - 1]>>]

\* There is such a function.
LEMMA RecursionExists ==
  ASSUME NEW N \in Nat, NEW X, NEW base \in X, NEW step \in [(1..N) \X X -> X]
  PROVE  \E g : Recursion(g, N, X, base, step)
<1> DEFINE Good(g, n) == g[0] = base /\ \A i \in 1..n : g[i] = step[<<i, g[i - 1]>>]
           S == {n \in Nat : n <= N => \E g \in [0..n -> X] : Good(g, n)}
<1>1. 0 \in S
  <2> DEFINE g == [i \in 0..0 |-> base]
  <2>1. g \in [0..0 -> X] /\ Good(g, 0)
    OBVIOUS
  <2> HIDE DEF g, Good
  <2> QED BY <2>1
<1>2. ASSUME NEW n \in Nat, n \in S PROVE n + 1 \in S
  <2>1. SUFFICES ASSUME n + 1 <= N PROVE \E f \in [0..(n + 1) -> X] : Good(f, n + 1)
    OBVIOUS
  <2>2. PICK g \in [0..n -> X] : Good(g, n)
    BY <1>2, <2>1
  <2> DEFINE x == step[<<n + 1, g[n]>>]
             f == [i \in 0..(n + 1) |-> IF i = n + 1 THEN x ELSE g[i]]
  <2>3. x \in X
    BY <2>1, <2>2
  <2> HIDE DEF x
  <2>4. f \in [0..(n + 1) -> X]
    BY <2>2, <2>3
  <2>5. f[n + 1] = x /\ \A i \in 0..n : f[i] = g[i]
    OBVIOUS
  <2> HIDE DEF f
  <2>6. f[0] = base
    BY <2>2, <2>5
  <2>7. ASSUME NEW i \in 1..(n + 1) PROVE f[i] = step[<<i, f[i - 1]>>]
    <3>1. CASE i = n + 1
      BY <2>5, <3>1 DEF x
    <3>2. CASE i \in 1..n
      BY <2>2, <2>5, <3>2
    <3> QED BY <3>1, <3>2
  <2> QED BY <2>4, <2>6, <2>7
<1> HIDE DEF S
<1>3. N \in S
  BY <1>1, <1>2, Induct
<1> QED BY <1>3 DEF S, Recursion

\* The smaller and the larger of two numbers
LEMMA MinMaxOfTwo ==
  ASSUME NEW a \in Int, NEW b \in Int
  PROVE  /\ Min({a, b}) = IF a <= b THEN a ELSE b
         /\ Max({a, b}) = IF a >= b THEN a ELSE b
<1>1. PICK m \in {a, b} : \A y \in {a, b} : m <= y
  OBVIOUS
<1>2. Min({a, b}) \in {a, b} /\ \A y \in {a, b} : Min({a, b}) <= y
  <2> DEFINE P(x) == x \in {a, b} /\ \A y \in {a, b} : x <= y
  <2>1. \E x : P(x)
    BY <1>1
  <2>2. Min({a, b}) = CHOOSE x : P(x)
    BY DEF Min
  <2>3. P(CHOOSE x : P(x))
    <3> HIDE DEF P
    <3> QED BY <2>1, Zenon
  <2> QED BY <2>2, <2>3
<1>3. PICK n \in {a, b} : \A y \in {a, b} : n >= y
  OBVIOUS
<1>4. Max({a, b}) \in {a, b} /\ \A y \in {a, b} : Max({a, b}) >= y
  <2> DEFINE P(x) == x \in {a, b} /\ \A y \in {a, b} : x >= y
  <2>1. \E x : P(x)
    BY <1>3
  <2>2. Max({a, b}) = CHOOSE x : P(x)
    BY DEF Max
  <2>3. P(CHOOSE x : P(x))
    <3> HIDE DEF P
    <3> QED BY <2>1, Zenon
  <2> QED BY <2>2, <2>3
<1> QED BY <1>2, <1>4

-----------------------------------------------------------------------------
(* The search for peaks                                                    *)

\* The peaks the search up to sample n may hold: in their order, a step apart
Spaced(P, n) ==
  {c \in Seq([index : 1..n, prominence : P]) :
     \A a, b \in 1..Len(c) : a < b => c[b].index - c[a].index >= MinBetween}

\* append_peak_candidate takes the peak, takes it for the last one, or leaves it.
LEMMA AppendCases ==
  ASSUME NEW c, NEW i, NEW prom
  PROVE  LET peak == [index |-> i, prominence |-> prom] IN
         /\ c = <<>> \/ i - Last(c).index >= MinBetween =>
              append_peak_candidate(c, i, prom) = Append(c, peak)
         /\ ~(c = <<>> \/ i - Last(c).index >= MinBetween) =>
              append_peak_candidate(c, i, prom) \in {Append(Front(c), peak), c}
<1> DEFINE peak == [index |-> i, prominence |-> prom]
           new == c = <<>> \/ i - Last(c).index >= MinBetween
           more == prom > Last(c).prominence
<1>1. append_peak_candidate(c, i, prom) =
        IF new THEN Append(c, peak) ELSE IF more THEN Append(Front(c), peak) ELSE c
  BY DEF append_peak_candidate
<1> HIDE DEF peak, new, more
<1>2. (new => append_peak_candidate(c, i, prom) = Append(c, peak))
      /\ (~new => append_peak_candidate(c, i, prom) \in {Append(Front(c), peak), c})
  BY <1>1
<1> QED BY <1>2 DEF new, peak

\* One more sample keeps them so, whatever its prominence.
LEMMA CandidateAppended ==
  ASSUME NEW P, NEW n \in Nat, NEW c \in Spaced(P, n), NEW prom \in P,
         NEW i \in Nat, i = n + 1
  PROVE  append_peak_candidate(c, i, prom) \in Spaced(P, i) /\ c \in Spaced(P, i)
<1> DEFINE R(m) == [index : 1..m, prominence : P]
           peak == [index |-> i, prominence |-> prom]
<1>0. /\ c = <<>> \/ i - Last(c).index >= MinBetween =>
           append_peak_candidate(c, i, prom) = Append(c, peak)
      /\ ~(c = <<>> \/ i - Last(c).index >= MinBetween) =>
           append_peak_candidate(c, i, prom) \in {Append(Front(c), peak), c}
  BY AppendCases, Zenon
<1>1. c \in Seq(R(n)) /\ Len(c) \in Nat
      /\ \A a, b \in 1..Len(c) : a < b => c[b].index - c[a].index >= MinBetween
  BY LenProperties DEF Spaced
<1>2. R(n) \subseteq R(i) /\ peak \in R(i) /\ peak.index = i
  OBVIOUS
<1>3. \A a \in 1..Len(c) : c[a] \in R(n) /\ c[a].index \in Int /\ 1 <= c[a].index /\ c[a].index <= n
  <2>1. \A x \in R(n) : x.index \in Int /\ 1 <= x.index /\ x.index <= n
    OBVIOUS
  <2> HIDE DEF R, peak
  <2>2. \A a \in 1..Len(c) : c[a] \in R(n)
    BY <1>1, ElementOfSeq
  <2> QED BY <2>1, <2>2
<1> HIDE DEF R, peak
<1>4. c \in Seq(R(i))
  BY <1>1, <1>2, SeqMonotonic
<1>5. c \in Spaced(P, i)
  BY <1>1, <1>4 DEF Spaced, R
<1>6. MinBetween \in Nat /\ MinBetween > 0
  BY StepAssumption
<1>7. CASE c = <<>> \/ i - Last(c).index >= MinBetween
  <2> DEFINE d == Append(c, peak)
  <2>1. d \in Seq(R(i)) /\ Len(d) = Len(c) + 1 /\ d[Len(c) + 1] = peak
        /\ \A a \in 1..Len(c) : d[a] = c[a]
    BY <1>2, <1>4, AppendProperties
  <2> HIDE DEF d
  <2>2. ASSUME NEW a \in 1..Len(d), NEW b \in 1..Len(d), a < b
        PROVE  d[b].index - d[a].index >= MinBetween
    <3>1. CASE b <= Len(c)
      BY <1>1, <2>1, <2>2, <3>1
    <3>2. CASE b = Len(c) + 1
      <4>1. a \in 1..Len(c) /\ d[a] = c[a] /\ d[b].index = i /\ Len(c) > 0
        BY <1>1, <1>2, <2>1, <2>2, <3>2
      <4>2. i - c[Len(c)].index >= MinBetween
        BY <1>7, <4>1, EmptySeq DEF Last
      <4>3. c[a].index <= c[Len(c)].index
        <5>1. CASE a = Len(c)
          BY <1>3, <4>1, <5>1
        <5>2. CASE a < Len(c)
          <6>1. c[Len(c)].index - c[a].index >= MinBetween
            BY <1>1, <4>1, <5>2
          <6> QED BY <1>1, <1>3, <1>6, <4>1, <6>1
        <5> QED BY <1>1, <4>1, <5>1, <5>2
      <4> QED BY <1>1, <1>3, <1>6, <4>1, <4>2, <4>3
    <3>3. b <= Len(c) \/ b = Len(c) + 1
      BY <1>1, <2>1
    <3> QED BY <3>1, <3>2, <3>3
  <2>3. d \in Spaced(P, i)
    BY <2>1, <2>2 DEF Spaced, R
  <2>4. append_peak_candidate(c, i, prom) = d
    BY <1>0, <1>7 DEF d
  <2> QED BY <1>5, <2>3, <2>4
<1>8. CASE c # <<>> /\ ~(i - Last(c).index >= MinBetween)
  <2>1. Len(c) > 0
    BY <1>1, <1>8, EmptySeq
  <2> DEFINE f == Front(c)
             d == Append(f, peak)
  <2>2. f \in Seq(R(i)) /\ Len(f) = Len(c) - 1 /\ \A a \in 1..(Len(c) - 1) : f[a] = c[a]
    <3>1. Len(c) - 1 \in Int /\ \A a \in 1..(Len(c) - 1) : c[a] \in R(i)
      BY <1>1, <1>2, <1>3
    <3>2. /\ f \in Seq(R(i))
          /\ Len(f) = IF 1 <= Len(c) - 1 THEN Len(c) - 1 - 1 + 1 ELSE 0
          /\ \A a \in 1..(Len(c) - 1 - 1 + 1) : f[a] = c[1 + a - 1]
      <4>1. f = SubSeq(c, 1, Len(c) - 1)
        BY DEF Front
      <4> HIDE DEF f
      <4> QED BY <3>1, <4>1, SubSeqProperties
    <3> HIDE DEF f
    <3>3. Len(c) - 1 - 1 + 1 = Len(c) - 1 /\ \A a \in 1..(Len(c) - 1) : 1 + a - 1 = a
      BY <1>1
    <3>4. Len(f) = Len(c) - 1
      <4>1. Len(f) = IF 1 <= Len(c) - 1 THEN Len(c) - 1 - 1 + 1 ELSE 0
        BY <3>2
      <4>2. Len(c) \in Nat /\ Len(c) > 0
        BY <1>1, <2>1
      <4>3. CASE 1 <= Len(c) - 1
        <5>1. Len(f) = Len(c) - 1 - 1 + 1
          BY <4>1, <4>3
        <5> QED BY <4>2, <5>1
      <4>4. CASE ~(1 <= Len(c) - 1)
        <5>1. Len(f) = 0
          BY <4>1, <4>4, Zenon
        <5>2. \A m \in Nat : m > 0 /\ ~(1 <= m - 1) => m - 1 = 0
          OBVIOUS
        <5>3. Len(c) - 1 = 0
          BY <4>2, <4>4, <5>2, Zenon
        <5> QED BY <5>1, <5>3, Zenon
      <4> QED BY <4>3, <4>4
    <3> QED BY <3>2, <3>3, <3>4
  <2> HIDE DEF f
  <2>3. d \in Seq(R(i)) /\ Len(d) = Len(c) /\ d[Len(c)] = peak
        /\ \A a \in 1..(Len(c) - 1) : d[a] = c[a]
    <3>1. /\ d \in Seq(R(i)) /\ Len(d) = Len(f) + 1 /\ d[Len(f) + 1] = peak
          /\ \A a \in 1..Len(f) : d[a] = f[a]
      BY <1>2, <2>2, AppendProperties
    <3> HIDE DEF d
    <3> QED BY <1>1, <2>2, <3>1, SMTT(40)
  <2>4. d \in Spaced(P, i)
    <3> HIDE DEF d
    <3>1. ASSUME NEW a \in 1..Len(d), NEW b \in 1..Len(d), a < b
          PROVE  d[b].index - d[a].index >= MinBetween
      <4>1. CASE b < Len(c)
        BY <1>1, <2>3, <3>1, <4>1
      <4>2. CASE b = Len(c)
        <5>1. /\ a \in 1..(Len(c) - 1) /\ d[a] = c[a] /\ d[b].index = i
              /\ a \in 1..Len(c) /\ Len(c) \in 1..Len(c)
          BY <1>1, <1>2, <2>1, <2>3, <3>1, <4>2
        <5>2. c[Len(c)].index - c[a].index >= MinBetween
          BY <1>1, <5>1
        <5> QED BY <1>3, <1>6, <5>1, <5>2, SMTT(40)
      <4> QED BY <1>1, <2>3, <3>1, <4>1, <4>2
    <3> QED BY <2>3, <3>1 DEF Spaced, R
  <2>5. append_peak_candidate(c, i, prom) = d \/ append_peak_candidate(c, i, prom) = c
    BY <1>0, <1>8 DEF d, f
  <2> QED BY <1>5, <2>4, <2>5
<1> QED BY <1>7, <1>8

\* Every candidate found lies within the history, and they are a step apart.
LEMMA CandidatesSpaced ==
  ASSUME NEW h, NEW r, Len(h) \in Nat, Len(h) >= 3
  PROVE  \E P : Candidates(h, r) \in Spaced(P, Len(h) - 2)
<1> DEFINE N == Len(h) - 2
           prom(i) == calculate_peak_prominence(h, i, r)
           P == {prom(i) : i \in 1..N}
           R == [index : 1..N, prominence : P]
           X == Seq(R)
           peak(i) == SampleAt(h, i) >= SampleAt(h, i - 1) /\ SampleAt(h, i) >= SampleAt(h, i + 1) /\ prom(i) >= MinProminence
           body(c, i) == IF peak(i) THEN append_peak_candidate(c, i, prom(i)) ELSE c
           F == CHOOSE f : f = [i \in 0..N |-> IF i = 0 THEN <<>> ELSE body(f[i - 1], i)]
<1>1. Candidates(h, r) = F[N]
  BY DEF Candidates
<1>2. N \in Nat
  OBVIOUS
<1>3. \A i \in 1..N : prom(i) \in P
  OBVIOUS
<1>4. ASSUME NEW c \in X, NEW i \in 1..N PROVE body(c, i) \in X
  <2> DEFINE q == [index |-> i, prominence |-> prom(i)]
  <2>1. q \in R
    BY <1>3
  <2>2. append_peak_candidate(c, i, prom(i)) \in {Append(c, q), Append(Front(c), q), c}
    BY AppendCases, ZenonT(60)
  <2> HIDE DEF R, q, prom, peak
  <2>3. Append(c, q) \in Seq(R)
    BY <2>1, AppendProperties
  <2>4. Front(c) \in Seq(R) \/ c = <<>>
    <3>1. \A a \in 1..(Len(c) - 1) : c[a] \in R
      BY LenProperties, ElementOfSeq
    <3>2. Len(c) - 1 \in Int /\ 1 \in Int
      BY LenProperties
    <3> QED BY <3>1, <3>2, SubSeqProperties DEF Front
  <2>5. CASE c = <<>>
    <3>1. body(c, i) \in {Append(c, q), c}
      BY <2>5, AppendCases, Zenon DEF q
    <3> QED BY <2>3, <3>1
  <2>6. CASE Front(c) \in Seq(R)
    <3>1. Append(Front(c), q) \in Seq(R)
      BY <2>1, <2>6, AppendProperties
    <3> QED BY <2>2, <2>3, <3>1
  <2> QED BY <2>4, <2>5, <2>6
<1>5. PICK g \in [0..N -> X] : g[0] = <<>> /\ \A i \in 1..N : g[i] = body(g[i - 1], i)
  <2> DEFINE step == [p \in (1..N) \X X |-> body(p[2], p[1])]
  <2>1. step \in [(1..N) \X X -> X]
    <3> HIDE DEF body, X, N
    <3> QED BY <1>4
  <2>2. <<>> \in X
    BY EmptySeq
  <2>3. \A i \in 1..N, c \in X : step[<<i, c>>] = body(c, i)
    <3> HIDE DEF body, X, N
    <3> QED OBVIOUS
  <2> HIDE DEF step, body, X, N
  <2>9. \E g : Recursion(g, N, X, <<>>, step)
    BY <1>2, <2>1, <2>2, RecursionExists, Zenon
  <2>4. PICK g \in [0..N -> X] : g[0] = <<>> /\ \A i \in 1..N : g[i] = step[<<i, g[i - 1]>>]
    BY <2>9 DEF Recursion
  <2>5. \A i \in 1..N : g[i - 1] \in X
    BY <1>2, <2>4
  <2>6. \A i \in 1..N : g[i] = body(g[i - 1], i)
    BY <2>3, <2>4, <2>5
  <2> QED BY <2>4, <2>6
<1>6. g = [i \in 0..N |-> IF i = 0 THEN <<>> ELSE body(g[i - 1], i)]
  <2> HIDE DEF body, X, N
  <2> QED BY <1>2, <1>5
<1>7. F = [i \in 0..N |-> IF i = 0 THEN <<>> ELSE body(F[i - 1], i)]
  <2> HIDE DEF body, N
  <2> QED BY <1>6
<1> HIDE DEF F
<1>8. F[0] = <<>> /\ \A i \in 1..N : F[i] = body(F[i - 1], i)
  <2> HIDE DEF body, N
  <2>1. 0 \in 0..N /\ \A i \in 1..N : i \in 0..N /\ i # 0
    BY <1>2
  <2> QED BY <1>7, <2>1
<1> DEFINE S == {n \in Nat : n <= N => F[n] \in Spaced(P, n)}
<1>9. 0 \in S
  <2>1. <<>> \in Spaced(P, 0)
    <3>1. <<>> \in Seq([index : 1..0, prominence : P]) /\ Len(<<>>) = 0
      BY EmptySeq
    <3> QED BY <3>1 DEF Spaced
  <2> HIDE DEF P, N
  <2> QED BY <1>8, <2>1
<1>10. ASSUME NEW n \in Nat, n \in S PROVE n + 1 \in S
  <2>1. SUFFICES ASSUME n + 1 <= N PROVE F[n + 1] \in Spaced(P, n + 1)
    OBVIOUS
  <2>2. PICK i \in 1..N : i = n + 1 /\ i - 1 = n /\ i \in Nat
    BY <2>1
  <2>3. F[n] \in Spaced(P, n)
    BY <1>10, <2>1
  <2>4. prom(i) \in P
    BY <1>3
  <2> HIDE DEF P, prom, peak, N
  <2>5. append_peak_candidate(F[n], i, prom(i)) \in Spaced(P, i) /\ F[n] \in Spaced(P, i)
    BY <2>2, <2>3, <2>4, CandidateAppended
  <2>6. body(F[n], i) \in Spaced(P, i)
    BY <2>5
  <2> HIDE DEF body
  <2>7. F[i] = body(F[n], i)
    BY <1>8, <2>2
  <2> QED BY <2>2, <2>6, <2>7
<1>11. N \in S
  <2> HIDE DEF S, N
  <2> QED BY <1>2, <1>9, <1>10, Induct
<1> HIDE DEF P, N
<1>12. F[N] \in Spaced(P, N)
  BY <1>2, <1>11
<1> QED BY <1>1, <1>12 DEF N

\* The peaks of a window are candidates of the window or the sample before it.
LEMMA AcceptedAreCandidates ==
  ASSUME NEW h, NEW n, NEW p
  PROVE  LET c == Candidates(h, calculate_peak_radius(p.period)) IN
         Len(c) \in Nat =>
         \A x \in AcceptedPeaks(h, n, p) :
            \E k \in 1..Len(c) : x = c[k].index /\ x >= WindowBoundary(h, n)
<1> DEFINE r == calculate_peak_radius(p.period)
           cands == Candidates(h, r)
           clear(c) == 2 * c.prominence >= 3 * MinProminence
           deltas(k) == RhythmDeltas(cands, k, p.period)
           take(acc, k) ==
             /\ cands[k].index >= WindowBoundary(h, n)
             /\ VariedEnough(h, cands[k].index, r)
             /\ \/ ~is_walking /\ pending_steps = 0 /\ acc = {} /\ clear(cands[k])
                \/ ~p.confident /\ deltas(k) # {} /\ clear(cands[k])
                \/ /\ p.confident /\ deltas(k) # {}
                   /\ 10 * Min(deltas(k)) <= 3 * p.period
                   /\ 100 * cands[k].prominence >= 115 * MinProminence
           body(acc, k) == IF take(acc, k) THEN acc \cup {cands[k].index} ELSE acc
           N == Len(cands)
           F == CHOOSE f : f = [k \in 0..N |-> IF k = 0 THEN {} ELSE body(f[k - 1], k)]
           X == SUBSET {x \in {cands[k].index : k \in 1..N} : x >= WindowBoundary(h, n)}
<1> SUFFICES ASSUME N \in Nat, NEW x \in AcceptedPeaks(h, n, p)
             PROVE  \E k \in 1..N : x = cands[k].index /\ x >= WindowBoundary(h, n)
  OBVIOUS
<1>1. AcceptedPeaks(h, n, p) = F[N]
  BY DEF AcceptedPeaks
<1>2. ASSUME NEW acc \in X, NEW k \in 1..N PROVE body(acc, k) \in X
  <2>1. take(acc, k) => cands[k].index >= WindowBoundary(h, n)
    OBVIOUS
  <2> HIDE DEF take, cands
  <2> QED BY <2>1
<1>3. {} \in X
  OBVIOUS
<1> HIDE DEF body, cands, X, N
<1>4. PICK g \in [0..N -> X] : g[0] = {} /\ \A k \in 1..N : g[k] = body(g[k - 1], k)
  <2> DEFINE step == [q \in (1..N) \X X |-> body(q[2], q[1])]
  <2>1. step \in [(1..N) \X X -> X]
    BY <1>2
  <2>2. \A k \in 1..N, acc \in X : step[<<k, acc>>] = body(acc, k)
    OBVIOUS
  <2> HIDE DEF step
  <2>9. \E g : Recursion(g, N, X, {}, step)
    BY <1>3, <2>1, RecursionExists, Zenon
  <2>3. PICK g \in [0..N -> X] : g[0] = {} /\ \A k \in 1..N : g[k] = step[<<k, g[k - 1]>>]
    BY <2>9 DEF Recursion
  <2>4. \A k \in 1..N : g[k - 1] \in X
    BY <2>3
  <2> QED BY <2>2, <2>3, <2>4
<1>5. g = [k \in 0..N |-> IF k = 0 THEN {} ELSE body(g[k - 1], k)]
  BY <1>4
<1>6. F = [k \in 0..N |-> IF k = 0 THEN {} ELSE body(F[k - 1], k)]
  BY <1>5
<1> HIDE DEF F
<1>7. F[0] = {} /\ \A k \in 1..N : F[k] = body(F[k - 1], k)
  <2>1. 0 \in 0..N /\ \A k \in 1..N : k \in 0..N /\ k # 0
    OBVIOUS
  <2> QED BY <1>6, <2>1
<1> DEFINE S == {k \in Nat : k <= N => F[k] \in X}
<1>8. 0 \in S
  BY <1>3, <1>7
<1>9. ASSUME NEW k \in Nat, k \in S PROVE k + 1 \in S
  <2>1. SUFFICES ASSUME k + 1 <= N PROVE F[k + 1] \in X
    OBVIOUS
  <2>2. k + 1 \in 1..N /\ k + 1 - 1 = k /\ F[k] \in X
    BY <1>9, <2>1
  <2>3. F[k + 1] = body(F[k], k + 1)
    BY <1>7, <2>2
  <2> QED BY <1>2, <2>2, <2>3
<1>10. N \in S
  <2> HIDE DEF S
  <2> QED BY <1>8, <1>9, Induct
<1>11. F[N] \in X
  BY <1>10
<1> QED BY <1>1, <1>11 DEF X

-----------------------------------------------------------------------------
(* A window                                                                *)

\* The numbers of the detector
LEMMA StepNumbers ==
  /\ HistorySize \in Nat /\ MinSamples \in Nat /\ 4 <= MinSamples /\ MinSamples <= HistorySize
  /\ MinConsecutive \in Nat /\ MinConsecutive > 0 /\ HistorySize + MinConsecutive <= 256
  /\ QuietWindows \in Nat /\ QuietWindows > 0 /\ IdleSamples \in Nat /\ IdleSamples > 0
  /\ IdleMax \in Nat /\ IdleMax >= IdleSamples /\ MinBetween \in Nat /\ MinBetween > 0
  /\ \A n \in Windows : n \in Nat /\ 0 < n /\ n < MinSamples
BY StepAssumption

\* The steps of a window are samples of it or the one before it, never the newest; they
\* are a step apart, and fewer than the history is long.
LEMMA WindowSteps ==
  ASSUME NEW h, Len(h) \in Nat, NEW n, NEW p
  PROVE  LET W == stage1_detect_window_steps(h, n, p) IN
         /\ \A x \in W : /\ x \in 1..(Len(h) - 2) /\ x >= WindowBoundary(h, n)
                         /\ Len(h) >= MinSamples
         /\ \A x, y \in W : x < y => y - x >= MinBetween
         /\ Cardinality(W) \in Nat /\ Cardinality(W) <= Len(h)
<1> DEFINE W == stage1_detect_window_steps(h, n, p)
           r == calculate_peak_radius(p.period)
           c == Candidates(h, r)
<1>1. CASE Len(h) < MinSamples
  <2>1. W = {}
    BY <1>1 DEF stage1_detect_window_steps
  <2> HIDE DEF W
  <2>2. Cardinality(W) = 0
    BY <2>1, FS_EmptySet
  <2> QED BY <2>1, <2>2 DEF W
<1>2. CASE ~(Len(h) < MinSamples)
  <2>1. W = AcceptedPeaks(h, n, p)
    BY <1>2 DEF stage1_detect_window_steps
  <2>2. Len(h) >= 3 /\ Len(h) >= MinSamples
    BY <1>2, StepNumbers
  <2>3. PICK P : c \in Spaced(P, Len(h) - 2)
    BY <2>2, CandidatesSpaced
  <2>4. /\ Len(c) \in Nat
        /\ \A k \in 1..Len(c) : c[k].index \in 1..(Len(h) - 2)
        /\ \A a, b \in 1..Len(c) : a < b => c[b].index - c[a].index >= MinBetween
    <3> DEFINE R == [index : 1..(Len(h) - 2), prominence : P]
    <3>1. c \in Seq(R) /\ \A a, b \in 1..Len(c) : a < b => c[b].index - c[a].index >= MinBetween
      BY <2>3 DEF Spaced
    <3> HIDE DEF R, c
    <3>2. Len(c) \in Nat /\ \A k \in 1..Len(c) : c[k] \in R
      BY <3>1, LenProperties, ElementOfSeq
    <3>3. \A x \in R : x.index \in 1..(Len(h) - 2)
      BY DEF R
    <3> QED BY <3>1, <3>2, <3>3
  <2>5. \A x \in W : \E k \in 1..Len(c) : x = c[k].index /\ x >= WindowBoundary(h, n)
    BY <2>1, <2>4, AcceptedAreCandidates
  <2> HIDE DEF W, c
  <2>6. \A x \in W : x \in 1..(Len(h) - 2) /\ x >= WindowBoundary(h, n)
    BY <2>4, <2>5
  <2>7. ASSUME NEW x \in W, NEW y \in W, x < y PROVE y - x >= MinBetween
    <3>1. PICK a \in 1..Len(c) : x = c[a].index
      BY <2>5
    <3>2. PICK b \in 1..Len(c) : y = c[b].index
      BY <2>5
    <3>3. x \in Int /\ y \in Int /\ MinBetween \in Nat /\ MinBetween > 0
      BY <2>6, StepNumbers
    <3>4. a < b \/ a = b \/ b < a
      BY <2>4
    <3>5. b < a => x - y >= MinBetween
      BY <2>4, <3>1, <3>2
    <3>6. a < b
      BY <2>7, <3>1, <3>2, <3>3, <3>4, <3>5
    <3> QED BY <2>4, <3>1, <3>2, <3>6
  <2>8. Cardinality(W) \in Nat /\ Cardinality(W) <= Len(h)
    <3> DEFINE m == Len(h) - 2
    <3>1. W \subseteq 1..m /\ m \in Nat
      BY <2>2, <2>6
    <3> HIDE DEF m
    <3>2. IsFiniteSet(1..m) /\ Cardinality(1..m) = m
      <4>1. 1 \in Int /\ m \in Int
        BY <3>1
      <4>2. IsFiniteSet(1..m) /\ Cardinality(1..m) = IF 1 > m THEN 0 ELSE m - 1 + 1
        BY <4>1, FS_Interval
      <4> QED BY <3>1, <4>2
    <3>3. IsFiniteSet(W) /\ Cardinality(W) <= Cardinality(1..m)
      BY <3>1, <3>2, FS_Subset
    <3>4. Cardinality(W) \in Nat
      BY <3>3, FS_CardinalityType
    <3> QED BY <3>1, <3>2, <3>3, <3>4 DEF m
  <2> QED BY <2>2, <2>6, <2>7, <2>8 DEF W
<1> QED BY <1>1, <1>2

\* The history with a window in it
LEMMA InsertedIs ==
  ASSUME NEW s \in Seq(Level), NEW w \in Seq(Level), Len(s) <= HistorySize
  PROVE  /\ Inserted(s, w) \in Seq(Level)
         /\ Len(Inserted(s, w)) = IF Len(s) + Len(w) <= HistorySize THEN Len(s) + Len(w) ELSE HistorySize
<1> DEFINE all == s \o w
<1>1. all \in Seq(Level) /\ Len(all) = Len(s) + Len(w) /\ Len(all) \in Nat
  BY ConcatProperties, LenProperties
<1>2. Inserted(s, w) = IF Len(all) <= HistorySize THEN all
                       ELSE SubSeq(all, Len(all) - HistorySize + 1, Len(all))
  BY DEF Inserted
<1> HIDE DEF all
<1>3. CASE Len(all) <= HistorySize
  BY <1>1, <1>2, <1>3
<1>4. CASE ~(Len(all) <= HistorySize)
  <2> DEFINE m == Len(all) - HistorySize + 1
             t == SubSeq(all, m, Len(all))
  <2>1. m \in Int /\ Len(all) \in Int /\ \A i \in m..Len(all) : all[i] \in Level
    BY <1>1, <1>4, StepNumbers, ElementOfSeq
  <2>2. t \in Seq(Level) /\ Len(t) = IF m <= Len(all) THEN Len(all) - m + 1 ELSE 0
    <3> HIDE DEF m
    <3> QED BY <2>1, SubSeqProperties
  <2>3. m <= Len(all) /\ Len(all) - m + 1 = HistorySize
    BY <1>1, <1>4, StepNumbers
  <2> HIDE DEF m
  <2>4. Len(t) = HistorySize
    BY <2>2, <2>3
  <2> QED BY <1>1, <1>2, <1>4, <2>2, <2>4 DEF m
<1> QED BY <1>3, <1>4

\* The marks move with the samples, the new samples have none, and those in S get one.
ShiftedTo(t, marks, n, len, S) ==
  LET d == Len(marks) + n - len IN
  /\ t \in Seq(Nat) /\ Len(t) = len
  /\ \A k \in 1..len :
       t[k] = (IF d + k <= Len(marks) THEN marks[d + k] ELSE 0) + (IF k - 1 \in S THEN 1 ELSE 0)

\* Shifted does that.
LEMMA ShiftedIs ==
  ASSUME NEW marks \in Seq(Nat), NEW n \in Nat, NEW len \in Nat, len <= Len(marks) + n, NEW S
  PROVE  ShiftedTo(Shifted(marks, n, len, S), marks, n, len, S)
<1> DEFINE z == [k \in 1..n |-> 0]
           m == marks \o z
           kept == SubSeq(m, Len(m) - len + 1, Len(m))
           d == Len(marks) + n - len
           t == [k \in 1..len |-> kept[k] + IF k - 1 \in S THEN 1 ELSE 0]
<1>1. Len(marks) \in Nat /\ d \in Nat /\ \A j \in 1..Len(marks) : marks[j] \in Nat
  BY LenProperties, ElementOfSeq
<1>2. z \in Seq(Nat) /\ Len(z) = n /\ \A j \in 1..n : z[j] = 0
  OBVIOUS
<1> HIDE DEF z
<1>3. /\ m \in Seq(Nat) /\ Len(m) = Len(marks) + n
      /\ \A j \in 1..(Len(marks) + n) : m[j] = IF j <= Len(marks) THEN marks[j] ELSE 0
  <2>1. /\ m \in Seq(Nat) /\ Len(m) = Len(marks) + Len(z)
        /\ \A j \in 1..(Len(marks) + Len(z)) :
             m[j] = IF j <= Len(marks) THEN marks[j] ELSE z[j - Len(marks)]
    BY <1>2, ConcatProperties
  <2> HIDE DEF m
  <2>2. \A j \in 1..(Len(marks) + n) : ~(j <= Len(marks)) => z[j - Len(marks)] = 0
    BY <1>1, <1>2
  <2> QED BY <1>2, <2>1, <2>2
<1> HIDE DEF m
<1>4. /\ kept \in Seq(Nat) /\ Len(kept) = len
      /\ \A k \in 1..len : kept[k] = IF d + k <= Len(marks) THEN marks[d + k] ELSE 0
  <2> DEFINE a == Len(m) - len + 1
             b == Len(m)
  <2>1. a \in Int /\ b \in Int /\ a = d + 1 /\ b = d + len
    BY <1>1, <1>3
  <2>2. \A i \in a..b : m[i] \in Nat
    BY <1>1, <1>3, <2>1, ElementOfSeq
  <2>3. /\ kept \in Seq(Nat) /\ Len(kept) = IF a <= b THEN b - a + 1 ELSE 0
        /\ \A k \in 1..(b - a + 1) : kept[k] = m[a + k - 1]
    <3>1. kept = SubSeq(m, a, b)
      OBVIOUS
    <3> HIDE DEF kept, a, b
    <3> QED BY <2>1, <2>2, <3>1, SubSeqProperties
  <2> HIDE DEF kept, a, b, d
  <2>4. Len(kept) = len /\ b - a + 1 = len
    BY <1>1, <2>1, <2>3
  <2>5. ASSUME NEW k \in 1..len PROVE kept[k] = IF d + k <= Len(marks) THEN marks[d + k] ELSE 0
    <3>1. a + k - 1 = d + k
      BY <1>1, <2>1
    <3>2. kept[k] = m[d + k]
      BY <2>3, <2>4, <3>1
    <3>3. d + k \in 1..(Len(marks) + n)
      BY <1>1, <2>1 DEF d
    <3> QED BY <1>3, <3>2, <3>3
  <2> QED BY <2>3, <2>4, <2>5
<1> HIDE DEF kept
<1>5. \A k \in 1..len : kept[k] \in Nat
  BY <1>4, ElementOfSeq
<1>6. t \in Seq(Nat) /\ Len(t) = len
      /\ \A k \in 1..len : t[k] = kept[k] + IF k - 1 \in S THEN 1 ELSE 0
  BY <1>5
<1>7. Shifted(marks, n, len, S) = t
  BY DEF Shifted, kept, m, z
<1> HIDE DEF t
<1> QED BY <1>4, <1>6, <1>7 DEF ShiftedTo

-----------------------------------------------------------------------------
(* The marks                                                               *)

\* A window adds its marks to the samples of the window and the one before it, where
\* there were none; if it looks at samples, it looks at all of them but the newest.
LEMMA MarksMove ==
  ASSUME NEW n \in Nat, 0 < n, n < MinSamples, StepsCounted,
         NEW len \in Nat, len > 0, len <= Len(accel_history) + n,
         len = Len(accel_history) + n \/ len = HistorySize, NEW peaks,
         \A x \in peaks : x \in 1..(len - 2) /\ x >= len - n - 1 /\ len >= MinSamples
  PROVE  LET looked == IF len < MinSamples THEN {} ELSE Max({1, len - n - 1})..(len - 2)
             e == Shifted(examined, n, len, looked)
             c == Shifted(counted, n, len, peaks) IN
         /\ e \in Seq(Nat) /\ Len(e) = len /\ c \in Seq(Nat) /\ Len(c) = len
         /\ \A k \in 1..len : c[k] <= 1
         /\ \A k \in 1..len : e[k] > 0 => \A j \in k..(len - 1) : e[j] = 1
         /\ len # 0 => e[len] = 0 /\ c[len] = 0
         /\ len < MinSamples => \A k \in 1..len : e[k] = 0
<1> DEFINE looked == IF len < MinSamples THEN {} ELSE Max({1, len - n - 1})..(len - 2)
           e == Shifted(examined, n, len, looked)
           c == Shifted(counted, n, len, peaks)
           L == Len(accel_history)
           d == L + n - len
<1>1. /\ examined \in Seq(Nat) /\ Len(examined) = L /\ counted \in Seq(Nat) /\ Len(counted) = L
      /\ L \in Nat /\ L <= HistorySize
  BY LenProperties DEF StepsCounted, StepTypeOK
<1> HIDE DEF L
<1>2. /\ \A k \in 1..L : examined[k] \in Nat /\ counted[k] \in Nat /\ counted[k] <= 1
      /\ \A k \in 1..L : examined[k] > 0 => \A j \in k..(L - 1) : examined[j] = 1
      /\ L < MinSamples => \A k \in 1..L : examined[k] = 0
  <2>1. DOMAIN examined = 1..L /\ DOMAIN counted = 1..L
    BY <1>1, LenProperties
  <2> QED BY <1>1, <2>1, ElementOfSeq DEF StepsCounted, PeakCountedOnce, WindowsTile, MarksInv, L
<1>3. L > 0 => examined[L] = 0 /\ counted[L] = 0
  <2>1. L > 0 => accel_history # <<>>
    BY EmptySeq DEF L
  <2> QED BY <2>1 DEF StepsCounted, MarksInv, L
<1>4. d \in Nat /\ d = L + n - len
  BY <1>1 DEF L
<1> HIDE DEF d
<1>5. /\ e \in Seq(Nat) /\ Len(e) = len
      /\ \A k \in 1..len :
           e[k] = (IF d + k <= L THEN examined[d + k] ELSE 0) + (IF k - 1 \in looked THEN 1 ELSE 0)
  <2>1. len <= Len(examined) + n /\ Len(examined) + n - len = d
    BY <1>1, <1>4
  <2> HIDE DEF looked
  <2>2. ShiftedTo(e, examined, n, len, looked)
    BY <1>1, <2>1, ShiftedIs
  <2> HIDE DEF e
  <2> QED BY <1>1, <2>1, <2>2, Zenon DEF ShiftedTo
<1>6. /\ c \in Seq(Nat) /\ Len(c) = len
      /\ \A k \in 1..len :
           c[k] = (IF d + k <= L THEN counted[d + k] ELSE 0) + (IF k - 1 \in peaks THEN 1 ELSE 0)
  <2>1. len <= Len(counted) + n /\ Len(counted) + n - len = d
    BY <1>1, <1>4
  <2>2. ShiftedTo(c, counted, n, len, peaks)
    BY <1>1, <2>1, ShiftedIs
  <2> HIDE DEF c
  <2> QED BY <1>1, <2>1, <2>2, Zenon DEF ShiftedTo

<1>7. len < MinSamples => d = 0 /\ L < MinSamples /\ looked = {}
  BY <1>1, <1>4, StepNumbers DEF L
<1>8. len >= MinSamples =>
        \A k \in 1..len : k - 1 \in looked <=> k >= 2 /\ k >= len - n /\ k <= len - 1
  <2> DEFINE m == len - n - 1
             top == Max({1, m})
  <2>1. m \in Int /\ m = len - n - 1
    OBVIOUS
  <2>2. len >= MinSamples => looked = top..(len - 2)
    BY StepNumbers
  <2> HIDE DEF looked, m
  <2>3. top = IF 1 >= m THEN 1 ELSE m
    <3>1. 1 \in Int
      OBVIOUS
    <3> QED BY <2>1, <3>1, MinMaxOfTwo
  <2> HIDE DEF top
  <2>4. top \in Int /\ \A k \in Int : k - 1 >= top <=> k >= 2 /\ k >= len - n
    BY <2>1, <2>3
  <2>5. ASSUME len >= MinSamples, NEW k \in 1..len
        PROVE  k - 1 \in looked <=> k >= 2 /\ k >= len - n /\ k <= len - 1
    <3>1. k - 1 \in looked <=> k - 1 >= top /\ k - 1 <= len - 2
      <4>1. looked = top..(len - 2)
        BY <2>2, <2>5
      <4>2. k - 1 \in Int /\ len - 2 \in Int
        OBVIOUS
      <4> QED BY <2>4, <4>1, <4>2
    <3>2. k - 1 <= len - 2 <=> k <= len - 1
      OBVIOUS
    <3>3. k - 1 >= top <=> k >= 2 /\ k >= len - n
      <4>1. k \in Int
        OBVIOUS
      <4> QED BY <2>4, <4>1, Zenon
    <3> QED BY <3>1, <3>2, <3>3, Zenon
  <2> QED BY <2>5
<1> HIDE DEF e, c, looked
<1>9. \A k \in 1..len : k - 1 \in peaks => k >= len - n /\ k <= len - 1
  OBVIOUS
<1>10. ASSUME NEW k \in 1..len, k >= len - n
       PROVE  /\ (IF d + k <= L THEN examined[d + k] ELSE 0) = 0
              /\ (IF d + k <= L THEN counted[d + k] ELSE 0) = 0
  <2>1. d + k >= L
    BY <1>1, <1>4, <1>10
  <2>2. d + k <= L => d + k = L /\ L > 0
    BY <1>1, <1>4, <2>1
  <2> QED BY <1>3, <2>2
<1>11. ASSUME NEW k \in 1..len, k < len - n
       PROVE  /\ e[k] = examined[d + k] /\ c[k] = counted[d + k]
              /\ d + k \in 1..L /\ d + k < L
  <2>1. d + k \in 1..L /\ d + k < L /\ k - 1 \notin peaks
    BY <1>1, <1>4, <1>9, <1>11
  <2>2. k - 1 \notin looked
    BY <1>7, <1>8, <1>11, StepNumbers
  <2> QED BY <1>2, <1>5, <1>6, <2>1, <2>2
<1>12. \A k \in 1..len : k >= len - n =>
         /\ e[k] = (IF k - 1 \in looked THEN 1 ELSE 0)
         /\ c[k] = (IF k - 1 \in peaks THEN 1 ELSE 0)
  <2>1. ASSUME NEW k \in 1..len, k >= len - n
        PROVE  /\ e[k] = (IF k - 1 \in looked THEN 1 ELSE 0)
               /\ c[k] = (IF k - 1 \in peaks THEN 1 ELSE 0)
    <3>1. e[k] = 0 + (IF k - 1 \in looked THEN 1 ELSE 0)
      BY <1>5, <1>10, <2>1, Zenon
    <3>2. c[k] = 0 + (IF k - 1 \in peaks THEN 1 ELSE 0)
      BY <1>6, <1>10, <2>1, Zenon
    <3> QED BY <3>1, <3>2
  <2> QED BY <2>1
<1>13. \A k \in 1..len : c[k] <= 1
  <2>1. ASSUME NEW k \in 1..len PROVE c[k] <= 1
    <3>1. CASE k < len - n
      BY <1>2, <1>11, <3>1
    <3>2. CASE k >= len - n
      BY <1>12, <3>2
    <3> QED BY <1>4, <3>1, <3>2
  <2> QED BY <2>1
<1>14. len < MinSamples => \A k \in 1..len : e[k] = 0
  BY <1>2, <1>4, <1>7, <1>11, <1>12
<1>15. ASSUME NEW k \in 1..len, e[k] > 0, NEW j \in k..(len - 1)
       PROVE  e[j] = 1
  <2>1. len >= MinSamples /\ j \in 1..len /\ k <= j
    BY <1>14, <1>15, StepNumbers
  <2>2. CASE k < len - n
    <3>1. examined[d + k] > 0 /\ d + k \in 1..L /\ d + k < L
      BY <1>11, <1>15, <2>2
    <3>2. CASE j < len - n
      <4>1. d + j \in (d + k)..(L - 1)
        BY <1>1, <1>4, <2>1, <3>2, <1>11
      <4>2. e[j] = examined[d + j]
        BY <1>11, <2>1, <3>2
      <4> QED BY <1>2, <3>1, <4>1, <4>2
    <3>3. CASE j >= len - n
      <4>1. j - 1 \in looked
        BY <1>4, <1>8, <2>1, <2>2, <3>3
      <4> QED BY <1>12, <2>1, <3>3, <4>1
    <3> QED BY <1>4, <3>2, <3>3
  <2>3. CASE k >= len - n
    <3>1. k - 1 \in looked
      BY <1>12, <1>15, <2>3
    <3>2. j - 1 \in looked /\ j >= len - n
      BY <1>4, <1>8, <2>1, <2>3, <3>1
    <3> QED BY <1>12, <2>1, <3>2
  <2> QED BY <1>4, <2>2, <2>3
<1>16. e[len] = 0 /\ c[len] = 0
  <2>1. len \in 1..len /\ len >= len - n
    BY <1>4
  <2>2. len - 1 \notin peaks
    BY <1>4, <1>9, <2>1
  <2>3. len - 1 \notin looked
    BY <1>4, <1>7, <1>8, <2>1, StepNumbers
  <2> QED BY <1>12, <2>1, <2>2, <2>3
<1> QED BY <1>5, <1>6, <1>13, <1>14, <1>15, <1>16 DEF e, c, looked

-----------------------------------------------------------------------------
(* Reporting                                                               *)

\* What stage1_derive_accepted_steps_from_window leaves, and the bookkeeping of it: the
\* pause is the one measured, the steps that are held back are the ones still owed, and
\* the bout is as long as the detector takes it to be.
WellReported(res, ws, n) ==
  LET left == IF ws = 0 THEN Min({idle + n, IdleMax}) ELSE 0
      kept == IF left >= IdleSamples THEN 0 ELSE owed
      length == Min({MinConsecutive, IF left >= IdleSamples THEN 0 ELSE bout + ws})
  IN  /\ res.pending \in 0..(MinConsecutive - 1) /\ res.walking \in BOOLEAN
      /\ res.since \in 0..IdleMax /\ left = res.since
      /\ length = IF res.walking THEN MinConsecutive ELSE res.pending
      /\ kept + ws - res.steps = res.pending
      /\ res.walking => res.pending = 0
      /\ res.steps > 0 => length = MinConsecutive

\* The result of a window without steps
LEMMA DeriveNothing ==
  ASSUME NEW n
  PROVE  LET res == stage1_derive_accepted_steps_from_window(0, n) IN
         /\ res.steps = 0 /\ res.pending = IF TimedOut(n) THEN 0 ELSE pending_steps
         /\ res.walking = (is_walking /\ ~TimedOut(n))
         /\ res.since = Min({samples_since_valid_step + n, IdleMax})
<1> DEFINE x == is_walking /\ ~TimedOut(n)
           y == Min({samples_since_valid_step + n, IdleMax})
           z == IF TimedOut(n) THEN 0 ELSE pending_steps
<1>1. stage1_derive_accepted_steps_from_window(0, n) =
        [steps |-> 0, pending |-> z, walking |-> x, since |-> y]
  BY Zenon DEF stage1_derive_accepted_steps_from_window
<1> HIDE DEF x, y, z
<1>2. LET res == [steps |-> 0, pending |-> z, walking |-> x, since |-> y] IN
      res.steps = 0 /\ res.pending = z /\ res.walking = x /\ res.since = y
  OBVIOUS
<1> QED BY <1>1, <1>2, Zenon DEF x, y, z

\* The result of a window with steps
LEMMA DeriveSome ==
  ASSUME NEW ws, NEW n, ws # 0
  PROVE  LET res == stage1_derive_accepted_steps_from_window(ws, n)
             sum == Min({pending_steps + ws, 255}) IN
         /\ res.since = 0
         /\ is_walking => res.steps = ws /\ res.pending = 0 /\ res.walking = TRUE
         /\ ~is_walking /\ sum >= MinConsecutive =>
              res.steps = sum /\ res.pending = 0 /\ res.walking = TRUE
         /\ ~is_walking /\ ~(sum >= MinConsecutive) =>
              res.steps = 0 /\ res.pending = sum /\ res.walking = FALSE
<1> DEFINE res == stage1_derive_accepted_steps_from_window(ws, n)
           sum == Min({pending_steps + ws, 255})
           T == TRUE
           F == FALSE
<1>1. /\ is_walking => res = [steps |-> ws, pending |-> 0, walking |-> T, since |-> 0]
      /\ ~is_walking /\ sum >= MinConsecutive =>
           res = [steps |-> sum, pending |-> 0, walking |-> T, since |-> 0]
      /\ ~is_walking /\ ~(sum >= MinConsecutive) =>
           res = [steps |-> 0, pending |-> sum, walking |-> F, since |-> 0]
  BY Zenon DEF stage1_derive_accepted_steps_from_window
<1> HIDE DEF T, F, res, sum
<1>2. CASE is_walking
  <2>1. res.steps = ws /\ res.pending = 0 /\ res.walking = T /\ res.since = 0
    <3>1. res = [steps |-> ws, pending |-> 0, walking |-> T, since |-> 0]
      BY <1>1, <1>2, Zenon
    <3> QED BY <3>1
  <2> QED BY <1>2, <2>1, Zenon DEF T, res, sum
<1>3. CASE ~is_walking /\ sum >= MinConsecutive
  <2>1. res.steps = sum /\ res.pending = 0 /\ res.walking = T /\ res.since = 0
    <3>1. res = [steps |-> sum, pending |-> 0, walking |-> T, since |-> 0]
      BY <1>1, <1>3, Zenon
    <3> QED BY <3>1
  <2> QED BY <1>3, <2>1, Zenon DEF T, res, sum
<1>4. CASE ~is_walking /\ ~(sum >= MinConsecutive)
  <2>1. res.steps = 0 /\ res.pending = sum /\ res.walking = F /\ res.since = 0
    <3>1. res = [steps |-> 0, pending |-> sum, walking |-> F, since |-> 0]
      BY <1>1, <1>4, Zenon
    <3> QED BY <3>1
  <2> QED BY <1>4, <2>1, Zenon DEF F, res, sum
<1> QED BY <1>2, <1>3, <1>4

\* The bookkeeping agrees with the detector after every window.
LEMMA WindowReported ==
  ASSUME NEW ws \in Nat, NEW n \in Nat, ws <= HistorySize, StepTypeOK, BoutsReported
  PROVE  WellReported(stage1_derive_accepted_steps_from_window(ws, n), ws, n)
<1> DEFINE res == stage1_derive_accepted_steps_from_window(ws, n)
           left == IF ws = 0 THEN Min({idle + n, IdleMax}) ELSE 0
           kept == IF left >= IdleSamples THEN 0 ELSE owed
           total == IF left >= IdleSamples THEN 0 ELSE bout + ws
           length == Min({MinConsecutive, total})
           Fits == /\ res.pending \in Nat /\ res.pending <= MinConsecutive - 1
                   /\ res.walking \in BOOLEAN /\ res.since = left
                   /\ res.walking => res.pending = 0 /\ length = MinConsecutive
                   /\ ~res.walking => length = res.pending /\ res.steps = 0
                   /\ kept + ws - res.steps = res.pending
<1>1. /\ pending_steps \in Nat /\ pending_steps <= MinConsecutive - 1
      /\ is_walking \in BOOLEAN
      /\ samples_since_valid_step \in Nat /\ samples_since_valid_step <= IdleMax
      /\ idle = samples_since_valid_step /\ owed = pending_steps
  BY StepNumbers DEF StepTypeOK, BoutsReported, NoStepLost, BoutInv
<1>2. /\ is_walking => pending_steps = 0 /\ bout = MinConsecutive
      /\ ~is_walking => bout = pending_steps
  BY <1>1 DEF BoutsReported, NoStepLost, BoutInv
<1>3. bout \in Nat /\ bout <= MinConsecutive
  BY <1>1, <1>2, StepNumbers
<1>4. left \in Nat /\ left <= IdleMax /\ total \in Nat
      /\ (ws = 0 => left = Min({samples_since_valid_step + n, IdleMax}))
      /\ (left >= IdleSamples <=> ws = 0 /\ TimedOut(n))
  <2> DEFINE since == idle + n
  <2>1. since \in Nat /\ IdleMax \in Nat /\ since = samples_since_valid_step + n
    BY <1>1, StepNumbers
  <2>2. TimedOut(n) <=> since >= IdleSamples
    BY <1>1 DEF TimedOut
  <2> HIDE DEF since
  <2>3. Min({since, IdleMax}) = IF since <= IdleMax THEN since ELSE IdleMax
    <3>1. since \in Int /\ IdleMax \in Int
      BY <2>1
    <3> QED BY <3>1, MinMaxOfTwo
  <2>4. left = IF ws = 0 THEN Min({since, IdleMax}) ELSE 0
    BY DEF since
  <2> HIDE DEF left
  <2>5. left \in Nat /\ left <= IdleMax /\ (left >= IdleSamples <=> ws = 0 /\ TimedOut(n))
    BY <2>1, <2>2, <2>3, <2>4, StepNumbers
  <2>6. ws = 0 => left = Min({samples_since_valid_step + n, IdleMax})
    BY <2>1, <2>4
  <2> QED BY <1>3, <2>5, <2>6
<1> HIDE DEF left
<1>5. length = IF MinConsecutive <= total THEN MinConsecutive ELSE total
  <2> HIDE DEF total
  <2>1. MinConsecutive \in Int /\ total \in Int
    BY <1>4, StepNumbers
  <2> QED BY <2>1, MinMaxOfTwo
<1> HIDE DEF length
<1>6. ASSUME Fits PROVE WellReported(res, ws, n)
  <2> HIDE DEF res
  <2>1. res.pending \in 0..(MinConsecutive - 1) /\ res.since \in 0..IdleMax
    BY <1>4, <1>6, StepNumbers
  <2>2. res.steps > 0 => length = MinConsecutive
    BY <1>6
  <2>3. length = IF res.walking THEN MinConsecutive ELSE res.pending
    BY <1>6, Zenon
  <2> QED BY <1>6, <2>1, <2>2, <2>3, Zenon DEF WellReported, left, length
<1> HIDE DEF Fits
<1>7. CASE ws = 0
  <2>1. /\ res.steps = 0 /\ res.pending = IF TimedOut(n) THEN 0 ELSE pending_steps
        /\ res.walking = (is_walking /\ ~TimedOut(n))
        /\ res.since = Min({samples_since_valid_step + n, IdleMax})
    BY <1>7, DeriveNothing, Zenon
  <2> HIDE DEF res
  <2>2. res.since = left
    BY <1>4, <1>7, <2>1
  <2>3. CASE TimedOut(n)
    <3>1. res.pending = 0 /\ res.walking = FALSE
      BY <2>1, <2>3, Zenon
    <3>2. kept = 0 /\ total = 0
      BY <1>4, <1>7, <2>3
    <3>3. length = 0 /\ kept + ws - res.steps = 0
      BY <1>5, <1>7, <2>1, <3>2, StepNumbers
    <3>5. res.pending \in Nat /\ res.pending <= MinConsecutive - 1
      BY <3>1, StepNumbers
    <3>4. Fits
      BY <2>1, <2>2, <3>1, <3>3, <3>5 DEF Fits
    <3> QED BY <1>6, <3>4 DEF res
  <2>4. CASE ~TimedOut(n)
    <3>1. res.pending = pending_steps /\ res.walking = is_walking
      BY <1>1, <2>1, <2>4, Zenon
    <3>2. kept = pending_steps /\ total = bout
      BY <1>1, <1>3, <1>4, <1>7, <2>4
    <3>3. length = bout /\ kept + ws - res.steps = pending_steps
      BY <1>1, <1>3, <1>5, <1>7, <2>1, <3>2, StepNumbers
    <3>4. /\ res.pending \in Nat /\ res.pending <= MinConsecutive - 1
          /\ res.walking \in BOOLEAN
          /\ res.walking => res.pending = 0 /\ length = MinConsecutive
          /\ ~res.walking => length = res.pending
      BY <1>1, <1>2, <3>1, <3>3
    <3>5. Fits
      BY <2>1, <2>2, <3>1, <3>3, <3>4 DEF Fits
    <3> QED BY <1>6, <3>5 DEF res
  <2> QED BY <2>3, <2>4
<1>8. CASE ws # 0
  <2> DEFINE sum == Min({pending_steps + ws, 255})
  <2>1. /\ res.since = 0
        /\ is_walking => res.steps = ws /\ res.pending = 0 /\ res.walking = TRUE
        /\ ~is_walking /\ sum >= MinConsecutive =>
              res.steps = sum /\ res.pending = 0 /\ res.walking = TRUE
        /\ ~is_walking /\ ~(sum >= MinConsecutive) =>
              res.steps = 0 /\ res.pending = sum /\ res.walking = FALSE
    BY <1>8, DeriveSome, Zenon
  <2>2. sum = pending_steps + ws
    <3> DEFINE m == pending_steps + ws
    <3>1. m \in Int /\ 255 \in Int /\ m <= 255
      BY <1>1, StepNumbers
    <3> HIDE DEF m
    <3>2. Min({m, 255}) = m
      BY <3>1, MinMaxOfTwo
    <3> QED BY <3>2 DEF m
  <2> HIDE DEF res, sum
  <2>3. left = 0 /\ kept = pending_steps /\ total = bout + ws
    BY <1>1, <1>4, <1>8, StepNumbers DEF left
  <2> HIDE DEF kept, total
  <2>4. CASE is_walking
    <3>1. res.steps = ws /\ res.pending = 0 /\ res.walking = TRUE
      BY <2>1, <2>4, Zenon
    <3>2. length = MinConsecutive /\ kept + ws - res.steps = 0
      BY <1>1, <1>2, <1>5, <2>3, <2>4, <3>1, StepNumbers
    <3>5. res.pending \in Nat /\ res.pending <= MinConsecutive - 1
      BY <2>1, <2>3, <3>1, <3>2, StepNumbers
    <3>4. Fits
      BY <2>1, <2>3, <3>1, <3>2, <3>5 DEF Fits
    <3> QED BY <1>6, <3>4 DEF res
  <2>5. CASE ~is_walking /\ sum >= MinConsecutive
    <3>1. res.steps = sum /\ res.pending = 0 /\ res.walking = TRUE
      BY <2>1, <2>5, Zenon
    <3>2. length = MinConsecutive /\ kept + ws - res.steps = 0
      BY <1>1, <1>2, <1>5, <2>2, <2>3, <2>5, <3>1, StepNumbers
    <3>5. res.pending \in Nat /\ res.pending <= MinConsecutive - 1
      BY <2>1, <2>3, <3>1, <3>2, StepNumbers
    <3>4. Fits
      BY <2>1, <2>3, <3>1, <3>2, <3>5 DEF Fits
    <3> QED BY <1>6, <3>4 DEF res
  <2>6. CASE ~is_walking /\ ~(sum >= MinConsecutive)
    <3>1. res.steps = 0 /\ res.pending = sum /\ res.walking = FALSE
      BY <2>1, <2>6, Zenon
    <3>2. length = sum /\ kept + ws - res.steps = sum /\ sum \in Nat /\ sum <= MinConsecutive - 1
      BY <1>1, <1>2, <1>5, <2>2, <2>3, <2>6, <3>1, StepNumbers
    <3>5. res.pending \in Nat /\ res.pending <= MinConsecutive - 1
      BY <2>1, <2>3, <3>1, <3>2, StepNumbers
    <3>4. Fits
      BY <2>1, <2>3, <3>1, <3>2, <3>5 DEF Fits
    <3> QED BY <1>6, <3>4 DEF res
  <2> QED BY <2>4, <2>5, <2>6
<1> QED BY <1>7, <1>8

\* The count of windows without motion never runs ahead of those windows, and rest is
\* found only when it is full.
LEMMA StillCounted ==
  ASSUME NEW conf \in Confidences, StepTypeOK, BoutsReported
  PROVE  LET still == stage1_detect_no_motion(conf)
             q == IF conf = "low" THEN 0 ELSE Min({quiet + 1, QuietWindows + 1}) IN
         /\ still.count \in 0..QuietWindows /\ still.found \in BOOLEAN
         /\ q \in Nat /\ still.count <= q /\ (still.found => q > QuietWindows)
<1> DEFINE still == stage1_detect_no_motion(conf)
           m == Min({quiet + 1, QuietWindows + 1})
           q == IF conf = "low" THEN 0 ELSE m
           armed == no_motion_window_count >= QuietWindows
           higher == IF armed THEN no_motion_window_count ELSE no_motion_window_count + 1
           value == CASE conf = "low" -> 0
                      [] conf = "unsure" /\ armed -> higher - 1
                      [] OTHER -> higher
           rest == armed /\ conf = "high"
<1>1. still = [count |-> value, found |-> rest]
  BY Zenon DEF stage1_detect_no_motion
<1>2. still.count = value /\ still.found = rest
  <2> HIDE DEF still, value, rest
  <2> QED BY <1>1
<1>3. /\ no_motion_window_count \in Nat /\ no_motion_window_count <= QuietWindows
      /\ quiet \in Nat /\ no_motion_window_count <= quiet
  BY StepNumbers DEF StepTypeOK, BoutsReported, BoutInv
<1>4. QuietWindows \in Nat /\ QuietWindows > 0
  BY StepNumbers
<1>5. m = IF quiet <= QuietWindows THEN quiet + 1 ELSE QuietWindows + 1
  <2> DEFINE a == quiet + 1
             b == QuietWindows + 1
  <2>1. a \in Int /\ b \in Int /\ (a <= b <=> quiet <= QuietWindows)
    BY <1>3, <1>4
  <2> HIDE DEF a, b
  <2>2. Min({a, b}) = IF a <= b THEN a ELSE b
    BY <2>1, MinMaxOfTwo
  <2>3. m = Min({a, b})
    BY DEF a, b
  <2> HIDE DEF m
  <2>4. m = IF quiet <= QuietWindows THEN a ELSE b
    BY <2>1, <2>2, <2>3, Zenon
  <2> QED BY <2>4 DEF a, b
<1> HIDE DEF m, still
<1>6. higher \in Nat /\ higher <= QuietWindows /\ higher <= m /\ m \in Nat /\ (armed => m > QuietWindows /\ higher > 0)
  BY <1>3, <1>4, <1>5
<1>7. value \in {0, higher} \/ (armed /\ value = higher - 1)
  <2> HIDE DEF higher, armed
  <2> QED BY DEF Confidences
<1>8. conf = "low" => value = 0 /\ q = 0 /\ rest = FALSE
  OBVIOUS
<1>9. conf # "low" => q = m
  OBVIOUS
<1>10. rest => armed /\ conf # "low"
  OBVIOUS
<1>11. rest \in BOOLEAN
  OBVIOUS
<1> HIDE DEF value, q, higher, armed, rest
<1>12. value \in 0..QuietWindows /\ value <= m
  BY <1>4, <1>6, <1>7
<1>13. q \in Nat /\ value <= q /\ (rest => q > QuietWindows)
  BY <1>4, <1>6, <1>8, <1>9, <1>10, <1>12
<1>14. still.count \in 0..QuietWindows /\ still.found \in BOOLEAN
       /\ q \in Nat /\ still.count <= q /\ (still.found => q > QuietWindows)
  BY <1>2, <1>11, <1>12, <1>13, Zenon
<1> QED BY <1>14, Zenon DEF still, q, m

\* A window keeps what the marks and the bookkeeping say.
LEMMA WindowKeeps ==
  ASSUME StepsCounted, BoutsReported, NEW n \in Windows, NEW w \in [1..n -> Level],
         stage1_process_motion_data(w)
  PROVE  StepsCounted' /\ BoutsReported'
<1> DEFINE h == Inserted(accel_history, w)
           len == Len(h)
<1>1. n \in Nat /\ 0 < n /\ n < MinSamples
  BY StepNumbers
<1>2. w \in Seq(Level) /\ Len(w) = n
  BY <1>1
<1>3. StepTypeOK /\ accel_history \in Seq(Level) /\ Len(accel_history) \in Nat /\ Len(accel_history) <= HistorySize
  BY LenProperties DEF StepsCounted, StepTypeOK
<1>4. h \in Seq(Level) /\ len = IF Len(accel_history) + n <= HistorySize THEN Len(accel_history) + n ELSE HistorySize
  BY <1>2, <1>3, InsertedIs
<1>5. /\ len \in Nat /\ len > 0 /\ len <= HistorySize /\ len <= Len(accel_history) + n
      /\ len = Len(accel_history) + n \/ len = HistorySize
  <2> HIDE DEF h
  <2> QED BY <1>1, <1>3, <1>4, StepNumbers
<1> DEFINE Res(ws) == stage1_derive_accepted_steps_from_window(ws, n)
           Still(conf) == stage1_detect_no_motion(conf)
           Remaining(peaks, steps, conf) ==
             /\ no_motion_window_count' = Still(conf).count
             /\ result' = [peaks |-> peaks, steps |-> steps, no_motion |-> Still(conf).found]
             /\ quiet' = IF conf = "low" THEN 0 ELSE Min({quiet + 1, QuietWindows + 1})
           Body(peaks) ==
             /\ accel_history' = h
             /\ is_walking' = Res(Cardinality(peaks)).walking
             /\ pending_steps' = Res(Cardinality(peaks)).pending
             /\ samples_since_valid_step' = Res(Cardinality(peaks)).since
             /\ Observe(h, n, peaks, Res(Cardinality(peaks)).steps)
             /\ \E conf \in Confidences : Remaining(peaks, Res(Cardinality(peaks)).steps, conf)
<1>6. PICK p : Body(stage1_detect_window_steps(h, n, p))
  <2>1. \E peaks \in {stage1_detect_window_steps(h, n, p) : p \in Periodicities} : Body(peaks)
    BY <1>2, Zenon DEF stage1_process_motion_data
  <2> HIDE DEF Body, h
  <2> QED BY <2>1
<1> DEFINE peaks == stage1_detect_window_steps(h, n, p)
           ws == Cardinality(peaks)
           res == Res(ws)
<1>7. PICK conf \in Confidences : Remaining(peaks, res.steps, conf)
  BY <1>6, Zenon
<1> HIDE DEF h
<1>8. /\ \A x \in peaks : x \in 1..(len - 2) /\ x >= len - n - 1 /\ len >= MinSamples
      /\ \A x, y \in peaks : x < y => y - x >= MinBetween
      /\ ws \in Nat /\ ws <= len
  BY <1>5, WindowSteps DEF WindowBoundary
<1> HIDE DEF peaks
<1>9. ws <= HistorySize
  BY <1>5, <1>8, StepNumbers
<1> DEFINE looked == IF len < MinSamples THEN {} ELSE Max({1, len - n - 1})..(len - 2)
           e == Shifted(examined, n, len, looked)
           c == Shifted(counted, n, len, peaks)
           left == IF ws = 0 THEN Min({idle + n, IdleMax}) ELSE 0
           kept == IF left >= IdleSamples THEN 0 ELSE owed
           length == Min({MinConsecutive, IF left >= IdleSamples THEN 0 ELSE bout + ws})
<1>10. /\ accel_history' = h /\ examined' = e /\ counted' = c
       /\ idle' = left /\ bout' = length /\ owed' = kept + ws - res.steps
       /\ is_walking' = res.walking /\ pending_steps' = res.pending
       /\ samples_since_valid_step' = res.since
  <2> HIDE DEF Res
  <2> QED BY <1>6, Zenon DEF Observe, WindowBoundary, peaks
<1>11. /\ e \in Seq(Nat) /\ Len(e) = len /\ c \in Seq(Nat) /\ Len(c) = len
       /\ \A k \in 1..len : c[k] <= 1
       /\ \A k \in 1..len : e[k] > 0 => \A j \in k..(len - 1) : e[j] = 1
       /\ len # 0 => e[len] = 0 /\ c[len] = 0
       /\ len < MinSamples => \A k \in 1..len : e[k] = 0
  BY <1>1, <1>5, <1>8, MarksMove, Zenon
<1>12. WellReported(res, ws, n)
  BY <1>1, <1>3, <1>8, <1>9, WindowReported
<1>13. /\ res.pending \in 0..(MinConsecutive - 1) /\ res.walking \in BOOLEAN
       /\ res.since \in 0..IdleMax /\ left = res.since
       /\ length = IF res.walking THEN MinConsecutive ELSE res.pending
       /\ kept + ws - res.steps = res.pending
       /\ res.walking => res.pending = 0
       /\ res.steps > 0 => length = MinConsecutive
  BY <1>12, Zenon DEF WellReported
<1> DEFINE q == IF conf = "low" THEN 0 ELSE Min({quiet + 1, QuietWindows + 1})
           still == Still(conf)
<1>14. /\ still.count \in 0..QuietWindows /\ still.found \in BOOLEAN
       /\ q \in Nat /\ still.count <= q /\ (still.found => q > QuietWindows)
  BY <1>3, StillCounted, Zenon
<1>15. /\ no_motion_window_count' = still.count /\ quiet' = q
       /\ result' = [peaks |-> peaks, steps |-> res.steps, no_motion |-> still.found]
  BY <1>7, Zenon
<1> HIDE DEF e, c, left, kept, length, res, still, q, ws, looked
<1>16. /\ result'.peaks = peaks /\ result'.steps = res.steps /\ result'.no_motion = still.found
  <2> DEFINE x == still.found
             y == res.steps
  <2>1. result' = [peaks |-> peaks, steps |-> y, no_motion |-> x]
    BY <1>15
  <2> HIDE DEF x, y
  <2>2. result'.peaks = peaks /\ result'.steps = y /\ result'.no_motion = x
    BY <2>1
  <2> QED BY <2>2 DEF x, y
<1>17. StepTypeOK'
  BY <1>4, <1>5, <1>10, <1>11, <1>13, <1>14, <1>15, <1>16, Zenon DEF StepTypeOK
<1>18. DOMAIN e = 1..len /\ DOMAIN c = 1..len
  BY <1>11, LenProperties
<1>19. PeakCountedOnce' /\ WindowsTile'
  <2>1. PeakCountedOnce'
    BY <1>10, <1>11, <1>18, Zenon DEF PeakCountedOnce
  <2>2. WindowsTile'
    BY <1>10, <1>11, <1>18, Zenon DEF WindowsTile
  <2> QED BY <2>1, <2>2
<1>20. StepsSpaced'
  BY <1>8, <1>16, Zenon DEF StepsSpaced
<1>21. MarksInv'
  <2>1. e[len] = 0 /\ c[len] = 0
    <3>1. len # 0
      BY <1>5
    <3> QED BY <1>11, <3>1, Zenon
  <2>2. len < MinSamples => \A k \in DOMAIN e : e[k] = 0
    BY <1>11, <1>18, Zenon
  <2> QED BY <1>10, <2>1, <2>2, Zenon DEF MarksInv
<1>22. StepsCounted'
  BY <1>17, <1>19, <1>20, <1>21 DEF StepsCounted
<1>23. WalkConfirmed' /\ NoStepLost'
  BY <1>10, <1>13, <1>16, Zenon DEF WalkConfirmed, NoStepLost
<1>24. RestConfirmed'
  BY <1>14, <1>15, <1>16, Zenon DEF RestConfirmed
<1>25. BoutInv'
  BY <1>10, <1>13, <1>14, <1>15, Zenon DEF BoutInv
<1>26. BoutsReported'
  BY <1>23, <1>24, <1>25 DEF BoutsReported
<1> QED BY <1>22, <1>26

\* An engine that starts has neither samples nor steps.
LEMMA StepsBegin == StepInit => StepsCounted /\ BoutsReported
<1> SUFFICES ASSUME StepInit PROVE StepsCounted /\ BoutsReported
  OBVIOUS
<1>1. /\ <<>> \in Seq(Level) /\ <<>> \in Seq(Nat) /\ Len(<<>>) = 0 /\ DOMAIN <<>> = {}
  BY EmptySeq
<1>2. result.peaks = {} /\ result.steps = 0 /\ result.no_motion = FALSE
  BY DEF StepInit
<1>3. StepTypeOK
  <2>1. /\ 0 \in 0..(MinConsecutive - 1) /\ 0 \in 0..IdleMax /\ 0 \in 0..QuietWindows
        /\ 0 <= HistorySize
    BY StepNumbers
  <2>2. is_walking \in BOOLEAN /\ result.no_motion \in BOOLEAN
    BY <1>2, Zenon DEF StepInit
  <2> QED BY <1>1, <2>1, <2>2, Zenon DEF StepInit, StepTypeOK
<1>4. PeakCountedOnce /\ WindowsTile /\ StepsSpaced /\ MarksInv
  BY <1>1, <1>2 DEF StepInit, PeakCountedOnce, WindowsTile, StepsSpaced, MarksInv
<1>5. WalkConfirmed /\ NoStepLost /\ RestConfirmed /\ BoutInv
  BY <1>2, StepNumbers DEF StepInit, WalkConfirmed, NoStepLost, RestConfirmed, BoutInv
<1> QED BY <1>3, <1>4, <1>5 DEF StepsCounted, BoutsReported

\* Every window, and every start, keeps both.
LEMMA StepsKept == StepsCounted /\ BoutsReported /\ [StepNext]_stepVars => (StepsCounted /\ BoutsReported)'
<1> SUFFICES ASSUME StepsCounted, BoutsReported, [StepNext]_stepVars
             PROVE  (StepsCounted /\ BoutsReported)'
  OBVIOUS
<1>1. CASE \E n \in Windows : \E w \in [1..n -> Level] : stage1_process_motion_data(w)
  BY <1>1, WindowKeeps
<1>2. CASE stage1_init
  <2>1. StepInit'
    BY <1>2, Zenon DEF stage1_init, StepInit
  <2>2. (StepInit => StepsCounted /\ BoutsReported)'
    BY StepsBegin, PTL
  <2> QED BY <2>1, <2>2
<1>3. CASE UNCHANGED stepVars
  BY <1>3 DEF stepVars, ctx, StepsCounted, BoutsReported, StepTypeOK, PeakCountedOnce, WindowsTile,
     StepsSpaced, MarksInv, WalkConfirmed, NoStepLost, RestConfirmed, BoutInv
<1> QED BY <1>1, <1>2, <1>3 DEF StepNext

\* The windows of the step detector tile the signal, and its steps keep their distance and are
\* counted once, for every size of history and window and whatever the samples.
THEOREM StepsAreCounted == StepSpec => []StepsCounted
<1>1. StepInit => StepsCounted /\ BoutsReported
  BY StepsBegin
<1>2. StepsCounted /\ BoutsReported /\ [StepNext]_stepVars => (StepsCounted /\ BoutsReported)'
  BY StepsKept
<1> QED BY <1>1, <1>2, PTL DEF StepSpec

\* The detector reports the steps of a walk that is confirmed, all of them and none twice, and
\* rest only after enough quiet windows.
THEOREM BoutsAreReported == StepSpec => []BoutsReported
<1>1. StepInit => StepsCounted /\ BoutsReported
  BY StepsBegin
<1>2. StepsCounted /\ BoutsReported /\ [StepNext]_stepVars => (StepsCounted /\ BoutsReported)'
  BY StepsKept
<1> QED BY <1>1, <1>2, PTL DEF StepSpec

===============================================================================
