--------------------------- MODULE BlePacketProofs ----------------------------
(***************************************************************************)
(* Proofs about BlePacket, for every effective MTU, every size of fifo and *)
(* every set of messages: from the start of a stream on, messages arrive   *)
(* unchanged and in order until a packet is lost.                          *)
(*                                                                         *)
(* The bytes of the messages sent on a stream form one sequence.  The      *)
(* invariant names the position in it at which each packet begins and      *)
(* ends, in the fifo, on the air and at the receiver, and says that these  *)
(* positions join: sender, packets and receiver tile the stream.           *)
(***************************************************************************)
EXTENDS BlePacket, SequenceTheorems, TLAPS

-----------------------------------------------------------------------------
(* The stream of bytes                                                     *)

\* The bytes of a message: its header and its payload
FrameLen(m) == HeaderSize + Len(m.payload)
Byte(m, o) ==
  IF o = 1 THEN Magic ELSE IF o = 2 THEN m.op ELSE IF o = 3 THEN 0
  ELSE IF o = 4 THEN Len(m.payload) ELSE m.payload[o - HeaderSize]

\* B gives the position in the stream of the messages s at which each of them ends; the
\* next one begins there.
Bases(B, s) ==
  /\ B \in [0..Len(s) -> Nat]
  /\ \A k \in 1..Len(s) : B[k] = B[k - 1] + FrameLen(s[k])
  /\ \A i, j \in 0..Len(s) : i < j => B[i] + FrameLen(s[i + 1]) <= B[j]

\* No header is split at the position e.
Whole(B, s, e) == \A k \in 0..(Len(s) - 1) : e <= B[k] \/ e >= B[k] + HeaderSize

\* bytes are those of the stream from position p on, and end outside of a header.
Matches(B, s, bytes, p) ==
  /\ bytes \in Seq(Nat) /\ p \in Nat
  /\ p + Len(bytes) <= B[Len(s)] /\ Whole(B, s, p + Len(bytes))
  /\ \A i \in 1..Len(bytes), k \in 1..Len(s) : \A o \in 1..FrameLen(s[k]) :
       p + i = B[k - 1] + o => bytes[i] = Byte(s[k], o)

\* The positions when m follows
Longer(B, s, m) ==
  [k \in 0..(Len(s) + 1) |-> IF k <= Len(s) THEN B[k] ELSE B[Len(s)] + FrameLen(m)]

\* A frame is at least as long as its header.
LEMMA FrameFacts ==
  ASSUME NEW m \in Messages
  PROVE  /\ m.payload \in Seq(Nat) /\ Len(m.payload) \in Nat /\ m.op \in Nat
         /\ Len(m.payload) <= MaxPayload /\ m = [op |-> m.op, payload |-> m.payload]
         /\ FrameLen(m) \in Nat /\ FrameLen(m) >= 4 /\ FrameLen(m) = 4 + Len(m.payload)
<1>1. m \in [op : Nat, payload : Seq(Nat)] /\ Len(m.payload) <= MaxPayload
  BY PacketAssumption
<1>2. m.payload \in Seq(Nat) /\ m.op \in Nat /\ m = [op |-> m.op, payload |-> m.payload]
  BY <1>1
<1>3. Len(m.payload) \in Nat
  BY <1>2, LenProperties
<1> QED BY <1>1, <1>2, <1>3 DEF FrameLen, HeaderSize

\* The bytes of a frame are bytes.
LEMMA ByteFacts ==
  ASSUME NEW m \in Messages, NEW o \in 1..FrameLen(m)
  PROVE  Byte(m, o) \in Nat
<1>1. /\ m.payload \in Seq(Nat) /\ Len(m.payload) \in Nat /\ m.op \in Nat
      /\ FrameLen(m) = 4 + Len(m.payload) /\ Magic \in Nat
  BY FrameFacts, PacketAssumption
<1>2. o \in Int /\ (o > 4 => m.payload[o - 4] \in Nat)
  BY <1>1, ElementOfSeq
<1> QED BY <1>1, <1>2 DEF Byte, HeaderSize

\* One more message: the positions so far stay.
LEMMA BasesGrow ==
  ASSUME NEW B, NEW s \in Seq(Messages), NEW m \in Messages, Bases(B, s)
  PROVE  /\ Bases(Longer(B, s, m), Append(s, m))
         /\ \A k \in 0..Len(s) : Longer(B, s, m)[k] = B[k]
         /\ Longer(B, s, m)[Len(s) + 1] = B[Len(s)] + FrameLen(m)
<1> DEFINE C == Longer(B, s, m)
           t == Append(s, m)
           n == Len(s)
<1>1. /\ n \in Nat /\ Len(t) = n + 1 /\ t[n + 1] = m /\ \A k \in 1..n : t[k] = s[k] /\ s[k] \in Messages
  BY LenProperties, AppendProperties, ElementOfSeq
<1>2. FrameLen(m) \in Nat /\ FrameLen(m) >= 4 /\ \A k \in 1..n : FrameLen(s[k]) \in Nat
  BY <1>1, FrameFacts
<1>3. /\ \A k \in 0..n : B[k] \in Nat
      /\ \A k \in 1..n : B[k] = B[k - 1] + FrameLen(s[k])
      /\ \A i, j \in 0..n : i < j => B[i] + FrameLen(s[i + 1]) <= B[j]
  BY DEF Bases
<1>4. (\A k \in 0..n : C[k] = B[k]) /\ C[n + 1] = B[n] + FrameLen(m)
  BY <1>1 DEF Longer
<1>5. C \in [0..(n + 1) -> Nat]
  <2>1. ASSUME NEW k \in 0..(n + 1) PROVE (IF k <= n THEN B[k] ELSE B[n] + FrameLen(m)) \in Nat
    <3> HIDE DEF n
    <3>1. n \in Nat /\ n \in 0..n /\ (k <= n => k \in 0..n)
      BY <1>1
    <3>2. B[n] \in Nat /\ (k <= n => B[k] \in Nat)
      BY <1>3, <3>1
    <3>3. B[n] + FrameLen(m) \in Nat
      BY <1>2, <3>2
    <3> QED BY <3>2, <3>3
  <2> QED BY <2>1 DEF Longer
<1> HIDE DEF C, t, n
<1>6. ASSUME NEW k \in 1..(n + 1) PROVE C[k] = C[k - 1] + FrameLen(t[k])
  <2>1. CASE k = n + 1
    BY <1>1, <1>4, <2>1
  <2>2. CASE k \in 1..n
    BY <1>1, <1>3, <1>4, <2>2
  <2> QED BY <1>1, <2>1, <2>2
<1>7. ASSUME NEW i \in 0..(n + 1), NEW j \in 0..(n + 1), i < j
      PROVE  C[i] + FrameLen(t[i + 1]) <= C[j]
  <2>1. CASE j <= n
    <3>1. i \in 0..n /\ j \in 0..n /\ i + 1 \in 1..n
      BY <1>1, <1>7, <2>1
    <3>2. t[i + 1] = s[i + 1] /\ C[i] = B[i] /\ C[j] = B[j]
      BY <1>1, <1>4, <3>1
    <3> QED BY <1>3, <1>7, <3>1, <3>2
  <2>2. CASE j = n + 1 /\ i < n
    <3>1. i \in 0..n /\ n \in 0..n /\ i + 1 \in 1..n
      BY <1>1, <2>2
    <3>2. t[i + 1] = s[i + 1] /\ C[i] = B[i] /\ C[j] = B[n] + FrameLen(m)
      BY <1>1, <1>4, <2>2, <3>1
    <3>3. B[i] + FrameLen(s[i + 1]) <= B[n] /\ FrameLen(s[i + 1]) \in Nat /\ B[i] \in Nat /\ B[n] \in Nat
      BY <1>2, <1>3, <2>2, <3>1
    <3> QED BY <1>2, <3>2, <3>3
  <2>3. CASE j = n + 1 /\ i = n
    <3>1. t[i + 1] = m /\ C[i] = B[n] /\ C[j] = B[n] + FrameLen(m) /\ B[n] \in Nat
      BY <1>1, <1>3, <1>4, <2>3
    <3> QED BY <1>2, <3>1
  <2> QED BY <1>1, <1>7, <2>1, <2>2, <2>3
<1>8. Bases(C, t)
  BY <1>1, <1>5, <1>6, <1>7 DEF Bases
<1> QED BY <1>4, <1>8 DEF C, t, n

\* What is in place stays in place.
LEMMA MatchesGrow ==
  ASSUME NEW B, NEW s \in Seq(Messages), NEW m \in Messages, Bases(B, s), NEW bytes, NEW p,
         Matches(B, s, bytes, p)
  PROVE  Matches(Longer(B, s, m), Append(s, m), bytes, p)
<1> DEFINE C == Longer(B, s, m)
           t == Append(s, m)
           n == Len(s)
           L == Len(bytes)
<1>1. /\ n \in Nat /\ Len(t) = n + 1 /\ t[n + 1] = m /\ \A k \in 1..n : t[k] = s[k]
  BY LenProperties, AppendProperties
<1>2. (\A k \in 0..n : C[k] = B[k]) /\ C[n + 1] = B[n] + FrameLen(m)
  BY BasesGrow
<1>3. /\ bytes \in Seq(Nat) /\ p \in Nat /\ L \in Nat /\ p + L <= B[n] /\ Whole(B, s, p + L)
      /\ \A i \in 1..L, k \in 1..n : \A o \in 1..FrameLen(s[k]) :
           p + i = B[k - 1] + o => bytes[i] = Byte(s[k], o)
  BY LenProperties DEF Matches
<1>4. FrameLen(m) \in Nat /\ \A k \in 0..n : B[k] \in Nat
  BY FrameFacts DEF Bases
<1> HIDE DEF C, t, n, L
<1>5. p + L <= C[Len(t)]
  BY <1>1, <1>2, <1>3, <1>4
<1>6. Whole(C, t, p + L)
  <2>1. ASSUME NEW k \in 0..(Len(t) - 1) PROVE p + L <= C[k] \/ p + L >= C[k] + HeaderSize
    <3>1. CASE k = n
      BY <1>1, <1>2, <1>3, <3>1
    <3>2. CASE k < n
      <4>1. k \in 0..(n - 1) /\ k \in 0..n
        BY <1>1, <3>2
      <4> QED BY <1>2, <1>3, <4>1 DEF Whole, n
    <3> QED BY <1>1, <3>1, <3>2
  <2> QED BY <2>1 DEF Whole
<1>7. ASSUME NEW i \in 1..L, NEW k \in 1..Len(t), NEW o \in 1..FrameLen(t[k]), p + i = C[k - 1] + o
      PROVE  bytes[i] = Byte(t[k], o)
  <2>1. CASE k = n + 1
    <3>1. C[k - 1] = B[n] /\ B[n] \in Nat
      BY <1>1, <1>2, <1>4, <2>1
    <3>2. o \in Int /\ o >= 1
      BY <1>1, <1>4, <2>1
    <3> QED BY <1>3, <1>7, <3>1, <3>2
  <2>2. CASE k \in 1..n
    <3>1. t[k] = s[k] /\ k - 1 \in 0..n /\ C[k - 1] = B[k - 1]
      BY <1>1, <1>2, <2>2
    <3> QED BY <1>3, <1>7, <2>2, <3>1
  <2> QED BY <1>1, <2>1, <2>2
<1>8. Matches(C, t, bytes, p)
  BY <1>3, <1>5, <1>6, <1>7 DEF Matches, L
<1> QED BY <1>8 DEF C, t

\* The position of byte o of message k
Pos(B, k, o) == B[k - 1] + o

\* A position within the frame of a message is within no other.
Apart(B, s) ==
  \A j, k \in 1..Len(s) : \A q \in 1..FrameLen(s[j]), o \in 1..FrameLen(s[k]) :
    Pos(B, j, q) = Pos(B, k, o) => j = k /\ q = o

\* The frames of the stream do not overlap.
LEMMA FrameOf ==
  ASSUME NEW B, NEW s \in Seq(Messages), Bases(B, s)
  PROVE  Apart(B, s)
<1> SUFFICES ASSUME NEW j \in 1..Len(s), NEW k \in 1..Len(s),
                    NEW q \in 1..FrameLen(s[j]), NEW o \in 1..FrameLen(s[k]),
                    B[j - 1] + q = B[k - 1] + o
             PROVE  j = k /\ q = o
  BY DEF Apart, Pos
<1>1. Len(s) \in Nat /\ FrameLen(s[j]) \in Nat /\ FrameLen(s[k]) \in Nat
  BY LenProperties, ElementOfSeq, FrameFacts
<1>2. j - 1 \in 0..Len(s) /\ k - 1 \in 0..Len(s) /\ j - 1 + 1 = j /\ k - 1 + 1 = k
  BY <1>1
<1>3. B[j - 1] \in Nat /\ B[k - 1] \in Nat
  BY <1>2 DEF Bases
<1>4. \A a, b \in 0..Len(s) : a < b => B[a] + FrameLen(s[a + 1]) <= B[b]
  BY DEF Bases
<1>5. j < k => B[j - 1] + FrameLen(s[j]) <= B[k - 1]
  <2> SUFFICES ASSUME j < k PROVE B[j - 1] + FrameLen(s[j]) <= B[k - 1]
    OBVIOUS
  <2>1. j - 1 < k - 1
    BY <1>1
  <2> QED BY <1>2, <1>4, <2>1
<1>6. k < j => B[k - 1] + FrameLen(s[k]) <= B[j - 1]
  <2> SUFFICES ASSUME k < j PROVE B[k - 1] + FrameLen(s[k]) <= B[j - 1]
    OBVIOUS
  <2>1. k - 1 < j - 1
    BY <1>1
  <2> QED BY <1>2, <1>4, <2>1
<1>7. q \in Int /\ o \in Int /\ 1 <= q /\ q <= FrameLen(s[j]) /\ 1 <= o /\ o <= FrameLen(s[k])
  BY <1>1
<1>8. j = k
  <2>1. ~(j < k)
    BY <1>1, <1>3, <1>5, <1>7
  <2>2. ~(k < j)
    BY <1>1, <1>3, <1>6, <1>7
  <2> QED BY <1>1, <2>1, <2>2
<1> QED BY <1>3, <1>7, <1>8

\* Nothing, at a position within the stream where no header is split
LEMMA NothingMatches ==
  ASSUME NEW B, NEW s, NEW p \in Nat, p <= B[Len(s)], Whole(B, s, p)
  PROVE  Matches(B, s, <<>>, p)
<1>1. <<>> \in Seq(Nat) /\ Len(<<>>) = 0 /\ p + 0 = p
  BY EmptySeq
<1> QED BY <1>1 DEF Matches

\* Two frames back there is no header left to split.
LEMMA WholeBehind ==
  ASSUME NEW B, NEW s \in Seq(Messages), Bases(B, s), NEW n \in 1..Len(s), n = Len(s), NEW e \in Nat,
         e >= B[n - 1] + 4
  PROVE  Whole(B, s, e)
<1>1. n \in Nat /\ n > 0 /\ n - 1 \in 0..n
  BY LenProperties
<1>2. /\ \A k \in 0..n : B[k] \in Nat
      /\ \A i, j \in 0..n : i < j => B[i] + FrameLen(s[i + 1]) <= B[j]
  BY DEF Bases
<1>3. ASSUME NEW k \in 0..(n - 1) PROVE e >= B[k] + 4
  <2>1. CASE k = n - 1
    BY <2>1
  <2>2. CASE k < n - 1
    <3>1. k \in 0..n /\ k + 1 \in 1..Len(s)
      BY <1>1
    <3>2. B[k] + FrameLen(s[k + 1]) <= B[n - 1]
      BY <1>1, <1>2, <2>2, <3>1
    <3>3. FrameLen(s[k + 1]) \in Nat /\ FrameLen(s[k + 1]) >= 4
      BY <3>1, ElementOfSeq, FrameFacts
    <3>4. B[k] \in Nat /\ B[n - 1] \in Nat
      BY <1>1, <1>2, <3>1
    <3> QED BY <3>2, <3>3, <3>4
  <2> QED BY <1>1, <2>1, <2>2
<1> QED BY <1>3 DEF Whole, HeaderSize

\* c is the piece of m's frame behind its first q bytes.
Piece(c, m, q) == \A i \in 1..Len(c) : c[i] = Byte(m, q + i)

\* A piece of the last frame behind what ends where the piece begins; a header is written
\* as a whole.
LEMMA PieceMatches ==
  ASSUME NEW B, NEW s \in Seq(Messages), Bases(B, s), NEW n \in 1..Len(s), n = Len(s),
         NEW bytes \in Seq(Nat), NEW p \in Nat, Matches(B, s, bytes, p), NEW c \in Seq(Nat), NEW q \in Nat,
         p + Len(bytes) = B[n - 1] + q, q + Len(c) <= FrameLen(s[n]), q + Len(c) >= 4, Piece(c, s[n], q)
  PROVE  Matches(B, s, bytes \o c, p)
<1> DEFINE d == bytes \o c
<1>L. PICK L \in Nat : L = Len(bytes)
  BY LenProperties
<1>M. PICK M \in Nat : M = Len(c)
  BY LenProperties
<1>a. p + L = B[n - 1] + q /\ q + M <= FrameLen(s[n]) /\ q + M >= 4
  BY <1>L, <1>M
<1>1. /\ bytes \in Seq(Nat) /\ p \in Nat
      /\ \A i \in 1..L, k \in 1..n : \A o \in 1..FrameLen(s[k]) :
           p + i = B[k - 1] + o => bytes[i] = Byte(s[k], o)
  BY <1>L DEF Matches
<1>p. p \in Nat
  BY <1>1
<1>2. n \in Nat /\ n > 0 /\ FrameLen(s[n]) \in Nat
  <2>1. n \in Nat /\ n > 0
    BY LenProperties
  <2>2. s[n] \in Messages
    BY ElementOfSeq
  <2> QED BY <2>1, <2>2, FrameFacts
<1>3. /\ d \in Seq(Nat) /\ Len(d) = L + M
      /\ \A i \in 1..(L + M) : d[i] = IF i <= L THEN bytes[i] ELSE c[i - L]
  <2>1. bytes \in Seq(Nat) /\ Len(bytes) = L /\ Len(c) = M
    BY <1>1, <1>L, <1>M
  <2> QED BY <2>1, ConcatProperties
<1>4. \A k \in 0..n : B[k] \in Nat
  BY DEF Bases
<1>5. n - 1 \in 0..n /\ n \in 1..n /\ B[n - 1] \in Nat
  BY <1>2, <1>4
<1>6. B[n] = B[n - 1] + FrameLen(s[n])
  BY <1>5 DEF Bases
<1> HIDE DEF d
<1>7. p + Len(d) <= B[n] /\ p + Len(d) >= B[n - 1] + 4 /\ p + Len(d) \in Nat
  <2>1. ASSUME NEW b \in Nat, NEW fr \in Nat, p + L = b + q, q + M <= fr
        PROVE  p + (L + M) <= b + fr /\ p + (L + M) >= b + 4 /\ p + (L + M) \in Nat
    BY <1>p, <1>a, <2>1
  <2>2. p + L = B[n - 1] + q /\ q + M <= FrameLen(s[n])
    BY <1>a
  <2>3. /\ p + (L + M) <= B[n - 1] + FrameLen(s[n]) /\ p + (L + M) >= B[n - 1] + 4
        /\ p + (L + M) \in Nat
    BY <1>2, <1>5, <2>1, <2>2
  <2>4. Len(d) = L + M
    BY <1>3
  <2> QED BY <1>6, <2>3, <2>4
<1>8. Whole(B, s, p + Len(d))
  <2> DEFINE e == p + Len(d)
  <2>1. e \in Nat /\ e >= B[n - 1] + 4
    BY <1>7
  <2> HIDE DEF e
  <2>2. Whole(B, s, e)
    BY <2>1, WholeBehind
  <2> QED BY <2>2 DEF e
<1>9. ASSUME NEW i \in 1..Len(d), NEW k \in 1..n, NEW o \in 1..FrameLen(s[k]), p + i = B[k - 1] + o
      PROVE  d[i] = Byte(s[k], o)
  <2>1. CASE i <= L
    <3>1. i \in 1..(L + M) /\ i \in 1..L
      BY <1>3, <2>1
    <3>2. d[i] = bytes[i]
      BY <1>3, <2>1, <3>1
    <3> QED BY <1>1, <1>9, <3>1, <3>2
  <2>2. CASE i > L
    <3>1. i \in 1..(L + M) /\ i - L \in 1..M /\ ~(i <= L) /\ i = L + (i - L)
      BY <1>3, <2>2
    <3>2. PICK l \in 1..M : i = L + l /\ i - L = l
      BY <3>1
    <3>3. d[i] = c[l]
      BY <1>3, <3>1, <3>2
    <3>4. q + l \in 1..FrameLen(s[n])
      <4>1. PICK a \in Nat : a = FrameLen(s[n]) /\ q + M <= a
        BY <1>2, <1>a
      <4>2. q + l \in 1..a
        BY <4>1
      <4> QED BY <4>1, <4>2
    <3>5. PICK r \in 1..FrameLen(s[n]) : r = q + l
      BY <3>4
    <3>6. PICK b \in Nat : b = B[n - 1]
      BY <1>5
    <3>7. p + L = b + q /\ p + i = B[k - 1] + o
      BY <1>9, <1>a, <3>6
    <3>8. p + i = b + r
      <4>1. p + L = b + q /\ i = L + l /\ r = q + l /\ l \in Int
        BY <3>2, <3>5, <3>7
      <4> QED BY <4>1
    <3>9. B[k - 1] + o = B[n - 1] + r
      BY <3>6, <3>7, <3>8
    <3>10. k \in 1..Len(s) /\ n \in 1..Len(s) /\ Apart(B, s)
      BY FrameOf
    <3>11. k = n /\ o = r
      <4>1. Pos(B, k, o) = Pos(B, n, r)
        BY <3>9 DEF Pos
      <4> QED BY <3>10, <4>1 DEF Apart
    <3>12. c[l] = Byte(s[n], r)
      BY <1>M, <3>5 DEF Piece
    <3> QED BY <3>3, <3>11, <3>12
  <2> QED BY <1>3, <2>1, <2>2
<1>10. Matches(B, s, d, p)
  BY <1>1, <1>3, <1>7, <1>8, <1>9 DEF Matches
<1> QED BY <1>10 DEF d

\* What is left behind the first j bytes
LEMMA RestMatches ==
  ASSUME NEW B, NEW s, NEW bytes, NEW p, Matches(B, s, bytes, p), NEW j \in Nat,
         NEW c \in Seq(Nat), j + Len(c) = Len(bytes), \A i \in 1..Len(c) : c[i] = bytes[i + j]
  PROVE  Matches(B, s, c, p + j)
<1> DEFINE L == Len(bytes)
           M == Len(c)
           x == p + j
<1>1. /\ bytes \in Seq(Nat) /\ p \in Nat /\ L \in Nat
      /\ p + L <= B[Len(s)] /\ Whole(B, s, p + L)
      /\ \A i \in 1..L, k \in 1..Len(s) : \A o \in 1..FrameLen(s[k]) :
           p + i = B[k - 1] + o => bytes[i] = Byte(s[k], o)
  BY LenProperties DEF Matches
<1>2. M \in Nat /\ x \in Nat /\ j + M = L /\ x = p + j /\ \A i \in 1..M : c[i] = bytes[i + j]
  BY <1>1, LenProperties
<1> HIDE DEF L, M, x
<1>3. x + M = p + L
  BY <1>1, <1>2
<1>4. ASSUME NEW i \in 1..M, NEW k \in 1..Len(s), NEW o \in 1..FrameLen(s[k]), x + i = B[k - 1] + o
      PROVE  c[i] = Byte(s[k], o)
  <2> DEFINE h == i + j
  <2>1. h \in 1..L /\ p + h = x + i /\ c[i] = bytes[h]
    BY <1>1, <1>2
  <2> HIDE DEF h
  <2>2. p + h = B[k - 1] + o
    BY <1>4, <2>1
  <2> QED BY <1>1, <2>1, <2>2
<1>5. Matches(B, s, c, x)
  BY <1>1, <1>2, <1>3, <1>4 DEF Matches, M
<1> QED BY <1>5 DEF x

-----------------------------------------------------------------------------
(* The invariant                                                           *)

\* What the receiver puts together, and what is on its way
Frames == [op : Nat, payload : Seq(Nat)]
Packets == [bytes : Seq(Nat), broken : BOOLEAN, sent : Nat]

\* How far the sender has got: a header that filled its packet does not count.
Reached(B, s, t) ==
  IF t.active THEN B[Len(s) - 1] + (IF t.offset = 0 THEN 0 ELSE HeaderSize + t.offset)
  ELSE B[Len(s)]

\* The message under way is the last one taken.
UnderWay(s, t) ==
  t.active => /\ Len(s) > 0 /\ t.msg = s[Len(s)]
              /\ t.offset = 0 \/ t.offset < Len(t.msg.payload)

\* The sender's state, with the message under way
SenderInv ==
  /\ txFifo \in Seq(Messages) /\ sent \in Seq(Messages) /\ UnderWay(sent, tx)
  /\ pkt \in Seq(Nat) /\ gap \in BOOLEAN /\ start \in [sent : Nat, broken : BOOLEAN]

\* A packet carries the bytes from p on; one that starts a new stream, from a message on.
PacketAt(B, s, bytes, from, p) ==
  /\ bytes \in Seq(Nat) /\ bytes # <<>> /\ bytes[1] \in {0, 1}
  /\ Matches(B, s, Tail(bytes), p)
  /\ bytes[1] = 0 => from \in 0..Len(s) /\ p = B[from]

\* The packet being built begins at f and ends where the sender stands; behind a gap there
\* is no room left in it.
BuildInv(B, f) ==
  /\ pc # "idle" =>
       /\ PacketAt(B, sent, pkt, start.sent, f)
       /\ ~gap => Reached(B, sent, tx) = f + Len(pkt) - 1
       /\ gap => Len(pkt) = room
  /\ pc = "notify" => Len(pkt) > 1

\* The packets on their way begin at the positions F, each where the one in front of it
\* ends unless a packet was lost between them; the first one where the receiver will be.
AirInv(B, F, z) ==
  /\ F \in Seq(Nat) /\ Len(F) = Len(air)
  /\ \A i \in 1..Len(air) :
       /\ PacketAt(B, sent, air[i].bytes, air[i].sent, F[i]) /\ Len(air[i].bytes) > 1
       /\ (~air[i].broken /\ i > 1) => F[i] = F[i - 1] + Len(air[i - 1].bytes) - 1
       /\ (~air[i].broken /\ i = 1 /\ sync.ok) => F[i] = z + Len(in)

\* Where the last packet on its way ends
End(F, z) == IF air = <<>> THEN z + Len(in) ELSE F[Len(air)] + Len(air[Len(air)].bytes) - 1

\* The sender goes on where the last packet ends.
ChainInv(B, F, f, z) ==
  air # <<>> \/ sync.ok =>
    /\ (pc # "idle" /\ ~start.broken) => f = End(F, z)
    /\ (pc = "idle" /\ ~gap) => Reached(B, sent, tx) = End(F, z)

\* The messages of the stream the receiver has put together
Done == sync.sent + (Len(rcvd) - sync.rcvd)

\* The states of the receiver; at the end of a connection it is at rest if it is in step.
RxShape ==
  /\ in \in Seq(Nat) /\ rcvd \in Seq(Frames) /\ rxFifo \in Seq(Frames)
  /\ air \in Seq(Packets)
  /\ sync \in [ok : BOOLEAN, sent : Nat, rcvd : Nat]
  /\ rx \in [state : {"magic", "header", "payload"}, active : BOOLEAN, op : Nat, len : Nat,
             payload : Seq(Nat)]
  /\ rx.state = "magic" => rx = RxIdle
  /\ rx.state = "header" => Len(in) >= 3 /\ rx = [RxIdle EXCEPT !.state = "header"]
  /\ rx.state = "payload" => rx.active
  /\ link = "down" => air = <<>> /\ in = <<>> /\ (sync.ok => rx = RxIdle)

\* Where the receiver is, and what it has so far
RxAt(B, s, z, d, r) ==
  /\ r.state = "magic" => z = B[d]
  /\ r.state = "header" => d < Len(s) /\ z = B[d] + 1
  /\ r.state = "payload" =>
       /\ d < Len(s) /\ z = B[d] + HeaderSize + Len(r.payload)
       /\ r.op = s[d + 1].op /\ r.len = Len(s[d + 1].payload)
       /\ \A i \in 1..Len(r.payload) : r.payload[i] = s[d + 1].payload[i]

\* The messages r of the receiver since y are those of the stream since y.
Same(s, r, y) == \A i \in 1..(Len(r) - y.rcvd) : r[y.rcvd + i] = s[y.sent + i]

\* A receiver in step stands at z and has every message of the stream up to there.
RxInv(B, z) ==
  /\ sync.sent \in 0..Len(sent) /\ sync.rcvd \in 0..Len(rcvd)
  /\ sync.ok =>
       /\ Done <= Len(sent) /\ Matches(B, sent, in, z)
       /\ Same(sent, rcvd, sync) /\ RxAt(B, sent, z, Done, rx)

\* Everybody stands in the stream, and their positions join.
PosInv(B, F, f, z) ==
  /\ Bases(B, sent) /\ BuildInv(B, f) /\ AirInv(B, F, z) /\ ChainInv(B, F, f, z) /\ RxInv(B, z)
  /\ z \in Nat

\* The inductive invariant
StreamInv == TypeOK /\ SenderInv /\ RxShape /\ \E B, F, f, z : PosInv(B, F, f, z)

-----------------------------------------------------------------------------
(* The stream grows                                                        *)

\* The positions of the longer stream t agree with those of s.
Grows(B, s, C, t) ==
  /\ Bases(C, t) /\ Len(s) <= Len(t)
  /\ \A k \in 0..Len(s) : C[k] = B[k]
  /\ \A k \in 1..Len(s) : t[k] = s[k]
  /\ \A bytes, p : Matches(B, s, bytes, p) => Matches(C, t, bytes, p)

\* A stream grows by nothing.
LEMMA GrowsNot ==
  ASSUME NEW B, NEW s \in Seq(Messages), Bases(B, s)
  PROVE  Grows(B, s, B, s)
<1>1. Len(s) \in Nat
  BY LenProperties
<1> QED BY <1>1 DEF Grows

\* A stream grows by a message.
LEMMA GrowsByOne ==
  ASSUME NEW B, NEW s \in Seq(Messages), Bases(B, s), NEW m \in Messages
  PROVE  Grows(B, s, Longer(B, s, m), Append(s, m))
<1>1. /\ Len(s) \in Nat /\ Len(Append(s, m)) = Len(s) + 1 /\ \A k \in 1..Len(s) : Append(s, m)[k] = s[k]
  BY LenProperties, AppendProperties
<1>2. /\ Bases(Longer(B, s, m), Append(s, m)) /\ \A k \in 0..Len(s) : Longer(B, s, m)[k] = B[k]
  BY BasesGrow
<1>3. \A bytes, p : Matches(B, s, bytes, p) => Matches(Longer(B, s, m), Append(s, m), bytes, p)
  BY MatchesGrow
<1>4. Len(s) <= Len(Append(s, m))
  BY <1>1
<1> QED BY <1>1, <1>2, <1>3, <1>4 DEF Grows

\* A packet stays in place.
LEMMA PacketGrows ==
  ASSUME NEW B, NEW C, NEW s \in Seq(Messages), NEW t \in Seq(Messages), Grows(B, s, C, t),
         NEW bytes, NEW from, NEW p, PacketAt(B, s, bytes, from, p)
  PROVE  PacketAt(C, t, bytes, from, p)
<1>1. Len(s) \in Nat /\ Len(t) \in Nat /\ Len(s) <= Len(t)
  BY LenProperties DEF Grows
<1>2. bytes \in Seq(Nat) /\ bytes # <<>> /\ bytes[1] \in {0, 1} /\ Matches(B, s, Tail(bytes), p)
  BY DEF PacketAt
<1>3. Matches(C, t, Tail(bytes), p)
  BY <1>2 DEF Grows
<1>4. ASSUME bytes[1] = 0 PROVE from \in 0..Len(t) /\ p = C[from]
  <2>1. from \in 0..Len(s) /\ p = B[from]
    BY <1>4 DEF PacketAt
  <2>2. from \in 0..Len(t)
    BY <1>1, <2>1
  <2> QED BY <2>1, <2>2 DEF Grows
<1> QED BY <1>2, <1>3, <1>4 DEF PacketAt

\* The packets on their way stay in place.
LEMMA AirGrows ==
  ASSUME NEW B, NEW C, NEW F, NEW z, sent \in Seq(Messages), sent' \in Seq(Messages),
         Grows(B, sent, C, sent'), AirInv(B, F, z), UNCHANGED <<air, sync, in>>
  PROVE  AirInv(C, F, z)'
<1>1. \A i \in 1..Len(air) : PacketAt(C, sent', air[i].bytes, air[i].sent, F[i])
  <2> SUFFICES ASSUME NEW i \in 1..Len(air) PROVE PacketAt(C, sent', air[i].bytes, air[i].sent, F[i])
    OBVIOUS
  <2>1. PacketAt(B, sent, air[i].bytes, air[i].sent, F[i])
    BY DEF AirInv
  <2> QED BY <2>1, PacketGrows
<1> QED BY <1>1 DEF AirInv

\* So does the receiver.
LEMMA RxGrows ==
  ASSUME NEW B, NEW C, NEW z, sent \in Seq(Messages), sent' \in Seq(Messages), RxShape,
         Grows(B, sent, C, sent'), RxInv(B, z), UNCHANGED rxVars
  PROVE  RxInv(C, z)'
<1>1. /\ Len(sent) \in Nat /\ Len(sent') \in Nat /\ Len(sent) <= Len(sent')
      /\ Len(rcvd) \in Nat /\ sync.sent \in Nat /\ sync.rcvd \in Nat
  <2>1. rcvd \in Seq(Frames) /\ sync.sent \in Nat /\ sync.rcvd \in Nat
    BY DEF RxShape
  <2> QED BY <2>1, LenProperties DEF Grows
<1>2. rx' = rx /\ in' = in /\ rcvd' = rcvd /\ sync' = sync /\ Done' = Done
  BY DEF rxVars, Done
<1>3. sync.sent \in 0..Len(sent') /\ sync.rcvd \in 0..Len(rcvd)
  BY <1>1 DEF RxInv
<1>4. ASSUME sync.ok
      PROVE  /\ Done <= Len(sent') /\ Matches(C, sent', in, z)
             /\ Same(sent', rcvd, sync) /\ RxAt(C, sent', z, Done, rx)
  <2>1. /\ Done <= Len(sent) /\ Matches(B, sent, in, z)
        /\ Same(sent, rcvd, sync) /\ RxAt(B, sent, z, Done, rx)
    BY <1>4 DEF RxInv
  <2>2. sync.sent <= Len(sent) /\ sync.rcvd <= Len(rcvd)
    BY <1>1 DEF RxInv
  <2>3. Done \in Nat /\ Done \in 0..Len(sent) /\ Done = sync.sent + (Len(rcvd) - sync.rcvd)
    BY <1>1, <2>1, <2>2 DEF Done
  <2>4. Done <= Len(sent') /\ Matches(C, sent', in, z) /\ C[Done] = B[Done]
    BY <1>1, <2>1, <2>3 DEF Grows
  <2>5. ASSUME NEW i \in 1..(Len(rcvd) - sync.rcvd)
        PROVE  rcvd[sync.rcvd + i] = sent'[sync.sent + i]
    <3>1. sync.sent + i \in 1..Len(sent)
      BY <1>1, <2>1, <2>2, <2>3
    <3>2. rcvd[sync.rcvd + i] = sent[sync.sent + i]
      BY <2>1 DEF Same
    <3> QED BY <3>1, <3>2 DEF Grows
  <2>6. Done < Len(sent) => sent'[Done + 1] = sent[Done + 1] /\ Done < Len(sent')
    <3> SUFFICES ASSUME Done < Len(sent) PROVE sent'[Done + 1] = sent[Done + 1] /\ Done < Len(sent')
      OBVIOUS
    <3>1. Done + 1 \in 1..Len(sent) /\ Done < Len(sent')
      BY <1>1, <2>3
    <3> QED BY <3>1 DEF Grows
  <2> HIDE DEF Done
  <2>7. RxAt(C, sent', z, Done, rx)
    BY <2>1, <2>4, <2>6 DEF RxAt
  <2> QED BY <2>4, <2>5, <2>7 DEF Same
<1> QED BY <1>2, <1>3, <1>4 DEF RxInv

-----------------------------------------------------------------------------
(* The sender                                                              *)

\* The sender stands within the stream, outside of a header.
LEMMA ReachedFacts ==
  ASSUME NEW B, NEW s \in Seq(Messages), Bases(B, s), NEW t, t.active \in BOOLEAN, t.offset \in Nat,
         UnderWay(s, t)
  PROVE  /\ Reached(B, s, t) \in Nat /\ Reached(B, s, t) <= B[Len(s)]
         /\ Whole(B, s, Reached(B, s, t))
<1>1. /\ Len(s) \in Nat /\ (\A k \in 0..Len(s) : B[k] \in Nat)
      /\ \A i, j \in 0..Len(s) : i < j => B[i] + FrameLen(s[i + 1]) <= B[j]
  BY LenProperties DEF Bases
<1>2. ASSUME NEW i \in 0..Len(s), NEW k \in 0..(Len(s) - 1), k < i PROVE B[i] >= B[k] + 4
  <2>1. k \in 0..Len(s) /\ k + 1 \in 1..Len(s)
    BY <1>1
  <2>2. FrameLen(s[k + 1]) \in Nat /\ FrameLen(s[k + 1]) >= 4
    BY <2>1, ElementOfSeq, FrameFacts
  <2>3. B[k] + FrameLen(s[k + 1]) <= B[i] /\ B[k] \in Nat /\ B[i] \in Nat
    BY <1>1, <1>2, <2>1
  <2> QED BY <2>2, <2>3
<1>3. CASE ~t.active
  <2>1. Reached(B, s, t) = B[Len(s)] /\ Len(s) \in 0..Len(s)
    BY <1>1, <1>3 DEF Reached
  <2>2. ASSUME NEW k \in 0..(Len(s) - 1) PROVE B[Len(s)] >= B[k] + 4
    <3>1. k < Len(s)
      BY <1>1
    <3> QED BY <1>2, <2>1, <3>1
  <2>3. B[Len(s)] \in Nat
    BY <1>1, <2>1
  <2>4. Whole(B, s, B[Len(s)])
    BY <2>2 DEF Whole, HeaderSize
  <2> QED BY <2>1, <2>3, <2>4
<1>4. CASE t.active
  <2>1. /\ Len(s) > 0 /\ t.msg = s[Len(s)] /\ Len(s) \in 1..Len(s) /\ Len(s) - 1 \in 0..Len(s)
        /\ t.offset = 0 \/ t.offset < Len(t.msg.payload)
    BY <1>1, <1>4 DEF UnderWay
  <2>2. /\ FrameLen(s[Len(s)]) \in Nat /\ FrameLen(s[Len(s)]) = 4 + Len(t.msg.payload)
        /\ Len(t.msg.payload) \in Nat
    BY <2>1, ElementOfSeq, FrameFacts
  <2>3. B[Len(s)] = B[Len(s) - 1] + FrameLen(s[Len(s)]) /\ B[Len(s) - 1] \in Nat /\ B[Len(s)] \in Nat
    BY <1>1, <2>1 DEF Bases
  <2>4. CASE t.offset = 0
    <3>1. Reached(B, s, t) = B[Len(s) - 1]
      BY <1>4, <2>3, <2>4 DEF Reached
    <3>2. ASSUME NEW k \in 0..(Len(s) - 1)
          PROVE  B[Len(s) - 1] <= B[k] \/ B[Len(s) - 1] >= B[k] + 4
      <4>1. CASE k = Len(s) - 1
        BY <2>3, <4>1
      <4>2. CASE k < Len(s) - 1
        BY <1>2, <2>1, <4>2
      <4> QED BY <1>1, <4>1, <4>2
    <3>3. Whole(B, s, B[Len(s) - 1])
      BY <3>2 DEF Whole, HeaderSize
    <3>4. B[Len(s) - 1] <= B[Len(s)]
      BY <2>2, <2>3
    <3> QED BY <2>3, <3>1, <3>3, <3>4
  <2>5. CASE t.offset > 0
    <3>1. Reached(B, s, t) = B[Len(s) - 1] + (4 + t.offset)
      BY <1>4, <2>5 DEF Reached, HeaderSize
    <3>2. PICK e \in Nat : e = B[Len(s) - 1] + (4 + t.offset)
      BY <2>3
    <3>3. e >= B[Len(s) - 1] + 4 /\ e <= B[Len(s)]
      <4>1. t.offset < Len(t.msg.payload)
        BY <2>1, <2>5
      <4>2. ASSUME NEW b \in Nat, NEW l \in Nat, t.offset < l, e = b + (4 + t.offset)
            PROVE  e >= b + 4 /\ e <= b + (4 + l)
        BY <4>2
      <4>3. B[Len(s)] = B[Len(s) - 1] + (4 + Len(t.msg.payload))
        BY <2>2, <2>3
      <4>4. e >= B[Len(s) - 1] + 4 /\ e <= B[Len(s) - 1] + (4 + Len(t.msg.payload))
        BY <2>2, <2>3, <3>2, <4>1, <4>2
      <4> QED BY <4>3, <4>4
    <3>4. Whole(B, s, e)
      <4>1. PICK n \in 1..Len(s) : n = Len(s)
        BY <2>1
      <4>2. e >= B[n - 1] + 4
        BY <3>3, <4>1
      <4> QED BY <4>1, <4>2, WholeBehind
    <3>5. Reached(B, s, t) = e
      BY <3>1, <3>2
    <3> QED BY <3>3, <3>4, <3>5
  <2> QED BY <2>4, <2>5
<1> QED BY <1>3, <1>4

\* A packet of nothing but its flag stands where the sender is.
LEMMA FlagOnly ==
  ASSUME NEW B, NEW s \in Seq(Messages), Bases(B, s), NEW t, t.active \in BOOLEAN, t.offset \in Nat,
         UnderWay(s, t)
  PROVE  PacketAt(B, s, <<IF t.active THEN 1 ELSE 0>>, Len(s), Reached(B, s, t))
<1> DEFINE x == IF t.active THEN 1 ELSE 0
           w == <<x>>
<1>1. x \in {0, 1} /\ x \in Nat /\ (x = 0 => ~t.active)
  OBVIOUS
<1>2. w \in Seq(Nat) /\ w # <<>> /\ w[1] = x /\ Tail(w) = <<>>
  BY <1>1
<1>3. Matches(B, s, <<>>, Reached(B, s, t))
  BY ReachedFacts, NothingMatches
<1>4. Len(s) \in Nat
  BY LenProperties
<1>5. x = 0 => Len(s) \in 0..Len(s) /\ Reached(B, s, t) = B[Len(s)]
  BY <1>1, <1>4 DEF Reached
<1> HIDE DEF x, w
<1>6. PacketAt(B, s, w, Len(s), Reached(B, s, t))
  BY <1>1, <1>2, <1>3, <1>5 DEF PacketAt
<1> QED BY <1>6 DEF w, x

\* What Load leaves: the message under way is the last one of the stream.
LEMMA LoadFacts ==
  ASSUME NEW B, TypeOK, SenderInv, Bases(B, sent), Loaded, Load
  PROVE  /\ txFifo' \in Seq(Messages) /\ sent' \in Seq(Messages)
         /\ Len(txFifo') <= FifoSize /\ (tx.active => sent' = sent)
         /\ UnderWay(sent', Current) /\ Current.active /\ Len(sent') > 0
         /\ Current \in [active : BOOLEAN, msg : Messages, offset : 0..MaxPayload]
         /\ \E C : Grows(B, sent, C, sent') /\ Reached(C, sent', Current) = Reached(B, sent, tx)
<1>1. /\ txFifo \in Seq(Messages) /\ sent \in Seq(Messages) /\ UnderWay(sent, tx)
      /\ tx \in [active : BOOLEAN, msg : Messages \cup {NoMessage}, offset : 0..MaxPayload]
      /\ Len(txFifo) <= FifoSize /\ FifoSize \in Nat /\ MaxPayload \in Nat
      /\ Len(sent) \in Nat
  BY LenProperties, PacketAssumption DEF SenderInv, TypeOK
<1>2. CASE tx.active
  <2>1. Current = tx /\ sent' = sent /\ txFifo' = txFifo
    BY <1>2 DEF Current, Load
  <2>2. Len(sent) > 0 /\ tx.msg \in Messages
    <3>1. Len(sent) > 0 /\ tx.msg = sent[Len(sent)]
      BY <1>1, <1>2 DEF UnderWay
    <3>2. Len(sent) \in 1..Len(sent)
      BY <1>1, <3>1
    <3> QED BY <1>1, <3>1, <3>2, ElementOfSeq
  <2>3. tx \in [active : BOOLEAN, msg : Messages, offset : 0..MaxPayload]
    BY <1>1, <2>2
  <2>4. Grows(B, sent, B, sent)
    BY <1>1, GrowsNot
  <2> QED BY <1>1, <1>2, <2>1, <2>2, <2>3, <2>4
<1>3. CASE ~tx.active
  <2>1. txFifo # <<>> /\ txFifo' = Tail(txFifo) /\ sent' = Append(sent, Head(txFifo))
    BY <1>3 DEF Loaded, Load
  <2>2. PICK m \in Messages : m = Head(txFifo)
    BY <1>1, <2>1, HeadTailProperties
  <2>3. Current = [active |-> TRUE, msg |-> m, offset |-> 0]
    BY <1>3, <2>2 DEF Current
  <2>4. /\ Current.active /\ Current.msg = m /\ Current.offset = 0
        /\ Current \in [active : BOOLEAN, msg : Messages, offset : 0..MaxPayload]
    BY <1>1, <2>3
  <2>5. txFifo' \in Seq(Messages) /\ Len(txFifo') = Len(txFifo) - 1 /\ Len(txFifo) \in Nat
    BY <1>1, <2>1, HeadTailProperties, LenProperties
  <2>6. sent' = Append(sent, m) /\ sent' \in Seq(Messages) /\ Len(sent') = Len(sent) + 1 /\ sent'[Len(sent) + 1] = m
    BY <1>1, <2>1, <2>2, AppendProperties
  <2>7. UnderWay(sent', Current)
    BY <2>4, <2>6 DEF UnderWay
  <2>8. PICK C : C = Longer(B, sent, m)
    OBVIOUS
  <2>9. Grows(B, sent, C, sent')
    BY <1>1, <2>6, <2>8, GrowsByOne
  <2>10. Reached(C, sent', Current) = Reached(B, sent, tx)
    <3>1. Reached(B, sent, tx) = B[Len(sent)] /\ Len(sent) \in 0..Len(sent) /\ B[Len(sent)] \in Nat
      BY <1>1, <1>3 DEF Reached, Bases
    <3>2. C[Len(sent)] = B[Len(sent)]
      BY <2>9, <3>1 DEF Grows
    <3>3. Len(sent') - 1 = Len(sent)
      BY <1>1, <2>6
    <3>4. Reached(C, sent', Current) = C[Len(sent)] + 0
      BY <2>4, <3>3 DEF Reached
    <3> QED BY <3>1, <3>2, <3>4
  <2> QED BY <1>1, <1>3, <2>4, <2>5, <2>6, <2>7, <2>9, <2>10
<1> QED BY <1>1, <1>2, <1>3

\* What one iteration of ble_build_next_packet writes
Written(cur) == Header(cur) \o SubSeq(cur.msg.payload, cur.offset + 1, cur.offset + Chunk(cur))

\* The bytes of the frame in front of it
Before(cur) == IF cur.offset = 0 THEN 0 ELSE 4 + cur.offset

\* ... of which the header takes these
HeadLen(cur) == IF cur.offset = 0 THEN 4 ELSE 0

\* A message that may be under way
Transfers == [active : BOOLEAN, msg : Messages, offset : 0..MaxPayload]

\* The parts of the message under way
LEMMA TransferFacts ==
  ASSUME NEW cur \in Transfers
  PROVE  /\ cur.offset \in Nat /\ cur.msg \in Messages /\ cur.msg.payload \in Seq(Nat)
         /\ Len(cur.msg.payload) \in Nat /\ cur.msg.op \in Nat /\ HeadLen(cur) \in Nat
         /\ Header(cur) \in Seq(Nat) /\ Len(Header(cur)) = HeadLen(cur)
<1>1. cur.msg \in Messages /\ cur.offset \in Nat /\ Magic \in Nat
  BY PacketAssumption DEF Transfers
<1>2. cur.msg.payload \in Seq(Nat) /\ Len(cur.msg.payload) \in Nat /\ cur.msg.op \in Nat
  BY <1>1, FrameFacts
<1>3. CASE cur.offset = 0
  <2>1. Header(cur) = <<Magic, cur.msg.op, 0, Len(cur.msg.payload)>> /\ HeadLen(cur) = 4
    BY <1>3 DEF Header, HeadLen
  <2> QED BY <1>1, <1>2, <2>1
<1>4. CASE cur.offset # 0
  <2>1. Header(cur) = <<>> /\ HeadLen(cur) = 0
    BY <1>4 DEF Header, HeadLen
  <2> QED BY <1>1, <1>2, <2>1, EmptySeq
<1> QED BY <1>3, <1>4

\* The chunk fits into the packet, and it is empty only if the message or the packet is.
LEMMA ChunkFacts ==
  ASSUME NEW cur \in Transfers, cur.offset = 0 \/ cur.offset < Len(cur.msg.payload),
         room \in Nat, Len(pkt) \in Nat, Len(pkt) < room, HeaderFits(cur)
  PROVE  /\ Chunk(cur) \in Nat /\ cur.offset + Chunk(cur) <= Len(cur.msg.payload)
         /\ Len(pkt) + (HeadLen(cur) + Chunk(cur)) <= room
         /\ HeaderRepeats(cur) => Len(pkt) + (HeadLen(cur) + Chunk(cur)) = room
         /\ Before(cur) + (HeadLen(cur) + Chunk(cur)) = 4 + (cur.offset + Chunk(cur))
<1>1. /\ cur.offset \in Nat /\ cur.msg.payload \in Seq(Nat) /\ Len(cur.msg.payload) \in Nat
      /\ HeadLen(cur) \in Nat /\ Len(Header(cur)) = HeadLen(cur)
  BY TransferFacts
<1>2. Chunk(cur) = LET left == Len(cur.msg.payload) - cur.offset
                       space == room - Len(pkt) - HeadLen(cur)
                   IN IF left < space THEN left ELSE space
  BY <1>1 DEF Chunk
<1>3. PICK h \in Nat : h = HeadLen(cur)
  BY <1>1
<1>4. PICK left \in Nat : left = Len(cur.msg.payload) - cur.offset
  BY <1>1
<1>r. PICK r \in Nat, k \in Nat : r = room /\ k = Len(pkt) /\ k < r
  OBVIOUS
<1>o. PICK o \in Nat, l \in Nat : o = cur.offset /\ l = Len(cur.msg.payload) /\ left = l - o
  BY <1>1, <1>4
<1>5. PICK space \in Nat : space = r - k - h
  <2>1. h <= r - k
    <3>1. o > 0 => h = 0
      BY <1>3, <1>o DEF HeadLen
    <3>2. o = 0 => h = 4 /\ r - k >= 4
      BY <1>3, <1>o, <1>r DEF HeadLen, HeaderFits, HeaderSize
    <3> QED BY <1>r, <3>1, <3>2
  <2>2. r - k - h \in Nat
    BY <2>1
  <2> QED BY <2>2
<1>6. Chunk(cur) = IF left < space THEN left ELSE space
  BY <1>2, <1>3, <1>4, <1>5, <1>r
<1>7. PICK c \in Nat : c = Chunk(cur) /\ c = IF left < space THEN left ELSE space
  BY <1>6
<1>8. HeaderRepeats(cur) => c = 0 /\ left > 0
  <2> SUFFICES ASSUME HeaderRepeats(cur) PROVE c = 0 /\ left > 0
    OBVIOUS
  <2>1. cur.offset = 0 /\ c = 0 /\ cur.msg.payload # <<>>
    BY <1>7 DEF HeaderRepeats
  <2>2. Len(cur.msg.payload) # 0
    BY <1>1, <2>1, EmptySeq
  <2> QED BY <1>1, <1>4, <2>1, <2>2
<1>9. o + c <= l /\ k + (h + c) <= r
  <2>1. c <= left /\ c <= space
    BY <1>7
  <2>2. o + c <= l
    BY <1>o, <2>1
  <2>3. k + (h + c) <= r
    BY <1>5, <2>1
  <2> QED BY <2>2, <2>3
<1>10. c = 0 /\ left > 0 => k + (h + c) = r
  BY <1>5, <1>7
<1>11. Before(cur) + (h + c) = 4 + (cur.offset + c)
  BY <1>1, <1>3 DEF Before, HeadLen
<1>12. cur.offset + c <= Len(cur.msg.payload) /\ Len(pkt) + (h + c) <= room
  BY <1>9, <1>o, <1>r
<1>13. HeaderRepeats(cur) => Len(pkt) + (h + c) = room
  BY <1>8, <1>10, <1>r
<1> QED BY <1>3, <1>7, <1>11, <1>12, <1>13

\* It is the next piece of the frame.
LEMMA PieceFacts ==
  ASSUME NEW cur \in Transfers, Chunk(cur) \in Nat, cur.offset + Chunk(cur) <= Len(cur.msg.payload)
  PROVE  /\ Written(cur) \in Seq(Nat) /\ Len(Written(cur)) = HeadLen(cur) + Chunk(cur)
         /\ Piece(Written(cur), cur.msg, Before(cur))
<1>1. /\ cur.offset \in Nat /\ cur.msg.payload \in Seq(Nat) /\ Len(cur.msg.payload) \in Nat
      /\ HeadLen(cur) \in Nat /\ Header(cur) \in Seq(Nat) /\ Len(Header(cur)) = HeadLen(cur)
  BY TransferFacts
<1> DEFINE g == SubSeq(cur.msg.payload, cur.offset + 1, cur.offset + Chunk(cur))
<1>2. /\ g \in Seq(Nat) /\ Len(g) = Chunk(cur)
      /\ \A i \in 1..Chunk(cur) : g[i] = cur.msg.payload[cur.offset + i]
  <2>1. ASSUME NEW s \in Seq(Nat), NEW o \in Nat, NEW c \in Nat, o + c <= Len(s)
        PROVE  /\ SubSeq(s, o + 1, o + c) \in Seq(Nat) /\ Len(SubSeq(s, o + 1, o + c)) = c
               /\ \A i \in 1..c : SubSeq(s, o + 1, o + c)[i] = s[o + i]
    BY <2>1
  <2> QED BY <1>1, <2>1
<1> HIDE DEF g
<1>3. Written(cur) = Header(cur) \o g
  BY DEF Written, g
<1>4. PICK h \in Nat : h = HeadLen(cur)
  BY <1>1
<1>5. PICK c \in Nat : c = Chunk(cur)
  OBVIOUS
<1>6. /\ Written(cur) \in Seq(Nat) /\ Len(Written(cur)) = h + c
      /\ \A i \in 1..(h + c) : Written(cur)[i] = IF i <= h THEN Header(cur)[i] ELSE g[i - h]
  <2>1. Header(cur) \in Seq(Nat) /\ g \in Seq(Nat) /\ Len(Header(cur)) = h /\ Len(g) = c
    BY <1>1, <1>2, <1>4, <1>5
  <2> DEFINE hd == Header(cur)
  <2>2. hd \in Seq(Nat) /\ Written(cur) = hd \o g
    BY <1>3, <2>1
  <2> HIDE DEF hd
  <2>3. /\ hd \o g \in Seq(Nat) /\ Len(hd \o g) = Len(hd) + Len(g)
        /\ \A i \in 1..(Len(hd) + Len(g)) : (hd \o g)[i] = IF i <= Len(hd) THEN hd[i] ELSE g[i - Len(hd)]
    BY <2>1, <2>2, ConcatProperties
  <2>4. Len(hd) = h /\ Len(g) = c
    BY <2>1 DEF hd
  <2>5. /\ Written(cur) \in Seq(Nat) /\ Len(Written(cur)) = h + c
        /\ \A i \in 1..(h + c) : Written(cur)[i] = IF i <= h THEN hd[i] ELSE g[i - h]
    BY <2>2, <2>3, <2>4
  <2> QED BY <2>5 DEF hd
<1>7. ASSUME NEW i \in 1..(h + c), i <= h PROVE Written(cur)[i] = Byte(cur.msg, Before(cur) + i)
  <2>1. cur.offset = 0 /\ h = 4 /\ Before(cur) = 0
    BY <1>4, <1>7 DEF HeadLen, Before
  <2>2. Written(cur)[i] = <<Magic, cur.msg.op, 0, Len(cur.msg.payload)>>[i]
    BY <1>6, <1>7, <2>1 DEF Header
  <2>3. i = 1 \/ i = 2 \/ i = 3 \/ i = 4
    BY <1>7, <2>1
  <2>4. Before(cur) + i = i
    BY <2>1
  <2> QED BY <2>2, <2>3, <2>4 DEF Byte
<1>8. ASSUME NEW i \in 1..(h + c), ~(i <= h) PROVE Written(cur)[i] = Byte(cur.msg, Before(cur) + i)
  <2>1. PICK l \in 1..c : i - h = l /\ i = h + l
    <3>1. i - h \in 1..c
      BY <1>8
    <3> QED BY <3>1
  <2>2. Written(cur)[i] = g[l]
    BY <1>6, <1>8, <2>1
  <2>3. g[l] = cur.msg.payload[cur.offset + l]
    BY <1>2, <1>5
  <2>4. Before(cur) + h = 4 + cur.offset /\ Before(cur) \in Nat
    BY <1>1, <1>4 DEF Before, HeadLen
  <2>5. PICK o \in Nat : o = Before(cur) + i
    BY <2>4
  <2>6. o > 4 /\ o - 4 = cur.offset + l
    <3>1. PICK f \in Nat, b \in Nat : f = cur.offset /\ b = Before(cur) /\ b + h = 4 + f /\ o = b + i
      BY <1>1, <2>4, <2>5
    <3>2. o > 4 /\ o - 4 = f + l
      <4>1. b + h = 4 + f /\ o = b + i /\ i = h + l /\ l \in Nat /\ l > 0
        BY <2>1, <3>1
      <4>2. o = b + (h + l)
        BY <4>1
      <4>3. o = (b + h) + l
        BY <4>1, <4>2
      <4>4. o = (4 + f) + l
        BY <4>1, <4>3
      <4> QED BY <4>1, <4>4
    <3> QED BY <3>1, <3>2
  <2>7. Byte(cur.msg, o) = cur.msg.payload[cur.offset + l]
    BY <2>6 DEF Byte, HeaderSize
  <2> QED BY <2>2, <2>3, <2>5, <2>7
<1> QED BY <1>4, <1>5, <1>6, <1>7, <1>8 DEF Piece

\* The first element stays in front.
LEMMA TailConcat ==
  ASSUME NEW s \in Seq(Nat), s # <<>>, NEW c \in Seq(Nat)
  PROVE  /\ s \o c \in Seq(Nat) /\ s \o c # <<>> /\ (s \o c)[1] = s[1]
         /\ Tail(s) \in Seq(Nat) /\ Len(Tail(s)) = Len(s) - 1
         /\ Tail(s \o c) = Tail(s) \o c
<1> DEFINE d == s \o c
           u == Tail(s)
           v == Tail(d)
           w == u \o c
<1>1. PICK k \in Nat, l \in Nat : k = Len(s) /\ l = Len(c)
  BY LenProperties
<1>2. k > 0
  BY <1>1, EmptySeq
<1>3. /\ d \in Seq(Nat) /\ Len(d) = k + l
      /\ \A i \in 1..(k + l) : d[i] = IF i <= k THEN s[i] ELSE c[i - k]
  BY <1>1, ConcatProperties
<1>4. u \in Seq(Nat) /\ Len(u) = k - 1 /\ \A i \in 1..(k - 1) : u[i] = s[i + 1]
  BY <1>1, HeadTailProperties
<1> HIDE DEF d, u
<1>5. d # <<>> /\ d[1] = s[1]
  BY <1>2, <1>3, EmptySeq
<1>6. v \in Seq(Nat) /\ Len(v) = (k + l) - 1 /\ \A i \in 1..((k + l) - 1) : v[i] = d[i + 1]
  BY <1>3, <1>5, HeadTailProperties
<1>7. /\ w \in Seq(Nat) /\ Len(w) = (k - 1) + l
      /\ \A i \in 1..((k - 1) + l) : w[i] = IF i <= k - 1 THEN u[i] ELSE c[i - (k - 1)]
  <2>1. u \in Seq(Nat) /\ c \in Seq(Nat) /\ Len(u) = k - 1 /\ Len(c) = l
    BY <1>1, <1>4
  <2>2. /\ w \in Seq(Nat) /\ Len(w) = Len(u) + Len(c)
        /\ \A i \in 1..(Len(u) + Len(c)) : w[i] = IF i <= Len(u) THEN u[i] ELSE c[i - Len(u)]
    BY <2>1, ConcatProperties
  <2> HIDE DEF w
  <2> QED BY <2>1, <2>2
<1> HIDE DEF v, w
<1>8. v = w
  <2>1. Len(v) = Len(w)
    BY <1>6, <1>7
  <2>2. ASSUME NEW i \in 1..Len(v) PROVE v[i] = w[i]
    <3>1. i \in 1..((k + l) - 1) /\ i + 1 \in 1..(k + l) /\ i \in 1..((k - 1) + l)
      BY <1>2, <1>6
    <3>2. CASE i <= k - 1
      <4>1. i + 1 <= k /\ i \in 1..(k - 1)
        BY <3>1, <3>2
      <4> QED BY <1>3, <1>4, <1>6, <1>7, <3>1, <3>2, <4>1
    <3>3. CASE ~(i <= k - 1)
      <4>1. ~(i + 1 <= k) /\ (i + 1) - k = i - (k - 1)
        BY <3>1, <3>3
      <4>2. v[i] = c[(i + 1) - k]
        BY <1>3, <1>6, <3>1, <4>1
      <4>3. w[i] = c[i - (k - 1)]
        BY <1>7, <3>1, <3>3
      <4> QED BY <4>1, <4>2, <4>3
    <3> QED BY <3>2, <3>3
  <2> QED BY <1>6, <1>7, <2>1, <2>2, SeqEqual
<1>9. Len(u) = Len(s) - 1
  BY <1>1, <1>4
<1> QED BY <1>3, <1>4, <1>5, <1>8, <1>9 DEF d, u, v, w

\* The receiver does not notice that the stream grows.
LEMMA ReceiverStays ==
  ASSUME NEW B, NEW C, NEW F, NEW z, sent \in Seq(Messages), sent' \in Seq(Messages), RxShape,
         Grows(B, sent, C, sent'), AirInv(B, F, z), RxInv(B, z), UNCHANGED <<link, air, rxVars>>
  PROVE  /\ AirInv(C, F, z)' /\ RxInv(C, z)' /\ RxShape' /\ Bases(C, sent')
         /\ End(F, z)' = End(F, z)
<1>1. UNCHANGED <<link, air, rx, in, rxFifo, rcvd, sync>>
  BY DEF rxVars
<1>2. AirInv(C, F, z)'
  BY <1>1, AirGrows
<1>3. RxInv(C, z)'
  BY RxGrows
<1>4. RxShape'
  BY <1>1 DEF RxShape
<1> QED BY <1>1, <1>2, <1>3, <1>4 DEF Grows, End

\* One iteration appends the next piece of the stream to the packet.
LEMMA BuildMoves ==
  ASSUME TypeOK, SenderInv, RxShape, NEW B, NEW F, NEW f, NEW z, PosInv(B, F, f, z), BuildStep
  PROVE  StreamInv'
<1>1. /\ pc = "build" /\ Len(pkt) < room /\ Loaded /\ HeaderFits(Current) /\ Load
      /\ pkt' = pkt \o Header(Current)
           \o SubSeq(Current.msg.payload, Current.offset + 1, Current.offset + Chunk(Current))
      /\ tx' = (IF Current.offset + Chunk(Current) >= Len(Current.msg.payload) THEN TxIdle
                ELSE [Current EXCEPT !.offset = Current.offset + Chunk(Current)])
      /\ gap' = (gap \/ HeaderRepeats(Current))
      /\ UNCHANGED <<link, mtu, pc, room, start, air, rxVars, submitted, failed, links>>
  BY DEF BuildStep
<1>2. /\ Bases(B, sent) /\ BuildInv(B, f) /\ AirInv(B, F, z) /\ ChainInv(B, F, f, z) /\ RxInv(B, z)
      /\ z \in Nat
  BY DEF PosInv
<1>3. /\ pkt \in Seq(Nat) /\ room \in Nat /\ Len(pkt) \in Nat /\ sent \in Seq(Messages)
      /\ gap \in BOOLEAN /\ start \in [sent : Nat, broken : BOOLEAN] /\ Len(pkt) <= room
  BY <1>1, LenProperties, PacketAssumption DEF TypeOK, SenderInv
<1>4. /\ PacketAt(B, sent, pkt, start.sent, f) /\ ~gap
      /\ Reached(B, sent, tx) = f + Len(pkt) - 1
  BY <1>1, <1>2, <1>3 DEF BuildInv
<1>5. /\ txFifo' \in Seq(Messages) /\ sent' \in Seq(Messages) /\ Len(txFifo') <= FifoSize
      /\ UnderWay(sent', Current) /\ Current.active /\ Len(sent') > 0
      /\ Current \in [active : BOOLEAN, msg : Messages, offset : 0..MaxPayload]
      /\ \E C : Grows(B, sent, C, sent') /\ Reached(C, sent', Current) = Reached(B, sent, tx)
  BY <1>1, <1>2, LoadFacts
<1>6. PICK C : Grows(B, sent, C, sent') /\ Reached(C, sent', Current) = Reached(B, sent, tx)
  BY <1>5
<1>7. PICK cur \in Transfers : cur = Current
  BY <1>5 DEF Transfers
<1>8. /\ UnderWay(sent', cur) /\ cur.active
      /\ cur.msg = sent'[Len(sent')]
      /\ cur.offset = 0 \/ cur.offset < Len(cur.msg.payload)
  BY <1>5, <1>7 DEF UnderWay
<1>9. /\ cur.offset \in Nat /\ cur.msg \in Messages /\ Len(cur.msg.payload) \in Nat /\ HeadLen(cur) \in Nat
      /\ cur.msg.payload \in Seq(Nat) /\ Header(cur) \in Seq(Nat)
  BY TransferFacts
<1>10. /\ Chunk(cur) \in Nat /\ cur.offset + Chunk(cur) <= Len(cur.msg.payload)
       /\ Len(pkt) + (HeadLen(cur) + Chunk(cur)) <= room
       /\ HeaderRepeats(cur) => Len(pkt) + (HeadLen(cur) + Chunk(cur)) = room
       /\ Before(cur) + (HeadLen(cur) + Chunk(cur)) = 4 + (cur.offset + Chunk(cur))
  BY <1>1, <1>3, <1>7, <1>8, ChunkFacts
<1>11. /\ Written(cur) \in Seq(Nat) /\ Len(Written(cur)) = HeadLen(cur) + Chunk(cur)
       /\ Piece(Written(cur), cur.msg, Before(cur))
  BY <1>10, PieceFacts
<1>12. pkt' = pkt \o Written(cur)
  <2> DEFINE g == SubSeq(cur.msg.payload, cur.offset + 1, cur.offset + Chunk(cur))
  <2>1. g \in Seq(Nat)
    <3>1. ASSUME NEW s \in Seq(Nat), NEW o \in Nat, NEW c \in Nat, o + c <= Len(s)
          PROVE  SubSeq(s, o + 1, o + c) \in Seq(Nat)
      BY <3>1
    <3> QED BY <1>9, <1>10, <3>1
  <2>2. pkt' = (pkt \o Header(cur)) \o g /\ Written(cur) = Header(cur) \o g
    BY <1>1, <1>7 DEF Written
  <2> HIDE DEF g
  <2>3. Header(cur) \in Seq(Nat) /\ pkt \in Seq(Nat)
    BY <1>3, <1>9
  <2>4. (pkt \o Header(cur)) \o g = pkt \o (Header(cur) \o g)
    BY <2>1, <2>3, ConcatAssociative
  <2> QED BY <2>2, <2>4
<1>13. /\ pkt' \in Seq(Nat) /\ pkt' # <<>> /\ pkt'[1] = pkt[1] /\ Tail(pkt') = Tail(pkt) \o Written(cur)
       /\ Tail(pkt) \in Seq(Nat) /\ Len(Tail(pkt)) = Len(pkt) - 1 /\ Len(pkt) > 0
  <2>1. pkt # <<>> /\ Len(pkt) > 0
    BY <1>3, <1>4, EmptySeq DEF PacketAt
  <2> QED BY <1>3, <1>11, <1>12, <2>1, TailConcat
<1>14. PICK n \in 1..Len(sent') : n = Len(sent') /\ n > 0
  <2>1. Len(sent') \in Nat
    BY <1>5, LenProperties
  <2> QED BY <1>5, <2>1
<1>15. f \in Nat /\ C[n - 1] \in Nat /\ Bases(C, sent') /\ Before(cur) \in Nat
  <2>1. Bases(C, sent')
    BY <1>6 DEF Grows
  <2>2. n \in Nat /\ n - 1 \in 0..n
    BY <1>5, <1>14, LenProperties
  <2>3. f \in Nat
    BY <1>4 DEF PacketAt, Matches
  <2>4. C[n - 1] \in Nat
    BY <1>14, <2>1, <2>2 DEF Bases
  <2>5. Before(cur) \in Nat
    BY <1>9 DEF Before
  <2> QED BY <2>1, <2>3, <2>4, <2>5
<1>16. f + (Len(pkt) - 1) = C[n - 1] + Before(cur)
  <2>1. Reached(C, sent', cur) = C[n - 1] + Before(cur)
    BY <1>8, <1>14 DEF Reached, HeaderSize, Before
  <2>2. Reached(C, sent', cur) = f + Len(pkt) - 1
    BY <1>4, <1>6, <1>7
  <2>3. f + Len(pkt) - 1 = f + (Len(pkt) - 1)
    BY <1>3, <1>15
  <2> QED BY <2>1, <2>2, <2>3
<1>17. FrameLen(sent'[n]) = 4 + Len(cur.msg.payload) /\ C[n] = C[n - 1] + FrameLen(sent'[n])
  <2>1. cur.msg = sent'[n]
    BY <1>8, <1>14
  <2>2. FrameLen(cur.msg) = 4 + Len(cur.msg.payload)
    BY <1>9, FrameFacts
  <2>3. C[n] = C[n - 1] + FrameLen(sent'[n])
    BY <1>14, <1>15 DEF Bases
  <2> QED BY <2>1, <2>2, <2>3
<1>18. PacketAt(C, sent', pkt', start.sent, f)
  <2>1. PacketAt(C, sent', pkt, start.sent, f)
    BY <1>3, <1>4, <1>5, <1>6, PacketGrows
  <2>2. Matches(C, sent', Tail(pkt), f)
    BY <2>1 DEF PacketAt
  <2>3. /\ f + Len(Tail(pkt)) = C[n - 1] + Before(cur)
        /\ Before(cur) + Len(Written(cur)) <= FrameLen(sent'[n])
        /\ Before(cur) + Len(Written(cur)) >= 4
    <3>1. PICK o \in Nat, c \in Nat, l \in Nat : o = cur.offset /\ c = Chunk(cur) /\ l = Len(cur.msg.payload)
      BY <1>9, <1>10
    <3>2. Before(cur) + Len(Written(cur)) = 4 + (o + c) /\ FrameLen(sent'[n]) = 4 + l /\ o + c <= l
      BY <1>10, <1>11, <1>17, <3>1
    <3>3. 4 + (o + c) <= 4 + l /\ 4 + (o + c) >= 4
      BY <3>2
    <3>4. f + Len(Tail(pkt)) = C[n - 1] + Before(cur)
      BY <1>13, <1>16
    <3> QED BY <3>2, <3>3, <3>4
  <2>4. Piece(Written(cur), sent'[n], Before(cur))
    BY <1>8, <1>11, <1>14
  <2>5. Matches(C, sent', Tail(pkt) \o Written(cur), f)
    BY <1>5, <1>11, <1>13, <1>14, <1>15, <2>2, <2>3, <2>4, PieceMatches
  <2> QED BY <1>13, <2>1, <2>5 DEF PacketAt
<1>19. Len(pkt') = Len(pkt) + (HeadLen(cur) + Chunk(cur))
  <2>1. Len(pkt \o Written(cur)) = Len(pkt) + Len(Written(cur))
    BY <1>3, <1>11, ConcatProperties
  <2> QED BY <1>11, <1>12, <2>1
<1>20. gap' = HeaderRepeats(cur) /\ gap' \in BOOLEAN
  BY <1>1, <1>4, <1>7 DEF HeaderRepeats
<1>21. f + (Len(pkt') - 1) = C[n - 1] + (4 + (cur.offset + Chunk(cur)))
  <2>1. PICK k \in Nat, h \in Nat, c \in Nat, b \in Nat, o \in Nat, a \in Nat :
          /\ k = Len(pkt) /\ h = HeadLen(cur) /\ c = Chunk(cur) /\ b = Before(cur) /\ o = cur.offset
          /\ a = C[n - 1]
    BY <1>3, <1>9, <1>10, <1>15
  <2>2. f + (k - 1) = a + b /\ b + (h + c) = 4 + (o + c) /\ Len(pkt') = k + (h + c)
    BY <1>10, <1>16, <1>19, <2>1
  <2>3. f + ((k + (h + c)) - 1) = (f + (k - 1)) + (h + c)
    BY <1>15
  <2>4. (a + b) + (h + c) = a + (b + (h + c))
    OBVIOUS
  <2>5. f + ((k + (h + c)) - 1) = a + (4 + (o + c))
    BY <2>2, <2>3, <2>4
  <2> QED BY <2>1, <2>2, <2>5
<1>22. /\ UnderWay(sent', tx')
       /\ ~gap' => Reached(C, sent', tx') = f + (Len(pkt') - 1)
       /\ tx' \in [active : BOOLEAN, msg : Messages \cup {NoMessage}, offset : 0..MaxPayload]
  <2>1. CASE cur.offset + Chunk(cur) >= Len(cur.msg.payload)
    <3>0. MaxPayload \in Nat
      BY PacketAssumption
    <3>1. tx' = TxIdle /\ ~tx'.active /\ MaxPayload \in Nat
      BY <1>1, <1>7, <2>1, <3>0 DEF TxIdle
    <3>2. cur.offset + Chunk(cur) = Len(cur.msg.payload)
      <4>1. PICK x \in Nat, l \in Nat : x = cur.offset + Chunk(cur) /\ l = Len(cur.msg.payload)
        BY <1>9, <1>10
      <4>2. x >= l /\ x <= l
        BY <1>10, <2>1, <4>1
      <4>3. x = l
        BY <4>2
      <4> QED BY <4>1, <4>3
    <3>3. Reached(C, sent', tx') = C[n]
      BY <1>14, <3>1 DEF Reached
    <3>4. C[n] = f + (Len(pkt') - 1)
      BY <1>17, <1>21, <3>2
    <3> QED BY <3>1, <3>3, <3>4 DEF UnderWay, TxIdle
  <2>2. CASE cur.offset + Chunk(cur) < Len(cur.msg.payload)
    <3>1. PICK o \in Nat : o = cur.offset + Chunk(cur) /\ o < Len(cur.msg.payload)
      BY <1>9, <1>10, <2>2
    <3>2. tx' = [cur EXCEPT !.offset = o]
      <4>1. ~(cur.offset + Chunk(cur) >= Len(cur.msg.payload))
        <5>1. ASSUME NEW l \in Nat, o < l PROVE ~(o >= l)
          BY <5>1
        <5>2. Len(cur.msg.payload) \in Nat
          BY <1>9
        <5> QED BY <3>1, <5>1, <5>2
      <4> QED BY <1>1, <1>7, <3>1, <4>1
    <3>3. tx'.active /\ tx'.msg = cur.msg /\ tx'.offset = o
      BY <1>8, <3>2 DEF Transfers
    <3>4. tx' \in [active : BOOLEAN, msg : Messages \cup {NoMessage}, offset : 0..MaxPayload]
      <4>1. o \in 0..MaxPayload
        <5>1. MaxPayload \in Nat
          BY PacketAssumption
        <5>2. Len(cur.msg.payload) <= MaxPayload /\ Len(cur.msg.payload) \in Nat
          BY <1>9, FrameFacts
        <5>3. ASSUME NEW l \in Nat, NEW m \in Nat, o < l, l <= m PROVE o \in 0..m
          BY <5>3
        <5> QED BY <3>1, <5>1, <5>2, <5>3
      <4> QED BY <3>2, <4>1 DEF Transfers
    <3>5. UnderWay(sent', tx')
      BY <1>5, <1>8, <3>1, <3>3 DEF UnderWay
    <3>6. ASSUME ~gap' PROVE o > 0
      <4>1. ~HeaderRepeats(cur)
        BY <1>20, <3>6
      <4>2. ~(cur.offset = 0 /\ Chunk(cur) = 0 /\ cur.msg.payload # <<>>)
        BY <4>1 DEF HeaderRepeats
      <4>3. cur.msg.payload # <<>>
        BY <1>9, <3>1, EmptySeq
      <4>4. ~(cur.offset = 0 /\ Chunk(cur) = 0) /\ cur.offset \in Nat /\ Chunk(cur) \in Nat
        BY <1>9, <1>10, <4>2, <4>3
      <4>5. ASSUME NEW a \in Nat, NEW b \in Nat, ~(a = 0 /\ b = 0) PROVE a + b > 0
        BY <4>5
      <4> QED BY <3>1, <4>4, <4>5
    <3>7. ASSUME ~gap' PROVE Reached(C, sent', tx') = f + (Len(pkt') - 1)
      <4>1. Reached(C, sent', tx') = C[n - 1] + (4 + o)
        BY <1>14, <3>3, <3>6, <3>7 DEF Reached, HeaderSize
      <4> QED BY <1>21, <3>1, <4>1
    <3> QED BY <3>4, <3>5, <3>7
  <2>3. cur.offset + Chunk(cur) >= Len(cur.msg.payload) \/ cur.offset + Chunk(cur) < Len(cur.msg.payload)
    <3>1. ASSUME NEW a \in Nat, NEW b \in Nat PROVE a >= b \/ a < b
      OBVIOUS
    <3>2. cur.offset + Chunk(cur) \in Nat /\ Len(cur.msg.payload) \in Nat
      <4>1. ASSUME NEW a \in Nat, NEW b \in Nat PROVE a + b \in Nat
        OBVIOUS
      <4>2. cur.offset \in Nat /\ Chunk(cur) \in Nat /\ Len(cur.msg.payload) \in Nat
        BY <1>9, <1>10
      <4> HIDE <1>9, <1>10
      <4> QED BY <4>1, <4>2
    <3> QED BY <3>1, <3>2
  <2> QED BY <2>1, <2>2, <2>3
<1>23. AirInv(C, F, z)' /\ RxInv(C, z)' /\ RxShape' /\ Bases(C, sent') /\ End(F, z)' = End(F, z)
  BY <1>1, <1>2, <1>3, <1>5, <1>6, ReceiverStays
<1>24. Len(pkt') \in Nat /\ Len(pkt') <= room /\ f + (Len(pkt') - 1) = f + Len(pkt') - 1
  BY <1>10, <1>13, <1>15, <1>19, LenProperties
<1>25. BuildInv(C, f)'
  <2>1. gap' => Len(pkt') = room
    BY <1>10, <1>19, <1>20
  <2>2. pc' = "build" /\ room' = room /\ start' = start
    BY <1>1
  <2> QED BY <1>18, <1>22, <1>24, <2>1, <2>2 DEF BuildInv
<1>26. ChainInv(C, F, f, z)'
  BY <1>1, <1>2, <1>23 DEF ChainInv, rxVars
<1>27. PosInv(C, F, f, z)'
  BY <1>2, <1>23, <1>25, <1>26 DEF PosInv
<1>28. TypeOK'
  BY <1>1, <1>5, <1>22, <1>24 DEF TypeOK, rxVars
<1>29. SenderInv'
  BY <1>1, <1>3, <1>5, <1>13, <1>20, <1>22 DEF SenderInv
<1> QED BY <1>23, <1>27, <1>28, <1>29 DEF StreamInv

-----------------------------------------------------------------------------
(* The steps of the sender and of the link                                 *)

\* A fifo keeps its size.
LEMMA QueuedFacts ==
  ASSUME NEW S, NEW q \in Seq(S), NEW m \in S, Len(q) <= FifoSize
  PROVE  Queued(q, m) \in Seq(S) /\ Len(Queued(q, m)) <= FifoSize
<1>1. FifoSize \in Nat /\ FifoSize > 0 /\ Len(q) \in Nat
  BY LenProperties, PacketAssumption
<1>2. CASE Len(q) < FifoSize
  <2>1. Queued(q, m) = Append(q, m) /\ Append(q, m) \in Seq(S) /\ Len(Append(q, m)) = Len(q) + 1
    BY <1>2, AppendProperties DEF Queued
  <2> QED BY <1>1, <1>2, <2>1
<1>3. CASE ~(Len(q) < FifoSize)
  <2>1. q # <<>>
    BY <1>1, <1>3, EmptySeq
  <2>2. Tail(q) \in Seq(S) /\ Len(Tail(q)) = Len(q) - 1
    BY <2>1, HeadTailProperties
  <2>3. /\ Queued(q, m) = Append(Tail(q), m) /\ Append(Tail(q), m) \in Seq(S)
        /\ Len(Append(Tail(q), m)) = Len(Tail(q)) + 1
    BY <1>3, <2>2, AppendProperties DEF Queued
  <2> QED BY <1>1, <2>2, <2>3
<1> QED BY <1>2, <1>3

\* A message that waits is not part of the stream yet.
LEMMA SubmitMoves ==
  ASSUME TypeOK, SenderInv, RxShape, NEW B, NEW F, NEW f, NEW z, PosInv(B, F, f, z),
         NEW m \in Messages, Submit(m)
  PROVE  StreamInv'
<1>1. /\ txFifo' = Queued(txFifo, m)
      /\ UNCHANGED <<link, mtu, tx, pc, room, pkt, sent, start, air, rx, in, rxFifo, rcvd, sync, gap>>
  BY DEF Submit, rxVars
<1>2. txFifo' \in Seq(Messages) /\ Len(txFifo') <= FifoSize
  BY <1>1, QueuedFacts DEF SenderInv, TypeOK
<1>3. TypeOK'
  BY <1>1, <1>2 DEF TypeOK
<1>4. SenderInv' /\ RxShape'
  BY <1>1, <1>2 DEF SenderInv, RxShape
<1>5. PosInv(B, F, f, z)'
  BY <1>1 DEF PosInv, BuildInv, AirInv, ChainInv, RxInv, End, Done
<1> QED BY <1>3, <1>4, <1>5 DEF StreamInv

\* Neither does the receiver's task that takes a message touch it.
LEMMA ProcessMoves ==
  ASSUME TypeOK, SenderInv, RxShape, NEW B, NEW F, NEW f, NEW z, PosInv(B, F, f, z),
         process_rx_buffers
  PROVE  StreamInv'
<1>1. /\ rxFifo # <<>> /\ rxFifo' = Tail(rxFifo)
      /\ UNCHANGED <<link, mtu, txFifo, tx, pc, room, pkt, sent, start, air, rx, in, rcvd, sync, gap>>
  BY DEF process_rx_buffers, txVars
<1>2. rxFifo' \in Seq(Frames) /\ Len(rxFifo') <= FifoSize
  <2>1. rxFifo \in Seq(Frames) /\ Len(rxFifo) <= FifoSize /\ FifoSize \in Nat
    BY PacketAssumption DEF RxShape, TypeOK
  <2>2. Tail(rxFifo) \in Seq(Frames) /\ Len(Tail(rxFifo)) = Len(rxFifo) - 1 /\ Len(rxFifo) \in Nat
    BY <1>1, <2>1, HeadTailProperties, LenProperties
  <2> QED BY <1>1, <2>1, <2>2
<1>3. TypeOK'
  BY <1>1, <1>2 DEF TypeOK
<1>4. SenderInv' /\ RxShape'
  BY <1>1, <1>2 DEF SenderInv, RxShape
<1>5. PosInv(B, F, f, z)'
  BY <1>1 DEF PosInv, BuildInv, AirInv, ChainInv, RxInv, End, Done
<1> QED BY <1>3, <1>4, <1>5 DEF StreamInv

\* A packet that is not worth sending leaves the stream where it was; a message whose
\* header did not fit has become part of it.
LEMMA FinishMoves ==
  ASSUME TypeOK, SenderInv, RxShape, NEW B, NEW F, NEW f, NEW z, PosInv(B, F, f, z), FinishPacket
  PROVE  StreamInv'
<1>1. /\ pc = "build"
      /\ \/ /\ Len(pkt) >= room \/ ~Loaded
            /\ UNCHANGED <<tx, txFifo, sent>>
         \/ /\ Len(pkt) < room /\ Loaded /\ ~HeaderFits(Current)
            /\ Load /\ tx' = Current
      /\ IF Len(pkt) > 1 THEN pc' = "notify" /\ UNCHANGED gap
         ELSE pc' = "idle" /\ gap' = (gap \/ start.broken)
      /\ UNCHANGED <<link, mtu, room, pkt, start, air, rxVars, submitted, failed, links>>
  BY DEF FinishPacket
<1>2. /\ Bases(B, sent) /\ BuildInv(B, f) /\ AirInv(B, F, z) /\ ChainInv(B, F, f, z) /\ RxInv(B, z)
      /\ z \in Nat
  BY DEF PosInv
<1>3. /\ pkt \in Seq(Nat) /\ Len(pkt) \in Nat /\ sent \in Seq(Messages) /\ txFifo \in Seq(Messages)
      /\ gap \in BOOLEAN /\ start \in [sent : Nat, broken : BOOLEAN]
      /\ tx \in [active : BOOLEAN, msg : Messages \cup {NoMessage}, offset : 0..MaxPayload]
      /\ UnderWay(sent, tx) /\ Len(txFifo) <= FifoSize
  BY LenProperties DEF TypeOK, SenderInv
<1>4. /\ PacketAt(B, sent, pkt, start.sent, f) /\ f \in Nat /\ Len(pkt) > 0
      /\ ~gap => Reached(B, sent, tx) = f + Len(pkt) - 1
      /\ gap => Len(pkt) = room
  <2>1. PacketAt(B, sent, pkt, start.sent, f)
    BY <1>1, <1>2 DEF BuildInv
  <2>2. f \in Nat /\ pkt # <<>>
    BY <2>1 DEF PacketAt, Matches
  <2>3. Len(pkt) > 0
    BY <1>3, <2>2, EmptySeq
  <2> QED BY <1>1, <1>2, <2>1, <2>2, <2>3 DEF BuildInv
<1>5. /\ sent' \in Seq(Messages) /\ txFifo' \in Seq(Messages) /\ Len(txFifo') <= FifoSize
      /\ tx' \in [active : BOOLEAN, msg : Messages \cup {NoMessage}, offset : 0..MaxPayload]
      /\ UnderWay(sent', tx')
      /\ \E C : Grows(B, sent, C, sent') /\ Reached(C, sent', tx') = Reached(B, sent, tx)
  <2>1. CASE UNCHANGED <<tx, txFifo, sent>>
    <3>1. Grows(B, sent, B, sent)
      BY <1>2, <1>3, GrowsNot
    <3> QED BY <1>3, <2>1, <3>1
  <2>2. CASE Loaded /\ Load /\ tx' = Current
    BY <1>2, <2>2, LoadFacts
  <2> QED BY <1>1, <2>1, <2>2
<1>6. PICK C : Grows(B, sent, C, sent') /\ Reached(C, sent', tx') = Reached(B, sent, tx)
  BY <1>5
<1>7. AirInv(C, F, z)' /\ RxInv(C, z)' /\ RxShape' /\ Bases(C, sent') /\ End(F, z)' = End(F, z)
  BY <1>1, <1>2, <1>3, <1>5, <1>6, ReceiverStays
<1>8. PacketAt(C, sent', pkt, start.sent, f)
  BY <1>3, <1>4, <1>5, <1>6, PacketGrows
<1>9. pkt' = pkt /\ room' = room /\ start' = start /\ air' = air /\ sync' = sync
  BY <1>1 DEF rxVars
<1>10. CASE Len(pkt) > 1
  <2>1. pc' = "notify" /\ gap' = gap
    BY <1>1, <1>10
  <2>2. BuildInv(C, f)'
    BY <1>4, <1>6, <1>8, <1>9, <1>10, <2>1 DEF BuildInv
  <2>3. ChainInv(C, F, f, z)'
    BY <1>1, <1>2, <1>7, <1>9, <2>1 DEF ChainInv
  <2>4. PosInv(C, F, f, z)'
    BY <1>2, <1>7, <2>2, <2>3 DEF PosInv
  <2>5. TypeOK'
    BY <1>1, <1>5, <2>1 DEF TypeOK, rxVars
  <2>6. SenderInv'
    BY <1>3, <1>5, <1>9, <2>1 DEF SenderInv
  <2> QED BY <1>7, <2>4, <2>5, <2>6 DEF StreamInv
<1>11. CASE ~(Len(pkt) > 1)
  <2>1. pc' = "idle" /\ gap' = (gap \/ start.broken) /\ gap' \in BOOLEAN
    BY <1>1, <1>3, <1>11
  <2>2. BuildInv(C, f)'
    BY <2>1 DEF BuildInv
  <2>3. ASSUME ~gap', air # <<>> \/ sync.ok PROVE Reached(C, sent', tx') = End(F, z)
    <3>1. ~gap /\ ~start.broken
      BY <2>1, <2>3
    <3>2. f = End(F, z)
      BY <1>1, <1>2, <2>3, <3>1 DEF ChainInv
    <3>3. Reached(B, sent, tx) = f + Len(pkt) - 1 /\ Len(pkt) = 1
      <4>1. PICK k \in Nat : k = Len(pkt)
        BY <1>3
      <4>2. k > 0 /\ ~(k > 1)
        BY <1>4, <1>11, <4>1
      <4>3. k = 1
        BY <4>2
      <4>4. Len(pkt) = 1
        BY <4>1, <4>3
      <4> QED BY <1>4, <3>1, <4>4
    <3>4. f + 1 - 1 = f
      BY <1>4
    <3> QED BY <1>6, <3>2, <3>3, <3>4
  <2>4. ChainInv(C, F, f, z)'
    BY <1>7, <1>9, <2>1, <2>3 DEF ChainInv
  <2>5. PosInv(C, F, f, z)'
    BY <1>2, <1>7, <2>2, <2>4 DEF PosInv
  <2>6. TypeOK'
    BY <1>1, <1>5, <2>1 DEF TypeOK, rxVars
  <2>7. SenderInv'
    BY <1>3, <1>5, <1>9, <2>1 DEF SenderInv
  <2> QED BY <1>7, <2>5, <2>6, <2>7 DEF StreamInv
<1> QED BY <1>10, <1>11

\* A packet begins where the sender stands.
LEMMA BeginFacts ==
  ASSUME TypeOK, SenderInv, NEW B, Bases(B, sent), NEW broken \in BOOLEAN, Begin(broken),
         UNCHANGED <<mtu, txFifo, tx, sent, rxFifo, rx>>, link' \in {"down", "connected", "subscribed"},
         NEW e, e = Reached(B, sent, tx)
  PROVE  BuildInv(B, e)' /\ TypeOK' /\ SenderInv'
<1> DEFINE x == IF tx.active THEN 1 ELSE 0
           w == <<x>>
<1>1. /\ pkt' = w /\ room' = mtu /\ pc' = "build" /\ gap' = FALSE
      /\ start' = [sent |-> Len(sent), broken |-> broken]
  BY DEF Begin
<1>2. x \in Nat /\ w \in Seq(Nat) /\ Len(w) = 1
  OBVIOUS
<1>3. /\ sent \in Seq(Messages) /\ UnderWay(sent, tx) /\ tx.active \in BOOLEAN /\ tx.offset \in Nat
      /\ Len(sent) \in Nat /\ mtu \in Nat
  BY LenProperties, PacketAssumption DEF SenderInv, TypeOK
<1>4. PacketAt(B, sent, w, Len(sent), Reached(B, sent, tx)) /\ Reached(B, sent, tx) \in Nat
  BY <1>3, FlagOnly, ReachedFacts
<1> HIDE DEF w
<1>5. start'.sent = Len(sent) /\ start' \in [sent : Nat, broken : BOOLEAN]
  BY <1>1, <1>3
<1>6. e \in Nat /\ Reached(B, sent, tx)' = e /\ e = e + Len(w) - 1
  <2>1. Reached(B, sent, tx)' = Reached(B, sent, tx)
    BY DEF Reached
  <2> QED BY <1>2, <1>4, <2>1
<1>7. BuildInv(B, e)'
  BY <1>1, <1>4, <1>5, <1>6 DEF BuildInv
<1>8. TypeOK'
  BY <1>1, <1>2, <1>3 DEF TypeOK
<1>9. SenderInv'
  BY <1>1, <1>2, <1>3, <1>5 DEF SenderInv
<1> QED BY <1>7, <1>8, <1>9

\* Where the sender stands when nothing of its own state changes
LEMMA ReachedStays ==
  ASSUME NEW B, UNCHANGED <<sent, tx>>
  PROVE  Reached(B, sent, tx)' = Reached(B, sent, tx)
BY DEF Reached

\* populate_tx_buffers starts.
LEMMA PopulateMoves ==
  ASSUME TypeOK, SenderInv, RxShape, NEW B, NEW F, NEW f, NEW z, PosInv(B, F, f, z),
         populate_tx_buffers
  PROVE  StreamInv'
<1>1. /\ pc = "idle" /\ Begin(gap) /\ gap \in BOOLEAN
      /\ UNCHANGED <<link, mtu, txFifo, tx, sent, air, rx, in, rxFifo, rcvd, sync>>
  BY DEF populate_tx_buffers, rxVars, SenderInv
<1>2. /\ Bases(B, sent) /\ AirInv(B, F, z) /\ ChainInv(B, F, f, z) /\ RxInv(B, z) /\ z \in Nat
  BY DEF PosInv
<1>3. PICK e : e = Reached(B, sent, tx)
  OBVIOUS
<1>4. BuildInv(B, e)' /\ TypeOK' /\ SenderInv'
  BY <1>1, <1>2, <1>3, BeginFacts DEF TypeOK
<1>5. pc' = "build" /\ start' = [sent |-> Len(sent), broken |-> gap]
  BY <1>1 DEF Begin
<1>6. AirInv(B, F, z)' /\ RxInv(B, z)' /\ RxShape' /\ Bases(B, sent)' /\ End(F, z)' = End(F, z)
  BY <1>1, <1>2 DEF AirInv, RxInv, RxShape, End, Done
<1>7. ChainInv(B, F, e, z)'
  BY <1>1, <1>2, <1>3, <1>5, <1>6 DEF ChainInv
<1>8. PosInv(B, F, e, z)'
  BY <1>2, <1>4, <1>6, <1>7 DEF PosInv
<1> QED BY <1>4, <1>6, <1>8 DEF StreamInv

\* The packet is gone: the next one is behind a gap.
LEMMA NotifyFailsMoves ==
  ASSUME TypeOK, SenderInv, RxShape, NEW B, NEW F, NEW f, NEW z, PosInv(B, F, f, z), NotifyFails
  PROVE  StreamInv'
<1>1. /\ \/ Begin(TRUE)
         \/ pc' = "idle" /\ gap' = TRUE /\ UNCHANGED <<pkt, room, start>>
      /\ UNCHANGED <<link, mtu, txFifo, tx, sent, air, rx, in, rxFifo, rcvd, sync>>
  BY DEF NotifyFails, rxVars
<1>2. /\ Bases(B, sent) /\ AirInv(B, F, z) /\ RxInv(B, z) /\ z \in Nat
  BY DEF PosInv
<1>3. PICK e : e = Reached(B, sent, tx)
  OBVIOUS
<1>4. AirInv(B, F, z)' /\ RxInv(B, z)' /\ RxShape' /\ Bases(B, sent)'
  BY <1>1, <1>2 DEF AirInv, RxInv, RxShape, Done
<1>5. BuildInv(B, e)' /\ TypeOK' /\ SenderInv' /\ ChainInv(B, F, e, z)'
  <2>1. CASE Begin(TRUE)
    <3>1. BuildInv(B, e)' /\ TypeOK' /\ SenderInv'
      BY <1>1, <1>2, <1>3, <2>1, BeginFacts DEF TypeOK
    <3>2. pc' = "build" /\ start' = [sent |-> Len(sent), broken |-> TRUE]
      BY <2>1 DEF Begin
    <3> QED BY <3>1, <3>2 DEF ChainInv
  <2>2. CASE pc' = "idle" /\ gap' = TRUE /\ UNCHANGED <<pkt, room, start>>
    <3>1. TypeOK' /\ SenderInv'
      BY <1>1, <2>2 DEF TypeOK, SenderInv
    <3> QED BY <2>2, <3>1 DEF BuildInv, ChainInv
  <2> QED BY <1>1, <2>1, <2>2
<1>6. PosInv(B, F, e, z)'
  BY <1>2, <1>4, <1>5 DEF PosInv
<1> QED BY <1>4, <1>5, <1>6 DEF StreamInv

\* The packet is on its way, behind the others.
LEMMA NotifyMoves ==
  ASSUME TypeOK, SenderInv, RxShape, NEW B, NEW F, NEW f, NEW z, PosInv(B, F, f, z), Notify
  PROVE  StreamInv'
<1> DEFINE packet == [bytes |-> pkt, broken |-> start.broken, sent |-> start.sent]
<1>1. /\ pc = "notify" /\ link # "down" /\ air' = Append(air, packet) /\ Begin(gap)
      /\ UNCHANGED <<link, mtu, txFifo, tx, sent, rx, in, rxFifo, rcvd, sync>>
  BY DEF Notify, rxVars
<1>2. /\ Bases(B, sent) /\ BuildInv(B, f) /\ AirInv(B, F, z) /\ ChainInv(B, F, f, z) /\ RxInv(B, z)
      /\ z \in Nat
  BY DEF PosInv
<1>3. /\ pkt \in Seq(Nat) /\ gap \in BOOLEAN /\ start \in [sent : Nat, broken : BOOLEAN]
      /\ air \in Seq(Packets)
      /\ F \in Seq(Nat) /\ Len(F) = Len(air)
  BY <1>2 DEF SenderInv, RxShape, AirInv
<1>4. /\ PacketAt(B, sent, pkt, start.sent, f) /\ f \in Nat /\ Len(pkt) > 1
      /\ ~gap => Reached(B, sent, tx) = f + Len(pkt) - 1
  BY <1>1, <1>2 DEF BuildInv, PacketAt, Matches
<1>5. PICK n \in Nat : n = Len(air)
  BY <1>3, LenProperties
<1>6. /\ packet \in Packets
      /\ packet.bytes = pkt /\ packet.broken = start.broken /\ packet.sent = start.sent
  BY <1>3 DEF Packets
<1> DEFINE G == Append(F, f)
<1> HIDE DEF packet
<1>7. /\ air' \in Seq(Packets)
      /\ Len(air') = n + 1 /\ air'[n + 1] = packet /\ \A i \in 1..n : air'[i] = air[i]
  BY <1>1, <1>3, <1>5, <1>6, AppendProperties
<1>8. G \in Seq(Nat) /\ Len(G) = n + 1 /\ G[n + 1] = f /\ \A i \in 1..n : G[i] = F[i]
  <2>1. Len(F) = n
    BY <1>3, <1>5
  <2> QED BY <1>3, <1>4, <2>1, AppendProperties
<1> HIDE DEF G
<1>9. air' # <<>>
  BY <1>7, EmptySeq
<1>10. AirInv(B, G, z)'
  <2>1. ASSUME NEW i \in 1..(n + 1)
        PROVE  /\ PacketAt(B, sent, air'[i].bytes, air'[i].sent, G[i]) /\ Len(air'[i].bytes) > 1
               /\ (~air'[i].broken /\ i > 1) => G[i] = G[i - 1] + Len(air'[i - 1].bytes) - 1
               /\ (~air'[i].broken /\ i = 1 /\ sync.ok) => G[i] = z + Len(in)
    <3>1. CASE i \in 1..n
      <4>1. air'[i] = air[i] /\ G[i] = F[i] /\ i \in 1..Len(air)
        BY <1>5, <1>7, <1>8, <3>1
      <4>2. i > 1 => i - 1 \in 1..n
        BY <3>1
      <4>3. i > 1 => air'[i - 1] = air[i - 1] /\ G[i - 1] = F[i - 1]
        BY <1>7, <1>8, <4>2
      <4>4. /\ PacketAt(B, sent, air[i].bytes, air[i].sent, F[i]) /\ Len(air[i].bytes) > 1
            /\ (~air[i].broken /\ i > 1) => F[i] = F[i - 1] + Len(air[i - 1].bytes) - 1
            /\ (~air[i].broken /\ i = 1 /\ sync.ok) => F[i] = z + Len(in)
        BY <1>2, <4>1 DEF AirInv
      <4> QED BY <4>1, <4>3, <4>4
    <3>2. CASE i = n + 1
      <4>1. air'[i] = packet /\ G[i] = f
        BY <1>7, <1>8, <3>2
      <4>2. PacketAt(B, sent, packet.bytes, packet.sent, f) /\ Len(packet.bytes) > 1
        BY <1>4, <1>6
      <4>3. ASSUME ~packet.broken, i > 1 PROVE f = G[i - 1] + Len(air'[i - 1].bytes) - 1
        <5>1. i - 1 = n /\ n \in 1..n /\ n > 0
          BY <3>2, <4>3
        <5>2. air # <<>>
          BY <1>5, <5>1, EmptySeq
        <5>3. f = F[n] + Len(air[n].bytes) - 1
          BY <1>1, <1>2, <1>5, <1>6, <4>3, <5>2 DEF ChainInv, End
        <5> QED BY <1>7, <1>8, <5>1, <5>3
      <4>4. ASSUME ~packet.broken, i = 1, sync.ok PROVE f = z + Len(in)
        <5>1. n = 0
          BY <3>2, <4>4
        <5>2. air = <<>>
          BY <1>3, <1>5, <5>1, EmptySeq
        <5> QED BY <1>1, <1>2, <1>6, <4>4, <5>2 DEF ChainInv, End
      <4> QED BY <4>1, <4>2, <4>3, <4>4
    <3> QED BY <3>1, <3>2
  <2> QED BY <1>1, <1>7, <1>8, <2>1 DEF AirInv
<1>11. PICK e : e = Reached(B, sent, tx)
  OBVIOUS
<1>12. BuildInv(B, e)' /\ TypeOK' /\ SenderInv'
  BY <1>1, <1>2, <1>3, <1>11, BeginFacts DEF TypeOK
<1>13. RxInv(B, z)' /\ Bases(B, sent)'
  BY <1>1, <1>2 DEF RxInv, Done
<1>14. RxShape'
  BY <1>1, <1>7 DEF RxShape
<1>15. ChainInv(B, G, e, z)'
  <2>1. pc' = "build" /\ start'.broken = gap
    BY <1>1 DEF Begin
  <2>2. End(G, z)' = f + Len(pkt) - 1
    BY <1>6, <1>7, <1>8, <1>9 DEF End
  <2> QED BY <1>4, <1>11, <2>1, <2>2 DEF ChainInv
<1>16. PosInv(B, G, e, z)'
  BY <1>2, <1>10, <1>12, <1>13, <1>15 DEF PosInv
<1> QED BY <1>12, <1>14, <1>16 DEF StreamInv

-----------------------------------------------------------------------------
(* The receiver                                                            *)

\* Parsing moves the receiver on within its packet; nothing else notices.
LEMMA ParseStays ==
  ASSUME SenderInv, NEW B, NEW F, NEW f, NEW z, PosInv(B, F, f, z),
         UNCHANGED <<link, mtu, txVars, air, sync, gap>>,
         NEW y, y + Len(in') = z + Len(in)
  PROVE  /\ BuildInv(B, f)' /\ AirInv(B, F, y)' /\ ChainInv(B, F, f, y)' /\ Bases(B, sent)'
         /\ SenderInv'
<1>1. /\ Bases(B, sent) /\ BuildInv(B, f) /\ AirInv(B, F, z) /\ ChainInv(B, F, f, z)
  BY DEF PosInv
<1>2. UNCHANGED <<link, mtu, txFifo, tx, pc, room, pkt, sent, start, air, sync, gap>>
  BY DEF txVars
<1>3. BuildInv(B, f)' /\ Bases(B, sent)' /\ SenderInv'
  BY <1>1, <1>2 DEF BuildInv, SenderInv
<1>4. AirInv(B, F, y)'
  BY <1>1, <1>2 DEF AirInv
<1>5. End(F, y)' = End(F, z)
  BY <1>2 DEF End
<1>6. ChainInv(B, F, f, y)'
  BY <1>1, <1>2, <1>5 DEF ChainInv
<1> QED BY <1>3, <1>4, <1>6

\* What is behind the first j bytes
LEMMA SuffixFacts ==
  ASSUME NEW s \in Seq(Nat), NEW j \in Nat, j <= Len(s), NEW c, c = SubSeq(s, j + 1, Len(s))
  PROVE  /\ c \in Seq(Nat) /\ j + Len(c) = Len(s) /\ \A i \in 1..Len(c) : c[i] = s[i + j]
<1>1. PICK l \in Nat : l = Len(s)
  BY LenProperties
<1>2. c = SubSeq(s, j + 1, l) /\ j <= l
  BY <1>1
<1>3. \A i \in (j + 1)..l : s[i] \in Nat
  BY <1>1, ElementOfSeq
<1>4. /\ c \in Seq(Nat) /\ Len(c) = l - j /\ \A i \in 1..(l - j) : c[i] = s[i + j]
  <2>1. ASSUME NEW k \in Nat, k = l - j
        PROVE  /\ SubSeq(s, j + 1, l) \in Seq(Nat) /\ Len(SubSeq(s, j + 1, l)) = k
               /\ \A i \in 1..k : SubSeq(s, j + 1, l)[i] = s[i + j]
    BY <1>1, <1>2, <1>3, <2>1
  <2>2. l - j \in Nat
    BY <1>2
  <2> QED BY <1>2, <2>1, <2>2
<1> QED BY <1>1, <1>2, <1>4

\* The byte at a position within the frame of message d + 1
LEMMA ByteAt ==
  ASSUME NEW B, NEW s \in Seq(Messages), NEW bytes, NEW p, Matches(B, s, bytes, p),
         NEW i \in 1..Len(bytes), NEW d \in Nat, d < Len(s), NEW o \in 1..FrameLen(s[d + 1]),
         p + i = B[d] + o
  PROVE  bytes[i] = Byte(s[d + 1], o)
<1>1. PICK k \in 1..Len(s) : k = d + 1 /\ k - 1 = d
  <2>1. Len(s) \in Nat
    BY LenProperties
  <2> QED BY <2>1
<1>2. p + i = B[k - 1] + o /\ o \in 1..FrameLen(s[k])
  BY <1>1
<1>3. bytes[i] = Byte(s[k], o)
  BY <1>2 DEF Matches
<1> QED BY <1>1, <1>3

\* At the end of a frame, the next byte is the magic byte of a whole header.
LEMMA HeadByte ==
  ASSUME NEW B, NEW s \in Seq(Messages), Bases(B, s), NEW bytes, NEW p, Matches(B, s, bytes, p),
         bytes # <<>>, NEW d \in Nat, d <= Len(s), p = B[d]
  PROVE  d < Len(s) /\ bytes[1] = Magic /\ Len(bytes) >= 4
<1>1. /\ bytes \in Seq(Nat) /\ p \in Nat /\ Len(bytes) \in Nat /\ Len(bytes) > 0 /\ Len(s) \in Nat
      /\ p + Len(bytes) <= B[Len(s)] /\ Whole(B, s, p + Len(bytes))
  <2>1. bytes \in Seq(Nat)
    BY DEF Matches
  <2>2. Len(bytes) \in Nat /\ Len(bytes) > 0
    BY <2>1, LenProperties, EmptySeq
  <2> QED BY <2>1, <2>2, LenProperties DEF Matches
<1>2. PICK l \in Nat : l = Len(bytes) /\ l > 0
  BY <1>1
<1>3. p + l <= B[Len(s)] /\ Whole(B, s, p + l)
  BY <1>1, <1>2
<1>4. d < Len(s)
  <2>1. d # Len(s)
    BY <1>1, <1>2, <1>3
  <2> QED BY <1>1, <2>1
<1>5. bytes[1] = Magic
  <2>1. d + 1 \in 1..Len(s)
    BY <1>1, <1>4
  <2>2. FrameLen(s[d + 1]) \in Nat /\ FrameLen(s[d + 1]) >= 4
    BY <2>1, ElementOfSeq, FrameFacts
  <2>3. 1 \in 1..FrameLen(s[d + 1]) /\ 1 \in 1..Len(bytes) /\ p + 1 = B[d] + 1
    BY <1>1, <2>2
  <2>4. bytes[1] = Byte(s[d + 1], 1)
    BY <1>4, <2>3, ByteAt
  <2> QED BY <2>4 DEF Byte
<1>6. l >= 4
  <2>1. d \in 0..(Len(s) - 1)
    BY <1>1, <1>4
  <2>2. p + l <= p \/ p + l >= p + 4
    BY <1>3, <2>1 DEF Whole, HeaderSize
  <2> QED BY <1>1, <1>2, <2>2
<1> QED BY <1>2, <1>4, <1>5, <1>6

\* What the receiver has put together when it goes on
LEMMA RxFacts ==
  ASSUME SenderInv, RxShape, NEW B, NEW z, RxInv(B, z)
  PROVE  /\ Len(sent) \in Nat /\ Len(rcvd) \in Nat /\ sync.sent \in Nat /\ sync.rcvd \in Nat
         /\ sync.sent <= Len(sent) /\ sync.rcvd <= Len(rcvd) /\ Done \in Nat
         /\ rcvd \in Seq(Frames) /\ sent \in Seq(Messages) /\ in \in Seq(Nat)
<1>1. /\ rcvd \in Seq(Frames) /\ sent \in Seq(Messages) /\ in \in Seq(Nat)
      /\ sync.sent \in Nat /\ sync.rcvd \in Nat
  BY DEF SenderInv, RxShape
<1>2. PICK a \in Nat, b \in Nat : a = Len(sent) /\ b = Len(rcvd)
  BY <1>1, LenProperties
<1>3. sync.sent <= a /\ sync.rcvd <= b
  BY <1>1, <1>2 DEF RxInv
<1>4. sync.sent + (b - sync.rcvd) \in Nat
  BY <1>1, <1>3
<1> QED BY <1>1, <1>2, <1>3, <1>4 DEF Done

\* One more message
LEMMA EmitFacts ==
  ASSUME SenderInv, RxShape, TypeOK, NEW B, NEW z, RxInv(B, z), NEW m \in Frames, Emit(m), UNCHANGED <<sync, sent>>
  PROVE  /\ rcvd' \in Seq(Frames) /\ rxFifo' \in Seq(Frames) /\ Len(rxFifo') <= FifoSize
         /\ rx' = RxIdle /\ Done' = Done + 1 /\ sync.rcvd \in 0..Len(rcvd')
         /\ Same(sent, rcvd, sync) /\ m = sent[Done + 1] => Same(sent, rcvd', sync)
<1>1. rxFifo' = Queued(rxFifo, m) /\ rcvd' = Append(rcvd, m) /\ rx' = RxIdle
  BY DEF Emit
<1>2. rxFifo' \in Seq(Frames) /\ Len(rxFifo') <= FifoSize
  BY <1>1, QueuedFacts DEF RxShape, TypeOK
<1>3. /\ rcvd \in Seq(Frames) /\ sync.sent \in Nat /\ sync.rcvd \in Nat
  BY RxFacts
<1>4. PICK b \in Nat : b = Len(rcvd) /\ sync.rcvd <= b
  BY RxFacts
<1>5. rcvd' \in Seq(Frames) /\ Len(rcvd') = b + 1 /\ rcvd'[b + 1] = m /\ \A i \in 1..b : rcvd'[i] = rcvd[i]
  BY <1>1, <1>3, <1>4, AppendProperties
<1>6. Done = sync.sent + (b - sync.rcvd) /\ Done' = sync.sent + ((b + 1) - sync.rcvd)
  BY <1>4, <1>5 DEF Done
<1>7. Done' = Done + 1
  BY <1>3, <1>6
<1>8. sync.rcvd \in 0..Len(rcvd')
  BY <1>3, <1>4, <1>5
<1>9. ASSUME Same(sent, rcvd, sync), m = sent[Done + 1] PROVE Same(sent, rcvd', sync)
  <2>1. ASSUME NEW i \in 1..((b + 1) - sync.rcvd) PROVE rcvd'[sync.rcvd + i] = sent[sync.sent + i]
    <3>1. CASE i = (b + 1) - sync.rcvd
      <4>1. sync.rcvd + i = b + 1 /\ sync.sent + i = Done + 1
        BY <1>3, <1>6, <3>1
      <4> QED BY <1>5, <1>9, <4>1
    <3>2. CASE i \in 1..(b - sync.rcvd)
      <4>1. sync.rcvd + i \in 1..b
        BY <1>3, <1>4, <3>2
      <4>2. rcvd[sync.rcvd + i] = sent[sync.sent + i]
        BY <1>4, <1>9, <3>2 DEF Same
      <4> QED BY <1>5, <4>1, <4>2
    <3>3. i = (b + 1) - sync.rcvd \/ i \in 1..(b - sync.rcvd)
      BY <1>3, <1>4
    <3> QED BY <3>1, <3>2, <3>3
  <2> QED BY <1>5, <2>1 DEF Same
<1> QED BY <1>1, <1>2, <1>5, <1>7, <1>8, <1>9

\* RX_WAIT_MAGIC: a stream that is in step has no garbage.
LEMMA WaitMagicMoves ==
  ASSUME TypeOK, SenderInv, RxShape, NEW B, NEW F, NEW f, NEW z, PosInv(B, F, f, z), WaitMagic
  PROVE  StreamInv'
<1>1. /\ rx.state = "magic" /\ in # <<>>
      /\ UNCHANGED <<link, mtu, txVars, air, rxFifo, rcvd, sync, gap>>
      /\ \/ Head(in) # Magic /\ in' = Tail(in) /\ rx' = rx
         \/ Len(in) < HeaderSize /\ in' = <<>> /\ rx' = rx
         \/ ~(Len(in) < HeaderSize) /\ Head(in) = Magic /\ in' = Tail(in) /\ rx' = [rx EXCEPT !.state = "header"]
  BY DEF WaitMagic
<1>2. Bases(B, sent) /\ RxInv(B, z) /\ z \in Nat
  BY DEF PosInv
<1>3. /\ in \in Seq(Nat) /\ rx = RxIdle /\ sent \in Seq(Messages) /\ link # "down"
      /\ sent' = sent /\ rcvd' = rcvd /\ sync' = sync /\ air' = air /\ link' = link /\ rxFifo' = rxFifo
      /\ tx' = tx /\ pc' = pc /\ room' = room /\ pkt' = pkt /\ txFifo' = txFifo /\ mtu' = mtu
      /\ Done' = Done
  BY <1>1 DEF RxShape, SenderInv, txVars, Done
<1>4. PICK l \in Nat : l = Len(in) /\ l > 0
  BY <1>1, <1>3, LenProperties, EmptySeq
<1>5. Head(in) = in[1] /\ Tail(in) \in Seq(Nat) /\ Len(Tail(in)) = l - 1 /\ \A i \in 1..(l - 1) : Tail(in)[i] = in[i + 1]
  BY <1>1, <1>3, <1>4, HeadTailProperties
<1>6. ASSUME sync.ok
      PROVE  /\ Done < Len(sent) /\ in[1] = Magic /\ l >= 4 /\ z = B[Done] /\ Matches(B, sent, in, z)
             /\ Same(sent, rcvd, sync)
  <2>1. /\ Done <= Len(sent) /\ Matches(B, sent, in, z) /\ Same(sent, rcvd, sync) /\ z = B[Done]
    BY <1>1, <1>2, <1>6 DEF RxInv, RxAt
  <2>2. Done \in Nat
    BY <1>2, RxFacts
  <2> QED BY <1>1, <1>2, <1>3, <1>4, <2>1, <2>2, HeadByte
<1>7. sync.sent \in 0..Len(sent) /\ sync.rcvd \in 0..Len(rcvd)
  BY <1>2 DEF RxInv
<1>8. CASE Head(in) # Magic /\ in' = Tail(in) /\ rx' = rx
  <2>1. ~sync.ok
    BY <1>5, <1>6, <1>8
  <2>2. PICK y \in Nat : y = z + 1
    BY <1>2
  <2>3. y + Len(in') = z + Len(in)
    BY <1>2, <1>4, <1>5, <1>8, <2>2
  <2>4. /\ BuildInv(B, f)' /\ AirInv(B, F, y)' /\ ChainInv(B, F, f, y)' /\ Bases(B, sent)' /\ SenderInv'
    BY <1>1, <2>3, ParseStays
  <2>5. RxInv(B, y)'
    BY <1>3, <1>7, <2>1 DEF RxInv
  <2>6. PosInv(B, F, f, y)'
    BY <2>4, <2>5 DEF PosInv
  <2>7. RxShape' /\ TypeOK'
    BY <1>3, <1>5, <1>8 DEF RxShape, TypeOK, RxIdle
  <2> QED BY <2>4, <2>6, <2>7 DEF StreamInv
<1>9. CASE Len(in) < HeaderSize /\ in' = <<>> /\ rx' = rx
  <2>1. ~sync.ok
    BY <1>4, <1>6, <1>9 DEF HeaderSize
  <2>2. PICK y \in Nat : y = z + l
    BY <1>2
  <2>3. y + Len(in') = z + Len(in)
    BY <1>2, <1>4, <1>9, <2>2, EmptySeq
  <2>4. /\ BuildInv(B, f)' /\ AirInv(B, F, y)' /\ ChainInv(B, F, f, y)' /\ Bases(B, sent)' /\ SenderInv'
    BY <1>1, <2>3, ParseStays
  <2>5. RxInv(B, y)'
    BY <1>3, <1>7, <2>1 DEF RxInv
  <2>6. PosInv(B, F, f, y)'
    BY <2>4, <2>5 DEF PosInv
  <2>7. in' \in Seq(Nat)
    BY <1>9, EmptySeq
  <2>8. RxShape' /\ TypeOK'
    BY <1>3, <1>9, <2>7 DEF RxShape, TypeOK, RxIdle
  <2> QED BY <2>4, <2>6, <2>8 DEF StreamInv
<1>10. CASE ~(Len(in) < HeaderSize) /\ in' = Tail(in) /\ rx' = [rx EXCEPT !.state = "header"]
  <2>1. PICK y \in Nat : y = z + 1
    BY <1>2
  <2>2. y + Len(in') = z + Len(in)
    BY <1>2, <1>4, <1>5, <1>10, <2>1
  <2>3. /\ BuildInv(B, f)' /\ AirInv(B, F, y)' /\ ChainInv(B, F, f, y)' /\ Bases(B, sent)' /\ SenderInv'
    BY <1>1, <2>2, ParseStays
  <2>4. rx' = [RxIdle EXCEPT !.state = "header"] /\ rx'.state = "header"
    BY <1>3, <1>10 DEF RxIdle
  <2>5. ASSUME sync.ok PROVE Matches(B, sent, in', y) /\ RxAt(B, sent, y, Done, rx') /\ Done <= Len(sent)
    <3>1. Done < Len(sent) /\ z = B[Done] /\ Matches(B, sent, in, z)
      BY <1>6, <2>5
    <3>2. 1 + Len(in') = Len(in) /\ \A i \in 1..Len(in') : in'[i] = in[i + 1]
      BY <1>4, <1>5, <1>10
    <3>3. Matches(B, sent, in', z + 1)
      BY <1>5, <1>10, <3>1, <3>2, RestMatches
    <3>4. RxAt(B, sent, y, Done, rx')
      BY <2>1, <2>4, <3>1 DEF RxAt
    <3>5. Done <= Len(sent)
      BY <1>2, <3>1, RxFacts
    <3> QED BY <2>1, <3>3, <3>4, <3>5
  <2>6. RxInv(B, y)'
    BY <1>3, <1>6, <1>7, <2>5 DEF RxInv
  <2>7. PosInv(B, F, f, y)'
    BY <2>3, <2>6 DEF PosInv
  <2>8. in' \in Seq(Nat) /\ Len(in') >= 3
    BY <1>4, <1>5, <1>10 DEF HeaderSize
  <2>9. rx' \in [state : {"magic", "header", "payload"}, active : BOOLEAN, op : Nat, len : Nat, payload : Seq(Nat)]
    BY <2>4, EmptySeq DEF RxIdle
  <2>10. RxShape'
    BY <1>3, <2>4, <2>8, <2>9 DEF RxShape
  <2>11. TypeOK'
    BY <1>3, <2>4, <2>9 DEF TypeOK
  <2> QED BY <2>3, <2>7, <2>10, <2>11 DEF StreamInv
<1> QED BY <1>1, <1>8, <1>9, <1>10

\* RX_READ_HEADER: a stream that is in step has the header of the next message here.
LEMMA ReadHeaderMoves ==
  ASSUME TypeOK, SenderInv, RxShape, NEW B, NEW F, NEW f, NEW z, PosInv(B, F, f, z), ReadHeader
  PROVE  StreamInv'
<1>1. /\ rx.state = "header" /\ UNCHANGED <<link, mtu, txVars, air, sync, gap>>
      /\ \/ in[3] > MaxPayload /\ in' = in /\ rx' = RxIdle /\ UNCHANGED <<rxFifo, rcvd>>
         \/ /\ ~(in[3] > MaxPayload) /\ in' = SubSeq(in, 4, Len(in))
            /\ in[3] = 0 /\ Emit([op |-> in[1], payload |-> <<>>])
         \/ /\ ~(in[3] > MaxPayload) /\ in' = SubSeq(in, 4, Len(in))
            /\ in[3] # 0 /\ UNCHANGED <<rxFifo, rcvd>>
            /\ rx' = [state |-> "payload", active |-> TRUE, op |-> in[1], len |-> in[3], payload |-> <<>>]
  BY DEF ReadHeader
<1>2. Bases(B, sent) /\ RxInv(B, z) /\ z \in Nat
  BY DEF PosInv
<1>3. /\ in \in Seq(Nat) /\ Len(in) >= 3 /\ sent \in Seq(Messages) /\ link # "down"
      /\ sent' = sent /\ sync' = sync /\ air' = air /\ link' = link
      /\ tx' = tx /\ pc' = pc /\ room' = room /\ pkt' = pkt /\ txFifo' = txFifo /\ mtu' = mtu
      /\ sync.sent \in Nat /\ sync.rcvd \in Nat
  <2>1. in # <<>>
    BY <1>1, EmptySeq DEF RxShape
  <2> QED BY <1>1, <2>1 DEF RxShape, SenderInv, txVars
<1>4. PICK l \in Nat : l = Len(in) /\ l >= 3
  BY <1>3, LenProperties
<1>5. in[1] \in Nat /\ in[3] \in Nat /\ MaxPayload \in Nat
  <2>1. 1 \in 1..Len(in) /\ 3 \in 1..Len(in)
    BY <1>4
  <2> QED BY <1>3, <2>1, ElementOfSeq, PacketAssumption
<1>6. ASSUME sync.ok
      PROVE  /\ Done < Len(sent) /\ z = B[Done] + 1 /\ Matches(B, sent, in, z) /\ Same(sent, rcvd, sync)
             /\ in[1] = sent[Done + 1].op /\ in[3] = Len(sent[Done + 1].payload)
             /\ sent[Done + 1] \in Messages /\ B[Done] \in Nat
             /\ B[Done + 1] = B[Done] + FrameLen(sent[Done + 1])
  <2>1. Done < Len(sent) /\ Matches(B, sent, in, z) /\ Same(sent, rcvd, sync) /\ z = B[Done] + 1
    BY <1>1, <1>2, <1>6 DEF RxInv, RxAt
  <2>2. Done \in Nat /\ Len(sent) \in Nat
    BY <1>2, RxFacts
  <2>3. Done + 1 \in 1..Len(sent) /\ Done \in 0..Len(sent) /\ (Done + 1) - 1 = Done
    BY <2>1, <2>2
  <2>4. sent[Done + 1] \in Messages
    BY <1>3, <2>3, ElementOfSeq
  <2>5. FrameLen(sent[Done + 1]) \in Nat /\ FrameLen(sent[Done + 1]) >= 4
    BY <2>4, FrameFacts
  <2>6. PICK b \in Nat : b = B[Done]
    BY <1>2, <2>3 DEF Bases
  <2>7. /\ 2 \in 1..FrameLen(sent[Done + 1]) /\ 4 \in 1..FrameLen(sent[Done + 1])
        /\ 1 \in 1..Len(in) /\ 3 \in 1..Len(in)
    BY <1>4, <2>5
  <2>8. z + 1 = B[Done] + 2 /\ z + 3 = B[Done] + 4
    <3>1. z = b + 1
      BY <2>1, <2>6
    <3>2. z + 1 = b + 2 /\ z + 3 = b + 4
      BY <3>1
    <3> QED BY <2>6, <3>2
  <2>9. in[1] = Byte(sent[Done + 1], 2)
    BY <1>3, <2>1, <2>2, <2>7, <2>8, ByteAt
  <2>10. in[3] = Byte(sent[Done + 1], 4)
    BY <1>3, <2>1, <2>2, <2>7, <2>8, ByteAt
  <2>11. B[Done + 1] = B[Done] + FrameLen(sent[Done + 1])
    BY <1>2, <2>3 DEF Bases
  <2> QED BY <2>1, <2>4, <2>6, <2>9, <2>10, <2>11 DEF Byte
<1>7. sync.sent \in 0..Len(sent) /\ sync.rcvd \in 0..Len(rcvd)
  BY <1>2 DEF RxInv
<1>8. CASE in[3] > MaxPayload /\ in' = in /\ rx' = RxIdle /\ UNCHANGED <<rxFifo, rcvd>>
  <2>1. ~sync.ok
    <3> SUFFICES ASSUME sync.ok PROVE FALSE
      OBVIOUS
    <3>1. Len(sent[Done + 1].payload) <= MaxPayload /\ in[3] = Len(sent[Done + 1].payload)
      BY <1>6, FrameFacts
    <3>2. PICK k \in Nat : k = in[3]
      BY <1>5
    <3>3. k > MaxPayload /\ k <= MaxPayload
      BY <1>8, <3>1, <3>2
    <3> QED BY <1>5, <3>3
  <2>2. z + Len(in') = z + Len(in)
    BY <1>8
  <2>3. /\ BuildInv(B, f)' /\ AirInv(B, F, z)' /\ ChainInv(B, F, f, z)' /\ Bases(B, sent)' /\ SenderInv'
    BY <1>1, <2>2, ParseStays
  <2>4. RxInv(B, z)'
    BY <1>3, <1>7, <1>8, <2>1 DEF RxInv
  <2>5. PosInv(B, F, f, z)'
    BY <1>2, <2>3, <2>4 DEF PosInv
  <2>6. RxShape' /\ TypeOK'
    BY <1>3, <1>8, EmptySeq DEF RxShape, TypeOK, RxIdle
  <2> QED BY <2>3, <2>5, <2>6 DEF StreamInv
<1>s. PICK c : /\ c = SubSeq(in, 4, Len(in)) /\ c \in Seq(Nat) /\ 3 + Len(c) = Len(in)
               /\ \A i \in 1..Len(c) : c[i] = in[i + 3]
  <2>1. PICK j \in Nat : j = 3
    OBVIOUS
  <2>2. PICK c : c = SubSeq(in, j + 1, Len(in))
    OBVIOUS
  <2>3. c \in Seq(Nat) /\ j + Len(c) = Len(in) /\ \A i \in 1..Len(c) : c[i] = in[i + j]
    <3>1. j <= Len(in)
      BY <1>3, <2>1
    <3>2. in \in Seq(Nat)
      BY <1>3
    <3> QED BY <2>2, <3>1, <3>2, SuffixFacts
  <2>4. c = SubSeq(in, 4, Len(in))
    BY <2>1, <2>2
  <2>5. 3 + Len(c) = Len(in) /\ \A i \in 1..Len(c) : c[i] = in[i + 3]
    BY <2>1, <2>3
  <2>6. c \in Seq(Nat)
    BY <2>3
  <2> QED BY <2>4, <2>5, <2>6
<1>9. ASSUME in' = SubSeq(in, 4, Len(in))
      PROVE  /\ in' \in Seq(Nat)
             /\ \E y \in Nat : /\ y = z + 3 /\ y + Len(in') = z + Len(in)
                               /\ sync.ok => Matches(B, sent, in', y)
  <2>1. /\ in' \in Seq(Nat) /\ 3 + Len(in') = Len(in) /\ \A i \in 1..Len(in') : in'[i] = in[i + 3]
    BY <1>9, <1>s
  <2>2. PICK y \in Nat : y = z + 3
    BY <1>2
  <2>3. y + Len(in') = z + Len(in)
    <3>1. PICK k \in Nat : k = Len(in')
      BY <2>1, LenProperties
    <3>2. 3 + k = l
      BY <1>4, <2>1, <3>1
    <3>3. y + k = z + l
      BY <1>2, <2>2, <3>2
    <3> QED BY <1>4, <3>1, <3>3
  <2>4. sync.ok => Matches(B, sent, in', z + 3)
    BY <1>6, <2>1, RestMatches
  <2> QED BY <2>1, <2>2, <2>3, <2>4
<1>10. CASE /\ ~(in[3] > MaxPayload) /\ in' = SubSeq(in, 4, Len(in))
            /\ in[3] = 0 /\ Emit([op |-> in[1], payload |-> <<>>])
  <2>1. PICK y \in Nat : y = z + 3 /\ y + Len(in') = z + Len(in) /\ (sync.ok => Matches(B, sent, in', y))
    BY <1>9, <1>10
  <2>2. PICK m \in Frames : m = [op |-> in[1], payload |-> <<>>]
    BY <1>5, EmptySeq DEF Frames
  <2>3. /\ rcvd' \in Seq(Frames) /\ rxFifo' \in Seq(Frames) /\ Len(rxFifo') <= FifoSize
        /\ rx' = RxIdle /\ Done' = Done + 1 /\ sync.rcvd \in 0..Len(rcvd')
        /\ (Same(sent, rcvd, sync) /\ m = sent[Done + 1]) => Same(sent, rcvd', sync)
    BY <1>2, <1>3, <1>10, <2>2, EmitFacts
  <2>4. /\ BuildInv(B, f)' /\ AirInv(B, F, y)' /\ ChainInv(B, F, f, y)' /\ Bases(B, sent)' /\ SenderInv'
    BY <1>1, <2>1, ParseStays
  <2>5. ASSUME sync.ok
        PROVE  /\ Done + 1 <= Len(sent) /\ Same(sent, rcvd', sync) /\ RxAt(B, sent, y, Done + 1, RxIdle)
    <3>1. Len(sent[Done + 1].payload) = 0 /\ sent[Done + 1].op = in[1] /\ sent[Done + 1] \in Messages
      BY <1>6, <1>10, <2>5
    <3>2. /\ sent[Done + 1] = [op |-> sent[Done + 1].op, payload |-> sent[Done + 1].payload]
          /\ sent[Done + 1].payload \in Seq(Nat) /\ FrameLen(sent[Done + 1]) = 4 + Len(sent[Done + 1].payload)
      BY <3>1, FrameFacts
    <3>3. sent[Done + 1].payload = <<>>
      BY <3>1, <3>2, EmptySeq
    <3>4. m = sent[Done + 1]
      BY <2>2, <3>1, <3>2, <3>3
    <3>5. y = B[Done + 1]
      <4>1. PICK b \in Nat : b = B[Done]
        BY <1>6, <2>5
      <4>2. z = b + 1 /\ B[Done + 1] = b + 4
        BY <1>6, <2>5, <3>1, <3>2, <4>1
      <4>3. y = b + 4
        BY <2>1, <4>2
      <4> QED BY <4>2, <4>3
    <3>6. Done + 1 <= Len(sent)
      BY <1>2, <1>6, <2>5, RxFacts
    <3> QED BY <1>6, <2>3, <2>5, <3>4, <3>5, <3>6 DEF RxAt, RxIdle
  <2>6. RxInv(B, y)'
    BY <1>3, <1>7, <2>1, <2>3, <2>5 DEF RxInv
  <2>7. PosInv(B, F, f, y)'
    BY <2>4, <2>6 DEF PosInv
  <2>8. RxShape' /\ TypeOK'
    BY <1>3, <1>9, <1>10, <2>3, EmptySeq DEF RxShape, TypeOK, RxIdle
  <2> QED BY <2>4, <2>7, <2>8 DEF StreamInv
<1>11. CASE /\ ~(in[3] > MaxPayload) /\ in' = SubSeq(in, 4, Len(in))
            /\ in[3] # 0 /\ UNCHANGED <<rxFifo, rcvd>>
            /\ rx' = [state |-> "payload", active |-> TRUE, op |-> in[1], len |-> in[3], payload |-> <<>>]
  <2>1. PICK y \in Nat : y = z + 3 /\ y + Len(in') = z + Len(in) /\ (sync.ok => Matches(B, sent, in', y))
    BY <1>9, <1>11
  <2>2. /\ rx'.state = "payload" /\ rx'.active /\ rx'.op = in[1] /\ rx'.len = in[3] /\ rx'.payload = <<>>
        /\ rx' \in [state : {"magic", "header", "payload"}, active : BOOLEAN, op : Nat, len : Nat,
                    payload : Seq(Nat)]
    BY <1>5, <1>11, EmptySeq
  <2>3. /\ BuildInv(B, f)' /\ AirInv(B, F, y)' /\ ChainInv(B, F, f, y)' /\ Bases(B, sent)' /\ SenderInv'
    BY <1>1, <2>1, ParseStays
  <2>4. ASSUME sync.ok PROVE RxAt(B, sent, y, Done, rx')
    <3>1. PICK b \in Nat : b = B[Done]
      BY <1>6, <2>4
    <3>2. z = b + 1
      BY <1>6, <2>4, <3>1
    <3>3. y = b + HeaderSize + 0
      BY <2>1, <3>2 DEF HeaderSize
    <3>4. Len(rx'.payload) = 0
      BY <2>2, EmptySeq
    <3>5. y = B[Done] + HeaderSize + Len(rx'.payload)
      BY <3>1, <3>3, <3>4
    <3>6. \A i \in 1..Len(rx'.payload) : rx'.payload[i] = sent[Done + 1].payload[i]
      BY <3>4
    <3> QED BY <1>6, <2>2, <2>4, <3>5, <3>6 DEF RxAt
  <2>5. Done' = Done /\ rcvd' = rcvd
    BY <1>3, <1>11 DEF Done
  <2>6. ASSUME sync.ok PROVE Done <= Len(sent)
    BY <1>2, <1>6, <2>6, RxFacts
  <2>7. RxInv(B, y)'
    BY <1>3, <1>6, <1>7, <2>1, <2>4, <2>5, <2>6 DEF RxInv
  <2>8. PosInv(B, F, f, y)'
    BY <2>3, <2>7 DEF PosInv
  <2>9. RxShape'
    BY <1>3, <1>9, <1>11, <2>2 DEF RxShape
  <2>10. in[3] <= MaxPayload /\ Len(<<>>) < in[3]
    BY <1>5, <1>11, EmptySeq
  <2>11. TypeOK'
    BY <1>3, <1>11, <2>2, <2>10 DEF TypeOK
  <2> QED BY <2>3, <2>8, <2>9, <2>11 DEF StreamInv
<1> QED BY <1>1, <1>8, <1>10, <1>11

\* The first j bytes
LEMMA PrefixFacts ==
  ASSUME NEW s \in Seq(Nat), NEW j \in Nat, j <= Len(s), NEW c, c = SubSeq(s, 1, j)
  PROVE  c \in Seq(Nat) /\ Len(c) = j /\ \A i \in 1..j : c[i] = s[i]
<1>1. PICK l \in Nat : l = Len(s) /\ j <= l
  BY LenProperties
<1>2. \A i \in 1..j : s[i] \in Nat
  BY <1>1, ElementOfSeq
<1> QED BY <1>1, <1>2

\* RX_READ_PAYLOAD: the next bytes of a stream in step are those the payload lacks.
LEMMA ReadPayloadMoves ==
  ASSUME TypeOK, SenderInv, RxShape, NEW B, NEW F, NEW f, NEW z, PosInv(B, F, f, z), ReadPayload
  PROVE  StreamInv'
<1> DEFINE missing == rx.len - Len(rx.payload)
           taken == SubSeq(in, 1, PayloadBytes(missing))
           payload == rx.payload \o taken
<1>1. /\ rx.state = "payload" /\ in # <<>> /\ UNCHANGED <<link, mtu, txVars, air, sync, gap>>
      /\ in' = SubSeq(in, PayloadBytes(missing) + 1, Len(in))
      /\ \/ Len(payload) >= rx.len /\ Emit([op |-> rx.op, payload |-> payload])
         \/ ~(Len(payload) >= rx.len) /\ rx' = [rx EXCEPT !.payload = payload] /\ UNCHANGED <<rxFifo, rcvd>>
  BY DEF ReadPayload
<1>2. Bases(B, sent) /\ RxInv(B, z) /\ z \in Nat
  BY DEF PosInv
<1>3. /\ in \in Seq(Nat) /\ sent \in Seq(Messages) /\ link # "down"
      /\ sent' = sent /\ sync' = sync /\ air' = air /\ link' = link
      /\ tx' = tx /\ pc' = pc /\ room' = room /\ pkt' = pkt /\ txFifo' = txFifo /\ mtu' = mtu
      /\ rx.active /\ rx.op \in Nat /\ rx.len \in Nat /\ rx.payload \in Seq(Nat)
      /\ rx \in [state : {"magic", "header", "payload"}, active : BOOLEAN, op : Nat, len : Nat,
                 payload : Seq(Nat)]
      /\ rx.len <= MaxPayload /\ Len(rx.payload) < rx.len
  BY <1>1 DEF RxShape, SenderInv, txVars, TypeOK
<1>4. PICK l \in Nat, k \in Nat, t \in Nat : l = Len(in) /\ l > 0 /\ k = Len(rx.payload) /\ t = rx.len /\ k < t
  <2>1. Len(in) \in Nat /\ Len(in) > 0 /\ Len(rx.payload) \in Nat
    BY <1>1, <1>3, LenProperties, EmptySeq
  <2> QED BY <1>3, <2>1
<1>5. PICK n \in Nat : n = PayloadBytes(missing) /\ n > 0 /\ n <= l /\ k + n <= t
  <2>1. PayloadBytes(missing) = IF t - k < l THEN t - k ELSE l
    BY <1>4 DEF PayloadBytes
  <2>2. t - k \in Nat /\ t - k > 0
    BY <1>4
  <2>3. PICK n \in Nat : n = IF t - k < l THEN t - k ELSE l
    BY <2>2
  <2>4. n > 0 /\ n <= l /\ k + n <= t
    BY <1>4, <2>2, <2>3
  <2> QED BY <2>1, <2>3, <2>4
<1>6. in' \in Seq(Nat) /\ n + Len(in') = Len(in) /\ \A i \in 1..Len(in') : in'[i] = in[i + n]
  <2>1. in' = SubSeq(in, n + 1, Len(in)) /\ n <= Len(in)
    BY <1>1, <1>4, <1>5
  <2>2. in \in Seq(Nat)
    BY <1>3
  <2> QED BY <2>1, <2>2, SuffixFacts
<1>7. taken \in Seq(Nat) /\ Len(taken) = n /\ \A i \in 1..n : taken[i] = in[i]
  <2>1. taken = SubSeq(in, 1, n) /\ n <= Len(in)
    BY <1>4, <1>5
  <2> HIDE DEF taken
  <2>2. in \in Seq(Nat)
    BY <1>3
  <2> QED BY <2>1, <2>2, PrefixFacts
<1> HIDE DEF taken
<1>8. /\ payload \in Seq(Nat) /\ Len(payload) = k + n
      /\ \A i \in 1..(k + n) : payload[i] = IF i <= k THEN rx.payload[i] ELSE taken[i - k]
  <2>1. rx.payload \in Seq(Nat) /\ Len(rx.payload) = k
    BY <1>3, <1>4
  <2> QED BY <1>7, <2>1, ConcatProperties
<1> HIDE DEF payload, missing
<1>9. PICK y \in Nat : y = z + n
  BY <1>2
<1>10. y + Len(in') = z + Len(in)
  <2>1. PICK j \in Nat : j = Len(in')
    BY <1>6, LenProperties
  <2>2. n + j = l
    BY <1>4, <1>6, <2>1
  <2>3. y + j = z + l
    BY <1>2, <1>9, <2>2
  <2> QED BY <1>4, <2>1, <2>3
<1>11. /\ BuildInv(B, f)' /\ AirInv(B, F, y)' /\ ChainInv(B, F, f, y)' /\ Bases(B, sent)' /\ SenderInv'
  BY <1>1, <1>10, ParseStays
<1>12. sync.sent \in 0..Len(sent) /\ sync.rcvd \in 0..Len(rcvd)
  BY <1>2 DEF RxInv
<1>13. Done \in Nat /\ Len(sent) \in Nat
  BY <1>2, RxFacts
<1>14. ASSUME sync.ok
       PROVE  /\ Done < Len(sent) /\ Same(sent, rcvd, sync) /\ Matches(B, sent, in', y)
              /\ sent[Done + 1] \in Messages /\ rx.op = sent[Done + 1].op
              /\ t = Len(sent[Done + 1].payload) /\ B[Done] \in Nat /\ y = B[Done] + 4 + (k + n)
              /\ B[Done + 1] = B[Done] + FrameLen(sent[Done + 1])
              /\ \A i \in 1..(k + n) : payload[i] = sent[Done + 1].payload[i]
  <2>1. /\ Done < Len(sent) /\ Matches(B, sent, in, z) /\ Same(sent, rcvd, sync)
        /\ z = B[Done] + HeaderSize + Len(rx.payload)
        /\ rx.op = sent[Done + 1].op /\ rx.len = Len(sent[Done + 1].payload)
        /\ \A i \in 1..Len(rx.payload) : rx.payload[i] = sent[Done + 1].payload[i]
    BY <1>1, <1>2, <1>14 DEF RxInv, RxAt
  <2>2. Done + 1 \in 1..Len(sent) /\ Done \in 0..Len(sent) /\ (Done + 1) - 1 = Done
    BY <1>13, <2>1
  <2>3. sent[Done + 1] \in Messages
    BY <1>3, <2>2, ElementOfSeq
  <2>4. FrameLen(sent[Done + 1]) = 4 + t
    <3>1. FrameLen(sent[Done + 1]) = 4 + Len(sent[Done + 1].payload)
      BY <2>3, FrameFacts
    <3> QED BY <1>4, <2>1, <3>1
  <2>5. B[Done + 1] = B[Done] + FrameLen(sent[Done + 1]) /\ B[Done] \in Nat
    BY <1>2, <2>2 DEF Bases
  <2>6. PICK b \in Nat : b = B[Done]
    BY <2>5
  <2>7. z = b + 4 + k
    BY <1>4, <2>1, <2>6 DEF HeaderSize
  <2>8. y = b + 4 + (k + n)
    BY <1>9, <2>7
  <2>9. Matches(B, sent, in', z + n)
    BY <1>6, <2>1, RestMatches
  <2>10. ASSUME NEW i \in 1..(k + n) PROVE payload[i] = sent[Done + 1].payload[i]
    <3>1. CASE i <= k
      <4>1. i \in 1..Len(rx.payload)
        BY <1>4, <3>1
      <4> QED BY <1>8, <2>1, <3>1, <4>1
    <3>2. CASE ~(i <= k)
      <4>1. PICK j \in 1..n : j = i - k /\ i = k + j
        <5>1. i - k \in 1..n
          BY <3>2
        <5> QED BY <5>1
      <4>2. payload[i] = in[j]
        BY <1>7, <1>8, <3>2, <4>1
      <4>3. PICK o \in Nat : o = 4 + i
        OBVIOUS
      <4>4. o \in 1..FrameLen(sent[Done + 1])
        <5>1. o \in 1..(4 + t)
          BY <1>5, <4>3
        <5> QED BY <2>4, <5>1
      <4>5. z + j = B[Done] + o
        <5>1. z + j = b + o
          BY <2>7, <4>1, <4>3
        <5> QED BY <2>6, <5>1
      <4>6. j \in 1..Len(in)
        BY <1>4, <1>5
      <4>7. in[j] = Byte(sent[Done + 1], o)
        <5>1. sent \in Seq(Messages) /\ Matches(B, sent, in, z) /\ Done \in Nat /\ Done < Len(sent)
          BY <1>3, <1>13, <2>1
        <5> QED BY <4>4, <4>5, <4>6, <5>1, ByteAt
      <4>8. o > 4 /\ o - 4 = i
        BY <4>3
      <4>9. Byte(sent[Done + 1], o) = sent[Done + 1].payload[i]
        BY <4>8 DEF Byte, HeaderSize
      <4> QED BY <4>2, <4>7, <4>9
    <3> QED BY <3>1, <3>2
  <2>11. y = B[Done] + 4 + (k + n) /\ t = Len(sent[Done + 1].payload) /\ Matches(B, sent, in', y)
    BY <1>4, <1>9, <2>1, <2>6, <2>8, <2>9
  <2> QED BY <2>1, <2>3, <2>5, <2>10, <2>11
<1>15. CASE Len(payload) >= rx.len /\ Emit([op |-> rx.op, payload |-> payload])
  <2>1. k + n = t
    <3>1. k + n >= t
      BY <1>4, <1>8, <1>15
    <3> QED BY <1>5, <3>1
  <2>2. PICK m \in Frames : m = [op |-> rx.op, payload |-> payload]
    BY <1>3, <1>8 DEF Frames
  <2>3. /\ rcvd' \in Seq(Frames) /\ rxFifo' \in Seq(Frames) /\ Len(rxFifo') <= FifoSize
        /\ rx' = RxIdle /\ Done' = Done + 1 /\ sync.rcvd \in 0..Len(rcvd')
        /\ (Same(sent, rcvd, sync) /\ m = sent[Done + 1]) => Same(sent, rcvd', sync)
    BY <1>2, <1>3, <1>15, <2>2, EmitFacts
  <2>4. ASSUME sync.ok
        PROVE  /\ Done + 1 <= Len(sent) /\ Same(sent, rcvd', sync) /\ RxAt(B, sent, y, Done + 1, RxIdle)
    <3>1. /\ sent[Done + 1] = [op |-> sent[Done + 1].op, payload |-> sent[Done + 1].payload]
          /\ sent[Done + 1].payload \in Seq(Nat) /\ FrameLen(sent[Done + 1]) = 4 + Len(sent[Done + 1].payload)
      BY <1>14, <2>4, FrameFacts
    <3>2. payload = sent[Done + 1].payload
      <4>1. PICK q \in Seq(Nat) : q = sent[Done + 1].payload
        BY <3>1
      <4>2. Len(payload) = Len(q) /\ \A i \in 1..Len(payload) : payload[i] = q[i]
        BY <1>8, <1>14, <2>1, <2>4, <4>1
      <4>3. payload = q
        BY <1>8, <4>2, SeqEqual
      <4> QED BY <4>1, <4>3
    <3>3. m = sent[Done + 1]
      BY <1>14, <2>2, <2>4, <3>1, <3>2
    <3>4. y = B[Done + 1]
      <4>1. PICK b \in Nat : b = B[Done]
        BY <1>14, <2>4
      <4>2. y = b + 4 + t /\ B[Done + 1] = b + (4 + t)
        BY <1>14, <2>1, <2>4, <3>1, <4>1
      <4>3. b + 4 + t = b + (4 + t)
        OBVIOUS
      <4> QED BY <4>2, <4>3
    <3>5. Done + 1 <= Len(sent)
      BY <1>13, <1>14, <2>4
    <3> QED BY <1>14, <2>3, <2>4, <3>3, <3>4, <3>5 DEF RxAt, RxIdle
  <2>5. RxInv(B, y)'
    BY <1>3, <1>12, <1>14, <2>3, <2>4 DEF RxInv
  <2>6. PosInv(B, F, f, y)'
    BY <1>11, <2>5 DEF PosInv
  <2>7. RxShape' /\ TypeOK'
    BY <1>3, <1>6, <2>3, EmptySeq DEF RxShape, TypeOK, RxIdle
  <2> QED BY <1>11, <2>6, <2>7 DEF StreamInv
<1>16. CASE ~(Len(payload) >= rx.len) /\ rx' = [rx EXCEPT !.payload = payload] /\ UNCHANGED <<rxFifo, rcvd>>
  <2>1. /\ rx'.state = "payload" /\ rx'.active /\ rx'.op = rx.op /\ rx'.len = rx.len /\ rx'.payload = payload
        /\ rx' \in [state : {"magic", "header", "payload"}, active : BOOLEAN, op : Nat, len : Nat,
                    payload : Seq(Nat)]
    BY <1>1, <1>3, <1>8, <1>16
  <2>2. Done' = Done /\ rcvd' = rcvd /\ rxFifo' = rxFifo
    BY <1>3, <1>16 DEF Done
  <2>3. ASSUME sync.ok PROVE RxAt(B, sent, y, Done, rx') /\ Done <= Len(sent)
    <3>1. y = B[Done] + HeaderSize + Len(rx'.payload)
      BY <1>8, <1>14, <2>1, <2>3 DEF HeaderSize
    <3>2. \A i \in 1..Len(rx'.payload) : rx'.payload[i] = sent[Done + 1].payload[i]
      BY <1>8, <1>14, <2>1, <2>3
    <3>3. rx'.len = Len(sent[Done + 1].payload)
      BY <1>4, <1>14, <2>1, <2>3
    <3>4. Done <= Len(sent)
      BY <1>13, <1>14, <2>3
    <3> QED BY <1>14, <2>1, <2>3, <3>1, <3>2, <3>3, <3>4 DEF RxAt
  <2>4. RxInv(B, y)'
    BY <1>3, <1>12, <1>14, <2>2, <2>3 DEF RxInv
  <2>5. PosInv(B, F, f, y)'
    BY <1>11, <2>4 DEF PosInv
  <2>6. RxShape'
    BY <1>3, <1>6, <2>1, <2>2 DEF RxShape
  <2>7. Len(payload) < rx.len
    BY <1>3, <1>8, <1>16
  <2>8. TypeOK'
    BY <1>3, <2>1, <2>2, <2>7 DEF TypeOK
  <2> QED BY <1>11, <2>5, <2>6, <2>8 DEF StreamInv
<1> QED BY <1>1, <1>15, <1>16

\* A packet arrives: one that starts a new stream puts the receiver in step; another one
\* keeps it in step unless something is missing in front of it.
LEMMA RetrieveMoves ==
  ASSUME TypeOK, SenderInv, RxShape, NEW B, NEW F, NEW f, NEW z, PosInv(B, F, f, z), ble_retrieve_packet
  PROVE  StreamInv'
<1> DEFINE h == Head(air)
           G == Tail(F)
<1>1. /\ in = <<>> /\ air # <<>> /\ in' = Tail(h.bytes) /\ air' = Tail(air)
      /\ IF Head(h.bytes) = 0
         THEN /\ rx' = RxIdle
              /\ sync' = [ok |-> TRUE, sent |-> h.sent, rcvd |-> Len(rcvd)]
         ELSE /\ rx' = IF rx.active THEN rx ELSE RxIdle
              /\ sync' = [sync EXCEPT !.ok = @ /\ ~h.broken]
      /\ UNCHANGED <<link, mtu, txFifo, tx, pc, room, pkt, sent, start, rxFifo, rcvd, gap>>
  BY DEF ble_retrieve_packet, txVars
<1>2. /\ Bases(B, sent) /\ BuildInv(B, f) /\ AirInv(B, F, z) /\ ChainInv(B, F, f, z) /\ RxInv(B, z)
      /\ z \in Nat
  BY DEF PosInv
<1>3. /\ air \in Seq(Packets) /\ F \in Seq(Nat) /\ Len(F) = Len(air)
      /\ sync \in [ok : BOOLEAN, sent : Nat, rcvd : Nat] /\ rcvd \in Seq(Frames) /\ link # "down"
      /\ sent \in Seq(Messages)
  BY <1>1, <1>2 DEF RxShape, AirInv, SenderInv
<1>4. PICK n \in Nat : n = Len(air) /\ n > 0
  <2>1. Len(air) \in Nat /\ Len(air) # 0
    BY <1>1, <1>3, LenProperties, EmptySeq
  <2> QED BY <2>1
<1>5. /\ h = air[1] /\ air' \in Seq(Packets)
      /\ Len(air') = n - 1 /\ \A i \in 1..(n - 1) : air'[i] = air[i + 1]
  BY <1>1, <1>3, <1>4, HeadTailProperties
<1>6. G \in Seq(Nat) /\ Len(G) = n - 1 /\ (\A i \in 1..(n - 1) : G[i] = F[i + 1]) /\ F[1] \in Nat
  <2>1. F # <<>> /\ Len(F) = n /\ 1 \in 1..Len(F)
    BY <1>3, <1>4, EmptySeq
  <2> QED BY <1>3, <2>1, HeadTailProperties, ElementOfSeq
<1>7. h \in Packets
  <2>1. 1 \in 1..Len(air)
    BY <1>4
  <2> QED BY <1>3, <1>5, <2>1, ElementOfSeq
<1> HIDE DEF h, G
<1>8. PICK y \in Nat : y = F[1]
  BY <1>6
<1>9. /\ PacketAt(B, sent, h.bytes, h.sent, y) /\ Len(h.bytes) > 1
      /\ (~h.broken /\ sync.ok) => y = z
  <2>1. 1 \in 1..Len(air) /\ Len(in) = 0 /\ z + 0 = z
    BY <1>1, <1>2, <1>4, EmptySeq
  <2>2. /\ PacketAt(B, sent, air[1].bytes, air[1].sent, F[1]) /\ Len(air[1].bytes) > 1
        /\ (~air[1].broken /\ 1 = 1 /\ sync.ok) => F[1] = z + Len(in)
    BY <1>2, <2>1 DEF AirInv
  <2> QED BY <1>5, <1>8, <2>1, <2>2
<1>10. /\ h.bytes \in Seq(Nat) /\ h.bytes # <<>> /\ Head(h.bytes) = h.bytes[1] /\ h.bytes[1] \in {0, 1}
       /\ Matches(B, sent, in', y) /\ in' \in Seq(Nat) /\ Len(in') = Len(h.bytes) - 1
       /\ h.bytes[1] = 0 => h.sent \in 0..Len(sent) /\ y = B[h.sent]
  <2>1. /\ h.bytes \in Seq(Nat) /\ h.bytes # <<>> /\ h.bytes[1] \in {0, 1}
        /\ Matches(B, sent, Tail(h.bytes), y)
        /\ h.bytes[1] = 0 => h.sent \in 0..Len(sent) /\ y = B[h.sent]
    BY <1>9 DEF PacketAt
  <2>2. /\ Head(h.bytes) = h.bytes[1] /\ Tail(h.bytes) \in Seq(Nat) /\ Len(Tail(h.bytes)) = Len(h.bytes) - 1
    BY <2>1, HeadTailProperties
  <2> QED BY <1>1, <2>1, <2>2
<1>11. PICK k \in Nat : k = Len(h.bytes)
  BY <1>10, LenProperties
<1>12. Len(in') = k - 1 /\ y + (k - 1) = y + k - 1
  BY <1>10, <1>11
<1>13. AirInv(B, G, y)'
  <2>1. ASSUME NEW i \in 1..(n - 1)
        PROVE  /\ PacketAt(B, sent, air'[i].bytes, air'[i].sent, G[i]) /\ Len(air'[i].bytes) > 1
               /\ (~air'[i].broken /\ i > 1) => G[i] = G[i - 1] + Len(air'[i - 1].bytes) - 1
               /\ (~air'[i].broken /\ i = 1) => G[i] = y + Len(in')
    <3>1. PICK j \in 1..Len(air) : j = i + 1 /\ j - 1 = i /\ j > 1
      BY <1>4
    <3>2. air'[i] = air[j] /\ G[i] = F[j]
      BY <1>5, <1>6, <3>1
    <3>3. /\ PacketAt(B, sent, air[j].bytes, air[j].sent, F[j]) /\ Len(air[j].bytes) > 1
          /\ ~air[j].broken => F[j] = F[i] + Len(air[i].bytes) - 1
      BY <1>2, <3>1 DEF AirInv
    <3>4. i > 1 => G[i - 1] = F[i] /\ air'[i - 1] = air[i]
      <4> SUFFICES ASSUME i > 1 PROVE G[i - 1] = F[i] /\ air'[i - 1] = air[i]
        OBVIOUS
      <4>1. i - 1 \in 1..(n - 1) /\ (i - 1) + 1 = i
        BY <1>4
      <4> QED BY <1>5, <1>6, <4>1
    <3>5. i = 1 => F[i] + Len(air[i].bytes) - 1 = y + Len(in')
      BY <1>5, <1>8, <1>11, <1>12
    <3> QED BY <3>2, <3>3, <3>4, <3>5
  <2>2. sent' = sent
    BY <1>1
  <2> QED BY <1>5, <1>6, <2>1, <2>2 DEF AirInv
<1>14. End(G, y)' = End(F, z)
  <2>1. End(F, z) = F[n] + Len(air[n].bytes) - 1
    BY <1>1, <1>4 DEF End
  <2>2. CASE n = 1
    <3>1. air' = <<>>
      BY <1>5, <2>2, EmptySeq
    <3>2. End(G, y)' = y + Len(in')
      BY <3>1 DEF End
    <3>3. End(F, z) = y + k - 1
      BY <1>5, <1>8, <1>11, <2>1, <2>2
    <3> QED BY <1>12, <3>2, <3>3
  <2>3. CASE n > 1
    <3>1. n - 1 \in 1..(n - 1) /\ (n - 1) + 1 = n /\ Len(air') > 0
      BY <1>5, <2>3
    <3>2. air' # <<>>
      BY <3>1, EmptySeq
    <3>3. air'[n - 1] = air[n] /\ G[n - 1] = F[n]
      BY <1>5, <1>6, <3>1
    <3> QED BY <1>5, <2>1, <3>2, <3>3 DEF End
  <2> QED BY <1>4, <2>2, <2>3
<1>15. ChainInv(B, G, f, y)'
  <2>1. UNCHANGED <<pc, start, gap>> /\ Reached(B, sent, tx)' = Reached(B, sent, tx)
    BY <1>1 DEF Reached
  <2> QED BY <1>1, <1>2, <1>14, <2>1 DEF ChainInv
<1>16. BuildInv(B, f)' /\ Bases(B, sent)'
  BY <1>1, <1>2 DEF BuildInv
<1>17. /\ Len(sent) \in Nat /\ Len(rcvd) \in Nat /\ sync.sent \in 0..Len(sent) /\ sync.rcvd \in 0..Len(rcvd)
  BY <1>2, <1>3, LenProperties DEF RxInv
<1>18. rx.state # "header"
  BY <1>1, EmptySeq DEF RxShape
<1>19. RxInv(B, y)' /\ sync' \in [ok : BOOLEAN, sent : Nat, rcvd : Nat]
  <2>1. CASE h.bytes[1] = 0
    <3>1. /\ rx' = RxIdle /\ sync' = [ok |-> TRUE, sent |-> h.sent, rcvd |-> Len(rcvd)]
          /\ sent' = sent /\ rcvd' = rcvd
      BY <1>1, <1>10, <2>1
    <3>2. /\ sync'.ok /\ sync'.sent = h.sent /\ sync'.rcvd = Len(rcvd) /\ h.sent \in Nat
          /\ sync' \in [ok : BOOLEAN, sent : Nat, rcvd : Nat]
      BY <1>7, <1>17, <3>1 DEF Packets
    <3>3. h.sent \in 0..Len(sent) /\ y = B[h.sent]
      BY <1>10, <2>1
    <3>4. Done' = h.sent
      BY <1>17, <3>1, <3>2 DEF Done
    <3>5. Same(sent, rcvd, sync') /\ RxAt(B, sent, y, h.sent, RxIdle)
      <4>1. Len(rcvd) - sync'.rcvd = 0
        BY <1>17, <3>2
      <4> QED BY <3>3, <4>1 DEF Same, RxAt, RxIdle
    <3>6. h.sent <= Len(sent) /\ Len(rcvd) \in 0..Len(rcvd)
      BY <1>17, <3>3
    <3> QED BY <1>10, <3>1, <3>2, <3>3, <3>4, <3>5, <3>6 DEF RxInv
  <2>2. CASE h.bytes[1] # 0
    <3>1. /\ rx' = (IF rx.active THEN rx ELSE RxIdle) /\ sync' = [sync EXCEPT !.ok = @ /\ ~h.broken]
          /\ sent' = sent /\ rcvd' = rcvd
      BY <1>1, <1>10, <2>2
    <3>2. /\ sync'.ok = (sync.ok /\ ~h.broken) /\ sync'.sent = sync.sent /\ sync'.rcvd = sync.rcvd
          /\ sync' \in [ok : BOOLEAN, sent : Nat, rcvd : Nat] /\ Done' = Done
      BY <1>3, <3>1 DEF Done
    <3>3. rx' = rx
      BY <1>18, <3>1 DEF RxShape
    <3>4. ASSUME sync'.ok
          PROVE  Done <= Len(sent) /\ Same(sent, rcvd, sync') /\ RxAt(B, sent, y, Done, rx)
      <4>1. sync.ok /\ y = z
        BY <1>9, <3>2, <3>4
      <4>2. Done <= Len(sent) /\ Same(sent, rcvd, sync) /\ RxAt(B, sent, z, Done, rx)
        BY <1>2, <4>1 DEF RxInv
      <4> QED BY <3>2, <4>1, <4>2 DEF Same
    <3> QED BY <1>10, <1>17, <3>1, <3>2, <3>3, <3>4 DEF RxInv
  <2> QED BY <2>1, <2>2
<1>20. PosInv(B, G, f, y)'
  BY <1>13, <1>15, <1>16, <1>19 DEF PosInv
<1>21. rx' = RxIdle \/ rx' = rx
  BY <1>1
<1>22. rx'.state # "header"
  BY <1>18, <1>21 DEF RxIdle
<1>23. RxIdle \in [state : {"magic", "header", "payload"}, active : BOOLEAN, op : Nat, len : Nat,
                   payload : Seq(Nat)]
  BY EmptySeq DEF RxIdle
<1>24. RxShape'
  <2>1. /\ rx' \in [state : {"magic", "header", "payload"}, active : BOOLEAN, op : Nat, len : Nat,
                    payload : Seq(Nat)]
        /\ rx'.state = "magic" => rx' = RxIdle
        /\ rx'.state = "payload" => rx'.active
    BY <1>21, <1>23 DEF RxShape, RxIdle
  <2> QED BY <1>1, <1>3, <1>5, <1>10, <1>19, <1>22, <2>1 DEF RxShape
<1>25. TypeOK'
  <2>1. CASE rx' = RxIdle
    <3>1. rx'.state = "magic" /\ rx'.active = FALSE
      BY <2>1 DEF RxIdle
    <3> QED BY <1>1, <3>1 DEF TypeOK
  <2>2. CASE rx' = rx
    BY <1>1, <2>2 DEF TypeOK
  <2> QED BY <1>21, <2>1, <2>2
<1>26. SenderInv'
  BY <1>1 DEF SenderInv
<1> QED BY <1>20, <1>24, <1>25, <1>26 DEF StreamInv

-----------------------------------------------------------------------------
(* The connection                                                          *)

\* BLE_GAP_EVENT_CONNECT: the receiver starts over; it was at rest if it is in step.
LEMMA ConnectMoves ==
  ASSUME TypeOK, SenderInv, RxShape, NEW B, NEW F, NEW f, NEW z, PosInv(B, F, f, z), Connect
  PROVE  StreamInv'
<1>1. /\ link = "down" /\ in = <<>> /\ link' = "connected" /\ rx' = RxIdle
      /\ UNCHANGED <<mtu, txFifo, tx, pc, room, pkt, sent, start, air, in, rxFifo, rcvd, sync, gap>>
  BY DEF Connect, txVars
<1>2. sync.ok => rx = RxIdle
  BY <1>1 DEF RxShape
<1>3. PosInv(B, F, f, z)'
  <2>1. BuildInv(B, f)' /\ AirInv(B, F, z)' /\ ChainInv(B, F, f, z)' /\ Bases(B, sent)'
    BY <1>1 DEF PosInv, BuildInv, AirInv, ChainInv, End
  <2>2. RxInv(B, z)'
    BY <1>1, <1>2 DEF PosInv, RxInv, Done
  <2> QED BY <2>1, <2>2 DEF PosInv
<1>4. RxShape'
  BY <1>1, EmptySeq DEF RxShape, RxIdle
<1>5. TypeOK' /\ SenderInv'
  BY <1>1 DEF TypeOK, SenderInv, RxIdle
<1> QED BY <1>3, <1>4, <1>5 DEF StreamInv

\* BLE_GAP_EVENT_SUBSCRIBE and BLE_GAP_EVENT_MTU change nothing of the stream.
LEMMA LinkMoves ==
  ASSUME TypeOK, SenderInv, RxShape, NEW B, NEW F, NEW f, NEW z, PosInv(B, F, f, z),
         Subscribe \/ \E n \in Mtus : NegotiateMtu(n)
  PROVE  StreamInv'
<1>1. /\ link # "down" /\ link' \in {"connected", "subscribed"} /\ mtu' \in Mtus
      /\ UNCHANGED <<txFifo, tx, pc, room, pkt, sent, start, air, rx, in, rxFifo, rcvd, sync, gap>>
  BY DEF Subscribe, NegotiateMtu, txVars, rxVars, TypeOK
<1>2. PosInv(B, F, f, z)'
  BY <1>1 DEF PosInv, BuildInv, AirInv, ChainInv, End, RxInv, Done
<1>3. RxShape'
  BY <1>1 DEF RxShape
<1>4. TypeOK' /\ SenderInv'
  BY <1>1 DEF TypeOK, SenderInv
<1> QED BY <1>2, <1>3, <1>4 DEF StreamInv

\* BLE_GAP_EVENT_DISCONNECT: the receiver is out of step until a stream starts.
LEMMA DisconnectMoves ==
  ASSUME TypeOK, SenderInv, RxShape, NEW B, NEW F, NEW f, NEW z, PosInv(B, F, f, z), Disconnect
  PROVE  StreamInv'
<1>1. /\ in = <<>> /\ link' = "down" /\ mtu' = DefaultMtu /\ rx' = RxIdle /\ air' = <<>>
      /\ sync' = [sync EXCEPT !.ok = FALSE]
      /\ UNCHANGED <<txFifo, tx, pc, room, pkt, sent, start, in, rxFifo, rcvd, gap>>
  BY DEF Disconnect, txVars
<1>2. /\ ~sync'.ok /\ sync'.sent = sync.sent /\ sync'.rcvd = sync.rcvd
      /\ sync' \in [ok : BOOLEAN, sent : Nat, rcvd : Nat]
  BY <1>1 DEF RxShape
<1>3. <<>> \in Seq(Nat) /\ Len(<<>>) = 0 /\ <<>> \in Seq(Packets)
  BY EmptySeq
<1>4. PosInv(B, <<>>, f, z)'
  <2>1. BuildInv(B, f)' /\ Bases(B, sent)' /\ z \in Nat
    BY <1>1 DEF PosInv, BuildInv
  <2>2. AirInv(B, <<>>, z)'
    BY <1>1, <1>3 DEF AirInv
  <2>3. ChainInv(B, <<>>, f, z)' /\ RxInv(B, z)'
    BY <1>1, <1>2 DEF ChainInv, RxInv, PosInv
  <2> QED BY <2>1, <2>2, <2>3 DEF PosInv
<1>5. RxShape'
  BY <1>1, <1>2, <1>3 DEF RxShape, RxIdle
<1>6. TypeOK' /\ SenderInv'
  BY <1>1, PacketAssumption DEF TypeOK, SenderInv, RxIdle
<1> QED BY <1>4, <1>5, <1>6 DEF StreamInv

-----------------------------------------------------------------------------
(* The theorem                                                             *)

\* Nothing is sent, and everybody stands at the beginning.
LEMMA StreamStarts ==
  ASSUME Init
  PROVE  StreamInv
<1>1. /\ link = "down" /\ mtu = DefaultMtu /\ txFifo = <<>> /\ tx = TxIdle /\ pc = "idle"
      /\ room = DefaultMtu /\ pkt = <<>> /\ air = <<>> /\ rx = RxIdle /\ in = <<>> /\ rxFifo = <<>>
      /\ sent = <<>> /\ rcvd = <<>> /\ gap = FALSE /\ start = [sent |-> 0, broken |-> FALSE]
      /\ sync = [ok |-> TRUE, sent |-> 0, rcvd |-> 0]
  BY DEF Init
<1>2. /\ \A S : <<>> \in Seq(S)
      /\ Len(<<>>) = 0 /\ DefaultMtu \in Mtus /\ DefaultMtu \in Nat /\ DefaultMtu >= 0
      /\ FifoSize \in Nat /\ MaxPayload \in Nat
  BY EmptySeq, PacketAssumption
<1>3. TypeOK
  BY <1>1, <1>2 DEF TypeOK, TxIdle, RxIdle
<1>4. SenderInv
  BY <1>1, <1>2 DEF SenderInv, UnderWay, TxIdle
<1>5. RxShape
  BY <1>1, <1>2 DEF RxShape, RxIdle
<1>6. PICK B : B = [k \in 0..0 |-> 0]
  OBVIOUS
<1>7. B[0] = 0 /\ B \in [0..0 -> Nat]
  BY <1>6
<1>8. Bases(B, <<>>)
  BY <1>2, <1>7 DEF Bases
<1>9. Matches(B, <<>>, <<>>, 0)
  <2>1. 0 <= B[Len(<<>>)] /\ Whole(B, <<>>, 0)
    BY <1>2, <1>7 DEF Whole
  <2> QED BY <2>1, NothingMatches
<1>10. BuildInv(B, 0) /\ AirInv(B, <<>>, 0)
  BY <1>1, <1>2 DEF BuildInv, AirInv
<1>11. ChainInv(B, <<>>, 0, 0)
  BY <1>1, <1>2, <1>7 DEF ChainInv, Reached, TxIdle, End
<1>12. RxInv(B, 0)
  <2>1. Done = 0 /\ sync.sent = 0 /\ sync.rcvd = 0
    BY <1>1, <1>2 DEF Done
  <2>2. Same(<<>>, <<>>, sync) /\ RxAt(B, <<>>, 0, 0, RxIdle)
    BY <1>2, <1>7, <2>1 DEF Same, RxAt, RxIdle
  <2> QED BY <1>1, <1>2, <1>9, <2>1, <2>2 DEF RxInv
<1>13. PosInv(B, <<>>, 0, 0)
  BY <1>1, <1>8, <1>10, <1>11, <1>12 DEF PosInv
<1> QED BY <1>3, <1>4, <1>5, <1>13 DEF StreamInv

\* Every step keeps everybody in place.
LEMMA StreamStep ==
  ASSUME StreamInv, [Next]_vars
  PROVE  StreamInv'
<1>1. TypeOK /\ SenderInv /\ RxShape
  BY DEF StreamInv
<1>2. PICK B, F, f, z : PosInv(B, F, f, z)
  BY DEF StreamInv
<1>3. ASSUME NEW m \in Messages, Submit(m) PROVE StreamInv'
  BY <1>1, <1>2, <1>3, SubmitMoves
<1>4. CASE populate_tx_buffers
  BY <1>1, <1>2, <1>4, PopulateMoves
<1>5. CASE BuildStep
  BY <1>1, <1>2, <1>5, BuildMoves
<1>6. CASE FinishPacket
  BY <1>1, <1>2, <1>6, FinishMoves
<1>7. CASE Notify
  BY <1>1, <1>2, <1>7, NotifyMoves
<1>8. CASE NotifyFails
  BY <1>1, <1>2, <1>8, NotifyFailsMoves
<1>9. CASE ble_retrieve_packet
  BY <1>1, <1>2, <1>9, RetrieveMoves
<1>10. CASE WaitMagic
  BY <1>1, <1>2, <1>10, WaitMagicMoves
<1>11. CASE ReadHeader
  BY <1>1, <1>2, <1>11, ReadHeaderMoves
<1>12. CASE ReadPayload
  BY <1>1, <1>2, <1>12, ReadPayloadMoves
<1>13. CASE process_rx_buffers
  BY <1>1, <1>2, <1>13, ProcessMoves
<1>14. CASE Connect
  BY <1>1, <1>2, <1>14, ConnectMoves
<1>15. CASE Subscribe \/ \E n \in Mtus : NegotiateMtu(n)
  BY <1>1, <1>2, <1>15, LinkMoves
<1>16. CASE Disconnect
  BY <1>1, <1>2, <1>16, DisconnectMoves
<1>17. CASE UNCHANGED vars
  <2>1. UNCHANGED <<link, mtu, txFifo, tx, pc, room, pkt, sent, start, air, rx, in, rxFifo, rcvd, sync, gap>>
    BY <1>17 DEF vars, txVars, rxVars
  <2>2. TypeOK' /\ SenderInv' /\ RxShape'
    BY <1>1, <2>1 DEF TypeOK, SenderInv, RxShape
  <2>3. PosInv(B, F, f, z)'
    BY <1>2, <2>1 DEF PosInv, BuildInv, AirInv, ChainInv, End, RxInv, Done
  <2> QED BY <2>2, <2>3 DEF StreamInv
<1> QED BY <1>3, <1>4, <1>5, <1>6, <1>7, <1>8, <1>9, <1>10, <1>11, <1>12, <1>13, <1>14, <1>15,
           <1>16, <1>17 DEF Next, Sender, Receiver

\* What is behind the first j messages
LEMMA BehindFacts ==
  ASSUME NEW s \in Seq(Frames), NEW j \in Nat, j <= Len(s), NEW c, c = SubSeq(s, j + 1, Len(s))
  PROVE  /\ c \in Seq(Frames) /\ Len(c) = Len(s) - j /\ \A i \in 1..(Len(s) - j) : c[i] = s[j + i]
<1>1. PICK l \in Nat : l = Len(s) /\ j <= l
  BY LenProperties
<1>2. c = SubSeq(s, j + 1, l)
  BY <1>1
<1>3. \A i \in (j + 1)..l : s[i] \in Frames
  BY <1>1, ElementOfSeq
<1>4. /\ c \in Seq(Frames) /\ Len(c) = l - j /\ \A i \in 1..(l - j) : c[i] = s[j + i]
  <2>1. ASSUME NEW k \in Nat, k = l - j
        PROVE  /\ SubSeq(s, j + 1, l) \in Seq(Frames) /\ Len(SubSeq(s, j + 1, l)) = k
               /\ \A i \in 1..k : SubSeq(s, j + 1, l)[i] = s[j + i]
    BY <1>1, <1>3, <2>1
  <2>2. l - j \in Nat
    BY <1>1
  <2> QED BY <1>2, <2>1, <2>2
<1> QED BY <1>1, <1>4

\* A prefix, element by element
LEMMA PrefixOf ==
  ASSUME NEW S, NEW T, NEW h \in Seq(S), NEW e \in Seq(T), Len(h) <= Len(e),
         \A i \in 1..Len(h) : h[i] = e[i]
  PROVE  IsPrefix(h, e)
<1>1. PICK n \in Nat, l \in Nat : n = Len(h) /\ l = Len(e) /\ n <= l
  BY LenProperties
<1>2. SubSeq(h, 1, n) = SubSeq(e, 1, n)
  <2>1. SubSeq(h, 1, n) = [i \in 1..n |-> h[i]]
    BY <1>1
  <2>2. SubSeq(e, 1, n) = [i \in 1..n |-> e[i]]
    BY <1>1
  <2> QED BY <1>1, <2>1, <2>2
<1> QED BY <1>1, <1>2 DEF IsPrefix

\* Where everybody stands says what the receiver has: a prefix of the stream, and all of it
\* when nothing is on its way.
LEMMA StreamShows ==
  ASSUME StreamInv
  PROVE  StreamCorrect
<1>1. TypeOK /\ SenderInv /\ RxShape
  BY DEF StreamInv
<1>2. PICK B, F, f, z : PosInv(B, F, f, z)
  BY DEF StreamInv
<1>3. Bases(B, sent) /\ ChainInv(B, F, f, z) /\ RxInv(B, z) /\ z \in Nat
  BY <1>2 DEF PosInv
<1>4. /\ sync.sent \in Nat /\ sync.rcvd \in Nat /\ sync.rcvd <= Len(rcvd) /\ sync.sent <= Len(sent)
      /\ rcvd \in Seq(Frames) /\ sent \in Seq(Messages) /\ Done \in Nat
  BY <1>1, <1>3, RxFacts
<1>5. PICK u \in Nat, v \in Nat, a \in Nat, b \in Nat :
        u = Len(sent) /\ v = Len(rcvd) /\ a = sync.sent /\ b = sync.rcvd /\ a <= u /\ b <= v
  BY <1>4, LenProperties
<1>6. PICK e : e = Expected
  OBVIOUS
<1>7. PICK h : h = Heard
  OBVIOUS
<1>8. /\ e \in Seq(Frames) /\ Len(e) = u - a /\ \A i \in 1..(u - a) : e[i] = sent[a + i]
  <2>1. sent \in Seq(Frames)
    <3>1. \A i \in 1..Len(sent) : sent[i] \in Frames
      BY <1>4, ElementOfSeq, PacketAssumption DEF Frames
    <3>2. sent = [i \in 1..Len(sent) |-> sent[i]] /\ Len(sent) \in Nat
      BY <1>4, LenProperties
    <3> QED BY <3>1, <3>2
  <2>2. e = SubSeq(sent, a + 1, Len(sent)) /\ a <= Len(sent)
    BY <1>5, <1>6 DEF Expected
  <2>3. /\ e \in Seq(Frames) /\ Len(e) = Len(sent) - a
        /\ \A i \in 1..(Len(sent) - a) : e[i] = sent[a + i]
    BY <2>1, <2>2, BehindFacts
  <2> QED BY <1>5, <2>3
<1>9. /\ h \in Seq(Frames) /\ Len(h) = v - b /\ \A i \in 1..(v - b) : h[i] = rcvd[b + i]
  <2>1. rcvd \in Seq(Frames)
    BY <1>4
  <2>2. h = SubSeq(rcvd, b + 1, Len(rcvd)) /\ b <= Len(rcvd)
    BY <1>5, <1>7 DEF Heard
  <2>3. /\ h \in Seq(Frames) /\ Len(h) = Len(rcvd) - b
        /\ \A i \in 1..(Len(rcvd) - b) : h[i] = rcvd[b + i]
    BY <2>1, <2>2, BehindFacts
  <2> QED BY <1>5, <2>3
<1>10. PICK n \in Nat : n = v - b /\ Done = a + n
  <2>1. v - b \in Nat /\ Done = a + (v - b)
    BY <1>5 DEF Done
  <2> QED BY <2>1
<1>11. ASSUME sync.ok
       PROVE  n <= u - a /\ \A i \in 1..n : h[i] = e[i]
  <2>1. Done <= Len(sent) /\ Same(sent, rcvd, sync)
    BY <1>3, <1>11 DEF RxInv
  <2>2. a + n <= u
    BY <1>5, <1>10, <2>1
  <2>3. n <= u - a
    BY <2>2
  <2>4. ASSUME NEW i \in 1..n PROVE h[i] = e[i]
    <3>1. i \in 1..(u - a) /\ i \in 1..(v - b)
      BY <1>10, <2>3
    <3>2. rcvd[b + i] = sent[a + i]
      BY <1>5, <2>1, <3>1 DEF Same
    <3> QED BY <1>8, <1>9, <3>1, <3>2
  <2> QED BY <2>3, <2>4
<1>12. StreamIntact
  <2> SUFFICES ASSUME sync.ok PROVE IsPrefix(h, e)
    BY <1>6, <1>7 DEF StreamIntact
  <2>1. Len(h) = n /\ n <= Len(e) /\ \A i \in 1..n : h[i] = e[i]
    BY <1>8, <1>9, <1>10, <1>11
  <2> QED BY <2>1, <1>8, <1>9, PrefixOf
<1>13. StreamComplete
  <2> SUFFICES ASSUME sync.ok, ~gap, txFifo = <<>>, ~tx.active, pc = "idle", air = <<>>, in = <<>>
               PROVE  h = e
    BY <1>6, <1>7 DEF StreamComplete
  <2>1. B[u] = z
    <3>1. Reached(B, sent, tx) = End(F, z)
      BY <1>3 DEF ChainInv
    <3>2. Reached(B, sent, tx) = B[Len(sent)] /\ End(F, z) = z + 0
      BY EmptySeq DEF Reached, End
    <3>3. z + 0 = z
      BY <1>3
    <3>4. B[Len(sent)] = z
      BY <3>1, <3>2, <3>3
    <3> QED BY <1>5, <3>4
  <2>2. ASSUME Done < u
        PROVE  /\ B[Done] + FrameLen(sent[Done + 1]) <= z /\ B[Done] \in Nat
               /\ FrameLen(sent[Done + 1]) = 4 + Len(sent[Done + 1].payload)
               /\ Len(sent[Done + 1].payload) \in Nat
    <3>1. Done \in 0..Len(sent) /\ u \in 0..Len(sent) /\ Done + 1 \in 1..Len(sent)
      BY <1>4, <1>5, <2>2
    <3>2. B[Done] + FrameLen(sent[Done + 1]) <= B[u] /\ B[Done] \in Nat
      BY <1>3, <2>2, <3>1 DEF Bases
    <3>3. sent[Done + 1] \in Messages
      BY <1>4, <3>1, ElementOfSeq
    <3> QED BY <2>1, <3>2, <3>3, FrameFacts
  <2>3. rx.state = "magic"
    <3>1. rx.state # "header"
      BY <1>1, EmptySeq DEF RxShape
    <3>2. ASSUME rx.state = "payload" PROVE FALSE
      <4>1. /\ Done < u /\ z = B[Done] + HeaderSize + Len(rx.payload)
            /\ rx.len = Len(sent[Done + 1].payload)
        BY <1>3, <1>5, <3>2 DEF RxInv, RxAt
      <4>2. Len(rx.payload) < rx.len /\ rx.payload \in Seq(Nat)
        BY <1>1, <3>2 DEF TypeOK, RxShape
      <4>3. PICK k \in Nat, l \in Nat, c \in Nat :
              k = Len(rx.payload) /\ l = Len(sent[Done + 1].payload) /\ c = B[Done]
        BY <2>2, <4>1, <4>2, LenProperties
      <4>4. k < l /\ z = c + 4 + k /\ c + (4 + l) <= z
        BY <2>2, <4>1, <4>2, <4>3 DEF HeaderSize
      <4> QED BY <1>3, <4>4
    <3>3. rx.state \in {"magic", "header", "payload"}
      BY <1>1 DEF TypeOK
    <3> QED BY <3>1, <3>2, <3>3
  <2>4. z = B[Done] /\ Done <= u
    BY <1>3, <1>5, <2>3 DEF RxInv, RxAt
  <2>5. Done = u
    <3> SUFFICES ASSUME Done < u PROVE FALSE
      BY <1>4, <1>5, <2>4
    <3>1. PICK l \in Nat : l = Len(sent[Done + 1].payload)
      BY <2>2
    <3>2. z + (4 + l) <= z
      BY <2>2, <2>4, <3>1
    <3> QED BY <1>3, <3>2
  <2>6. n = u - a
    BY <1>5, <1>10, <2>5
  <2>7. Len(h) = Len(e) /\ \A i \in 1..Len(h) : h[i] = e[i]
    BY <1>8, <1>9, <1>10, <1>11, <2>6
  <2>8. h = e
    BY <1>8, <1>9, <2>7, SeqEqual
  <2> QED BY <2>8
<1> QED BY <1>1, <1>12, <1>13 DEF StreamCorrect

\* The packet layer preserves the stream of messages from a packet that starts one until a
\* packet is lost, the connection breaks or a header that exactly fills its packet is
\* repeated: ble_build_next_packet and ble_retrieve_packet together keep StreamCorrect.
THEOREM StreamIsCorrect == Spec => []StreamCorrect
<1>1. Init => StreamInv
  BY StreamStarts
<1>2. StreamInv /\ [Next]_vars => StreamInv'
  BY StreamStep
<1>3. StreamInv => StreamCorrect
  BY StreamShows
<1> QED BY <1>1, <1>2, <1>3, PTL DEF Spec

=============================================================================
