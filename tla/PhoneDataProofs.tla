--------------------------- MODULE PhoneDataProofs ---------------------------
(***************************************************************************)
(* Proofs about what the messages of the phone do to the watch: a card of  *)
(* the notifications acts on the entry it shows, the page is full and no   *)
(* entry is stored twice; the weather shown is that of the chosen date,    *)
(* an update reaches the application that asked, and the weather kept over *)
(* a deep sleep is usable.                                                 *)
(*                                                                         *)
(* The two halves keep invariants of their own, NotesInv and WeatherInv,   *)
(* which the other half leaves alone; a shutdown resets both.              *)
(***************************************************************************)
EXTENDS PhoneData, SequenceTheorems, TLAPS

-----------------------------------------------------------------------------
(* Notifications and their page                                            *)

NotesInv == NotesTypeOK /\ PageInv /\ CardActsOnShown /\ PageFull /\ StoredOnce

\* A sequence without its i-th element
LEMMA Removed ==
  ASSUME NEW S, NEW s \in Seq(S), NEW i \in 1..Len(s)
  PROVE  LET r == RemoveAt(s, i) IN
         /\ r \in Seq(S) /\ Len(r) = Len(s) - 1
         /\ \A j \in 1..Len(r) : r[j] = IF j < i THEN s[j] ELSE s[j + 1]
<1> DEFINE a == SubSeq(s, 1, i - 1)
           b == SubSeq(s, i + 1, Len(s))
<1>1. Len(s) \in Nat /\ i \in Int /\ \A j \in 1..Len(s) : s[j] \in S
  BY LenProperties, ElementOfSeq
<1>2. a \in Seq(S) /\ Len(a) = i - 1 /\ \A j \in 1..(i - 1) : a[j] = s[j]
  BY <1>1, SubSeqProperties
<1>3. b \in Seq(S) /\ Len(b) = Len(s) - i /\ \A j \in 1..(Len(s) - i) : b[j] = s[i + j]
  <2>1. /\ b \in Seq(S) /\ Len(b) = IF i + 1 <= Len(s) THEN Len(s) - (i + 1) + 1 ELSE 0
        /\ \A j \in 1..(Len(s) - (i + 1) + 1) : b[j] = s[i + 1 + j - 1]
    BY <1>1, SubSeqProperties
  <2> HIDE DEF b
  <2> QED BY <1>1, <2>1
<1> HIDE DEF a, b
<1>4. /\ a \o b \in Seq(S) /\ Len(a \o b) = Len(s) - 1
      /\ \A j \in 1..(Len(s) - 1) : (a \o b)[j] = IF j <= i - 1 THEN a[j] ELSE b[j - (i - 1)]
  <2>1. /\ a \o b \in Seq(S) /\ Len(a \o b) = Len(a) + Len(b)
        /\ \A j \in 1..(Len(a) + Len(b)) :
             (a \o b)[j] = IF j <= Len(a) THEN a[j] ELSE b[j - Len(a)]
    BY <1>2, <1>3, ConcatProperties
  <2>2. Len(a) + Len(b) = Len(s) - 1 /\ Len(a) = i - 1
    BY <1>1, <1>2, <1>3
  <2> QED BY <2>1, <2>2
<1>5. ASSUME NEW j \in 1..(Len(s) - 1)
      PROVE  (a \o b)[j] = IF j < i THEN s[j] ELSE s[j + 1]
  <2>1. CASE j < i
    BY <1>1, <1>2, <1>4, <2>1
  <2>2. CASE ~(j < i)
    <3>1. j - (i - 1) \in 1..(Len(s) - i) /\ i + (j - (i - 1)) = j + 1 /\ ~(j <= i - 1)
      BY <1>1, <2>2
    <3>2. (a \o b)[j] = b[j - (i - 1)] /\ b[j - (i - 1)] = s[i + (j - (i - 1))]
      BY <1>3, <1>4, <3>1
    <3> QED BY <2>2, <3>1, <3>2
  <2> QED BY <2>1, <2>2
<1>6. RemoveAt(s, i) = a \o b
  BY DEF RemoveAt, a, b
<1> QED BY <1>4, <1>5, <1>6

\* Nothing is held twice by a sequence that lost an element, its first one for instance,
LEMMA StillInjective ==
  ASSUME NEW S, NEW s \in Seq(S), IsInjective(s), NEW i \in 1..Len(s)
  PROVE  IsInjective(RemoveAt(s, i))
<1> DEFINE r == RemoveAt(s, i)
<1>1. /\ r \in Seq(S) /\ Len(r) = Len(s) - 1
      /\ \A j \in 1..Len(r) : r[j] = IF j < i THEN s[j] ELSE s[j + 1]
  BY Removed
<1> HIDE DEF r
<1>2. DOMAIN r = 1..Len(r) /\ DOMAIN s = 1..Len(s) /\ Len(s) \in Nat
  BY <1>1, LenProperties
<1>3. ASSUME NEW x \in 1..Len(r), NEW y \in 1..Len(r), r[x] = r[y] PROVE x = y
  <2> DEFINE f(j) == IF j < i THEN j ELSE j + 1
  <2>1. f(x) \in 1..Len(s) /\ f(y) \in 1..Len(s) /\ s[f(x)] = s[f(y)]
    BY <1>1, <1>2, <1>3
  <2>2. f(x) = f(y)
    BY <1>2, <2>1 DEF IsInjective
  <2> QED BY <2>2
<1>4. IsInjective(r)
  BY <1>2, <1>3 DEF IsInjective
<1> QED BY <1>4 DEF r

\* nor by one that took what it did not hold.
LEMMA InjectiveAppend ==
  ASSUME NEW S, NEW s \in Seq(S), IsInjective(s), NEW n \in S, \A i \in 1..Len(s) : s[i] # n
  PROVE  IsInjective(Append(s, n))
<1> DEFINE r == Append(s, n)
<1>1. /\ r \in Seq(S) /\ Len(r) = Len(s) + 1 /\ \A i \in 1..Len(s) : r[i] = s[i]
      /\ r[Len(s) + 1] = n
  BY AppendProperties
<1> HIDE DEF r
<1>2. DOMAIN r = 1..Len(r) /\ DOMAIN s = 1..Len(s) /\ Len(s) \in Nat
  BY <1>1, LenProperties
<1>3. ASSUME NEW x \in 1..Len(r), NEW y \in 1..Len(r), r[x] = r[y] PROVE x = y
  <2>1. CASE x \in 1..Len(s) /\ y \in 1..Len(s)
    BY <1>1, <1>2, <1>3, <2>1 DEF IsInjective
  <2>2. CASE x = Len(s) + 1 /\ y \in 1..Len(s)
    BY <1>1, <1>3, <2>2
  <2>3. CASE y = Len(s) + 1 /\ x \in 1..Len(s)
    BY <1>1, <1>3, <2>3
  <2>4. CASE y = Len(s) + 1 /\ x = Len(s) + 1
    BY <2>4
  <2>5. \A z \in 1..Len(r) : z \in 1..Len(s) \/ z = Len(s) + 1
    BY <1>1, <1>2
  <2> QED BY <2>1, <2>2, <2>3, <2>4, <2>5
<1>4. IsInjective(r)
  BY <1>2, <1>3 DEF IsInjective
<1> QED BY <1>4 DEF r

\* The first of a sequence goes.
LEMMA TailInjective ==
  ASSUME NEW S, NEW s \in Seq(S), IsInjective(s), s # <<>>
  PROVE  IsInjective(Tail(s))
<1> DEFINE r == Tail(s)
<1>1. /\ r \in Seq(S) /\ Len(r) = Len(s) - 1 /\ \A i \in 1..Len(r) : r[i] = s[i + 1]
  BY HeadTailProperties
<1> HIDE DEF r
<1>2. DOMAIN r = 1..Len(r) /\ DOMAIN s = 1..Len(s) /\ Len(s) \in Nat
  BY <1>1, LenProperties
<1>3. ASSUME NEW x \in 1..Len(r), NEW y \in 1..Len(r), r[x] = r[y] PROVE x = y
  <2>1. x + 1 \in 1..Len(s) /\ y + 1 \in 1..Len(s) /\ s[x + 1] = s[y + 1]
    BY <1>1, <1>2, <1>3
  <2>2. x + 1 = y + 1
    BY <1>2, <2>1 DEF IsInjective
  <2> QED BY <2>2
<1>4. IsInjective(r)
  BY <1>2, <1>3 DEF IsInjective
<1> QED BY <1>4 DEF r

\* The numbers of the page and of the list
LEMMA NotesNumbers ==
  /\ MaxNotes \in Nat /\ Visible \in Nat /\ 2 <= Visible /\ Visible <= MaxNotes
  /\ NoNote \notin Notes /\ 0 \in 0..(MaxNotes - Visible)
BY NotesAssumption

\* The entries there are: those counted, then the one being stored
SlotsAre ==
  list \in Seq(Notes) /\ slot \in Notes \cup {NoNote} =>
    /\ Slots \in Seq(Notes) /\ Len(list) \in Nat
    /\ slot = NoNote => Slots = list
    /\ slot # NoNote => Len(Slots) = Len(list) + 1
    /\ \A i \in 1..Len(list) : Slots[i] = list[i]
    /\ Len(list) <= Len(Slots) /\ Len(Slots) \in Nat

\* They are, whatever is being stored.
LEMMA SlotsLemma == SlotsAre
<1> SUFFICES ASSUME list \in Seq(Notes), slot \in Notes \cup {NoNote}
             PROVE  /\ Slots \in Seq(Notes) /\ Len(list) \in Nat
                    /\ slot = NoNote => Slots = list
                    /\ slot # NoNote => Len(Slots) = Len(list) + 1
                    /\ \A i \in 1..Len(list) : Slots[i] = list[i]
                    /\ Len(list) <= Len(Slots) /\ Len(Slots) \in Nat
  BY DEF SlotsAre
<1>1. Len(list) \in Nat
  BY LenProperties
<1>2. CASE slot = NoNote
  BY <1>1, <1>2 DEF Slots
<1>3. CASE slot # NoNote
  <2>1. slot \in Notes /\ Slots = Append(list, slot)
    BY <1>3 DEF Slots
  <2>2. Slots \in Seq(Notes) /\ Len(Slots) = Len(list) + 1 /\ \A i \in 1..Len(list) : Slots[i] = list[i]
    BY <2>1, AppendProperties
  <2> QED BY <1>1, <1>3, <2>2
<1> QED BY <1>2, <1>3

\* What populate_cards shows of entries s, as far as t has the same
LEMMA CardsShown ==
  ASSUME NEW s \in Seq(Notes), NEW t \in Seq(Notes), NEW base \in 0..(MaxNotes - Visible),
         NEW len \in Nat, len <= Len(s), len <= Len(t), \A i \in 1..len : s[i] = t[i]
  PROVE  LET c == Cards(s, base, len) IN
         /\ c \in Seq(Notes) /\ Len(c) <= Visible
         /\ c # <<>> => base + Len(c) <= len
         /\ \A k \in DOMAIN c : c[k] = t[base + k]
         /\ (base > 0 => base + Visible <= len) =>
              Len(c) = IF len < Visible THEN len ELSE Visible
<1> DEFINE c == Cards(s, base, len)
           last == IF len < base + Visible THEN len ELSE base + Visible
<1>1. /\ base \in Nat /\ Len(s) \in Nat /\ Visible \in Nat /\ \A j \in 1..Len(s) : s[j] \in Notes
  BY LenProperties, ElementOfSeq, NotesNumbers
<1>2. last \in Nat /\ last <= len /\ last <= base + Visible /\ base + 1 \in Int
  BY <1>1
<1>3. \A i \in (base + 1)..last : s[i] \in Notes
  BY <1>1, <1>2
<1>4. /\ c \in Seq(Notes)
      /\ Len(c) = IF base + 1 <= last THEN last - (base + 1) + 1 ELSE 0
      /\ \A k \in 1..(last - (base + 1) + 1) : c[k] = s[base + 1 + k - 1]
  <2>1. c = SubSeq(s, base + 1, last)
    BY DEF Cards
  <2> HIDE DEF c, last
  <2> QED BY <1>2, <1>3, <2>1, SubSeqProperties
<1> HIDE DEF c
<1>5. Len(c) <= Visible /\ DOMAIN c = 1..Len(c) /\ Len(c) \in Nat
      /\ (c # <<>> => Len(c) > 0)
  BY <1>1, <1>2, <1>4, LenProperties, EmptySeq
<1>6. Len(c) > 0 => base + Len(c) = last
  BY <1>1, <1>2, <1>4
<1>7. ASSUME NEW k \in DOMAIN c PROVE c[k] = t[base + k]
  <2>1. k \in 1..(last - (base + 1) + 1) /\ base + 1 + k - 1 = base + k /\ base + k \in 1..len
    BY SMTT(40), <1>1, <1>2, <1>4, <1>5, <1>6
  <2> HIDE DEF last
  <2> QED BY <1>4, <2>1
<1>8. (base > 0 => base + Visible <= len) => Len(c) = IF len < Visible THEN len ELSE Visible
  BY SMTT(40), <1>1, <1>4, NotesNumbers
<1>9. c # <<>> => base + Len(c) <= len
  BY <1>2, <1>5, <1>6
<1> HIDE DEF last
<1> QED BY <1>4, <1>5, <1>7, <1>8, <1>9 DEF c

\* The types of the page and of the history
LEMMA PageFields ==
  ASSUME NotesInv
  PROVE  /\ list \in Seq(Notes) /\ slot \in Notes \cup {NoNote}
         /\ Slots \in Seq(Notes) /\ Len(list) \in Nat /\ Len(Slots) \in Nat
         /\ Len(list) <= Len(Slots) /\ Len(Slots) <= MaxNotes
         /\ nui.base \in 0..(MaxNotes - Visible) /\ nui.base \in Nat /\ nui.len \in Nat
         /\ nui.cards \in Seq(Notes) /\ Len(nui.cards) \in Nat /\ Len(nui.cards) <= Visible
         /\ DOMAIN nui.cards = 1..Len(nui.cards)
         /\ nui.cards # <<>> => Len(nui.cards) > 0
<1>1. /\ list \in Seq(Notes) /\ slot \in Notes \cup {NoNote} /\ Len(Slots) <= MaxNotes
      /\ nui \in [open : BOOLEAN, base : 0..(MaxNotes - Visible), len : 0..MaxNotes, cards : Seq(Notes)]
      /\ Len(nui.cards) <= Visible
  BY DEF NotesInv, NotesTypeOK
<1>2. /\ nui.base \in 0..(MaxNotes - Visible) /\ nui.len \in 0..MaxNotes /\ nui.cards \in Seq(Notes)
  BY <1>1
<1>3. nui.base \in Nat /\ nui.len \in Nat
  BY <1>2, NotesNumbers
<1> QED BY <1>1, <1>2, <1>3, SlotsLemma, LenProperties, EmptySeq DEF SlotsAre

\* A step after which the page shows Cards(s, base, len)
LEMMA Drawn ==
  ASSUME NEW s \in Seq(Notes), NEW b \in 0..(MaxNotes - Visible), NEW l \in Nat,
         list' \in Seq(Notes), slot' \in Notes \cup {NoNote}, Len(Slots)' <= MaxNotes,
         l <= Len(s), l <= Len(Slots'), \A i \in 1..l : s[i] = Slots'[i],
         nui' = [open |-> TRUE, base |-> b, len |-> l, cards |-> Cards(s, b, l)],
         nseen' \in [shifted : BOOLEAN, early : BOOLEAN, overlap : BOOLEAN, wrong : BOOLEAN, null : BOOLEAN],
         ~nseen'.wrong,
         ~nseen'.overlap /\ b > 0 => b + Visible <= Len(Slots'),
         ~nseen'.overlap /\ ~nseen'.early /\ b > 0 => b + Visible <= l,
         StoredOnce'
  PROVE  NotesInv'
<1> DEFINE c == Cards(s, b, l)
           t == Slots'
<1>1. t \in Seq(Notes) /\ Len(t) \in Nat /\ Len(t) <= MaxNotes
  <2>1. SlotsAre'
    BY SlotsLemma, PTL
  <2> QED BY <2>1 DEF SlotsAre
<1>2. /\ c \in Seq(Notes) /\ Len(c) <= Visible
      /\ c # <<>> => b + Len(c) <= l
      /\ \A k \in DOMAIN c : c[k] = t[b + k]
      /\ (b > 0 => b + Visible <= l) => Len(c) = IF l < Visible THEN l ELSE Visible
  BY <1>1, CardsShown
<1> HIDE DEF c
<1>3. /\ nui'.open = TRUE /\ nui'.base = b /\ nui'.len = l /\ nui'.cards = c
      /\ l \in 0..MaxNotes
  BY <1>1, NotesNumbers DEF c
<1>4. nui' \in [open : BOOLEAN, base : 0..(MaxNotes - Visible), len : 0..MaxNotes, cards : Seq(Notes)]
  <2>1. nui' = [open |-> TRUE, base |-> b, len |-> l, cards |-> c]
    BY DEF c
  <2>2. \A o \in BOOLEAN : [open |-> o, base |-> b, len |-> l, cards |-> c]
          \in [open : BOOLEAN, base : 0..(MaxNotes - Visible), len : 0..MaxNotes, cards : Seq(Notes)]
    BY <1>2, <1>3
  <2> QED BY <2>1, <2>2
<1>5. NotesTypeOK'
  BY <1>1, <1>2, <1>3, <1>4 DEF NotesTypeOK
<1>6. PageInv'
  <2>1. \A k \in DOMAIN c : Position(k)' = b + k
    BY <1>3 DEF Position
  <2> QED BY <1>1, <1>2, <1>3, <2>1 DEF PageInv
<1>7. PageFull'
  BY <1>2, <1>3 DEF PageFull
<1> QED BY <1>5, <1>6, <1>7 DEF NotesInv, CardActsOnShown

\* An empty list, the page closed
LEMMA NotesBegin == NotesInit => NotesInv
<1> SUFFICES ASSUME NotesInit PROVE NotesInv
  OBVIOUS
<1>1. /\ list = <<>> /\ slot = NoNote /\ nui = [open |-> FALSE, base |-> 0, len |-> 0, cards |-> <<>>]
      /\ nseen = [shifted |-> FALSE, early |-> FALSE, overlap |-> FALSE, wrong |-> FALSE, null |-> FALSE]
  BY DEF NotesInit, NuiClosed
<1>2. <<>> \in Seq(Notes) /\ Len(<<>>) = 0 /\ Slots = <<>>
  BY <1>1 DEF Slots
<1>3. nui \in [open : BOOLEAN, base : 0..(MaxNotes - Visible), len : 0..MaxNotes, cards : Seq(Notes)]
  BY <1>1, <1>2, NotesNumbers
<1>4. NotesTypeOK
  BY <1>1, <1>2, <1>3, NotesNumbers DEF NotesTypeOK
<1>5. PageInv /\ PageFull /\ CardActsOnShown
  BY <1>1 DEF PageInv, PageFull, CardActsOnShown
<1>6. StoredOnce
  BY <1>2 DEF StoredOnce, IsInjective
<1> QED BY <1>4, <1>5, <1>6 DEF NotesInv

\* A shutdown empties it.
LEMMA NotesEnd ==
  ASSUME NotesInv, list' = <<>>, slot' = NoNote, nui' = NuiClosed(0),
         nseen' = [shifted |-> FALSE, early |-> FALSE, overlap |-> FALSE, wrong |-> nseen.wrong,
                   null |-> FALSE]
  PROVE  NotesInv'
<1>1. nseen.wrong = FALSE
  BY DEF NotesInv, CardActsOnShown, NotesTypeOK
<1>2. NotesInit'
  BY <1>1 DEF NotesInit
<1> QED BY <1>2, NotesBegin, PTL

\* The entry is written: the oldest made room for it if there was none.
LEMMA StoreEntryStep ==
  ASSUME NotesInv, NEW n \in Notes, n \notin InUse, StoreEntry(n)
  PROVE  NotesInv'
<1>1. /\ slot = NoNote /\ slot' = n /\ nui' = nui /\ Slots = list
      /\ list' = IF Len(list) = MaxNotes THEN Tail(list) ELSE list
      /\ nseen' = [nseen EXCEPT !.shifted = @ \/ (nui.open /\ Len(list) = MaxNotes)]
  BY DEF StoreEntry, MakeRoom, Slots
<1>2. /\ nseen' \in [shifted : BOOLEAN, early : BOOLEAN, overlap : BOOLEAN, wrong : BOOLEAN, null : BOOLEAN]
      /\ nseen'.early = nseen.early /\ nseen'.overlap = nseen.overlap /\ nseen'.wrong = nseen.wrong
      /\ nseen'.shifted <=> (nseen.shifted \/ (nui.open /\ Len(list) = MaxNotes))
  BY <1>1 DEF NotesInv, NotesTypeOK
<1>3. /\ list' \in Seq(Notes) /\ Len(list') \in Nat /\ Len(list') < MaxNotes /\ Len(list') + 1 >= Len(list)
      /\ IsInjective(list) => IsInjective(list')
      /\ \A i \in 1..Len(list') : list'[i] # n
  <2>1. \A i \in 1..Len(list) : list[i] # n
    BY <1>1, PageFields, LenProperties DEF InUse, Range
  <2>2. CASE Len(list) = MaxNotes
    <3>1. list # <<>> /\ list' = Tail(list)
      BY <1>1, <2>2, EmptySeq, NotesNumbers
    <3>2. list' \in Seq(Notes) /\ Len(list') = Len(list) - 1 /\ \A i \in 1..Len(list') : list'[i] = list[i + 1]
      BY <3>1, PageFields, HeadTailProperties
    <3>3. \A i \in 1..Len(list') : list'[i] # n
      BY SMTT(40), <2>1, <3>2, PageFields
    <3>4. IsInjective(list) => IsInjective(list')
      BY <3>1, PageFields, TailInjective
    <3>5. Len(list') \in Nat /\ Len(list') < MaxNotes /\ Len(list') + 1 >= Len(list)
      BY <2>2, <3>2, NotesNumbers
    <3> QED BY <3>2, <3>3, <3>4, <3>5
  <2>3. CASE Len(list) # MaxNotes
    <3>1. list' = list
      BY <1>1, <2>3
    <3> QED BY <1>1, <2>1, <2>3, <3>1, PageFields, NotesNumbers
  <2> QED BY <2>2, <2>3
<1>4. /\ Slots' \in Seq(Notes) /\ Len(Slots') = Len(list') + 1
      /\ \A i \in 1..Len(list') : Slots'[i] = list'[i]
      /\ Slots' = Append(list', n)
  <2>1. Slots' = Append(list', n)
    BY <1>1, NotesNumbers DEF Slots
  <2> QED BY <1>3, <2>1, AppendProperties
<1>5. NotesTypeOK'
  BY <1>1, <1>2, <1>3, <1>4, NotesNumbers DEF NotesInv, NotesTypeOK
<1>6. PageInv'
  <2>1. Len(Slots) <= Len(Slots')
    BY <1>1, <1>3, <1>4
  <2>2. nui.open => nui.len <= Len(Slots') /\ (nui.cards # <<>> => nui.base + Len(nui.cards) <= nui.len)
    BY <2>1, <1>4, PageFields DEF NotesInv, PageInv
  <2>3. ~nseen.overlap /\ nui.base > 0 => nui.base + Visible <= Len(Slots')
    BY <2>1, <1>4, PageFields, NotesNumbers DEF NotesInv, PageInv
  <2>4. ASSUME nui.open, ~nseen'.shifted, ~nseen'.overlap, NEW k \in DOMAIN nui.cards
        PROVE  nui.cards[k] = Slots'[nui.base + k]
    <3>1. list' = list /\ nui.cards[k] = list[nui.base + k]
      BY <1>1, <1>2, <2>4 DEF NotesInv, PageInv, Position
    <3>2. nui.base + k \in 1..Len(list)
      BY SMTT(40), <1>1, <2>4, PageFields DEF NotesInv, PageInv
    <3> QED BY <1>4, <3>1, <3>2
  <2> QED BY <1>1, <1>2, <2>2, <2>3, <2>4 DEF PageInv, Position
<1>7. PageFull' /\ CardActsOnShown'
  BY <1>1, <1>2 DEF NotesInv, PageFull, CardActsOnShown
<1>8. StoredOnce'
  BY <1>1, <1>2, <1>3, <1>4, InjectiveAppend DEF NotesInv, StoredOnce
<1> QED BY <1>5, <1>6, <1>7, <1>8 DEF NotesInv

\* It is counted, and stays where it was written.
LEMMA CountEntryStep ==
  ASSUME NotesInv, CountEntry PROVE NotesInv'
<1>1. /\ slot # NoNote /\ slot' = NoNote /\ nui' = nui /\ nseen' = nseen
      /\ list' = Slots /\ Slots' = Slots
  BY DEF CountEntry, Slots
<1>2. NotesTypeOK'
  BY <1>1, PageFields DEF NotesInv, NotesTypeOK
<1>3. PageInv'
  BY <1>1 DEF NotesInv, PageInv, Position
<1>4. PageFull' /\ CardActsOnShown' /\ StoredOnce'
  BY <1>1 DEF NotesInv, PageFull, CardActsOnShown, StoredOnce
<1> QED BY <1>2, <1>3, <1>4 DEF NotesInv

\* The page is drawn from the base it had.
LEMMA DrawNotesStep ==
  ASSUME NotesInv, DrawNotes PROVE NotesInv'
<1>1. /\ nui' = [open |-> TRUE, base |-> nui.base, len |-> Len(list),
                 cards |-> Cards(list, nui.base, Len(list))]
      /\ nseen' = [nseen EXCEPT !.shifted = FALSE, !.early = slot # NoNote]
      /\ list' = list /\ slot' = slot /\ Slots' = Slots
  BY DEF DrawNotes, Slots
<1>2. /\ nseen' \in [shifted : BOOLEAN, early : BOOLEAN, overlap : BOOLEAN, wrong : BOOLEAN, null : BOOLEAN]
      /\ nseen'.overlap = nseen.overlap /\ nseen'.wrong = nseen.wrong
      /\ nseen'.early <=> slot # NoNote
  BY <1>1 DEF NotesInv, NotesTypeOK
<1>3. \A i \in 1..Len(list) : list[i] = Slots[i]
  BY PageFields, SlotsLemma DEF SlotsAre
<1>4. slot = NoNote => Len(Slots) = Len(list)
  BY PageFields, SlotsLemma DEF SlotsAre
<1>5. ~nseen.overlap /\ nui.base > 0 => nui.base + Visible <= Len(Slots)
  BY DEF NotesInv, PageInv
<1>6. StoredOnce' /\ ~nseen'.wrong
  BY <1>1, <1>2 DEF NotesInv, StoredOnce, CardActsOnShown
<1> QED BY <1>1, <1>2, <1>3, <1>4, <1>5, <1>6, PageFields, Drawn

\* The page is closed; its base stays.
LEMMA DeleteStep ==
  ASSUME NotesInv, notification_manager_delete_ui PROVE NotesInv'
<1>1. /\ nui' = [open |-> FALSE, base |-> nui.base, len |-> 0, cards |-> <<>>]
      /\ list' = list /\ slot' = slot /\ nseen' = nseen /\ Slots' = Slots
  BY DEF notification_manager_delete_ui, NuiClosed, Slots
<1>2. <<>> \in Seq(Notes) /\ Len(<<>>) = 0
  OBVIOUS
<1>3. nui' \in [open : BOOLEAN, base : 0..(MaxNotes - Visible), len : 0..MaxNotes, cards : Seq(Notes)]
  BY <1>1, <1>2, PageFields, NotesNumbers
<1>4. NotesTypeOK'
  BY <1>1, <1>2, <1>3, NotesNumbers DEF NotesInv, NotesTypeOK
<1>5. PageInv' /\ PageFull'
  BY <1>1 DEF NotesInv, PageInv, PageFull
<1>6. CardActsOnShown' /\ StoredOnce'
  BY <1>1 DEF NotesInv, CardActsOnShown, StoredOnce
<1> QED BY <1>4, <1>5, <1>6 DEF NotesInv

\* The page is scrolled by one card, to the left or to the right.
LEMMA CardActionStep ==
  ASSUME NotesInv, card_action_cb PROVE NotesInv'
<1>1. nui.open /\ nui.cards # <<>>
  BY DEF card_action_cb
<1>2. PICK b \in Int :
        /\ \/ nui.base > 0 /\ b = nui.base - 1
           \/ Len(nui.cards) = Visible /\ nui.base + Visible < nui.len /\ b = nui.base + 1
        /\ nui' = [nui EXCEPT !.base = b, !.cards = Cards(Slots, b, nui.len)]
        /\ nseen' = [nseen EXCEPT !.shifted = FALSE]
        /\ list' = list /\ slot' = slot /\ Slots' = Slots
  <2>1. nui.base - 1 \in Int /\ nui.base + 1 \in Int
    BY PageFields
  <2> QED BY <2>1 DEF card_action_cb, Rebase, Slots
<1>3. nui.len <= Len(Slots) /\ (~nseen.overlap /\ nui.base > 0 => nui.base + Visible <= Len(Slots))
  BY <1>1 DEF NotesInv, PageInv
<1>4. ~nseen.overlap /\ ~nseen.early /\ nui.base > 0 => nui.base + Visible <= nui.len
  BY <1>1 DEF NotesInv, PageFull
<1>5. b \in 0..(MaxNotes - Visible)
  BY SMTT(40), <1>2, <1>3, PageFields, NotesNumbers
<1>6. nui' = [open |-> TRUE, base |-> b, len |-> nui.len, cards |-> Cards(Slots, b, nui.len)]
  <2>1. nui.open = TRUE
    BY <1>1 DEF NotesInv, NotesTypeOK
  <2> DEFINE o == nui.open
             l == nui.len
             z == nui.base
             y == nui.cards
             c == Cards(Slots, b, l)
             q == [nui EXCEPT !.base = b]
  <2>2. nui = [open |-> o, base |-> z, len |-> l, cards |-> y]
    BY DEF NotesInv, NotesTypeOK
  <2>3. nui' = [nui EXCEPT !.base = b, !.cards = c]
    BY <1>2
  <2> HIDE DEF o, l, z, y, c
  <2>4. nui' = [q EXCEPT !.cards = c]
    BY <2>3, Zenon
  <2>5. q = [open |-> o, base |-> b, len |-> l, cards |-> y]
    BY <2>2
  <2> HIDE DEF q
  <2>6. nui' = [open |-> o, base |-> b, len |-> l, cards |-> c]
    BY <2>4, <2>5
  <2> QED BY <2>1, <2>6 DEF o, l, c
<1>7. /\ nseen' \in [shifted : BOOLEAN, early : BOOLEAN, overlap : BOOLEAN, wrong : BOOLEAN, null : BOOLEAN]
      /\ nseen'.overlap = nseen.overlap /\ nseen'.wrong = nseen.wrong /\ nseen'.early = nseen.early
  BY <1>2 DEF NotesInv, NotesTypeOK
<1>8. StoredOnce' /\ ~nseen'.wrong
  BY <1>2, <1>7 DEF NotesInv, StoredOnce, CardActsOnShown
<1>9. /\ ~nseen.overlap /\ b > 0 => b + Visible <= Len(Slots)
      /\ ~nseen.overlap /\ ~nseen.early /\ b > 0 => b + Visible <= nui.len
  <2>0. nui.base \in Nat /\ nui.len \in Nat /\ Len(Slots) \in Nat /\ Visible \in Nat
    BY PageFields, NotesNumbers
  <2>1. CASE nui.base > 0 /\ b = nui.base - 1
    BY <1>3, <1>4, <2>0, <2>1
  <2>2. CASE nui.base + Visible < nui.len /\ b = nui.base + 1
    BY <1>3, <2>0, <2>2
  <2> QED BY <1>2, <2>1, <2>2
<1> QED BY <1>2, <1>3, <1>5, <1>6, <1>7, <1>8, <1>9, PageFields, Drawn

\* A card acts on the entry it shows.
LEMMA ActsRight ==
  ASSUME NotesInv, nui.open, NEW k \in DOMAIN nui.cards, NEW overlap, nseen.overlap => overlap
  PROVE  ~ActsWrong(k, overlap) /\ Position(k) \in 1..Len(Slots)
<1>1. Position(k) \in 1..Len(Slots)
  <2>1. k \in 1..Len(nui.cards) /\ nui.cards # <<>>
    BY PageFields
  <2>2. nui.len <= Len(Slots) /\ nui.base + Len(nui.cards) <= nui.len
    BY <2>1 DEF NotesInv, PageInv
  <2>3. nui.base \in Nat /\ nui.len \in Nat /\ Len(Slots) \in Nat /\ Len(nui.cards) \in Nat
    BY PageFields
  <2> DEFINE n == Len(nui.cards)
  <2> HIDE DEF n
  <2> QED BY <2>1, <2>2, <2>3 DEF Position, n
<1>2. ~nseen.shifted /\ ~overlap => nui.cards[k] = Slots[Position(k)]
  BY DEF NotesInv, PageInv
<1> QED BY <1>1, <1>2, PageFields DEF ActsWrong

\* The page of details reads the entry of the card.
LEMMA TitleKeyStep ==
  ASSUME NotesInv, NEW k \in 1..Visible, title_key_cb(k) PROVE NotesInv'
<1>1. /\ nui.open /\ k \in DOMAIN nui.cards /\ list' = list /\ slot' = slot /\ nui' = nui
      /\ nseen' = [nseen EXCEPT !.wrong = @ \/ ActsWrong(k, nseen.overlap)]
      /\ Slots' = Slots
  BY DEF title_key_cb, Slots
<1>2. ~ActsWrong(k, nseen.overlap)
  BY <1>1, ActsRight
<1>3. /\ nseen' \in [shifted : BOOLEAN, early : BOOLEAN, overlap : BOOLEAN, wrong : BOOLEAN, null : BOOLEAN]
      /\ nseen'.overlap = nseen.overlap /\ ~nseen'.wrong /\ nseen'.early = nseen.early
      /\ nseen'.shifted = nseen.shifted
  BY <1>1, <1>2 DEF NotesInv, NotesTypeOK, CardActsOnShown
<1>4. NotesTypeOK'
  BY <1>1, <1>3 DEF NotesInv, NotesTypeOK
<1>5. PageInv' /\ PageFull' /\ StoredOnce'
  BY <1>1, <1>3 DEF NotesInv, PageInv, PageFull, StoredOnce, Position
<1> QED BY <1>3, <1>4, <1>5 DEF NotesInv, CardActsOnShown

\* The base after a dismissal still leaves a full page.
LEMMA BaseAfterStays ==
  ASSUME NotesInv, nui.open
  PROVE  /\ BaseAfter \in 0..(MaxNotes - Visible) /\ BaseAfter \in Nat
         /\ ~nseen.overlap /\ BaseAfter > 0 => BaseAfter + Visible <= Len(Slots) - 1
<1>1. nui.len <= Len(Slots) /\ (~nseen.overlap /\ nui.base > 0 => nui.base + Visible <= Len(Slots))
  BY DEF NotesInv, PageInv
<1> QED BY SMTT(40), <1>1, PageFields, NotesNumbers DEF BaseAfter

\* A notification is dismissed and the page drawn again.
LEMMA DismissStep ==
  ASSUME NotesInv, NEW k \in 1..Visible, dismiss_handler_cb(k) PROVE NotesInv'
<1> DEFINE i == Position(k)
           overlap == nseen.overlap \/ slot # NoNote
           null == slot # NoNote /\ i = Len(list) + 1
<1>1. /\ nui.open /\ k \in DOMAIN nui.cards
      /\ list' = Without(i)
      /\ slot' = IF slot # NoNote /\ i <= Len(list) THEN Last(list) ELSE slot
      /\ nui' = [nui EXCEPT !.base = BaseAfter, !.len = Len(list'),
                            !.cards = Cards(list', BaseAfter, Len(list'))]
      /\ nseen' = [shifted |-> FALSE, early |-> FALSE, overlap |-> overlap,
                   wrong |-> nseen.wrong \/ ActsWrong(k, overlap), null |-> null]
  BY DEF dismiss_handler_cb
<1>2. ~ActsWrong(k, overlap) /\ i \in 1..Len(Slots)
  BY <1>1, ActsRight
<1>3. /\ nseen' \in [shifted : BOOLEAN, early : BOOLEAN, overlap : BOOLEAN, wrong : BOOLEAN, null : BOOLEAN]
      /\ nseen'.overlap <=> overlap
      /\ ~nseen'.wrong
  <2>1. ~nseen.wrong
    BY DEF NotesInv, CardActsOnShown
  <2>2. overlap \in BOOLEAN /\ null \in BOOLEAN
    OBVIOUS
  <2> HIDE DEF overlap, null
  <2> QED BY <1>1, <1>2, <2>1, <2>2
<1>4. /\ list' \in Seq(Notes) /\ Len(list') \in Nat /\ Len(list') <= Len(list)
      /\ slot' \in Notes \cup {NoNote}
      /\ slot = NoNote => /\ slot' = NoNote /\ Len(list') = Len(Slots) - 1
                          /\ IsInjective(Slots) => IsInjective(list')
      /\ slot # NoNote => slot' # NoNote
  <2>1. CASE i <= Len(list)
    <3>1. i \in 1..Len(list) /\ list' = RemoveAt(list, i)
      BY <1>1, <1>2, <2>1, PageFields DEF Without
    <3> HIDE DEF i
    <3>2. list' \in Seq(Notes) /\ Len(list') = Len(list) - 1
      BY <3>1, PageFields, Removed
    <3>3. IsInjective(list) => IsInjective(list')
      BY <3>1, PageFields, StillInjective
    <3>4. Last(list) \in Notes
      BY <3>1, PageFields, ElementOfSeq DEF Last
    <3>5. slot = NoNote => Slots = list
      BY DEF Slots
    <3>6. Len(list') \in Nat /\ Len(list') <= Len(list)
      BY <3>1, <3>2, PageFields
    <3> QED BY <1>1, <2>1, <3>2, <3>3, <3>4, <3>5, <3>6, PageFields, NotesNumbers
  <2>2. CASE ~(i <= Len(list))
    <3>1. slot # NoNote /\ list' = list /\ slot' = slot
      BY <1>1, <1>2, <2>2, PageFields DEF Without, Slots
    <3> QED BY <3>1, PageFields
  <2> QED BY <2>1, <2>2
<1> HIDE DEF i, null
<1>5. Slots' \in Seq(Notes) /\ Len(list') <= Len(Slots') /\ Len(Slots') \in Nat
      /\ (slot' = NoNote => Slots' = list')
      /\ (slot' # NoNote => Len(Slots') = Len(list') + 1)
      /\ \A j \in 1..Len(list') : list'[j] = Slots'[j]
  <2>1. SlotsAre'
    BY SlotsLemma, PTL
  <2> QED BY <1>4, <2>1 DEF SlotsAre
<1>6. Len(Slots') <= MaxNotes
  <2>1. CASE slot = NoNote
    BY <1>4, <1>5, <2>1, PageFields, NotesNumbers
  <2>2. CASE slot # NoNote
    <3>1. Len(Slots) = Len(list) + 1
      BY <2>2, PageFields, SlotsLemma DEF SlotsAre
    <3> QED BY <1>4, <1>5, <2>2, <3>1, PageFields, NotesNumbers
  <2> QED BY <2>1, <2>2
<1>7. nui' = [open |-> TRUE, base |-> BaseAfter, len |-> Len(list'),
              cards |-> Cards(list', BaseAfter, Len(list'))]
  <2>1. nui.open = TRUE
    BY <1>1 DEF NotesInv, NotesTypeOK
  <2> DEFINE o == nui.open
             b == BaseAfter
             l == Len(list')
             c == Cards(list', b, l)
             z == nui.base
             m == nui.len
             y == nui.cards
             q == [nui EXCEPT !.base = b]
             r == [q EXCEPT !.len = l]
  <2>2. nui = [open |-> o, base |-> z, len |-> m, cards |-> y]
    BY DEF NotesInv, NotesTypeOK
  <2>3. nui' = [nui EXCEPT !.base = b, !.len = l, !.cards = c]
    BY <1>1
  <2> HIDE DEF o, b, l, c, z, m, y
  <2>4. nui' = [r EXCEPT !.cards = c]
    BY <2>3, Zenon
  <2>5. q = [open |-> o, base |-> b, len |-> m, cards |-> y]
    BY <2>2
  <2> HIDE DEF q
  <2>6. r = [open |-> o, base |-> b, len |-> l, cards |-> y]
    BY <2>5
  <2> HIDE DEF r
  <2>7. nui' = [open |-> o, base |-> b, len |-> l, cards |-> c]
    BY <2>4, <2>6
  <2> QED BY <2>1, <2>7 DEF o, b, l, c
<1>8. /\ ~nseen'.overlap /\ BaseAfter > 0 => BaseAfter + Visible <= Len(Slots')
      /\ ~nseen'.overlap /\ ~nseen'.early /\ BaseAfter > 0 => BaseAfter + Visible <= Len(list')
  <2>1. ~nseen'.overlap => Len(Slots') = Len(Slots) - 1 /\ Len(list') = Len(Slots) - 1 /\ ~nseen.overlap
    BY <1>3, <1>4, <1>5
  <2> QED BY <1>1, <2>1, BaseAfterStays
<1>9. StoredOnce'
  BY <1>3, <1>4, <1>5 DEF NotesInv, StoredOnce
<1>10. BaseAfter \in 0..(MaxNotes - Visible)
  BY <1>1, BaseAfterStays
<1>11. Len(list') \in Nat /\ list' \in Seq(Notes) /\ Len(list') <= Len(list')
  BY <1>4
<1> HIDE DEF overlap
<1> QED
  BY <1>3, <1>4, <1>5, <1>6, <1>7, <1>8, <1>9, <1>10, <1>11, Drawn

-----------------------------------------------------------------------------
(* Applications and the updates they ask for                               *)

WeatherInv ==
  WeatherTypeOK /\ ShowsActiveDate /\ DispatchSafe /\ AnswerInv /\ DispatchInv

\* What the application's record holds
LEMMA AppFields ==
  ASSUME NEW a \in Apps
  PROVE  /\ a.active \in Int /\ a.off \in Int /\ a.hroff \in Int
         /\ a.data \in Dates \cup {NoData}
<1>1. \A d \in Dates \cup {0} : d \in Int
  BY WeatherAssumption
<1>2. \A o \in -MaxOffset..MaxOffset : o \in Int
  BY WeatherAssumption
<1>3. /\ a.active \in Dates \cup {0} /\ a.off \in -MaxOffset..MaxOffset /\ a.hroff \in Int
      /\ a.data \in Dates \cup {NoData}
  BY DEF Apps
<1> QED BY <1>1, <1>2, <1>3

\* The application that is opened has no offset.
LEMMA ZeroOffset == 0 \in -MaxOffset..MaxOffset /\ 0 \in Int /\ 1 \in Int
BY WeatherAssumption

\* An application just made, of any kind
LEMMA EmptyApp ==
  ASSUME NEW k \in {"none", "weather", "blank", "other"}
  PROVE  LET a == [NoApp EXCEPT !.kind = k] IN
         /\ NoApp \in Apps /\ NoApp.kind = "none" /\ a \in Apps /\ a.kind = k
         /\ a.active = 0 /\ a.off = 0 /\ a.hroff = 0 /\ a.data = NoData
         /\ a.top = NoData /\ a.bottom = NoData /\ a.spinner = FALSE
<1>1. NoApp \in Apps
  BY WeatherAssumption DEF Apps, NoApp
<1>2. [NoApp EXCEPT !.kind = k] \in Apps
  BY <1>1 DEF Apps
<1> QED BY <1>1, <1>2 DEF NoApp

\* Nothing is under way at first.
LEMMA WeatherBegins == WeatherInit => WeatherInv
<1> SUFFICES ASSUME WeatherInit PROVE WeatherInv
  OBVIOUS
<1>1. <<>> \in Seq(Dates) /\ Len(<<>>) = 0 /\ NoApp \in Apps
  BY EmptyApp
<1> QED BY <1>1, WeatherAssumption
        DEF WeatherInit, WeatherInv, WeatherTypeOK, ShowsActiveDate, DispatchSafe,
            AnswerInv, DispatchInv, NoApp, NoUpdate, NoData

\* Opening the weather application: the active date is today.
LEMMA OpenWeatherStep ==
  ASSUME WeatherInv, OpenWeather PROVE WeatherInv'
<1> DEFINE e == [NoApp EXCEPT !.kind = "weather"]
           a == [e EXCEPT !.active = Today, !.data = Today]
           b == [a EXCEPT !.hroff = IF HourOK(Hour + 1) THEN 1 ELSE 0]
<1>a. /\ Today \in Dates /\ Today \in Int /\ Hour \in Int /\ HourOK(Hour)
      /\ Hour + 0 = Hour /\ Hour + 0 + 1 = Hour + 1
  BY WeatherAssumption DEF HourOK
<1>b. /\ e \in Apps /\ e.kind = "weather" /\ e.off = 0 /\ e.hroff = 0 /\ e.spinner = FALSE
  <2>1. "weather" \in {"none", "weather", "blank", "other"}
    OBVIOUS
  <2> QED BY <2>1, EmptyApp
<1> HIDE DEF e
<1>c. /\ a \in Apps /\ a.kind = "weather" /\ a.off = 0 /\ a.hroff = 0 /\ a.spinner = FALSE
      /\ a.active = Today /\ a.data = Today
  BY <1>a, <1>b DEF Apps
<1>d. initialize_weather_ui(a) = refresh_all_ui(b)
  <2>1. (IF HourOK(Hour + a.hroff + 1) THEN a.hroff + 1 ELSE a.hroff)
          = (IF HourOK(Hour + 1) THEN 1 ELSE 0)
    BY <1>a, <1>c
  <2> HIDE DEF a
  <2> QED BY <2>1 DEF initialize_weather_ui
<1>e. [NoApp EXCEPT !.kind = "weather", !.active = Today, !.data = Today] = a
  BY DEF e
<1> HIDE DEF a
<1>f. /\ b \in Apps /\ b.kind = "weather" /\ b.off = 0 /\ b.spinner = FALSE
      /\ b.hroff = (IF HourOK(Hour + 1) THEN 1 ELSE 0) /\ b.active = Today /\ b.data = Today
  BY <1>c DEF Apps
<1> HIDE DEF b
<1>g. LET c == refresh_all_ui(b) IN
      /\ c \in Apps /\ c.kind = "weather" /\ c.off = 0 /\ c.spinner = FALSE
      /\ c.hroff = (IF HourOK(Hour + 1) THEN 1 ELSE 0)
      /\ c.active = Today /\ c.data = Today /\ c.top = Today /\ c.bottom = Today
  BY <1>a, <1>f DEF Apps, refresh_all_ui, refresh_bottom_ui
<1>1. /\ \/ /\ app'.kind = "weather" /\ app'.off = 0 /\ app'.spinner = FALSE
            /\ app'.hroff = (IF HourOK(Hour + 1) THEN 1 ELSE 0)
            /\ app'.active = Today /\ app'.data = Today /\ app'.top = Today /\ app'.bottom = Today
         \/ app'.kind = "blank"
      /\ app' \in Apps
      /\ asked' = asked /\ work' = work /\ disp' = disp
  <2>1. /\ app' = initialize_weather_ui(a) \/ app' = [NoApp EXCEPT !.kind = "blank"]
        /\ asked' = asked /\ work' = work /\ disp' = disp
    BY <1>e DEF OpenWeather
  <2>2. "blank" \in {"none", "weather", "blank", "other"}
    OBVIOUS
  <2> QED BY <1>d, <1>g, <2>1, <2>2, EmptyApp
<1>2. /\ wseen'.mixed <=> UnderWay
      /\ wseen'.meddled <=> Meddles
      /\ wseen'.astray = wseen.astray /\ wseen'.fault = wseen.fault
      /\ wseen' \in [mixed : BOOLEAN, meddled : BOOLEAN, astray : BOOLEAN, fault : BOOLEAN]
  BY DEF OpenWeather, WeatherInv, WeatherTypeOK, UnderWay, Meddles
<1>3. WeatherTypeOK'
  BY <1>1, <1>2 DEF WeatherInv, WeatherTypeOK
<1>4. ShowsActiveDate' /\ AnswerInv'
  <2>1. app'.kind = "weather" => app'.active \in Dates /\ app'.active + app'.off \in Dates
    BY <1>1, <1>a
  <2> QED BY <1>1, <1>2, <2>1 DEF ShowsActiveDate, AnswerInv, UnderWay, NoUpdate
<1>5. DispatchSafe' /\ DispatchInv'
  <2>1. DispatchSafe'
    BY <1>1, <1>2 DEF WeatherInv, DispatchSafe, Meddles
  <2>2. app'.kind = "weather" => HourOK(Hour + app'.hroff)
    BY <1>1, <1>a
  <2>3. DispatchInv'
    BY <1>1, <1>2, <2>2 DEF DispatchInv, Meddles, NoUpdate
  <2> QED BY <2>1, <2>3
<1> QED BY <1>3, <1>4, <1>5 DEF WeatherInv

\* What the other steps of the LVGL task do to the history
LEMMA Meddling ==
  ASSUME WeatherInv, wseen' = [wseen EXCEPT !.meddled = Meddles]
  PROVE  /\ wseen' \in [mixed : BOOLEAN, meddled : BOOLEAN, astray : BOOLEAN, fault : BOOLEAN]
         /\ wseen'.mixed = wseen.mixed /\ wseen'.fault = wseen.fault
         /\ wseen'.astray = wseen.astray
         /\ wseen'.meddled <=> wseen.meddled \/ disp # NoUpdate
BY DEF WeatherInv, WeatherTypeOK, Meddles

\* An application opened or closed beside the weather
LEMMA OtherAppStep ==
  ASSUME WeatherInv, OpenOther \/ CloseApp PROVE WeatherInv'
<1>1. /\ app' = [NoApp EXCEPT !.kind = "other"] \/ app' = NoApp
      /\ asked' = asked /\ work' = work /\ disp' = disp
      /\ wseen' = [wseen EXCEPT !.meddled = Meddles]
  BY DEF OpenOther, CloseApp
<1>2. WeatherTypeOK'
  BY <1>1, EmptyApp, Meddling DEF WeatherInv, WeatherTypeOK
<1>3. ShowsActiveDate' /\ AnswerInv'
  BY <1>1 DEF ShowsActiveDate, AnswerInv, NoApp
<1>4. DispatchSafe' /\ DispatchInv'
  <2>1. DispatchSafe'
    BY <1>1, Meddling DEF WeatherInv, DispatchSafe
  <2>2. DispatchInv'
    BY <1>1, Meddling DEF DispatchInv, NoUpdate, NoApp
  <2> QED BY <2>1, <2>2
<1> QED BY <1>2, <1>3, <1>4 DEF WeatherInv

\* The offset of the date changes.
LEMMA DateKeyStep ==
  ASSUME NEW d \in {-1, 1}, WeatherInv, DateKey(d) PROVE WeatherInv'
<1>1. /\ app' = [app EXCEPT !.off = @ + d] /\ app.kind = "weather"
      /\ app.off + d \in -MaxOffset..MaxOffset /\ app.active + (app.off + d) \in Dates
      /\ asked' = asked /\ work' = work /\ disp' = disp
      /\ wseen' = [wseen EXCEPT !.meddled = Meddles]
  <2>1. app.active \in Int /\ app.off \in Int
    BY AppFields DEF WeatherInv, WeatherTypeOK
  <2> QED BY <2>1 DEF DateKey
<1>2. /\ app'.kind = "weather" /\ app'.active = app.active /\ app'.off = app.off + d
      /\ app'.hroff = app.hroff /\ app'.data = app.data /\ app'.top = app.top
      /\ app'.bottom = app.bottom /\ app'.spinner = app.spinner
      /\ app' \in Apps
  BY <1>1 DEF WeatherInv, WeatherTypeOK, Apps
<1>3. WeatherTypeOK'
  BY <1>1, <1>2, Meddling DEF WeatherInv, WeatherTypeOK
<1>4. ShowsActiveDate' /\ AnswerInv'
  BY <1>1, <1>2, Meddling DEF WeatherInv, ShowsActiveDate, AnswerInv
<1>5. DispatchSafe' /\ DispatchInv'
  <2>1. DispatchSafe'
    BY <1>1, Meddling DEF WeatherInv, DispatchSafe
  <2>2. DispatchInv'
    BY <1>1, <1>2, Meddling DEF WeatherInv, DispatchInv, NoUpdate, InFocus
  <2> QED BY <2>1, <2>2
<1> QED BY <1>3, <1>4, <1>5 DEF WeatherInv

\* A key moves the hour that is shown, not the date.
LEMMA HourKeyStep ==
  ASSUME NEW d \in {-1, 1}, WeatherInv, HourKey(d) PROVE WeatherInv'
<1>1. /\ app' = [app EXCEPT !.hroff = @ + d, !.bottom = app.data] /\ app.kind = "weather"
      /\ HourOK(Hour + app.hroff + d)
      /\ asked' = asked /\ work' = work /\ disp' = disp
      /\ wseen' = [wseen EXCEPT !.meddled = Meddles]
  BY DEF HourKey, refresh_bottom_ui, WeatherInv, WeatherTypeOK
<1>2. /\ app'.kind = "weather" /\ app'.active = app.active /\ app'.off = app.off
      /\ app'.hroff = app.hroff + d /\ app'.data = app.data /\ app'.top = app.top
      /\ app'.bottom = app.data /\ app'.spinner = app.spinner
      /\ app.hroff \in Int /\ app' \in Apps
  <2>1. app \in Apps
    BY DEF WeatherInv, WeatherTypeOK
  <2>2. app.hroff + d \in Int /\ app.hroff \in Int /\ app.data \in Dates \cup {NoData}
    BY <2>1, AppFields
  <2>3. [app EXCEPT !.hroff = app.hroff + d] \in Apps
    BY <2>1, <2>2 DEF Apps
  <2> QED BY <1>1, <2>1, <2>2, <2>3 DEF Apps
<1>3. WeatherTypeOK'
  BY <1>1, <1>2, Meddling DEF WeatherInv, WeatherTypeOK
<1>4. ShowsActiveDate' /\ AnswerInv'
  BY <1>1, <1>2, Meddling DEF WeatherInv, ShowsActiveDate, AnswerInv
<1>5. DispatchSafe' /\ DispatchInv'
  <2>1. DispatchSafe'
    BY <1>1, Meddling DEF WeatherInv, DispatchSafe
  <2>2. HourOK(Hour + app'.hroff)
    BY <1>1, <1>2, WeatherAssumption
  <2>3. DispatchInv'
    BY <1>1, <1>2, <2>2, Meddling DEF WeatherInv, DispatchInv, NoUpdate, InFocus
  <2> QED BY <2>1, <2>3
<1> QED BY <1>3, <1>4, <1>5 DEF WeatherInv

\* A date is chosen: the request for it is the only one under way unless another was.
LEMMA ChooseDateStep ==
  ASSUME WeatherInv, handle_date_unfocused_event PROVE WeatherInv'
<1>1. /\ app.kind = "weather" /\ app' = enter_loading_state(Chosen(app))
      /\ asked' = Append(asked, app.active + app.off) /\ work' = work /\ disp' = disp
      /\ wseen' = [wseen EXCEPT !.mixed = UnderWay, !.meddled = Meddles]
  BY DEF handle_date_unfocused_event
<1>2. app.active + app.off \in Dates
  BY <1>1 DEF WeatherInv, AnswerInv
<1>3. /\ app'.kind = "weather" /\ app'.active = app.active + app.off /\ app'.off = 0
      /\ app'.hroff = 0 /\ app'.data = NoData /\ app'.spinner = TRUE
      /\ app' \in Apps
  <2>1. app \in Apps
    BY DEF WeatherInv, WeatherTypeOK
  <2> DEFINE v == app.active + app.off
             c == [app EXCEPT !.active = v, !.off = 0, !.hroff = 0, !.data = NoData]
  <2>2. Chosen(app) = c
    BY DEF Chosen
  <2>3. v \in Dates \cup {0}
    BY <1>2
  <2> HIDE DEF v
  <2>4. /\ c \in Apps /\ c.kind = "weather" /\ c.active = v /\ c.off = 0 /\ c.hroff = 0
        /\ c.data = NoData /\ c.spinner = app.spinner
    BY <1>1, <2>1, <2>3, ZeroOffset DEF Apps
  <2> HIDE DEF c
  <2>5. app' = IF c.spinner THEN c ELSE [refresh_all_ui(c) EXCEPT !.spinner = TRUE]
    BY <1>1, <2>2 DEF enter_loading_state
  <2> DEFINE r == refresh_all_ui(c)
  <2>6. /\ r \in Apps /\ r.kind = "weather" /\ r.active = v /\ r.off = 0 /\ r.hroff = 0
        /\ r.data = NoData
    BY <2>4 DEF Apps, refresh_all_ui, refresh_bottom_ui
  <2> HIDE DEF r
  <2> DEFINE q == [r EXCEPT !.spinner = TRUE]
  <2>7. /\ q \in Apps /\ q.kind = "weather" /\ q.active = v /\ q.off = 0 /\ q.hroff = 0
        /\ q.data = NoData /\ q.spinner = TRUE
    BY <2>6 DEF Apps
  <2>8. app' = q \/ (app' = c /\ c.spinner = TRUE)
    <3>1. c.spinner \in BOOLEAN
      BY <2>4 DEF Apps
    <3> QED BY <2>5, <3>1 DEF r
  <2> HIDE DEF q
  <2> QED BY <2>4, <2>7, <2>8 DEF v
<1>4. /\ wseen'.mixed <=> UnderWay
      /\ wseen'.meddled <=> Meddles
      /\ wseen'.astray = wseen.astray /\ wseen'.fault = wseen.fault
      /\ wseen' \in [mixed : BOOLEAN, meddled : BOOLEAN, astray : BOOLEAN, fault : BOOLEAN]
  BY <1>1 DEF WeatherInv, WeatherTypeOK, UnderWay, Meddles
<1>5. asked' \in Seq(Dates)
  BY <1>1, <1>2, AppendProperties DEF WeatherInv, WeatherTypeOK
<1>6. WeatherTypeOK'
  BY <1>1, <1>3, <1>4, <1>5 DEF WeatherInv, WeatherTypeOK
<1>7. AnswerInv'
  <2>1. app'.active + app'.off \in Dates /\ app'.active \in Dates
    <3>1. \A d \in Dates : d \in Int
      BY WeatherAssumption
    <3>2. app.active + app.off \in Int
      BY <1>2, <3>1
    <3> QED BY <1>2, <1>3, <3>2
  <2>2. CASE ~UnderWay
    <3>1. asked' = <<app'.active>> /\ work' = <<>> /\ disp' = NoUpdate
      <4>1. Append(<<>>, app.active + app.off) = <<app.active + app.off>>
        OBVIOUS
      <4> QED BY <1>1, <1>3, <2>2, <4>1 DEF UnderWay
    <3> QED BY <1>3, <2>1, <3>1 DEF AnswerInv
  <2> QED BY <1>3, <1>4, <2>1, <2>2 DEF AnswerInv
<1>8. ShowsActiveDate'
  BY <1>3 DEF ShowsActiveDate
<1>9. DispatchSafe' /\ DispatchInv'
  <2>1. DispatchSafe'
    BY <1>1, <1>4 DEF WeatherInv, DispatchSafe, Meddles
  <2>2. HourOK(Hour + app'.hroff)
    BY <1>3, WeatherAssumption DEF HourOK
  <2>3. DispatchInv'
    BY <1>1, <1>3, <1>4, <2>2 DEF DispatchInv, Meddles, NoUpdate
  <2> QED BY <2>1, <2>3
<1> QED BY <1>6, <1>7, <1>8, <1>9 DEF WeatherInv

\* An answer is lost, or becomes a work item if there is room for one.
LEMMA AnswerStep ==
  ASSUME WeatherInv, LoseAnswer \/ receive_app_update PROVE WeatherInv'
<1>1. /\ asked # <<>> /\ asked' = Tail(asked) /\ app' = app /\ disp' = disp /\ wseen' = wseen
      /\ work' = work \/ (Len(work) < MaxWork /\ work' = Append(work, Head(asked)))
  BY DEF LoseAnswer, receive_app_update
<1>2. asked' \in Seq(Dates) /\ Head(asked) \in Dates
  BY <1>1, HeadTailProperties DEF WeatherInv, WeatherTypeOK
<1>3. work' \in Seq(Dates) /\ Len(work') <= MaxWork
  <2>1. work \in Seq(Dates) /\ Len(work) <= MaxWork /\ Len(work) \in Nat
    BY LenProperties DEF WeatherInv, WeatherTypeOK
  <2>2. Append(work, Head(asked)) \in Seq(Dates) /\ Len(Append(work, Head(asked))) = Len(work) + 1
    BY <1>2, <2>1, AppendProperties
  <2> QED BY SMTT(40), <1>1, <2>1, <2>2, WeatherAssumption
<1>4. WeatherTypeOK'
  BY <1>1, <1>2, <1>3 DEF WeatherInv, WeatherTypeOK
<1>5. AnswerInv'
  <2>1. CASE app.kind = "weather" /\ ~wseen.mixed
    <3>1. app.spinner /\ disp = NoUpdate /\ asked = <<app.active>> /\ work = <<>>
      BY <1>1, <2>1 DEF WeatherInv, AnswerInv
    <3>2. Tail(asked) = <<>> /\ Head(asked) = app.active
          /\ Append(work, Head(asked)) = <<app.active>>
      BY <3>1
    <3> QED BY <1>1, <2>1, <3>1, <3>2 DEF WeatherInv, AnswerInv
  <2> QED BY <1>1, <2>1 DEF WeatherInv, AnswerInv
<1>6. ShowsActiveDate' /\ DispatchSafe' /\ DispatchInv'
  BY <1>1 DEF WeatherInv, ShowsActiveDate, DispatchSafe, DispatchInv, InFocus
<1> QED BY <1>4, <1>5, <1>6 DEF WeatherInv

\* dispatch_app_update tests that an application which asks has the focus.
LEMMA DispatchStep ==
  ASSUME WeatherInv, ~wseen.fault, dispatch_app_update PROVE WeatherInv'
<1>1. /\ disp = NoUpdate /\ work # <<>> /\ work' = Tail(work)
      /\ disp' = IF InFocus THEN [step |-> "call", date |-> Head(work)] ELSE NoUpdate
      /\ app' = app /\ asked' = asked
  BY DEF dispatch_app_update
<1>2. /\ wseen' \in [mixed : BOOLEAN, meddled : BOOLEAN, astray : BOOLEAN, fault : BOOLEAN]
      /\ wseen'.mixed = wseen.mixed /\ ~wseen'.fault /\ ~wseen'.astray
  BY DEF dispatch_app_update, WeatherInv, WeatherTypeOK
<1>3. Head(work) \in Dates /\ work' \in Seq(Dates) /\ Len(work') <= MaxWork
  BY <1>1, HeadTailProperties, LenProperties, WeatherAssumption DEF WeatherInv, WeatherTypeOK
<1>4. disp' \in {NoUpdate} \cup [step : {"call", "hour", "next", "draw"}, date : Dates]
  BY <1>1, <1>3
<1>5. WeatherTypeOK'
  BY <1>1, <1>2, <1>3, <1>4 DEF WeatherInv, WeatherTypeOK
<1>6. AnswerInv' /\ ShowsActiveDate'
  <2>1. CASE app.kind = "weather" /\ ~wseen.mixed
    <3>1. app.spinner /\ asked = <<>> /\ work = <<app.active>>
      BY <1>1, <2>1 DEF WeatherInv, AnswerInv
    <3>2. Tail(work) = <<>> /\ disp' = [step |-> "call", date |-> app.active]
      BY <1>1, <2>1, <3>1 DEF InFocus
    <3> QED BY <1>1, <1>2, <2>1, <3>1, <3>2 DEF WeatherInv, AnswerInv, ShowsActiveDate
  <2> QED BY <1>1, <1>2, <2>1 DEF WeatherInv, AnswerInv, ShowsActiveDate
<1>7. DispatchSafe'
  BY <1>2 DEF DispatchSafe
<1>8. disp'.step = "none" \/ (disp'.step = "call" /\ InFocus)
  BY <1>1 DEF NoUpdate
<1>9. DispatchInv'
  BY <1>1, <1>2, <1>8 DEF WeatherInv, DispatchInv, InFocus
<1> QED BY <1>5, <1>6, <1>7, <1>9 DEF WeatherInv

\* receive_event calls whichever application has the focus now.
LEMMA ReceiveStep ==
  ASSUME WeatherInv, ~wseen.fault, receive_event PROVE WeatherInv'
<1>1. /\ disp.step = "call" /\ asked' = asked /\ work' = work
      /\ app' = IF app.kind = "weather" THEN [app EXCEPT !.data = disp.date, !.spinner = FALSE] ELSE app
      /\ disp' = IF app.kind = "weather" /\ app.spinner THEN [disp EXCEPT !.step = "hour"] ELSE NoUpdate
  BY DEF receive_event
<1>2. /\ wseen' \in [mixed : BOOLEAN, meddled : BOOLEAN, astray : BOOLEAN, fault : BOOLEAN]
      /\ wseen'.mixed = wseen.mixed /\ wseen'.meddled = wseen.meddled
      /\ wseen'.fault <=> app.kind = "none"
      /\ wseen'.astray <=> app.kind = "other"
  BY DEF receive_event, WeatherInv, WeatherTypeOK
<1>3. disp \in [step : {"call", "hour", "next", "draw"}, date : Dates]
  BY <1>1 DEF WeatherInv, WeatherTypeOK, NoUpdate
<1>4. /\ app'.kind = app.kind /\ app'.active = app.active /\ app'.off = app.off
      /\ app'.hroff = app.hroff
      /\ app.kind = "weather" => app'.data = disp.date /\ ~app'.spinner
      /\ app' \in Apps
  BY <1>1, <1>3 DEF WeatherInv, WeatherTypeOK, Apps
<1>5. disp' = NoUpdate \/ (disp' = [step |-> "hour", date |-> disp.date] /\ app.kind = "weather")
  BY <1>1, <1>3
<1>6. WeatherTypeOK'
  BY <1>1, <1>2, <1>3, <1>4, <1>5 DEF WeatherInv, WeatherTypeOK
<1>7. AnswerInv' /\ ShowsActiveDate'
  <2>1. CASE app.kind = "weather" /\ ~wseen.mixed
    <3>1. /\ app.spinner /\ asked = <<>> /\ work = <<>>
          /\ disp = [step |-> "call", date |-> app.active]
      BY <1>1, <2>1 DEF WeatherInv, AnswerInv, NoUpdate
    <3>2. disp' = [step |-> "hour", date |-> app.active] /\ app'.data = app.active
      BY <1>1, <1>4, <2>1, <3>1
    <3>3. AnswerInv'
      BY <1>1, <1>2, <1>4, <2>1, <3>1, <3>2 DEF WeatherInv, AnswerInv
    <3>4. ShowsActiveDate'
      BY <3>2 DEF ShowsActiveDate, NoUpdate
    <3> QED BY <3>3, <3>4
  <2> QED BY <1>2, <1>4, <2>1 DEF WeatherInv, AnswerInv, ShowsActiveDate
<1>8. DispatchSafe'
  BY <1>1, <1>2 DEF WeatherInv, DispatchInv, DispatchSafe, InFocus
<1>9. DispatchInv'
  <2>1. disp'.step \notin {"call", "next", "draw"}
    BY <1>5 DEF NoUpdate
  <2> QED BY <1>2, <1>4, <1>5, <2>1 DEF WeatherInv, DispatchInv, NoUpdate
<1> QED BY <1>6, <1>7, <1>8, <1>9 DEF WeatherInv

\* The worker tests the hour after the one shown ...
LEMMA TestHourStep ==
  ASSUME WeatherInv, TestHour PROVE WeatherInv'
<1>1. /\ disp.step = "hour" /\ app' = app /\ asked' = asked /\ work' = work /\ wseen' = wseen
      /\ disp' = IF app.kind # "weather" THEN NoUpdate
                 ELSE [disp EXCEPT !.step = IF HourOK(Hour + app.hroff + 1) THEN "next" ELSE "draw"]
  BY DEF TestHour
<1>2. disp \in [step : {"call", "hour", "next", "draw"}, date : Dates]
  BY <1>1 DEF WeatherInv, WeatherTypeOK, NoUpdate
<1>3. \/ app.kind # "weather" /\ disp' = NoUpdate
      \/ app.kind = "weather" /\ disp' = [step |-> "draw", date |-> disp.date]
      \/ /\ app.kind = "weather" /\ HourOK(Hour + app.hroff + 1)
         /\ disp' = [step |-> "next", date |-> disp.date]
  BY <1>1, <1>2
<1>4. WeatherTypeOK'
  BY <1>1, <1>2, <1>3 DEF WeatherInv, WeatherTypeOK
<1>5. AnswerInv' /\ ShowsActiveDate'
  <2>1. disp'.step # "call" /\ disp # NoUpdate
    BY <1>1, <1>3 DEF NoUpdate
  <2>2. app.kind = "weather" => disp' # NoUpdate
    BY <1>3 DEF NoUpdate
  <2>3. app.kind = "weather" /\ ~wseen.mixed => ~app.spinner
    BY <1>1, <2>1 DEF WeatherInv, AnswerInv
  <2> QED BY <1>1, <2>1, <2>2, <2>3 DEF WeatherInv, AnswerInv, ShowsActiveDate
<1>6. DispatchSafe'
  BY <1>1 DEF WeatherInv, DispatchSafe
<1>7. DispatchInv'
  BY <1>1, <1>3 DEF WeatherInv, DispatchInv, NoUpdate
<1> QED BY <1>4, <1>5, <1>6, <1>7 DEF WeatherInv

\* ... and takes it.
LEMMA TakeHourStep ==
  ASSUME WeatherInv, ~wseen.fault, TakeHour PROVE WeatherInv'
<1> DEFINE h == IF disp.step = "next" THEN app.hroff + 1 ELSE app.hroff
<1>1. /\ disp.step \in {"next", "draw"} /\ disp' = NoUpdate /\ asked' = asked /\ work' = work
      /\ app' = IF app.kind = "weather"
                THEN [app EXCEPT !.hroff = h, !.top = app.data, !.bottom = app.data] ELSE app
      /\ app.hroff \in Int
  <2>1. app \in Apps
    BY DEF WeatherInv, WeatherTypeOK
  <2> QED BY <2>1, AppFields DEF TakeHour, refresh_all_ui, refresh_bottom_ui, Apps
<1>2. /\ wseen' \in [mixed : BOOLEAN, meddled : BOOLEAN, astray : BOOLEAN, fault : BOOLEAN]
      /\ wseen'.mixed = wseen.mixed /\ wseen'.meddled = wseen.meddled
      /\ wseen'.fault <=> (app.kind # "weather" \/ ~HourOK(Hour + h))
      /\ wseen'.astray = wseen.astray
  <2> DEFINE a == IF disp.step = "next" THEN [app EXCEPT !.hroff = @ + 1] ELSE app
  <2>1. a.hroff = h
    BY DEF WeatherInv, WeatherTypeOK, Apps
  <2>2. wseen' = [wseen EXCEPT !.fault = app.kind # "weather" \/ ~HourOK(Hour + h)]
    BY <2>1 DEF TakeHour
  <2> HIDE DEF h
  <2> QED BY <2>2 DEF WeatherInv, WeatherTypeOK
<1>3. /\ app'.kind = app.kind /\ app'.active = app.active /\ app'.off = app.off
      /\ app'.data = app.data /\ app'.spinner = app.spinner
      /\ app.kind = "weather" => app'.top = app.data /\ app'.bottom = app.data /\ app'.hroff = h
      /\ app' \in Apps
  <2>1. app \in Apps /\ h \in Int
    BY <1>1 DEF WeatherInv, WeatherTypeOK
  <2> HIDE DEF h
  <2> QED BY <1>1, <2>1 DEF Apps
<1>4. WeatherTypeOK'
  BY <1>1, <1>2, <1>3 DEF WeatherInv, WeatherTypeOK
<1>5. AnswerInv' /\ ShowsActiveDate'
  <2>1. disp'.step # "call" /\ disp # NoUpdate /\ disp.step # "call"
    BY <1>1 DEF NoUpdate
  <2>2. app.kind = "weather" /\ ~wseen.mixed => ~app.spinner
    BY <2>1 DEF WeatherInv, AnswerInv
  <2> QED BY <1>1, <1>2, <1>3, <2>1, <2>2 DEF WeatherInv, AnswerInv, ShowsActiveDate
<1>6. ~wseen.meddled => app.kind = "weather" /\ HourOK(Hour + h)
  BY <1>1, WeatherAssumption DEF WeatherInv, DispatchInv
<1>7. DispatchSafe'
  BY <1>2, <1>6 DEF WeatherInv, DispatchSafe
<1>8. DispatchInv'
  BY <1>1, <1>2, <1>3 DEF DispatchInv, NoUpdate
<1> QED BY <1>4, <1>5, <1>7, <1>8 DEF WeatherInv

\* A shutdown leaves nothing.
LEMMA WeatherEnds ==
  ASSUME app' = NoApp, asked' = <<>>, work' = <<>>, disp' = NoUpdate,
         wseen' = [mixed |-> FALSE, meddled |-> FALSE, astray |-> FALSE, fault |-> FALSE]
  PROVE  WeatherInv'
<1>1. <<>> \in Seq(Dates) /\ Len(<<>>) = 0 /\ NoApp \in Apps
  BY EmptyApp
<1> QED BY <1>1, WeatherAssumption
        DEF WeatherInv, WeatherTypeOK, ShowsActiveDate, DispatchSafe,
            AnswerInv, DispatchInv, NoApp, NoUpdate, NoData

-----------------------------------------------------------------------------
(* The phone's data                                                        *)

\* What the state manager keeps, and whether it may be used
WatchInv ==
  /\ up \in {"off", "up"} /\ page \in {"none", "notify", "apps"} /\ kept \in BOOLEAN
  /\ watch \in [valid : BOOLEAN, weather : {"none", "fresh", "stale"}]
  /\ WeatherUsable

\* The invariant of the whole
PhoneInv == NotesInv /\ WeatherInv /\ WatchInv

\* What a step of the other half leaves alone
LEMMA NotesUntouched ==
  ASSUME NotesInv, UNCHANGED nvars PROVE NotesInv'
<1>1. list' = list /\ slot' = slot /\ nui' = nui /\ nseen' = nseen /\ Slots' = Slots
  BY DEF nvars, Slots
<1> QED BY <1>1 DEF NotesInv, NotesTypeOK, PageInv, Position, PageFull, StoredOnce, CardActsOnShown

\* and the notifications and the state manager leave alone
LEMMA WeatherUntouched ==
  ASSUME WeatherInv, UNCHANGED wvars PROVE WeatherInv'
<1>1. app' = app /\ asked' = asked /\ work' = work /\ disp' = disp /\ wseen' = wseen
  BY DEF wvars
<1> QED BY <1>1 DEF WeatherInv, WeatherTypeOK, ShowsActiveDate, DispatchSafe, AnswerInv,
                    DispatchInv, InFocus

\* A step that touches none of the state manager's variables
LEMMA WatchUntouched ==
  ASSUME WatchInv, UNCHANGED <<up, watch, kept>>, page' \in {"none", "notify", "apps"}
  PROVE  WatchInv'
BY DEF WatchInv, WeatherUsable

\* state_manager_init drops what has expired, and everything without the time.
LEMMA StartStep ==
  ASSUME WatchInv, state_manager_init PROVE WatchInv'
<1> DEFINE w == StartState(watch)
           x == StartWeather(w)
           T == [valid : BOOLEAN, weather : {"none", "fresh", "stale"}]
<1>1. w \in T /\ (w.valid = FALSE => w.weather = "none")
  BY DEF WatchInv, StartState, ColdState
<1> HIDE DEF w
<1>2. x \in T /\ x.valid = w.valid /\ (w.valid = FALSE => x = w)
      /\ (w.valid => x.weather \in {"none", "fresh"})
  BY <1>1 DEF StartWeather
<1>3. x.weather \in IF x.valid THEN {"none", "fresh"} ELSE {"none"}
  BY <1>1, <1>2
<1>4. /\ up' = "up" /\ watch' = x /\ page' = page
      /\ kept' = (watch'.weather \in IF watch'.valid THEN {"none", "fresh"} ELSE {"none"})
  BY DEF state_manager_init, w
<1> HIDE DEF x
<1>5. kept' = TRUE
  BY <1>3, <1>4
<1> QED BY <1>2, <1>4, <1>5 DEF WatchInv, WeatherUsable

\* The other steps of the state manager
LEMMA WatchStep ==
  ASSUME WatchInv, PowerLost \/ Expire \/ TimeSync \/ update_weather_state_cb
  PROVE  WatchInv'
<1>1. CASE PowerLost
  BY <1>1 DEF PowerLost, WatchInv, WeatherUsable, ColdState
<1>2. CASE Expire
  BY <1>2 DEF Expire, WatchInv, WeatherUsable
<1>3. CASE TimeSync
  BY <1>3 DEF TimeSync, WatchInv, WeatherUsable
<1>4. CASE update_weather_state_cb
  BY <1>4 DEF update_weather_state_cb, WatchInv, WeatherUsable
<1> QED BY <1>1, <1>2, <1>3, <1>4

\* The watch starts off, with nothing.
LEMMA PhoneBegins == Init => PhoneInv
<1> SUFFICES ASSUME Init PROVE PhoneInv
  OBVIOUS
<1>1. WatchInv
  BY DEF Init, WatchInv, WeatherUsable, ColdState
<1> QED BY <1>1, NotesBegin, WeatherBegins DEF Init, PhoneInv

\* Every step keeps the invariant.
LEMMA PhoneStep == PhoneInv /\ [Next]_pvars => PhoneInv'
<1> SUFFICES ASSUME PhoneInv, [Next]_pvars PROVE PhoneInv'
  OBVIOUS
<1>0. NotesInv /\ WeatherInv /\ WatchInv
  BY DEF PhoneInv
<1>1. CASE Shutdown
  <2>1. NotesInv'
    BY <1>0, <1>1, NotesEnd DEF Shutdown
  <2>2. WeatherInv'
    BY <1>1, WeatherEnds DEF Shutdown
  <2>3. WatchInv'
    BY <1>0, <1>1 DEF Shutdown, WatchInv, WeatherUsable
  <2> QED BY <2>1, <2>2, <2>3 DEF PhoneInv
<1>2. CASE state_manager_init
  BY <1>0, <1>2, NotesUntouched, WeatherUntouched, StartStep DEF state_manager_init, PhoneInv
<1>3. CASE PowerLost \/ Expire \/ TimeSync \/ update_weather_state_cb
  <2>1. UNCHANGED nvars /\ UNCHANGED wvars
    BY <1>3 DEF PowerLost, Expire, TimeSync, update_weather_state_cb
  <2> QED BY <1>0, <1>3, <2>1, NotesUntouched, WeatherUntouched, WatchStep DEF PhoneInv
<1>4. CASE \E n \in Notes : Notified(n)
  <2>1. PICK n \in Notes : Notified(n)
    BY <1>4
  <2>2. n \notin InUse /\ StoreEntry(n) /\ UNCHANGED wvars /\ UNCHANGED <<up, watch, kept>> /\ page' = page
    BY <2>1 DEF Notified
  <2>3. NotesInv' /\ WeatherInv'
    BY <1>0, <2>2, StoreEntryStep, WeatherUntouched
  <2>4. WatchInv'
    BY <1>0, <2>2, WatchUntouched DEF WatchInv
  <2> QED BY <2>3, <2>4 DEF PhoneInv
<1>5. CASE Refused \/ UNCHANGED pvars
  <2>1. UNCHANGED nvars /\ UNCHANGED wvars /\ UNCHANGED <<up, watch, kept>> /\ page' = page
    BY <1>5 DEF Refused, pvars
  <2>2. WatchInv'
    BY <1>0, <2>1, WatchUntouched DEF WatchInv
  <2> QED BY <1>0, <2>1, <2>2, NotesUntouched, WeatherUntouched DEF PhoneInv
<1>6. CASE Stored
  <2>1. CountEntry /\ UNCHANGED wvars /\ UNCHANGED <<up, watch, kept>> /\ page' = page
    BY <1>6 DEF Stored
  <2>2. WatchInv'
    BY <1>0, <2>1, WatchUntouched DEF WatchInv
  <2> QED BY <1>0, <2>1, <2>2, CountEntryStep, WeatherUntouched DEF PhoneInv
<1>7. CASE DatedWeather
  <2>1. (LoseAnswer \/ receive_app_update) /\ UNCHANGED nvars /\ UNCHANGED <<up, watch, kept>>
        /\ page' = page
    BY <1>7 DEF DatedWeather
  <2>2. WatchInv'
    BY <1>0, <2>1, WatchUntouched DEF WatchInv
  <2> QED BY <1>0, <2>1, <2>2, AnswerStep, NotesUntouched DEF PhoneInv
<1>8. CASE ~Fault /\ Dispatch
  <2>1. /\ dispatch_app_update \/ receive_event \/ TestHour \/ TakeHour
        /\ UNCHANGED nvars /\ UNCHANGED <<up, watch, kept>> /\ page' = page /\ ~wseen.fault
    BY <1>8 DEF Dispatch, Fault
  <2>2. WeatherInv'
    BY <1>0, <2>1, DispatchStep, ReceiveStep, TestHourStep, TakeHourStep
  <2>3. WatchInv'
    BY <1>0, <2>1, WatchUntouched DEF WatchInv
  <2> QED BY <1>0, <2>1, <2>2, <2>3, NotesUntouched DEF PhoneInv
<1>9. CASE ShowNotes \/ HideNotes \/ NotesKey
  <2>1. /\ \/ DrawNotes \/ notification_manager_delete_ui \/ card_action_cb
           \/ \E k \in 1..Visible : dismiss_handler_cb(k) \/ title_key_cb(k)
        /\ UNCHANGED wvars /\ UNCHANGED <<up, watch, kept>>
        /\ page' = page \/ page' = "notify" \/ page' = "none"
    BY <1>9 DEF ShowNotes, HideNotes, NotesKey
  <2>2. NotesInv'
    BY <1>0, <2>1, DrawNotesStep, DeleteStep, CardActionStep, DismissStep, TitleKeyStep
  <2>3. page' \in {"none", "notify", "apps"}
    BY <1>0, <2>1 DEF WatchInv
  <2>4. WatchInv'
    BY <1>0, <2>1, <2>3, WatchUntouched
  <2> QED BY <1>0, <2>1, <2>2, <2>4, WeatherUntouched DEF PhoneInv
<1>10. CASE ShowPicker \/ HidePicker
  <2>1. UNCHANGED nvars /\ UNCHANGED wvars /\ UNCHANGED <<up, watch, kept>>
        /\ page' \in {"none", "notify", "apps"}
    BY <1>10 DEF ShowPicker, HidePicker
  <2> QED BY <1>0, <2>1, WatchUntouched, NotesUntouched, WeatherUntouched DEF PhoneInv
<1>11. CASE AppKey
  <2>1. /\ \/ OpenWeather \/ OpenOther \/ CloseApp \/ handle_date_unfocused_event
           \/ \E d \in {-1, 1} : DateKey(d) \/ HourKey(d)
        /\ UNCHANGED nvars /\ UNCHANGED <<up, watch, kept>> /\ page' = page
    BY <1>11 DEF AppKey
  <2>2. WeatherInv'
    BY <1>0, <2>1, OpenWeatherStep, OtherAppStep, ChooseDateStep, DateKeyStep, HourKeyStep
  <2>3. WatchInv'
    BY <1>0, <2>1, WatchUntouched DEF WatchInv
  <2> QED BY <1>0, <2>1, <2>2, <2>3, NotesUntouched DEF PhoneInv
<1> QED
  BY <1>1, <1>2, <1>3, <1>4, <1>5, <1>6, <1>7, <1>8, <1>9, <1>10, <1>11 DEF Next

\* The invariant holds of every behaviour.
LEMMA PhoneAlways == Spec => []PhoneInv
BY PhoneBegins, PhoneStep, PTL DEF Spec

\* A card of the notification page acts on the notification it shows, the page is as full
\* as the list allows and nothing is stored twice, through scrolling, dismissing and
\* storing, unless an arrival at the limit has moved the list under the cards, a dismissal
\* fell into the storing of an entry or the page was drawn during it (notification_ui.c,
\* notification_manager.c).
THEOREM NotificationsAreCorrect == Spec => []NotificationsCorrect
<1>1. PhoneInv => NotificationsCorrect
  BY DEF PhoneInv, NotesInv, WeatherInv, WatchInv, NotificationsCorrect, TypeOK
<1> QED BY <1>1, PhoneAlways, PTL

\* The weather application shows the weather of its active date unless requests overlapped,
\* an update reaches the application that asked for it unless the LVGL task acted on the
\* application during its delivery, and no weather survives a deep sleep that is not usable
\* (weather_app.c, app_manager.c, state_manager.c).
THEOREM WeatherIsCorrect == Spec => []WeatherCorrect
<1>1. PhoneInv => WeatherCorrect
  BY DEF PhoneInv, WeatherInv, WatchInv, WeatherCorrect
<1> QED BY <1>1, PhoneAlways, PTL

=============================================================================
