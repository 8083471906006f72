--------------------------- MODULE Notifications -----------------------------
(***************************************************************************)
(* The list of notifications (notification_manager.c) and the page that    *)
(* shows it (notification_ui.c).  A worker stores what the phone sends;    *)
(* the LVGL task draws cards, scrolls and dismisses.  Nothing protects the *)
(* list: a dismissal may fall between the two steps of storing.            *)
(*                                                                         *)
(* A card shows the text it was drawn with, and acts on the entry that has *)
(* its position in the list now.                                           *)
(***************************************************************************)
EXTENDS Integers, Sequences, SequencesExt

CONSTANTS
  Notes,     \* identities of notifications, some numbers
  NoNote,
  MaxNotes,  \* MAX_NOTIFICATIONS
  Visible    \* VISIBLE_CARDS

ASSUME NotesAssumption ==
  /\ Notes \subseteq Nat /\ NoNote \notin Notes /\ MaxNotes \in Nat \ {0} /\ Visible \in 2..MaxNotes

VARIABLES
  list,     \* notifications[0 .. total_notifications - 1]
  slot,     \* while one is being stored: the entry after them; else NoNote
  nui,      \* the page: open, base, len (noti_snapshot_len), cards (what they show)
  nseen     \* history: shifted, the list moved under the cards on display;
            \* early, the page was drawn while one was being stored; overlap, a dismissal fell into storing; wrong, a card acted on
            \* another notification; null, the missing handler was called

nvars == <<list, slot, nui, nseen>>

NuiClosed(base) == [open |-> FALSE, base |-> base, len |-> 0, cards |-> <<>>]
Slots == IF slot = NoNote THEN list ELSE Append(list, slot)

NotesInit ==
  /\ list = <<>> /\ slot = NoNote /\ nui = NuiClosed(0)
  /\ nseen = [shifted |-> FALSE, early |-> FALSE, overlap |-> FALSE, wrong |-> FALSE, null |-> FALSE]

-----------------------------------------------------------------------------
(* Storing                                                                 *)

\* Mutant: the oldest entry makes room but is still counted.
MakeRoomMiscounted == list

\* At the limit the oldest entry makes room.
MakeRoom == IF Len(list) = MaxNotes THEN Tail(list) ELSE list

\* receive_notification: the entry is written, its dismiss_handler NULL ...
StoreEntry(n) ==
  /\ slot = NoNote /\ slot' = n
  /\ list' = MakeRoom
  /\ nseen' = [nseen EXCEPT !.shifted = @ \/ (nui.open /\ Len(list) = MaxNotes)]
  /\ UNCHANGED nui

\* ... then it gets its handlers and is counted.
CountEntry ==
  /\ slot # NoNote /\ slot' = NoNote
  /\ list' = Append(list, slot)
  /\ UNCHANGED <<nui, nseen>>

-----------------------------------------------------------------------------
(* The page                                                                *)

\* populate_cards: the entries from base on, of the len that were counted
Cards(slots, base, len) ==
  SubSeq(slots, base + 1, IF len < base + Visible THEN len ELSE base + Visible)

\* notification_manager_draw_notification_page; base survives from the last
\* time the page was open.
DrawNotes ==
  /\ ~nui.open
  /\ nui' = [open |-> TRUE, base |-> nui.base, len |-> Len(list),
             cards |-> Cards(list, nui.base, Len(list))]
  /\ nseen' = [nseen EXCEPT !.shifted = FALSE, !.early = slot # NoNote]
  /\ UNCHANGED <<list, slot>>

notification_manager_delete_ui ==
  /\ nui.open /\ nui' = NuiClosed(nui.base)
  /\ UNCHANGED <<list, slot, nseen>>

\* rebase_and_populate_cards, by the key left on the first card or right on
\* the last of a full page; the count is the one of the last drawing.
Rebase(base) ==
  /\ nui' = [nui EXCEPT !.base = base, !.cards = Cards(Slots, base, nui.len)]
  /\ nseen' = [nseen EXCEPT !.shifted = FALSE]
  /\ UNCHANGED <<list, slot>>

card_action_cb ==
  /\ nui.open /\ nui.cards # <<>>
  /\ \/ nui.base > 0 /\ Rebase(nui.base - 1)
     \/ Len(nui.cards) = Visible /\ nui.base + Visible < nui.len /\ Rebase(nui.base + 1)

\* Mutant: base keeps its place when the last page gets shorter.
BaseKept == nui.base

\* The base after a dismissal
BaseAfter ==
  IF nui.len <= Visible THEN 0
  ELSE IF nui.base + Visible >= nui.len /\ nui.base # 0 THEN nui.base - 1
  ELSE nui.base

\* Mutant: the position on the page is taken for the one in the list.
PositionOnPage(k) == k

Position(k) == nui.base + k

\* Whether card k acts on another notification than it shows, apart from the
\* known ways: the list moved under it, or a dismissal fell into storing.
ActsWrong(k, overlap) ==
  ~nseen.shifted /\ ~overlap /\ (Position(k) > Len(Slots) \/ Slots[Position(k)] # nui.cards[k])

\* Mutant: the entries move down and the count stays.
WithoutMiscounted(i) == IF i <= Len(list) THEN Append(RemoveAt(list, i), Last(list)) ELSE list

\* notification_manager_dismiss_notification, the list without its i-th entry
Without(i) == IF i <= Len(list) THEN RemoveAt(list, i) ELSE list

\* dismiss_handler_cb and notification_ui_invalidate.  While an entry is
\* being stored the last of the list takes its place.
dismiss_handler_cb(k) ==
  LET i       == Position(k)
      overlap == nseen.overlap \/ slot # NoNote
      null    == slot # NoNote /\ i = Len(list) + 1
  IN  /\ nui.open /\ k \in DOMAIN nui.cards
      /\ list' = Without(i)
      /\ slot' = IF slot # NoNote /\ i <= Len(list) THEN Last(list) ELSE slot
      /\ nui' = [nui EXCEPT !.base = BaseAfter, !.len = Len(list'),
                            !.cards = Cards(list', BaseAfter, Len(list'))]
      /\ nseen' = [shifted |-> FALSE, early |-> FALSE, overlap |-> overlap,
                   wrong |-> nseen.wrong \/ ActsWrong(k, overlap), null |-> null]

\* title_key_cb: the page of details reads the entry again.
title_key_cb(k) ==
  /\ nui.open /\ k \in DOMAIN nui.cards
  /\ nseen' = [nseen EXCEPT !.wrong = @ \/ ActsWrong(k, nseen.overlap)]
  /\ UNCHANGED <<list, slot, nui>>

-----------------------------------------------------------------------------
(* Properties                                                              *)

NotesTypeOK ==
  /\ list \in Seq(Notes) /\ Len(Slots) <= MaxNotes
  /\ slot \in Notes \cup {NoNote}
  /\ nui \in [open : BOOLEAN, base : 0..(MaxNotes - Visible), len : 0..MaxNotes, cards : Seq(Notes)]
  /\ nseen \in [shifted : BOOLEAN, early : BOOLEAN, overlap : BOOLEAN, wrong : BOOLEAN, null : BOOLEAN]
  /\ Len(nui.cards) <= Visible

\* A card dismisses and opens the notification it shows, wherever the page
\* has been scrolled to.  Known exceptions: an arrival at the limit moves the
\* list under the cards, or a dismissal falls into storing an entry.
CardActsOnShown == ~nseen.wrong

\* The list holds no notification twice, unless a dismissal fell into storing
\* an entry (then the entry stored is lost and the last of the list doubled).
StoredOnce == ~nseen.overlap => IsInjective(Slots)

\* A page is as full as the list allows and never past its end: the notice
\* that there are no notifications is shown only when there are none.  (A page
\* drawn, or a dismissal, while an entry is being stored misses that entry.)
PageFull ==
  nui.open /\ ~nseen.early /\ ~nseen.overlap =>
    /\ nui.base > 0 => nui.base + Visible <= nui.len
    /\ Len(nui.cards) = (IF nui.len < Visible THEN nui.len ELSE Visible)

\* What the page relies on, inductive with the properties above: it counted no more
\* entries than there are and shows those from base on, the base leaves a full page
\* even when an arrival shortens the list for a moment, and the cards are the entries
\* at their positions until the list moves.
PageInv ==
  /\ nui.open => /\ nui.len <= Len(Slots)
                 /\ nui.cards # <<>> => nui.base + Len(nui.cards) <= nui.len
  /\ ~nseen.overlap /\ nui.base > 0 => nui.base + Visible <= Len(Slots)
  /\ nui.open /\ ~nseen.shifted /\ ~nseen.overlap =>
       \A k \in DOMAIN nui.cards : nui.cards[k] = Slots[Position(k)]

=============================================================================
