----------------------------- MODULE BleSession ------------------------------
(***************************************************************************)
(* A session with the phone (ble_manager.c) and the transfers of several   *)
(* chunks it carries (ble_multichunk_handler.c).  The host task handles    *)
(* the events of the connection one after the other; the main task starts  *)
(* the stack and takes it down; process_rx_buffers, a hook of the work     *)
(* window, feeds the parser with the messages of the receive fifo.         *)
(*                                                                         *)
(* A byte is a number and a message the sequence of its payload's bytes,   *)
(* so that lengths and offsets are the code's.  What the phone sends is a  *)
(* transfer of Transfers, from its first message on; it may break off, and *)
(* the fifo drops its oldest message when it is full.                      *)
(***************************************************************************)
EXTENDS Integers, Sequences

CONSTANTS
  Transfers,    \* Seq of [good : BOOLEAN, data : Seq(byte), msgs : Seq(Seq(byte))]
  Magic,        \* BLE_MULTICHUNK_MAGIC
  MaxSize,      \* BLE_MAX_MULTICHUNK_SIZE
  FifoSize      \* BLE_FIFO_SIZE

ASSUME SessionAssumption ==
  /\ Magic \in 0..255 /\ MaxSize \in Nat /\ FifoSize \in Nat \ {0}
  /\ Transfers \in Seq([good : BOOLEAN, data : Seq(0..255), msgs : Seq(Seq(0..255))])
  /\ \A t \in DOMAIN Transfers : Transfers[t].msgs # <<>>

VARIABLES
  main,    \* "off", "on", and in ble_manager_deinit: "flagged", "waiting", "stopping"
  g_ble,   \* is_connected, notifications_enabled, shutdown_initiated,
           \* shutdown_sem: "none", "empty", "given"
  host,    \* the stack: running (host task), synced, adv, conn (a link exists)
  events,  \* events of the connection that ble_gap_event has yet to see
  rx,      \* the receive fifo
  parser,  \* the multichunk parser
  heap,    \* buffers allocated and not freed
  phone,   \* the transfer the phone sends and its next message; 0: none
  advFailed,   \* history: advertising could not be started the last time
  seen         \* history of the messages parsed, see Remember

svars == <<main, g_ble, host, events, rx, parser, heap, phone, advFailed, seen>>

NoPhone == [t |-> 0, i |-> 0]

-----------------------------------------------------------------------------
(* The multichunk parser                                                   *)

\* reset_multichunk_parser; the buffer goes with the state
ParserIdle ==
  [state |-> "header", chunks |-> 0, size |-> 0, cid |-> 0, read |-> 0,
   crc |-> <<>>, out |-> <<>>]
Rejected == [p |-> ParserIdle, msg |-> <<>>]

\* esp_rom_crc32_le: a number of the bytes, here of 16 bits, high byte first
CrcBytes(data) ==
  LET h[i \in 0..Len(data)] == IF i = 0 THEN 7 ELSE (h[i - 1] * 31 + data[i]) % 65536
  IN  <<0, 0, h[Len(data)] \div 256, h[Len(data)] % 256>>

Smaller(a, b) == IF a < b THEN a ELSE b

HeaderSize(b) == b[4] * 256 + b[5]

\* read_multichunk_header
HeaderValid(b) ==
  /\ Len(b) > 6 /\ b[1] = Magic
  /\ b[3] # 0 /\ HeaderSize(b) # 0 /\ HeaderSize(b) <= MaxSize

\* Mutant: the checksum is read and not compared.
ReadCrcUnchecked(p, b, offset) ==
  LET n == Smaller(4 - p.read, Len(b) - offset)
      q == [p EXCEPT !.read = @ + n, !.crc = @ \o SubSeq(b, offset + 1, offset + n)]
  IN  IF q.read < 4 THEN [p |-> q, msg |-> <<>>]
      ELSE IF offset + n # Len(b) THEN Rejected
      ELSE [p |-> ParserIdle, msg |-> q.out]

\* PARSER_STATE_READ_CRC, from offset on
ReadCrc(p, b, offset) ==
  LET n == Smaller(4 - p.read, Len(b) - offset)
      q == [p EXCEPT !.read = @ + n, !.crc = @ \o SubSeq(b, offset + 1, offset + n)]
  IN  IF q.read < 4 THEN [p |-> q, msg |-> <<>>]
      ELSE IF offset + n # Len(b) \/ q.crc # CrcBytes(q.out) THEN Rejected
      ELSE [p |-> ParserIdle, msg |-> q.out]

\* PARSER_STATE_READ_CHUNKS: the chunk's number, then its bytes, as many as
\* are still missing; the last chunk has to complete the size and the size
\* the chunks.
ReadChunk(p, b) ==
  LET offset == IF p.cid = 0 THEN 5 ELSE 0
      n == Smaller(p.size - p.read, Len(b) - offset - 1)
      q == [p EXCEPT !.out = @ \o SubSeq(b, offset + 2, offset + 1 + n),
                     !.read = @ + n, !.cid = @ + 1]
  IN  IF Len(b) <= offset + 1 \/ b[offset + 1] # p.cid THEN Rejected
      ELSE IF (q.read = q.size) # (q.cid = q.chunks) THEN Rejected
      ELSE IF q.read = q.size
           THEN ReadCrc([q EXCEPT !.state = "crc", !.read = 0], b, offset + 1 + n)
      ELSE [p |-> q, msg |-> <<>>]

\* Mutant: a message that is refused where a header is expected leaves the
\* parser in the state for chunks.
ParseSticky(p, b) ==
  CASE p.state = "header" ->
         LET q == [p EXCEPT !.state = "chunks"] IN
         IF HeaderValid(b)
         THEN ReadChunk([q EXCEPT !.chunks = b[3], !.size = HeaderSize(b)], b)
         ELSE [p |-> [q EXCEPT !.chunks = 1, !.size = 1], msg |-> <<>>]
    [] p.state = "chunks" -> ReadChunk(p, b)
    [] p.state = "crc" -> ReadCrc(p, b, 0)

\* parse_new_chunk for a message while memory is available: the parser
\* afterwards and the data handed to the response handler, if any
Parse(p, b) ==
  CASE p.state = "header" ->
         IF HeaderValid(b)
         THEN ReadChunk([p EXCEPT !.state = "chunks", !.chunks = b[3], !.size = HeaderSize(b)], b)
         ELSE Rejected
    [] p.state = "chunks" -> ReadChunk(p, b)
    [] p.state = "crc" -> ReadCrc(p, b, 0)

\* History: which message of which transfer came last (next = 0: not in
\* sequence), whether the transfers before and now were parsed from end to
\* end, and whether a transfer was handed over that should not have been, or
\* not handed over that should have been.
Remember(m, allocated, out) ==
  LET ok    == allocated /\ (m.i = 1 \/ (m.t = seen.t /\ m.i = seen.next))
      prev  == IF m.i = 1 THEN seen.whole ELSE seen.prev
      whole == ok /\ m.i = Len(Transfers[m.t].msgs) /\ Transfers[m.t].good
  IN  seen' = [t |-> m.t, next |-> IF ok THEN m.i + 1 ELSE 0, prev |-> prev, whole |-> whole,
               stray |-> seen.stray \/ (out # <<>> /\ ~(whole /\ out = Transfers[m.t].data)),
               lost |-> seen.lost \/ (out = <<>> /\ whole /\ prev)]

\* Mutant: the buffer of a transfer that is given up is not freed.
BuffersLeaked(p, q) ==
  IF p.state = "header" /\ q.state # "header" THEN heap + 1 ELSE heap

\* malloc for a header, free by a reset or by handle_ble_multichunk_response
BuffersAfter(p, q) ==
  CASE p.state = "header" /\ q.state # "header" -> heap + 1
    [] p.state # "header" /\ q.state = "header" -> heap - 1
    [] OTHER -> heap

\* One turn of the loop of process_rx_buffers, handle_ble_response and
\* parse_new_chunk
process_rx_buffers ==
  /\ main = "on" /\ rx # <<>>
  /\ rx' = Tail(rx)
  /\ LET m == Head(rx)
         b == Transfers[m.t].msgs[m.i]
         r == Parse(parser, b)
     IN  /\ parser' = r.p /\ heap' = BuffersAfter(parser, r.p)
         /\ Remember(m, TRUE, r.msg)
  /\ UNCHANGED <<main, g_ble, host, events, phone, advFailed>>

\* ... and when there is no memory for the transfer
OutOfMemory ==
  /\ main = "on" /\ rx # <<>> /\ parser.state = "header"
  /\ LET m == Head(rx) IN
     /\ HeaderValid(Transfers[m.t].msgs[m.i])
     /\ Remember(m, FALSE, <<>>)
  /\ rx' = Tail(rx) /\ parser' = ParserIdle
  /\ UNCHANGED <<main, g_ble, host, events, heap, phone, advFailed>>

-----------------------------------------------------------------------------
(* The host task                                                           *)

\* start_advertising, by the host task while no link exists: it works or the
\* stack refuses it.
start_advertising(h) ==
  \/ host' = [h EXCEPT !.adv = TRUE] /\ advFailed' = FALSE
  \/ host' = h /\ advFailed' = TRUE

\* Mutant: the watch does not advertise again after a failed connection.
FailedConnectIgnored(h) == host' = h /\ UNCHANGED advFailed

OnConnectFailed(h) == start_advertising(h)

ble_on_sync ==
  /\ host.running /\ ~host.synced
  /\ start_advertising([host EXCEPT !.synced = TRUE])
  /\ UNCHANGED <<main, g_ble, events, rx, parser, heap, phone, seen>>

GapEvent(e) == host.running /\ events # <<>> /\ Head(events) = e /\ events' = Tail(events)

Connect ==
  /\ GapEvent("connect")
  /\ g_ble' = [g_ble EXCEPT !.connected = TRUE]
  /\ UNCHANGED <<main, host, rx, parser, heap, phone, advFailed, seen>>

ConnectFailed ==
  /\ GapEvent("connect_failed")
  /\ OnConnectFailed(host)
  /\ UNCHANGED <<main, g_ble, rx, parser, heap, phone, seen>>

Disconnected(g) == [g EXCEPT !.connected = FALSE, !.notify = FALSE]

Disconnect ==
  /\ GapEvent("disconnect")
  /\ IF g_ble.shutdown
     THEN /\ g_ble' = [Disconnected(g_ble) EXCEPT !.sem = IF @ = "empty" THEN "given" ELSE @]
          /\ UNCHANGED <<host, advFailed>>
     ELSE g_ble' = Disconnected(g_ble) /\ start_advertising(host)
  /\ UNCHANGED <<main, rx, parser, heap, phone, seen>>

AdvComplete ==
  /\ GapEvent("adv_complete")
  /\ IF g_ble.shutdown THEN UNCHANGED <<host, advFailed>> ELSE start_advertising(host)
  /\ UNCHANGED <<main, g_ble, rx, parser, heap, phone, seen>>

Subscribe ==
  /\ host.running /\ events = <<>> /\ g_ble.connected
  /\ g_ble' = [g_ble EXCEPT !.notify = ~@]
  /\ UNCHANGED <<main, host, events, rx, parser, heap, phone, advFailed, seen>>

-----------------------------------------------------------------------------
(* The main task                                                           *)

ble_manager_init ==
  /\ main = "off" /\ main' = "on"
  /\ g_ble' = [connected |-> FALSE, notify |-> FALSE, shutdown |-> FALSE, sem |-> "empty"]
  /\ host' = [running |-> TRUE, synced |-> FALSE, adv |-> FALSE, conn |-> FALSE]
  /\ events' = <<>> /\ rx' = <<>> /\ parser' = ParserIdle /\ heap' = 0   \* fresh memory
  /\ seen' = [seen EXCEPT !.next = 0, !.prev = TRUE, !.whole = TRUE]
  /\ UNCHANGED <<phone, advFailed>>

ShutdownFlag ==
  /\ main = "on" /\ main' = "flagged"
  /\ g_ble' = [g_ble EXCEPT !.shutdown = TRUE]
  /\ UNCHANGED <<host, events, rx, parser, heap, phone, advFailed, seen>>

\* is_connected is tested: ble_gap_terminate, whose disconnect event is to
\* come, or fails because the link has gone; or ble_gap_adv_stop
Terminate ==
  /\ main = "flagged"
  /\ \/ /\ g_ble.connected /\ host.conn
        /\ main' = "waiting" /\ host' = [host EXCEPT !.conn = FALSE]
        /\ events' = Append(events, "disconnect") /\ phone' = NoPhone
     \/ /\ g_ble.connected /\ ~host.conn
        /\ main' = "stopping" /\ UNCHANGED <<host, events, phone>>
     \/ /\ ~g_ble.connected
        /\ main' = "stopping" /\ host' = [host EXCEPT !.adv = FALSE] /\ UNCHANGED <<events, phone>>
  /\ UNCHANGED <<g_ble, rx, parser, heap, advFailed, seen>>

\* Mutant: the wait for the semaphore has no timeout.
WaitForever ==
  /\ main = "waiting" /\ main' = "stopping" /\ g_ble.sem = "given"
  /\ g_ble' = [g_ble EXCEPT !.sem = "empty"]
  /\ UNCHANGED <<host, events, rx, parser, heap, phone, advFailed, seen>>

\* The semaphore, or 1000 ms
WaitDisconnect ==
  /\ main = "waiting" /\ main' = "stopping"
  /\ g_ble' = [g_ble EXCEPT !.sem = "empty"]
  /\ UNCHANGED <<host, events, rx, parser, heap, phone, advFailed, seen>>

\* nimble_port_stop ends the host task; then the fifos and the semaphore go.
StopHost ==
  /\ main = "stopping" /\ main' = "off"
  /\ host' = [running |-> FALSE, synced |-> FALSE, adv |-> FALSE, conn |-> FALSE]
  /\ events' = <<>> /\ phone' = NoPhone
  /\ g_ble' = [g_ble EXCEPT !.shutdown = FALSE, !.sem = "none"]
  /\ UNCHANGED <<rx, parser, heap, advFailed, seen>>

Main == ShutdownFlag \/ Terminate \/ WaitDisconnect \/ StopHost

-----------------------------------------------------------------------------
(* The phone and the radio                                                 *)

LinkUp ==
  /\ host.adv
  /\ \/ host' = [host EXCEPT !.adv = FALSE, !.conn = TRUE] /\ events' = Append(events, "connect")
     \/ host' = [host EXCEPT !.adv = FALSE] /\ events' = Append(events, "connect_failed")
     \/ host' = [host EXCEPT !.adv = FALSE] /\ events' = Append(events, "adv_complete")
  /\ UNCHANGED <<main, g_ble, rx, parser, heap, phone, advFailed, seen>>

LinkDown ==
  /\ host.conn
  /\ host' = [host EXCEPT !.conn = FALSE] /\ events' = Append(events, "disconnect")
  /\ phone' = NoPhone
  /\ UNCHANGED <<main, g_ble, rx, parser, heap, advFailed, seen>>

PhoneStart(t) ==
  /\ host.conn /\ g_ble.connected /\ phone = NoPhone
  /\ phone' = [t |-> t, i |-> 1]
  /\ UNCHANGED <<main, g_ble, host, events, rx, parser, heap, advFailed, seen>>

\* Mutant: a full fifo takes one more message.
PushedOver(m) == Append(IF Len(rx) <= FifoSize THEN rx ELSE Tail(rx), m)

\* add_ble_msg_to_queue by the packet layer, in the host task: the oldest
\* message makes room
Pushed(m) == Append(IF Len(rx) < FifoSize THEN rx ELSE Tail(rx), m)

PhoneSend ==
  /\ host.conn /\ g_ble.connected /\ phone # NoPhone
  /\ rx' = Pushed(phone)
  /\ phone' = IF phone.i = Len(Transfers[phone.t].msgs) THEN NoPhone ELSE [phone EXCEPT !.i = @ + 1]
  /\ UNCHANGED <<main, g_ble, host, events, parser, heap, advFailed, seen>>

PhoneGivesUp ==
  /\ phone # NoPhone /\ phone' = NoPhone
  /\ UNCHANGED <<main, g_ble, host, events, rx, parser, heap, advFailed, seen>>

-----------------------------------------------------------------------------
Init ==
  /\ main = "off" /\ events = <<>> /\ rx = <<>> /\ parser = ParserIdle /\ heap = 0
  /\ g_ble = [connected |-> FALSE, notify |-> FALSE, shutdown |-> FALSE, sem |-> "none"]
  /\ host = [running |-> FALSE, synced |-> FALSE, adv |-> FALSE, conn |-> FALSE]
  /\ phone = NoPhone /\ advFailed = FALSE
  /\ seen = [t |-> 0, next |-> 0, prev |-> TRUE, whole |-> TRUE, stray |-> FALSE, lost |-> FALSE]

Next ==
  \/ ble_manager_init \/ Main
  \/ ble_on_sync \/ Connect \/ ConnectFailed \/ Disconnect \/ AdvComplete \/ Subscribe
  \/ process_rx_buffers \/ OutOfMemory
  \/ LinkUp \/ LinkDown \/ PhoneSend \/ PhoneGivesUp
  \/ \E t \in DOMAIN Transfers : PhoneStart(t)

\* The main task is scheduled and its waits end.
Spec == Init /\ [][Next]_svars /\ WF_svars(Main)

-----------------------------------------------------------------------------
(* Properties                                                              *)

\* Every variable has its type; the parser never reads past the size it was
\* given, nor more than four bytes of checksum.
TypeOK ==
  /\ main \in {"off", "on", "flagged", "waiting", "stopping"}
  /\ g_ble \in [connected : BOOLEAN, notify : BOOLEAN, shutdown : BOOLEAN,
                sem : {"none", "empty", "given"}]
  /\ host \in [running : BOOLEAN, synced : BOOLEAN, adv : BOOLEAN, conn : BOOLEAN]
  /\ parser.state \in {"header", "chunks", "crc"}
  /\ parser.state # "header" => Len(parser.out) <= parser.size /\ parser.size <= MaxSize
  /\ parser.state = "chunks" => parser.read = Len(parser.out) /\ parser.cid < parser.chunks
  /\ parser.state = "crc" => parser.read = Len(parser.crc) /\ parser.read < 4
  /\ Len(rx) <= FifoSize

\* What reaches the response handler is a transfer that the phone sent, whole
\* and in order, however transfers were broken off, dropped by the fifo or
\* cut by a disconnection (which does not reset the parser).
DeliveredWhole == ~seen.stray

\* The parser falls back into step: of two transfers that reach it from end
\* to end, one after the other, the second is delivered.  (The first may be
\* spent on ending a transfer that had been broken off.)
ParserRecovers == ~seen.lost

\* One buffer is allocated while a transfer is under way and none otherwise:
\* on every way a transfer can end it is freed exactly once.
BufferOwned == heap = (IF parser.state = "header" THEN 0 ELSE 1)

\* What the parser holds, between two messages
ParserInv ==
  /\ parser \in [state : {"header", "chunks", "crc"}, chunks : Nat, size : Nat, cid : Nat, read : Nat,
                 crc : Seq(0..255), out : Seq(0..255)]
  /\ (parser.state = "header" => parser = ParserIdle) /\ (parser.state = "chunks" => parser.crc = <<>>)

\* What is in the receive fifo and what the phone sends are messages of transfers.
Sent(m) == m.t \in DOMAIN Transfers /\ m.i \in DOMAIN Transfers[m.t].msgs
LineInv ==
  /\ rx \in Seq([t : Nat, i : Nat]) /\ phone \in [t : Nat, i : Nat]
  /\ \A k \in DOMAIN rx : Sent(rx[k])
  /\ phone # NoPhone => Sent(phone)

\* Events after which there is no link, as before them
Unconnected == {<<"connect", "disconnect">>, <<"connect_failed">>, <<"adv_complete">>}

\* The events ble_gap_event has yet to see are those that lead from what the watch knows
\* of the link to what the link is.
LinkInv ==
  /\ g_ble.shutdown <=> main \notin {"off", "on"}
  /\ g_ble.notify => g_ble.connected
  /\ (host.running <=> main # "off") /\ (host.synced => host.running)
  /\ host.adv \/ host.conn \/ events # <<>> => host.synced
  /\ events \in {<<>>, <<"connect">>, <<"disconnect">>} \cup Unconnected
  /\ events = <<>> => /\ host.running => (g_ble.connected <=> host.conn)
                      /\ ~(host.adv /\ host.conn)
                      /\ (host.synced /\ ~host.conn /\ ~advFailed /\ ~g_ble.shutdown) => host.adv
  /\ events # <<>> => /\ ~host.adv /\ (host.conn <=> events = <<"connect">>)
                      /\ g_ble.connected <=> events = <<"disconnect">>

\* Inductive
SessionInv == TypeOK /\ ParserInv /\ LineInv /\ BufferOwned /\ LinkInv

\* A transfer of several chunks arrives whole or not at all, with its checksum verified,
\* its buffer is held exactly while a transfer is under way, and the parser falls back
\* into step, whatever is lost, repeated or cut off (ble_multichunk_handler.c).
TransferDelivered == SessionInv /\ DeliveredWhole /\ ParserRecovers

\* Whenever the host task has seen all events, the watch knows whether it is
\* connected, notifications are on only in a connection, and without one the
\* phone can find the watch: it advertises, unless the stack refused to.
Reachable ==
  main = "on" /\ events = <<>> /\ host.synced =>
    /\ g_ble.connected = host.conn
    /\ g_ble.notify => g_ble.connected
    /\ ~host.conn /\ ~advFailed => host.adv

\* Taking the stack down ends, also when the phone's disconnection races with
\* it or is never seen.
ShutdownEnds == main = "flagged" ~> main = "off"

=============================================================================
