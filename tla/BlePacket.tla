------------------------------ MODULE BlePacket ------------------------------
(***************************************************************************)
(* The packet layer of the BLE link (ble_packet_handler.c): a sender that  *)
(* fragments the messages of its transmit fifo into packets, a receiver    *)
(* that puts messages together again, and the connection between them      *)
(* (ble_manager.c).                                                        *)
(*                                                                         *)
(* Both ends speak the protocol of this file: the sender here is           *)
(* ble_build_next_packet under populate_tx_buffers, the receiver           *)
(* ble_retrieve_packet.  One iteration of their loops is one step; the     *)
(* fifos are filled and emptied by other tasks in between.  A byte is a    *)
(* number, a message its opcode and its payload (the req_app byte is 0).   *)
(***************************************************************************)
EXTENDS Integers, Sequences, SequencesExt

CONSTANTS
  Messages,    \* the messages the watch may send: [op : byte, payload : Seq(byte)]
  Magic,       \* BLE_MAGIC
  MaxPayload,  \* BLE_MAX_PAYLOAD_SIZE
  FifoSize,    \* BLE_FIFO_SIZE
  Mtus,        \* the effective MTUs a connection may negotiate
  DefaultMtu,  \* ... and the one it starts with
  MaxSent,     \* bound on the messages submitted
  MaxFailed,   \* bound on the packets that cannot be handed to the host
  MaxLinks     \* bound on the connections

\* The length of a payload fits into the low byte of its field.
ASSUME PacketAssumption ==
  /\ Magic \in Nat /\ MaxPayload \in 0..255 /\ FifoSize \in Nat \ {0}
  /\ Mtus \subseteq Nat /\ DefaultMtu \in Mtus
  /\ Messages \subseteq [op : Nat, payload : Seq(Nat)]
  /\ \A m \in Messages : Len(m.payload) <= MaxPayload
  /\ {MaxSent, MaxFailed, MaxLinks} \subseteq Nat

HeaderSize == 4                 \* 1 + BLE_HDR_SIZE
NoMessage == [op |-> 0, payload |-> <<>>]

VARIABLES
  link,     \* "down", "connected", "subscribed" (notifications enabled)
  mtu,      \* effective_mtu
  txFifo,
  tx,       \* tx_ctx: the message under way and how much of its payload is out
  pc,       \* populate_tx_buffers: "idle", "build", "notify"
  room,     \* effective_mtu as ble_build_next_packet was given it
  pkt,      \* tx_buffer so far
  air,      \* packets handed to the host and not yet received
  rx,       \* rx_ctx
  in,       \* the bytes of the packet being parsed that are still to come
  rxFifo,
  submitted, failed, links,   \* counters for the bounds
  sent,     \* history: the messages taken from txFifo, in order
  rcvd,     \* history: the messages put into rxFifo, in order
  start,    \* history: what had been sent, and whether the stream was broken, before pkt
  gap,      \* history: the stream is broken before the next packet
  sync      \* history: what the receiver may rely on, see below

txVars == <<txFifo, tx, pc, room, pkt, sent, start>>
rxVars == <<rx, in, rxFifo, rcvd, sync>>
vars == <<link, mtu, txVars, air, rxVars, submitted, failed, links, gap>>

RxIdle == [state |-> "magic", active |-> FALSE, op |-> 0, len |-> 0, payload |-> <<>>]
TxIdle == [active |-> FALSE, msg |-> NoMessage, offset |-> 0]

TypeOK ==
  /\ link \in {"down", "connected", "subscribed"}
  /\ mtu \in Mtus /\ room \in Mtus
  /\ Len(txFifo) <= FifoSize /\ Len(rxFifo) <= FifoSize
  /\ tx \in [active : BOOLEAN, msg : Messages \cup {NoMessage}, offset : 0..MaxPayload]
  /\ pc \in {"idle", "build", "notify"}
  /\ Len(pkt) <= room \/ Len(pkt) = 1
  /\ rx.state \in {"magic", "header", "payload"} /\ rx.active \in BOOLEAN
  /\ rx.state = "payload" => rx.len <= MaxPayload /\ Len(rx.payload) < rx.len

Init ==
  /\ link = "down" /\ mtu = DefaultMtu
  /\ txFifo = <<>> /\ tx = TxIdle /\ pc = "idle" /\ room = DefaultMtu /\ pkt = <<>>
  /\ air = <<>>
  /\ rx = RxIdle /\ in = <<>> /\ rxFifo = <<>>
  /\ submitted = 0 /\ failed = 0 /\ links = 0
  /\ sent = <<>> /\ rcvd = <<>> /\ gap = FALSE /\ start = [sent |-> 0, broken |-> FALSE]
  /\ sync = [ok |-> TRUE, sent |-> 0, rcvd |-> 0]

\* add_ble_msg_to_queue: ringbuf_push with RB_OVERFLOW_DROP_OLDEST
Queued(q, m) == IF Len(q) < FifoSize THEN Append(q, m) ELSE Append(Tail(q), m)

-----------------------------------------------------------------------------
(***************************************************************************)
(* The sender.                                                             *)
(***************************************************************************)
\* handle_ble_request: some task asks for something.
Submit(m) ==
  /\ submitted < MaxSent
  /\ submitted' = submitted + 1
  /\ txFifo' = Queued(txFifo, m)
  /\ UNCHANGED <<link, mtu, tx, pc, room, pkt, sent, start, air, rxVars, failed, links, gap>>

\* A packet begins with the continuation flag.
Begin(broken) ==
  /\ pkt' = <<IF tx.active THEN 1 ELSE 0>> /\ room' = mtu /\ pc' = "build"
  /\ start' = [sent |-> Len(sent), broken |-> broken]
  /\ gap' = FALSE

\* The curfew hook populate_tx_buffers starts.
populate_tx_buffers ==
  /\ pc = "idle" /\ link = "subscribed"
  /\ Begin(gap)
  /\ UNCHANGED <<link, mtu, txFifo, tx, sent, air, rxVars, submitted, failed, links>>

\* The message under way, or the next one from the fifo.
Loaded == tx.active \/ txFifo # <<>>
Current == IF tx.active THEN tx ELSE [active |-> TRUE, msg |-> Head(txFifo), offset |-> 0]

\* get_next_ble_msg, when no message is under way
Load ==
  IF tx.active THEN UNCHANGED <<txFifo, sent>>
  ELSE txFifo' = Tail(txFifo) /\ sent' = Append(sent, Head(txFifo))

\* Mutant: a message may start although its header does not fit.
HeaderAlwaysFits(cur) == TRUE

\* A header is never split.
HeaderFits(cur) == cur.offset > 0 \/ room - Len(pkt) >= HeaderSize

Header(cur) == IF cur.offset = 0 THEN <<Magic, cur.msg.op, 0, Len(cur.msg.payload)>> ELSE <<>>

\* How much of the payload still fits behind the header.
Chunk(cur) ==
  LET left == Len(cur.msg.payload) - cur.offset
      space == room - Len(pkt) - Len(Header(cur))
  IN IF left < space THEN left ELSE space

\* The header filled the packet: no payload byte is out and the header will be sent again.
HeaderRepeats(cur) == cur.offset = 0 /\ Chunk(cur) = 0 /\ cur.msg.payload # <<>>

\* Mutant: the offset is not advanced by the chunk.
BuildKeepsOffset ==
  /\ pc = "build" /\ Len(pkt) < room
  /\ Loaded /\ HeaderFits(Current)
  /\ Load
  /\ pkt' = pkt \o Header(Current)
              \o SubSeq(Current.msg.payload, Current.offset + 1, Current.offset + Chunk(Current))
  /\ tx' = IF Current.offset + Chunk(Current) >= Len(Current.msg.payload) THEN TxIdle ELSE Current
  /\ gap' = (gap \/ HeaderRepeats(Current))
  /\ UNCHANGED <<link, mtu, pc, room, start, air, rxVars, submitted, failed, links>>

\* One iteration of ble_build_next_packet that writes something.
BuildStep ==
  /\ pc = "build" /\ Len(pkt) < room
  /\ Loaded /\ HeaderFits(Current)
  /\ Load
  /\ pkt' = pkt \o Header(Current)
              \o SubSeq(Current.msg.payload, Current.offset + 1, Current.offset + Chunk(Current))
  /\ LET offset == Current.offset + Chunk(Current)
     IN tx' = IF offset >= Len(Current.msg.payload) THEN TxIdle
              ELSE [Current EXCEPT !.offset = offset]
  /\ gap' = (gap \/ HeaderRepeats(Current))
  /\ UNCHANGED <<link, mtu, pc, room, start, air, rxVars, submitted, failed, links>>

\* The packet is full, there is nothing more to send, or the next header does not fit: that
\* message has left the fifo by then.
FinishPacket ==
  /\ pc = "build"
  /\ \/ /\ Len(pkt) >= room \/ ~Loaded
        /\ UNCHANGED <<tx, txFifo, sent>>
     \/ /\ Len(pkt) < room /\ Loaded /\ ~HeaderFits(Current)
        /\ Load /\ tx' = Current
  /\ IF Len(pkt) > 1 THEN pc' = "notify" /\ UNCHANGED gap
     ELSE pc' = "idle" /\ gap' = (gap \/ start.broken)
  /\ UNCHANGED <<link, mtu, room, pkt, start, air, rxVars, submitted, failed, links>>

\* ble_gatts_notify_custom takes the packet, and the loop goes on.
Notify ==
  /\ pc = "notify" /\ link # "down"
  /\ air' = Append(air, [bytes |-> pkt, broken |-> start.broken, sent |-> start.sent])
  /\ Begin(gap)
  /\ UNCHANGED <<link, mtu, txFifo, tx, sent, rxVars, submitted, failed, links>>

\* It fails and the loop goes on; or there is no mbuf and the loop ends.  The packet is gone.
NotifyFails ==
  /\ pc = "notify"
  /\ \/ link = "down" /\ UNCHANGED failed
     \/ failed < MaxFailed /\ failed' = failed + 1
  /\ \/ Begin(TRUE)
     \/ pc' = "idle" /\ gap' = TRUE /\ UNCHANGED <<pkt, room, start>>
  /\ UNCHANGED <<link, mtu, txFifo, tx, sent, air, rxVars, submitted, links>>

-----------------------------------------------------------------------------
(***************************************************************************)
(* The receiver.                                                           *)
(***************************************************************************)
\* Mutant: a packet that is no continuation leaves the parser as it was.
ReceiveKeepsContext ==
  /\ in = <<>> /\ air # <<>>
  /\ in' = Tail(Head(air).bytes)
  /\ air' = Tail(air)
  /\ sync' = IF Head(Head(air).bytes) = 0
             THEN [ok |-> TRUE, sent |-> Head(air).sent, rcvd |-> Len(rcvd)]
             ELSE [sync EXCEPT !.ok = @ /\ ~Head(air).broken]
  /\ UNCHANGED <<link, mtu, txVars, rx, rxFifo, rcvd, submitted, failed, links, gap>>

\* ble_retrieve_packet, up to its loop.
ble_retrieve_packet ==
  /\ in = <<>> /\ air # <<>>
  /\ in' = Tail(Head(air).bytes)
  /\ air' = Tail(air)
  /\ IF Head(Head(air).bytes) = 0
     THEN /\ rx' = RxIdle
          /\ sync' = [ok |-> TRUE, sent |-> Head(air).sent, rcvd |-> Len(rcvd)]
     ELSE /\ rx' = IF rx.active THEN rx ELSE RxIdle
          /\ sync' = [sync EXCEPT !.ok = @ /\ ~Head(air).broken]
  /\ UNCHANGED <<link, mtu, txVars, rxFifo, rcvd, submitted, failed, links, gap>>

\* RX_WAIT_MAGIC: garbage is skipped; a header that is cut off ends the packet.
WaitMagic ==
  /\ rx.state = "magic" /\ in # <<>>
  /\ IF Head(in) # Magic THEN in' = Tail(in) /\ UNCHANGED rx
     ELSE IF Len(in) < HeaderSize THEN in' = <<>> /\ UNCHANGED rx
     ELSE in' = Tail(in) /\ rx' = [rx EXCEPT !.state = "header"]
  /\ UNCHANGED <<link, mtu, txVars, air, rxFifo, rcvd, sync, submitted, failed, links, gap>>

\* A message is complete.
Emit(m) == rxFifo' = Queued(rxFifo, m) /\ rcvd' = Append(rcvd, m) /\ rx' = RxIdle

\* RX_READ_HEADER: an invalid length is no header, and its bytes are looked at again.
ReadHeader ==
  /\ rx.state = "header"
  /\ LET len == in[3]
     IN IF len > MaxPayload
        THEN in' = in /\ rx' = RxIdle /\ UNCHANGED <<rxFifo, rcvd>>
        ELSE /\ in' = SubSeq(in, 4, Len(in))
             /\ IF len = 0 THEN Emit([op |-> in[1], payload |-> <<>>])
                ELSE /\ rx' = [state |-> "payload", active |-> TRUE, op |-> in[1],
                               len |-> len, payload |-> <<>>]
                     /\ UNCHANGED <<rxFifo, rcvd>>
  /\ UNCHANGED <<link, mtu, txVars, air, sync, submitted, failed, links, gap>>

\* Mutant: everything in the packet is taken for payload.
PayloadTakesAll(missing) == Len(in)

\* The bytes of this packet that belong to the payload.
PayloadBytes(missing) == IF missing < Len(in) THEN missing ELSE Len(in)

\* RX_READ_PAYLOAD
ReadPayload ==
  /\ rx.state = "payload" /\ in # <<>>
  /\ LET n == PayloadBytes(rx.len - Len(rx.payload))
         payload == rx.payload \o SubSeq(in, 1, n)
     IN /\ in' = SubSeq(in, n + 1, Len(in))
        /\ IF Len(payload) >= rx.len THEN Emit([op |-> rx.op, payload |-> payload])
           ELSE rx' = [rx EXCEPT !.payload = payload] /\ UNCHANGED <<rxFifo, rcvd>>
  /\ UNCHANGED <<link, mtu, txVars, air, sync, submitted, failed, links, gap>>

\* process_rx_buffers takes a message; what it does with it is not this layer's business.
process_rx_buffers ==
  /\ rxFifo # <<>>
  /\ rxFifo' = Tail(rxFifo)
  /\ UNCHANGED <<link, mtu, txVars, air, rx, in, rcvd, sync, submitted, failed, links, gap>>

-----------------------------------------------------------------------------
(***************************************************************************)
(* The connection.  The events are handled by the host task, which also    *)
(* parses packets, so never while one is being parsed.                     *)
(***************************************************************************)
\* BLE_GAP_EVENT_CONNECT
Connect ==
  /\ link = "down" /\ in = <<>> /\ links < MaxLinks
  /\ link' = "connected" /\ links' = links + 1
  /\ rx' = RxIdle
  /\ UNCHANGED <<mtu, txVars, air, in, rxFifo, rcvd, sync, submitted, failed, gap>>

\* BLE_GAP_EVENT_SUBSCRIBE
Subscribe ==
  /\ link # "down" /\ in = <<>>
  /\ link' = IF link = "connected" THEN "subscribed" ELSE "connected"
  /\ UNCHANGED <<mtu, txVars, air, rxVars, submitted, failed, links, gap>>

\* BLE_GAP_EVENT_MTU
NegotiateMtu(n) ==
  /\ link # "down" /\ in = <<>>
  /\ mtu' = n
  /\ UNCHANGED <<link, txVars, air, rxVars, submitted, failed, links, gap>>

\* BLE_GAP_EVENT_DISCONNECT: the receive context is reset on both sides, the transmit
\* context is not; packets on their way are lost.
Disconnect ==
  /\ link # "down" /\ in = <<>>
  /\ link' = "down"
  /\ mtu' = DefaultMtu
  /\ rx' = RxIdle
  /\ air' = <<>>
  /\ sync' = [sync EXCEPT !.ok = FALSE]
  /\ UNCHANGED <<txVars, in, rxFifo, rcvd, submitted, failed, links, gap>>

-----------------------------------------------------------------------------
Sender == populate_tx_buffers \/ BuildStep \/ FinishPacket \/ Notify \/ NotifyFails

Receiver == ble_retrieve_packet \/ WaitMagic \/ ReadHeader \/ ReadPayload

Next ==
  \/ \E m \in Messages : Submit(m)
  \/ Sender
  \/ Receiver \/ process_rx_buffers
  \/ Connect \/ Subscribe \/ Disconnect
  \/ \E n \in Mtus : NegotiateMtu(n)

Spec == Init /\ [][Next]_vars

-----------------------------------------------------------------------------
(***************************************************************************)
(* sync says from where on the receiver follows the sender: from a packet  *)
(* that starts a new stream, until a packet is lost, the connection breaks *)
(* or a header is repeated.                                                *)
(***************************************************************************)
Expected == SubSeq(sent, sync.sent + 1, Len(sent))
Heard == SubSeq(rcvd, sync.rcvd + 1, Len(rcvd))

\* Fragmentation preserves messages: from the start of a stream on the receiver puts
\* together exactly the messages of the sender, in their order, whatever was lost, cut off
\* or misread before, and wherever the magic byte occurs in a payload.
StreamIntact == sync.ok => IsPrefix(Heard, Expected)

\* Nothing is left on the way: when the sender has nothing more to send and every packet
\* has been parsed, the receiver has all of the stream.
StreamComplete ==
  sync.ok /\ ~gap /\ txFifo = <<>> /\ ~tx.active /\ pc = "idle" /\ air = <<>> /\ in = <<>>
    => Heard = Expected

\* The stream of messages survives fragmentation: from the start of a stream until it is
\* cut, what the receiver puts together is a prefix of what the sender took from its fifo,
\* and all of it once both are idle (ble_build_next_packet and ble_retrieve_packet).
StreamCorrect == TypeOK /\ StreamIntact /\ StreamComplete

(***************************************************************************)
(* populate_tx_buffers runs in a worker task and the host task parses what *)
(* it gets.  Nobody has to connect or to submit.                           *)
(***************************************************************************)
FairSpec == Spec /\ WF_vars(Sender) /\ WF_vars(Receiver)

\* The loop of populate_tx_buffers ends, also when packets fail or the link goes down.
PopulateEnds == pc # "idle" ~> pc = "idle"
=============================================================================
