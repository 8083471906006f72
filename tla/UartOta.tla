------------------------------- MODULE UartOta -------------------------------
(***************************************************************************)
(* The update of the firmware over the serial line: the watch's side       *)
(* (uart_ota.c), the flasher on the host (ota_flasher.py), the line        *)
(* between them, the two application partitions and the bootloader.        *)
(*                                                                         *)
(* The image is a sequence of blocks.  On the line a block is a sequence   *)
(* of units, its checksum in the last; the line loses and spoils units and *)
(* loses answers.  A checksum is right exactly when the units read are all *)
(* those of one block.  Sizes are counted in units.                        *)
(***************************************************************************)
EXTENDS Integers, Sequences, SequencesExt

CONSTANTS
  Image,       \* the units of each block, e.g. <<2, 2, 1>>: the last may be short
  BlockSize,   \* units of a full block
  RxSize,      \* units the receive buffer holds (RX_BUFF_SIZE)
  MaxRetries   \* MAX_RETRIES, and the host's 3

ASSUME OtaAssumption ==
  /\ Image \in Seq(1..BlockSize) /\ Image # <<>>
  /\ \A b \in DOMAIN Image : b < Len(Image) => Image[b] = BlockSize
  /\ BlockSize \in Nat /\ RxSize \in Nat /\ MaxRetries \in Nat \ {0}

VARIABLES
  flash,   \* run: the partition running; boot, state: what otadata names and
           \* its state; whole: the partitions that hold a complete image
  w,       \* the watch: pc, size, units (of the block), zeros (block_retries),
           \* ok (block_success), retries, total (units), written
  rx,      \* its receive buffer
  h,       \* the host: pc, block, sent (units), retry
  resp,    \* answers the host has not read
  faults   \* history: "stall", a read timed out while it was for the host to
           \* act; "answer", an answer was lost

ovars == <<flash, w, rx, h, resp, faults>>

Slots == {0, 1}
Other(s) == 1 - s
Spoilt == <<0, 0>>
NoSize == -1
ImageSize == (Len(Image) - 1) * BlockSize + Image[Len(Image)]
Units(b) == [u \in 1..Image[b] |-> <<b, u>>]

WatchIdle == [pc |-> "none", size |-> NoSize, units |-> <<>>, zeros |-> 0, ok |-> TRUE,
              retries |-> 0, total |-> 0, written |-> <<>>]
HostEnds(pc) == [pc |-> pc, block |-> 1, sent |-> 0, retry |-> 0]
HostIdle == HostEnds("idle")

Listening == {"greet", "send", "wait", "final"}

OtaInit ==
  /\ flash = [run |-> 0, boot |-> 0, state |-> "valid", whole |-> {0}]
  /\ w = WatchIdle /\ rx = <<>> /\ h = HostIdle /\ resp = <<>> /\ faults = {}

-----------------------------------------------------------------------------
(* The bootloader, with rollback enabled                                   *)

\* A new image is tried once; an image that was on trial and did not declare
\* itself valid is given up for the other.
Booted(f) ==
  CASE f.state = "new"     -> [f EXCEPT !.run = f.boot, !.state = "trial"]
    [] f.state = "trial"   -> [f EXCEPT !.run = Other(f.boot), !.boot = Other(f.boot), !.state = "valid"]
    [] f.state = "valid"   -> [f EXCEPT !.run = f.boot]

\* uart_ota_mark_firmware_valid
MarkedValid(f) == [f EXCEPT !.state = "valid"]

-----------------------------------------------------------------------------
(* The watch                                                               *)

Expected == IF w.size - w.total < BlockSize THEN w.size - w.total ELSE BlockSize
Answer(a) == resp' = IF h.pc \in Listening THEN Append(resp, a) ELSE resp

\* trigger_reboot
Reboot == w' = WatchIdle /\ rx' = <<>>

\* Up to esp_ota_begin, which gives up what the other partition held, or refuses
\* while the running image is still on trial
StartUpdate ==
  /\ w.pc = "none" /\ rx' = <<>> /\ h' = HostIdle /\ resp' = <<>> /\ faults' = {}
  /\ \/ /\ flash.state # "trial"
        /\ w' = [WatchIdle EXCEPT !.pc = "size"]
        /\ flash' = [flash EXCEPT !.whole = @ \ {Other(flash.run)}]
     \/ flash.state = "trial" /\ w' = WatchIdle /\ UNCHANGED flash

\* No partition, no memory, a flash or driver error, no size within 15 s or a
\* size of 0
OtaFails ==
  /\ w.pc \in {"size", "block"} /\ Reboot
  /\ UNCHANGED <<flash, h, resp, faults>>

ReceiveSize ==
  /\ w.pc = "size" /\ w.size # NoSize
  /\ w' = [w EXCEPT !.pc = "block"] /\ Answer("ack")
  /\ UNCHANGED <<flash, rx, h, faults>>

\* uart_read_bytes: all that is still missing of the block ...
ReadAll ==
  /\ w.pc = "block" /\ Len(w.units) < Expected
  /\ LET n == Expected - Len(w.units) IN
     /\ Len(rx) >= n
     /\ w' = [w EXCEPT !.units = @ \o SubSeq(rx, 1, n)] /\ rx' = SubSeq(rx, n + 1, Len(rx))
  /\ UNCHANGED <<flash, h, resp, faults>>

\* The host has something to send or an answer to read.
HostDue == h.pc = "send" \/ (h.pc \in {"greet", "wait"} /\ resp # <<>>)

\* ... or, after 2 s, what there is; nothing at all fails the block, although
\* up to MAX_RETRIES reads go on.
ReadTimeout ==
  /\ w.pc = "block" /\ Len(w.units) + Len(rx) < Expected /\ w.zeros < MaxRetries
  /\ w' = IF rx = <<>> THEN [w EXCEPT !.ok = FALSE, !.zeros = @ + 1]
          ELSE [w EXCEPT !.units = @ \o rx]
  /\ rx' = <<>>
  /\ faults' = IF HostDue THEN faults \cup {"stall"} ELSE faults
  /\ UNCHANGED <<flash, h, resp>>

BlockRead == w.pc = "block" /\ Expected > 0 /\ (Len(w.units) = Expected \/ w.zeros = MaxRetries)

\* Mutant: the checksum is not compared.
ChecksumIgnored(units) == units # <<>>

ChecksumOK(units) == \E b \in DOMAIN Image : units = Units(b)

\* The block the units make up, or 0
BlockOf(units) ==
  IF \E b \in DOMAIN Image : units = Units(b) THEN CHOOSE b \in DOMAIN Image : units = Units(b)
  ELSE 0

NextBlock == [w EXCEPT !.units = <<>>, !.zeros = 0, !.ok = TRUE]

BlockAccepted ==
  /\ BlockRead /\ w.ok /\ ChecksumOK(w.units)
  /\ w' = [NextBlock EXCEPT !.retries = 0, !.total = @ + Len(w.units),
                          !.written = Append(@, BlockOf(w.units))]
  /\ Answer("ack")
  /\ UNCHANGED <<flash, rx, h, faults>>

\* Mutant: a refused block is not counted.
RetryNotCounted(n) == n

RetryCounted(n) == n + 1

\* A failed block empties the receive buffer, a wrong checksum does not.
BlockRefused ==
  /\ BlockRead /\ ~(w.ok /\ ChecksumOK(w.units))
  /\ Answer("nack")
  /\ IF RetryCounted(w.retries) >= MaxRetries THEN Reboot
     ELSE /\ w' = [NextBlock EXCEPT !.retries = RetryCounted(@)]
          /\ rx' = IF w.ok THEN rx ELSE <<>>
  /\ UNCHANGED <<flash, h, faults>>

\* Mutant: the image is not validated before it is made the one to boot.
ValidatedBlindly == TRUE

\* esp_ota_end: the image is what its own checksum says.
Validated == w.written = [b \in DOMAIN Image |-> b]

EndUpdate ==
  /\ w.pc = "block" /\ w.size # NoSize /\ Expected <= 0
  /\ IF w.total = w.size /\ Validated
     THEN /\ flash' = [flash EXCEPT !.boot = Other(flash.run), !.state = "new",
                                    !.whole = IF w.written = [b \in DOMAIN Image |-> b]
                                              THEN @ \cup {Other(flash.run)} ELSE @]
          /\ Answer("eot")
     ELSE UNCHANGED <<flash, resp>>
  /\ Reboot
  /\ UNCHANGED <<h, faults>>

-----------------------------------------------------------------------------
(* The host                                                                *)

\* The size has no checksum: a spoilt one is taken as it comes.
HostStart ==
  /\ h.pc = "idle" /\ w.pc = "size" /\ w.size = NoSize
  /\ \E n \in {ImageSize - 1, ImageSize, ImageSize + BlockSize} : w' = [w EXCEPT !.size = n]
  /\ h' = [h EXCEPT !.pc = "greet"]
  /\ UNCHANGED <<flash, rx, resp, faults>>

HostGreeted ==
  /\ h.pc = "greet" /\ resp # <<>>
  /\ resp' = Tail(resp)
  /\ h' = IF Head(resp) = "ack" THEN [h EXCEPT !.pc = "send"] ELSE HostEnds("abort")
  /\ UNCHANGED <<flash, w, rx, faults>>

\* A unit arrives, is spoilt or is lost, also when nobody reads or the buffer
\* is full.
HostSend ==
  /\ h.pc = "send"
  /\ \/ /\ w.pc = "block" /\ Len(rx) < RxSize
        /\ \E u \in {Units(h.block)[h.sent + 1], Spoilt} : rx' = Append(rx, u)
     \/ rx' = rx
  /\ h' = [h EXCEPT !.sent = @ + 1, !.pc = IF h.sent + 1 = Image[h.block] THEN "wait" ELSE @]
  /\ UNCHANGED <<flash, w, resp, faults>>

Resend(x) == [x EXCEPT !.pc = "send", !.sent = 0]

HostAck ==
  /\ h.pc = "wait" /\ resp # <<>> /\ Head(resp) = "ack" /\ resp' = Tail(resp)
  /\ h' = IF h.block = Len(Image) THEN [h EXCEPT !.pc = "final", !.retry = 0]
          ELSE [Resend(h) EXCEPT !.block = @ + 1, !.retry = 0]
  /\ UNCHANGED <<flash, w, rx, faults>>

HostNack ==
  /\ h.pc = "wait" /\ resp # <<>> /\ Head(resp) = "nack" /\ resp' = <<>>
  /\ h' = IF h.retry + 1 >= MaxRetries THEN HostEnds("abort") ELSE [Resend(h) EXCEPT !.retry = @ + 1]
  /\ UNCHANGED <<flash, w, rx, faults>>

\* No answer for 15 s, or one that is neither: sent again, and not counted.
\* A watch that is updating answers within 8 s, so an answer has been lost or
\* the watch has gone.
HostTimeout ==
  /\ h.pc = "wait"
  /\ \/ resp = <<>> /\ (w.pc = "none" \/ "answer" \in faults) /\ resp' = resp
     \/ resp # <<>> /\ Head(resp) = "eot" /\ resp' = Tail(resp)
  /\ h' = Resend(h)
  /\ UNCHANGED <<flash, w, rx, faults>>

HostDone ==
  /\ h.pc = "final" /\ resp # <<>>
  /\ h' = HostEnds(IF Head(resp) = "eot" THEN "updated" ELSE "unsure")
  /\ resp' = <<>>
  /\ UNCHANGED <<flash, w, rx, faults>>

\* The host is given up at any time.
HostStops ==
  /\ h.pc \in Listening /\ h' = HostEnds("abort") /\ resp' = <<>>
  /\ UNCHANGED <<flash, w, rx, faults>>

LoseAnswer ==
  /\ resp # <<>> /\ resp' = Tail(resp) /\ faults' = faults \cup {"answer"}
  /\ UNCHANGED <<flash, w, rx, h>>

WatchStep ==
  \/ OtaFails \/ ReceiveSize \/ ReadAll \/ ReadTimeout \/ BlockAccepted
  \/ BlockRefused \/ EndUpdate
HostStep ==
  \/ HostStart \/ HostGreeted \/ HostSend \/ HostAck \/ HostNack \/ HostTimeout
  \/ HostDone \/ HostStops \/ LoseAnswer

-----------------------------------------------------------------------------
(* Properties                                                              *)

OtaTypeOK ==
  /\ {flash.run, flash.boot} \subseteq Slots /\ flash.state \in {"valid", "new", "trial"}
  /\ w.pc \in {"none", "size", "block"}
  /\ Len(rx) <= RxSize /\ w.retries \in 0..(MaxRetries - 1) /\ w.zeros \in 0..MaxRetries
  /\ h.block \in DOMAIN Image /\ h.retry \in 0..(MaxRetries - 1)

\* Whatever is lost, spoilt or repeated, and whenever the power fails, the
\* partition the bootloader will choose holds a complete image, and so does
\* the one it falls back to while an image is new or on trial.
AlwaysBootable ==
  /\ flash.boot \in flash.whole
  /\ flash.state # "valid" => Other(flash.boot) \in flash.whole

\* As long as no answer is lost and the host is never silent for 2 s when it
\* is its turn, host and watch agree which block is the next: none is written twice
\* or left out, whatever the line does to the data.
InStep ==
  faults = {} /\ w.pc = "block" /\ h.pc \in {"send", "wait", "final"} =>
    /\ \A i \in DOMAIN w.written : w.written[i] = i
    /\ Len(w.written) \in {h.block - 1, h.block}
    /\ Len(w.written) = h.block => h.pc = "final" \/ "ack" \in Range(resp)

\* The line holds nothing but units of the block the host is at, sound or spoilt.
OfBlock(q, b) == \A i \in DOMAIN q : q[i] = Spoilt \/ q[i][1] = b

\* Nothing on the line, nothing read of the next block
Quiet == w.units = <<>> /\ rx = <<>> /\ w.zeros = 0

\* Between two answers, when the watch expects as much as the host sends: what has arrived
\* of this attempt is no more than was sent of it, and the watch answers only after it all.
Attempt ==
  \/ /\ resp = <<>> /\ Len(w.units) + Len(rx) <= h.sent
     /\ w.zeros > 0 => h.pc = "wait"
  \/ resp = <<"nack">> /\ h.pc = "wait" /\ Quiet

Greeting == Len(w.written) = 0 /\ h.block = 1 /\ h.sent = 0 /\ resp = <<"ack">> /\ Quiet
Accepted == Len(w.written) = h.block /\ h.pc = "wait" /\ resp = <<"ack">> /\ Quiet
Attempting ==
  /\ Len(w.written) = h.block - 1 /\ (\A i \in DOMAIN resp : resp[i] = "nack")
  /\ OfBlock(w.units, h.block) /\ OfBlock(rx, h.block)
  /\ Expected = Image[h.block] => Attempt
Finished == Len(w.written) = h.block /\ w.units = <<>> /\ rx = <<>>

\* Where host and watch are when no answer was lost and no read timed out while the host
\* was due.
Dialogue ==
  /\ h.pc \in Listening => \A i \in DOMAIN w.written : w.written[i] = i
  /\ h.pc = "greet" => Greeting
  /\ h.pc \in {"send", "wait"} => Accepted \/ Attempting
  /\ h.pc = "final" => Finished

\* Types, and what the phases of watch and host exclude
OtaShape ==
  /\ OtaTypeOK
  /\ w = [pc |-> w.pc, size |-> w.size, units |-> w.units, zeros |-> w.zeros, ok |-> w.ok,
          retries |-> w.retries, total |-> w.total, written |-> w.written]
  /\ h = [pc |-> h.pc, block |-> h.block, sent |-> h.sent, retry |-> h.retry]
  /\ w.size \in Int /\ w.total \in Int /\ w.written \in Seq(Nat)
  /\ w.units \in Seq(Nat \X Nat) /\ rx \in Seq(Nat \X Nat)
  /\ resp \in Seq({"ack", "nack", "eot"})
  /\ h.pc \in Listening \cup {"idle", "abort", "updated", "unsure"}
  /\ h.sent \in 0..Image[h.block] /\ (h.pc = "send" => h.sent < Image[h.block])
  /\ h.pc = "greet" => h.block = 1 /\ h.sent = 0
  /\ w.ok <=> w.zeros = 0
  /\ w.pc = "size" => /\ Quiet /\ w.written = <<>> /\ resp = <<>> /\ h.block = 1 /\ h.sent = 0
                      /\ h.pc \in {"idle", "greet", "abort"} /\ (w.size # NoSize => h.pc # "idle")

\* Inductive
OtaInv == OtaShape /\ (w.pc = "block" /\ faults = {} => Dialogue)

=============================================================================
