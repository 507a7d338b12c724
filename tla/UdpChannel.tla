---- MODULE UdpChannel ----
(***************************************************************************)
(* The W5300 UDP IoDevice: the channel (dsp/src/c2837x_w5300_udp_channel.c) *)
(* and the UDP half of the socket layer (dsp/src/c2837x_w5300_socket.c),    *)
(* driven by the calls the Core makes, against one hardware socket.         *)
(*                                                                         *)
(* A step is one IoDevice call or one step of the chip or of the network.   *)
(* The Core asks for exactly what is left of a header or of a payload, and   *)
(* a datagram carries a whole frame, so each is read in one call or not at   *)
(* all.  The chip is external: it is what the code takes it to be.          *)
(***************************************************************************)
EXTENDS Integers, Sequences

CONSTANTS
    Peers, NoPeer,   \* sources of datagrams, and the absence of one
    Datagrams,       \* [size, length]: octets of DATA, length field in them
    MaxDatagram,     \* C2837X_W5300_UDP_MAX_DATA_BYTES
    FrameOctets,     \* length of a frame the Core sends (even, positive)
    TxMem,           \* size of the TX buffer, in octets
    MaxQueue,        \* bound: datagrams that wait in the RX FIFO
    CloseTimeout,    \* close_timeout_us
    MaxGeneration,   \* bound: PlatformInit runs that succeed
    Glitches         \* what the status register may read besides its value

ASSUME PeersAssumption == NoPeer \notin Peers
ASSUME SizesAssumption ==
    /\ Datagrams \subseteq [size : Nat, length : Nat]
    /\ FrameOctets \in 1 .. MaxDatagram /\ FrameOctets % 2 = 0
    /\ MaxDatagram \in Nat /\ TxMem \in Nat /\ FrameOctets <= TxMem
    /\ MaxQueue \in Nat /\ CloseTimeout \in Nat \ {0} /\ MaxGeneration \in Nat \ {0}

VARIABLES
    core,   \* what the Core is doing: the calls it makes (BlockCore!rt)
    chan,   \* C2837xW5300UdpChannel and its C2837xW5300Socket
    chip,   \* the hardware socket
    gen,    \* platform_generation
    age,    \* time since close_start_us
    hist    \* history: who asked last, and what became of the answer

vars == <<core, chan, chip, gen, age, hist>>

Statuses == {"CLOSED", "UDP", "INIT"}
ASSUME GlitchAssumption == Glitches \intersect {"CLOSED", "UDP"} = {}

Commands == {"NONE", "OPEN", "RECV", "SEND", "CLOSE"}
CloseStates == {"IDLE", "WAIT_EXISTING_CR", "ISSUE", "WAIT_CR", "WAIT_STATE", "FAULTED"}
TxStates == {"IDLE", "WAIT_CR_CLEAR", "WAIT_RESULT"}

HeaderOctets == 4
InfoOctets == 8               \* C2837X_W5300_UDP_PACKET_INFO_BYTES

ChannelType ==
    [pending : {"NONE", "OPEN", "RECV", "CLOSE"},      \* OPEN: NATIVE_UDP_OPEN
     phase : {"IDLE", "WAIT_CR", "WAIT_TARGET"},
     candidate : Peers \union {NoPeer},
     active : BOOLEAN,        \* datagram_active
     size : Nat,              \* datagram_data_size
     left : Nat,              \* udp_rx_data_remaining
     tx : TxStates,
     faulted : BOOLEAN,
     close : CloseStates,
     seen : 0 .. MaxGeneration]   \* observed_platform_generation

ChipType ==
    [ssr : {"CLOSED", "UDP"},
     cr : Commands,                       \* Sn_CR
     doing : {"NONE", "OPEN", "CLOSE"},   \* taken, not yet effective
     sending : BOOLEAN,                   \* a SEND was taken, no event yet
     sendok : BOOLEAN, timeout : BOOLEAN, \* Sn_IR
     tx : 0 .. TxMem,                     \* octets in the TX buffer
     destination : Peers \union {NoPeer}, \* Sn_DIPR and Sn_DPORTR
     fifo : Seq([from : Peers, size : Nat, length : Nat]),
     read : Nat,                          \* octets read since the last RECV
     torn : BOOLEAN]                      \* a RECV took something else than a datagram

\* Every field keeps its range; the FIFO keeps to its bound.
TypeOK ==
    /\ core \in {"waiting", "header", "payload", "sending", "closing"}
    /\ chan \in ChannelType /\ chip \in ChipType /\ Len(chip.fifo) <= MaxQueue
    /\ gen \in 1 .. MaxGeneration /\ age \in 0 .. CloseTimeout
    /\ hist \in [asker : Peers \union {NoPeer}, submitted : Nat, confirmed : Nat]
-----------------------------------------------------------------------------
\* Operators named Mutant... are slips the checks must be able to tell from the
\* definition below them; no behaviour of the specification uses one.

Words(n) == n + (n % 2)       \* octets of the FIFO that n octets of DATA occupy

ResetRuntime(c) ==
    [c EXCEPT !.candidate = NoPeer, !.active = FALSE, !.size = 0, !.left = 0,
              !.pending = "NONE", !.phase = "IDLE",
              !.tx = "IDLE", !.faulted = FALSE, !.close = "IDLE"]

\* sync_platform_generation: what the channel is once a control call looks at it.
Synced == IF chan.seen = gen THEN chan ELSE [ResetRuntime(chan) EXCEPT !.seen = gen]

Allowed(c) == ~c.faulted /\ c.close = "IDLE"

Completed(c) == [c EXCEPT !.pending = "NONE", !.phase = "IDLE"]
Issued(c, command) == [c EXCEPT !.pending = command, !.phase = "WAIT_CR"]
Staged(c, d) == [c EXCEPT !.active = TRUE, !.size = d.size, !.left = d.size]
Unstaged(c) == [Completed(c) EXCEPT !.active = FALSE, !.size = 0, !.left = 0]

WithCommand(h, command) == [h EXCEPT !.cr = command]
EventsCleared(h) == [h EXCEPT !.sendok = FALSE, !.timeout = FALSE]

\* The status register as a call may read it; a size register, read alike twice
\* or not (no stable read).
Readings == {chip.ssr} \union Glitches
Stable(n) == {n, -1}

\* Sn_RX_RSR, as far as the code looks: is a whole PACKET-INFO there?
RxSize == IF chip.fifo = << >> THEN 0 ELSE InfoOctets
-----------------------------------------------------------------------------
\* The Core waits for a peer: get_connection_state, then open.  While the OPEN
\* is pending the channel shows itself closed, so that open is called again.  It
\* never holds a candidate or a datagram here: InService.
Waiting == core = "waiting" /\ UNCHANGED <<core, gen, age, hist>>
Serving == Allowed(Synced) /\ Synced.pending = "NONE"

\* advance_pending for the pending OPEN.  The slip expects what a TCP OPEN shows.
MutantOpenAdvanced(s) ==
    IF Synced.phase = "WAIT_CR"
    THEN IF chip.cr # "NONE" THEN Synced ELSE [Synced EXCEPT !.phase = "WAIT_TARGET"]
    ELSE IF s = "INIT" THEN Completed(Synced) ELSE Synced
OpenAdvanced(s) ==
    IF Synced.phase = "WAIT_CR"
    THEN IF chip.cr # "NONE" THEN Synced ELSE [Synced EXCEPT !.phase = "WAIT_TARGET"]
    ELSE IF s = "UDP" THEN Completed(Synced) ELSE Synced

ContinueOpen(s) ==
    /\ Waiting /\ Allowed(Synced) /\ Synced.pending = "OPEN"
    /\ chan' = OpenAdvanced(s)
    /\ UNCHANGED chip

Open(s) ==
    /\ Waiting /\ Serving /\ s = "CLOSED"
    /\ chan' = Issued(Synced, "OPEN")
    /\ chip' = WithCommand(EventsCleared(chip), "OPEN")

\* s2 is the status as udp_read_packet_info reads it.
ReportError(s, s2, size) ==
    /\ Waiting
    /\ \/ ~Allowed(Synced)
       \/ Serving /\ s \in Glitches
       \/ Serving /\ s = "UDP" /\ s2 = "UDP" /\ size = -1
    /\ chan' = Synced
    /\ UNCHANGED chip

KeepListening(s, s2, size) ==
    /\ Waiting /\ Serving /\ s = "UDP"
    /\ s2 = "UDP" => size \in 0 .. InfoOctets - 1
    /\ chan' = Synced
    /\ UNCHANGED chip

AcceptCandidate(s, s2, size) ==
    /\ core = "waiting" /\ Serving /\ s = "UDP" /\ s2 = "UDP" /\ size >= InfoOctets
    /\ core' = "header"
    /\ chan' = Staged([Synced EXCEPT !.candidate = Head(chip.fifo).from], Head(chip.fifo))
    /\ chip' = [chip EXCEPT !.read = @ + InfoOctets]
    /\ UNCHANGED <<gen, age, hist>>
-----------------------------------------------------------------------------
\* receive and send are refused unless Allowed(chan), and close on a faulted
\* channel: InService says that the Core never makes such a call.  They do not
\* look at the generation.

\* The Core's reaction to a failed call, and to one without progress: it ends the
\* session, or calls again until the timeout BlockCore describes.
Fails == core' = "closing" /\ UNCHANGED <<gen, age, hist>>
NoProgress == core' \in {core, "closing"} /\ UNCHANGED <<gen, age, hist>>

\* The octets of the FIFO a call reads for n octets of DATA.
MutantRead(n) == n - (n % 2)
Read(n) == Words(n)

\* The datagram at the head of the FIFO comes from the candidate.
Own == Head(chip.fifo).from = chan.candidate

\* PACKET-INFO can be read.
Acquires(s, size) ==
    /\ chan.pending = "NONE" /\ ~chan.active
    /\ s = "UDP" /\ size >= InfoOctets

\* RECV of a foreign datagram was issued: has the chip taken it?
ReceiveCommits ==
    /\ core = "header" /\ Allowed(chan) /\ chan.active /\ chan.pending = "RECV"
    /\ chan' = IF chip.cr = "NONE" THEN Unstaged(chan) ELSE chan
    /\ NoProgress
    /\ UNCHANGED chip

ReceiveNothing(s, size) ==
    /\ core = "header" /\ Allowed(chan) /\ ~chan.active /\ chan.pending = "NONE"
    /\ s = "UDP" => size < InfoOctets
    /\ IF s = "UDP" /\ size = -1 THEN Fails ELSE NoProgress
    /\ UNCHANGED <<chan, chip>>

\* drop_datagram: s2 and s3 are the status as the drop and the commit read it.
DropForeign(s, s2, s3, size) ==
    /\ core = "header" /\ Allowed(chan) /\ Acquires(s, size) /\ ~Own
    /\ LET d == Head(chip.fifo)
           drained == d.size = 0 \/ s2 = "UDP"
           staged == [Staged(chan, d) EXCEPT !.left = IF drained THEN 0 ELSE d.size]
           read == [chip EXCEPT !.read = @ + InfoOctets + IF drained THEN Read(d.size) ELSE 0]
       IN  IF drained /\ s3 = "UDP"
           THEN chan' = Issued(staged, "RECV") /\ chip' = WithCommand(read, "RECV") /\ NoProgress
           ELSE chan' = staged /\ chip' = read /\ Fails

\* The datagram receive works on, acquired now or earlier.
AtDatagram(s, size) ==
    /\ core = "header" /\ Allowed(chan) /\ chan.pending = "NONE"
    /\ \/ chan.active
       \/ Acquires(s, size) /\ Own
Staging == IF chan.active THEN chan ELSE Staged(chan, Head(chip.fifo))
InfoRead == IF chan.active THEN 0 ELSE InfoOctets

ReceiveBadSize(s, size) ==
    /\ AtDatagram(s, size) /\ Staging.size \notin HeaderOctets .. MaxDatagram
    /\ chan' = Staging
    /\ chip' = [chip EXCEPT !.read = @ + InfoRead]
    /\ Fails

ReceiveHeaderNothing(s, s2, size) ==
    /\ AtDatagram(s, size) /\ Staging.size \in HeaderOctets .. MaxDatagram
    /\ s2 # "UDP"
    /\ chan' = Staging
    /\ chip' = [chip EXCEPT !.read = @ + InfoRead]
    /\ NoProgress

\* Everything of the datagram was read: RECV, unless the status (s) reads wrong.
Commit(c, h, s, then) ==
    IF s = "UDP"
    THEN /\ chan' = Issued(c, "RECV")
         /\ chip' = WithCommand(h, "RECV")
         /\ core' \in then
    ELSE chan' = c /\ chip' = h /\ core' = "closing"

\* The Core answers a bad header, and asks for the payload of a good one; a good
\* header without payload (SIM_STOP) ends the session.
AfterHeader(length) == IF length = 0 THEN {"sending", "closing"}
                       ELSE IF length % 2 = 1 THEN {"sending"}
                       ELSE {"payload", "sending"}

ReceiveHeader(s, s2, s3, size) ==
    /\ AtDatagram(s, size) /\ Staging.size \in HeaderOctets .. MaxDatagram
    /\ s2 = "UDP"
    /\ LET d == Head(chip.fifo)
           taken == [Staging EXCEPT !.left = @ - HeaderOctets]
           read == [chip EXCEPT !.read = @ + InfoRead + Read(HeaderOctets)]
       IN  /\ hist' = [asker |-> d.from, submitted |-> 0, confirmed |-> 0]
           /\ CASE Staging.size # HeaderOctets + d.length ->
                      chan' = taken /\ chip' = read /\ core' = "closing"
                [] Staging.size = HeaderOctets /\ d.length = 0 ->
                      Commit(taken, read, s3, AfterHeader(0))
                [] OTHER ->
                      chan' = taken /\ chip' = read /\ core' \in AfterHeader(d.length)
    /\ UNCHANGED <<gen, age>>

InPayload == core = "payload" /\ Allowed(chan) /\ chan.active /\ chan.pending = "NONE"

ReceivePayloadNothing(s) ==
    /\ InPayload /\ s # "UDP"
    /\ NoProgress
    /\ UNCHANGED <<chan, chip>>

ReceivePayload(s, s2) ==
    /\ InPayload /\ s = "UDP"
    /\ Commit([chan EXCEPT !.left = 0], [chip EXCEPT !.read = @ + Read(chan.left)],
              s2, {"sending"})
    /\ UNCHANGED <<gen, age, hist>>
-----------------------------------------------------------------------------
InSend == core = "sending" /\ Allowed(chan)
TxReset(c) == [c EXCEPT !.tx = "IDLE"]

\* advance_udp_tx: the SEND command was taken and its event has come, or not.
SendTaken == \/ chan.tx = "WAIT_RESULT"
             \/ chan.tx = "WAIT_CR_CLEAR" /\ chip.cr = "NONE"

SendPending ==
    /\ InSend /\ chan.tx # "IDLE"
    /\ SendTaken => ~chip.timeout /\ ~chip.sendok
    /\ chan' = IF SendTaken THEN [chan EXCEPT !.tx = "WAIT_RESULT"] ELSE chan
    /\ NoProgress
    /\ UNCHANGED chip

SendLost ==
    /\ InSend /\ chan.tx # "IDLE" /\ SendTaken /\ chip.timeout
    /\ chip' = [chip EXCEPT !.timeout = FALSE]
    /\ chan' = TxReset(chan)
    /\ Fails

\* The answer is out: the next frame, or the end of the session.  The slip takes
\* a SEND that was taken for one that was carried out.
MutantSendDone ==
    /\ InSend /\ chan.tx # "IDLE" /\ SendTaken /\ ~chip.timeout
    /\ chan' = TxReset(chan)
    /\ core' \in {"header", "closing"}
    /\ UNCHANGED <<chip, gen, age, hist>>
SendDone ==
    /\ InSend /\ chan.tx # "IDLE" /\ SendTaken /\ ~chip.timeout /\ chip.sendok
    /\ chip' = [chip EXCEPT !.sendok = FALSE]
    /\ chan' = TxReset(chan)
    /\ core' \in {"header", "closing"}
    /\ UNCHANGED <<gen, age, hist>>

\* A pending RECV is waited for; once it was taken the same call goes on.
SendAwaitsReceive ==
    /\ InSend /\ chan.tx = "IDLE" /\ chan.pending = "RECV" /\ chip.cr # "NONE"
    /\ NoProgress
    /\ UNCHANGED <<chan, chip>>

Received == IF chan.pending = "RECV" /\ chip.cr = "NONE" THEN Unstaged(chan) ELSE chan

\* The datagram that asked was not read to its end, and never will be.
SendRefused ==
    /\ InSend /\ chan.tx = "IDLE" /\ chan.pending = "NONE" /\ chan.active
    /\ chan' = TxReset(chan)
    /\ Fails
    /\ UNCHANGED chip

Submittable == InSend /\ chan.tx = "IDLE" /\ Received.pending = "NONE" /\ ~Received.active

SendNothing(s, free) ==
    /\ Submittable
    /\ s = "UDP" => free < FrameOctets
    /\ chan' = Received
    /\ IF s = "UDP" /\ free = -1 THEN Fails ELSE NoProgress
    /\ UNCHANGED chip

SendSubmit(s, free) ==
    /\ Submittable
    /\ s = "UDP" /\ free >= FrameOctets
    /\ chip' = WithCommand([EventsCleared(chip) EXCEPT !.destination = chan.candidate,
                                                       !.tx = @ + FrameOctets], "SEND")
    /\ chan' = [Received EXCEPT !.tx = "WAIT_CR_CLEAR"]
    /\ hist' = [hist EXCEPT !.submitted = @ + 1]
    /\ core' \in {"sending", "closing"}
    /\ UNCHANGED <<gen, age>>
-----------------------------------------------------------------------------
\* close: done and failed let the Core look for the next peer, busy is called
\* again.  No stage starts when close_timeout_us has passed since the first call.
CloseDone(c) == core' = "waiting" /\ chan' = ResetRuntime(c)
CloseBusy(c) == core' = "closing" /\ chan' = c
CloseFault ==
    /\ core' = "waiting"
    /\ chan' = [Synced EXCEPT !.faulted = TRUE, !.close = "FAULTED", !.tx = "IDLE"]

Stage(c, stage) == [c EXCEPT !.close = stage]

\* A stage of close before its deadline, which runs over all of them.
MutantClosingLate(stage) ==
    /\ core = "closing" /\ ~Synced.faulted /\ Synced.close = stage
    /\ age' \in {age, age + 1}
    /\ UNCHANGED <<gen, hist>>
Closing(stage) ==
    /\ core = "closing" /\ ~Synced.faulted /\ Synced.close = stage
    /\ age' \in {age, age + 1} /\ age' < CloseTimeout
    /\ UNCHANGED <<gen, hist>>

CloseTimedOut ==
    /\ core = "closing" /\ ~Synced.faulted /\ Synced.close # "IDLE"
    /\ age + 1 >= CloseTimeout /\ age' = CloseTimeout
    /\ CloseFault
    /\ UNCHANGED <<chip, gen, hist>>

CloseBegin(s) ==
    /\ core = "closing" /\ ~Synced.faulted /\ Synced.close = "IDLE"
    /\ age' = 0
    /\ LET quiet == Synced.pending = "NONE" /\ Synced.tx = "IDLE" IN
       IF quiet /\ s = "CLOSED"
       THEN CloseDone(Synced)
       ELSE CloseBusy(Stage(Synced, IF quiet THEN "ISSUE" ELSE "WAIT_EXISTING_CR"))
    /\ UNCHANGED <<chip, gen, hist>>

\* The SEND or RECV in the register is waited for, what it does is not.
MutantTaken == TRUE
Taken == \/ Synced.tx = "WAIT_RESULT"
         \/ chip.cr = "NONE"
CloseTakesExisting ==
    /\ Closing("WAIT_EXISTING_CR")
    /\ CloseBusy(IF ~Taken THEN Synced
                 ELSE IF Synced.tx # "IDLE" THEN Stage(TxReset(Synced), "ISSUE")
                 ELSE Stage(Completed(Synced), "ISSUE"))
    /\ UNCHANGED chip

CloseIssuesClose ==
    /\ Closing("ISSUE")
    /\ CloseBusy(Stage(Issued(Synced, "CLOSE"), "WAIT_CR"))
    /\ chip' = WithCommand(EventsCleared(chip), "CLOSE")

CloseWaits ==
    /\ Closing("WAIT_CR")
    /\ CloseBusy(IF chip.cr # "NONE" THEN Synced
                 ELSE Stage([Synced EXCEPT !.phase = "WAIT_TARGET"], "WAIT_STATE"))
    /\ UNCHANGED chip

MutantCloseSeesClosed(s) ==
    /\ Closing("WAIT_STATE")
    /\ IF s \in Statuses THEN CloseDone(Synced) ELSE CloseFault
    /\ UNCHANGED chip
CloseSeesClosed(s) ==
    /\ Closing("WAIT_STATE")
    /\ IF s = "CLOSED" THEN CloseDone(Synced)
       ELSE IF s \in Statuses THEN CloseBusy(Synced)
       ELSE CloseFault
    /\ UNCHANGED chip
-----------------------------------------------------------------------------
\* The chip and the network (external).
BlankChip ==
    [ssr |-> "CLOSED", cr |-> "NONE", doing |-> "NONE", sending |-> FALSE,
     sendok |-> FALSE, timeout |-> FALSE, tx |-> 0, destination |-> NoPeer,
     fifo |-> << >>, read |-> 0, torn |-> FALSE]

ChipOnly == UNCHANGED <<core, chan, gen, age, hist>>

\* RECV frees what was read: one whole datagram, or the FIFO is torn.
TakeReceive ==
    /\ chip.cr = "RECV"
    /\ chip' = IF chip.fifo # << >> /\ chip.read = InfoOctets + Words(Head(chip.fifo).size)
               THEN [chip EXCEPT !.cr = "NONE", !.read = 0, !.fifo = Tail(@)]
               ELSE [chip EXCEPT !.cr = "NONE", !.read = 0, !.torn = TRUE]
    /\ ChipOnly

TakeSend ==
    /\ chip.cr = "SEND" /\ chip' = [chip EXCEPT !.cr = "NONE", !.sending = TRUE]
    /\ ChipOnly

TakeControl ==
    /\ chip.cr \in {"OPEN", "CLOSE"} /\ chip.doing = "NONE"
    /\ chip' = [chip EXCEPT !.cr = "NONE", !.doing = chip.cr]
    /\ ChipOnly

\* The status register follows; both commands empty the buffers.
TakeEffect ==
    /\ chip.doing # "NONE"
    /\ chip' = [chip EXCEPT !.doing = "NONE", !.sending = FALSE, !.tx = 0,
                            !.fifo = << >>, !.read = 0,
                            !.ssr = IF chip.doing = "OPEN" THEN "UDP" ELSE "CLOSED"]
    /\ ChipOnly

SendSucceeds ==
    /\ chip.sending
    /\ chip' = [chip EXCEPT !.sending = FALSE, !.sendok = TRUE, !.tx = 0]
    /\ hist' = [hist EXCEPT !.confirmed = @ + 1]
    /\ UNCHANGED <<core, chan, gen, age>>

\* No answer to the ARP request.  Whether the octets leave the buffer is open.
SendTimesOut ==
    /\ chip.sending
    /\ \E n \in {0, chip.tx} :
         chip' = [chip EXCEPT !.sending = FALSE, !.timeout = TRUE, !.tx = n]
    /\ ChipOnly

Arrive ==
    /\ chip.ssr = "UDP" /\ Len(chip.fifo) < MaxQueue
    /\ \E p \in Peers, d \in Datagrams :
         chip' = [chip EXCEPT
           !.fifo = Append(@, [from |-> p, size |-> d.size, length |-> d.length])]
    /\ ChipOnly

\* PlatformInit succeeds: it resets the chip and starts a generation.
PlatformInit ==
    /\ gen < MaxGeneration
    /\ gen' = gen + 1
    /\ chip' = BlankChip
    /\ UNCHANGED <<core, chan, age, hist>>
-----------------------------------------------------------------------------
\* channel_init has run, after the PlatformInit that precedes it.
Init ==
    /\ core = "waiting"
    /\ chan = [pending |-> "NONE", phase |-> "IDLE", candidate |-> NoPeer,
               active |-> FALSE, size |-> 0, left |-> 0, tx |-> "IDLE",
               faulted |-> FALSE, close |-> "IDLE", seen |-> 1]
    /\ chip = BlankChip
    /\ gen = 1 /\ age = 0
    /\ hist = [asker |-> NoPeer, submitted |-> 0, confirmed |-> 0]

PollWith(s, s2, size) ==
    \/ ContinueOpen(s) \/ Open(s) \/ ReportError(s, s2, size)
    \/ KeepListening(s, s2, size) \/ AcceptCandidate(s, s2, size)
Poll == \E s, s2 \in Readings, size \in Stable(RxSize) : PollWith(s, s2, size)

Receive ==
    \/ ReceiveCommits
    \/ \E s, s2 \in Readings :
         \/ ReceivePayloadNothing(s) \/ ReceivePayload(s, s2)
         \/ \E size \in Stable(RxSize) :
              \/ ReceiveNothing(s, size)
              \/ ReceiveBadSize(s, size) \/ ReceiveHeaderNothing(s, s2, size)
              \/ \E s3 \in Readings : \/ DropForeign(s, s2, s3, size)
                                      \/ ReceiveHeader(s, s2, s3, size)

Send ==
    \/ SendPending \/ SendLost \/ SendDone
    \/ SendAwaitsReceive \/ SendRefused
    \/ \E s \in Readings, free \in Stable(TxMem - chip.tx) :
         SendNothing(s, free) \/ SendSubmit(s, free)

Close ==
    \/ CloseTimedOut \/ CloseTakesExisting \/ CloseIssuesClose \/ CloseWaits
    \/ \E s \in Readings : CloseBegin(s) \/ CloseSeesClosed(s)

TakeCommand == TakeReceive \/ TakeSend \/ TakeControl

Next ==
    \/ Poll \/ Receive \/ Send \/ Close
    \/ TakeCommand \/ TakeEffect \/ SendSucceeds \/ SendTimesOut
    \/ Arrive
    \/ PlatformInit

\* The main loop calls Run for ever, the timer advances, the registers are read
\* correctly again and again, and the chip carries out what it was told.
Fairness ==
    /\ WF_vars(PollWith(chip.ssr, chip.ssr, RxSize))
    /\ WF_vars(Close /\ (Synced.close = "IDLE" \/ age' # age))
    /\ WF_vars(TakeCommand)
    /\ WF_vars(TakeEffect)

Spec == Init /\ [][Next]_vars /\ Fairness
-----------------------------------------------------------------------------
InSession == core \in {"header", "payload", "sending"}

\* RECV only ever frees one whole datagram, padding included, and while one is
\* being read the channel and the FIFO agree on how far: no frame is put together
\* from two datagrams, whoever sent them and whatever lengths they carry.
Aligned ==
    /\ ~chip.torn
    /\ InSession /\ chan.active /\ chan.pending = "NONE" /\ chan.seen = gen =>
         /\ chip.fifo # << >> /\ chan.size = Head(chip.fifo).size
         /\ chan.candidate = Head(chip.fifo).from
         /\ chip.read = InfoOctets + Words(chan.size - chan.left)

\* A command is never written over one the chip has not taken; SEND, which the
\* socket layer does not record as pending, included.
OneCommand == [][chip'.cr \in {"NONE", chip.cr} \/ chip.cr = "NONE"]_vars

\* A frame is submitted once as one datagram, and the Core goes on to the next
\* frame only after the chip confirmed that one.
FrameSentOnce ==
    [][/\ hist'.submitted <= 1
       /\ core = "sending" /\ core' = "header" => hist.submitted = 1 /\ hist.confirmed = 1]_vars

\* An answer is one datagram, sent once, to the peer whose datagram it answers and
\* only after that datagram has left the FIFO; none goes unconfirmed.
AnsweredOnce ==
    /\ FrameSentOnce
    /\ [][chip.cr # "SEND" /\ chip'.cr = "SEND" =>
             /\ chip'.destination = hist.asker /\ hist.asker # NoPeer
             /\ chip.read = 0 /\ ~chan'.active]_vars

\* close reports success only on a socket that is closed, with nothing in its
\* command register and nothing pending in the channel.
DoneIsClosed ==
    [][core = "closing" /\ core' = "waiting" /\ ~chan'.faulted =>
         chip.ssr = "CLOSED" /\ chip.cr = "NONE" /\ chan'.pending = "NONE"]_vars

\* A channel whose close failed stays out of service and leaves its socket alone
\* until PlatformInit runs again; after that it serves again.
FaultIsolates ==
    [][chan.faulted =>
         /\ chan'.faulted = (chan'.seen = chan.seen)
         /\ chan'.faulted => core' = "waiting" /\ chip'.cr \in {"NONE", chip.cr}]_vars

\* The Core never receives, sends or closes on a channel that refuses it, nor
\* finds a candidate or a datagram of an earlier session when it waits.
InService ==
    /\ InSession => ~chan.faulted /\ chan.close = "IDLE" /\ chan.candidate # NoPeer
    /\ core = "closing" => ~chan.faulted
    /\ core = "waiting" /\ ~chan.faulted => chan.candidate = NoPeer /\ ~chan.active

\* A session starts with nothing of an earlier one under way in channel or chip.
FreshSession ==
    [][core = "waiting" /\ core' = "header" =>
         /\ chan'.tx = "IDLE" /\ chan'.pending = "NONE"
         /\ chip.cr = "NONE" /\ ~chip.sending /\ chip.read = 0
         /\ chan'.candidate = Head(chip.fifo).from]_vars

\* One session never reaches into the next, whatever the close between them met:
\* it is done or the channel is out of service, and the next one starts clean.
SessionsApart == []InService /\ DoneIsClosed /\ FaultIsolates /\ FreshSession

\* Every close ends, in success or in a fault, whatever the chip does.
CloseEnds == core = "closing" ~> core # "closing"

\* A block that waits on a closed socket and is not faulted opens it again.
Reopens == core = "waiting" /\ chip.ssr = "CLOSED" /\ ~Synced.faulted ~> chip.ssr = "UDP"

\* A datagram that waits in an open socket is taken up.
Accepts ==
    core = "waiting" /\ chip.fifo # << >> /\ ~Synced.faulted
        ~> core # "waiting" \/ chip.fifo = << >>

\* Between two sessions the block always comes back to a peer: the close ends,
\* the socket opens again, and a datagram in it is taken up.
ComesBack == CloseEnds /\ Reopens /\ Accepts

\* A frame the Core is to answer can be answered: send is not refused because the
\* datagram that carried it was not read to its end.  (tests/dsp_host/
\* w5300_udp_core_lifecycle_test.c:566 expects a rejected SIM_START answered.)
Answerable == core = "sending" /\ chan.active => chan.pending = "RECV"
====
