---- MODULE TcpChannel ----
(***************************************************************************)
(* The W5300 TCP IoDevice: the channel (dsp/src/c2837x_w5300_channel.c) and *)
(* the TCP half of the socket layer (dsp/src/c2837x_w5300_socket.c), driven *)
(* by the calls the Core makes, against one hardware socket of the chip.    *)
(*                                                                         *)
(* A step is one IoDevice call or one step of the chip or of the network. A *)
(* call reads a bounded number of registers and waits for nothing, so the   *)
(* chip moves between calls only.  The chip is external: it is what the code *)
(* takes it to be, a command register that clears when a command was taken, *)
(* a status register that follows later, two buffers and two event bits.    *)
(***************************************************************************)
EXTENDS Integers

CONSTANTS
    TxMem, RxMem,    \* sizes of the hardware buffers, in octets
    Capacities,      \* capacities the Core passes to receive (even, positive)
    FrameOctets,     \* length of a frame the Core sends (even, positive)
    CloseTimeout,    \* close_timeout_us
    MaxGeneration,   \* bound: PlatformInit runs that succeed
    Glitches         \* values of the status register that are no socket status

ASSUME SizesAssumption ==
    /\ TxMem \in Nat \ {0} /\ RxMem \in Nat \ {0}
    /\ Capacities \subseteq {n \in Nat : n > 0 /\ n % 2 = 0}
    /\ FrameOctets \in Nat \ {0} /\ FrameOctets % 2 = 0
    /\ CloseTimeout \in Nat \ {0} /\ MaxGeneration \in Nat \ {0}

VARIABLES
    core,   \* what the Core is doing: the calls it makes (BlockCore!rt)
    chan,   \* C2837xW5300Channel and its C2837xW5300Socket
    chip,   \* the hardware socket
    gen,    \* platform_generation
    age,    \* time since close_start_us
    hist    \* history of the frame being sent, in octets

vars == <<core, chan, chip, gen, age, hist>>

Statuses == {"CLOSED", "INIT", "LISTEN", "SYNRECV", "ESTABLISHED", "CLOSE_WAIT", "UDP"}
ASSUME GlitchAssumption == Glitches \intersect Statuses = {}

Commands == {"NONE", "OPEN", "LISTEN", "RECV", "SEND", "CLOSE"}
CloseStates ==
    {"IDLE", "WAIT_EXISTING_CR", "CHECK_ERRATUM", "UDP_OPEN_ISSUE",
     "UDP_OPEN_WAIT_CR", "UDP_OPEN_WAIT_STATE", "DUMMY_WAIT_TX_SPACE",
     "DUMMY_SEND_ISSUE", "DUMMY_SEND_WAIT_CR", "DUMMY_SEND_WAIT_RESULT",
     "CLOSE_ISSUE", "CLOSE_WAIT_CR", "CLOSE_WAIT_STATE", "FAULTED"}

ChannelType ==
    [pending : (Commands \ {"NONE"}) \union {"NONE", "UDP_OPEN", "DUMMY_SEND"},
     phase : {"IDLE", "WAIT_CR", "WAIT_TARGET"},
     connected : BOOLEAN,
     sending : BOOLEAN,        \* send_state = SEND_PENDING
     octets : 0 .. TxMem,      \* pending_octets
     faulted : BOOLEAN,
     close : CloseStates,
     seen : 0 .. MaxGeneration]   \* observed_platform_generation

ChipType ==
    [ssr : Statuses,
     cr : Commands,                       \* Sn_CR
     doing : {"NONE", "OPEN", "LISTEN", "CLOSE"},   \* taken, not yet effective
     tcp : BOOLEAN,                       \* Sn_MR: TCP or UDP
     sendok : BOOLEAN, timeout : BOOLEAN, \* Sn_IR
     written : 0 .. TxMem,                \* octets put behind the last SEND
     segment : 0 .. TxMem,                \* octets of the SEND under way
     tx : 0 .. TxMem,                     \* octets not yet freed in the TX buffer
     rx : 0 .. RxMem,                     \* Sn_RX_RSR
     read : Nat,                          \* octets read since the last RECV
     wedged : BOOLEAN]                    \* erratum 1 struck

\* Every field keeps its range; counts stay within the hardware buffers.
TypeOK ==
    /\ core \in {"waiting", "receiving", "sending", "closing"}
    /\ chan \in ChannelType /\ chip \in ChipType
    /\ gen \in 1 .. MaxGeneration /\ age \in 0 .. CloseTimeout
    /\ hist \in [submitted : Nat, confirmed : Nat, reported : Nat]
-----------------------------------------------------------------------------
\* Operators named Mutant... are slips the checks must be able to tell from the
\* definition below them; no behaviour of the specification uses one.

Smaller(a, b) == IF a < b THEN a ELSE b
Even(n) == n - (n % 2)        \* n &= ~1

MutantResetKeepsCommand(c) ==
    [c EXCEPT !.connected = FALSE, !.sending = FALSE, !.octets = 0,
              !.faulted = FALSE, !.close = "IDLE"]
ResetRuntime(c) ==
    [c EXCEPT !.connected = FALSE, !.pending = "NONE", !.phase = "IDLE",
              !.sending = FALSE, !.octets = 0, !.faulted = FALSE, !.close = "IDLE"]

\* sync_platform_generation: what the channel is once a control call looks at it.
Synced == IF chan.seen = gen THEN chan ELSE [ResetRuntime(chan) EXCEPT !.seen = gen]

Allowed(c) == ~c.faulted /\ c.close = "IDLE"

Completed(c) == [c EXCEPT !.pending = "NONE", !.phase = "IDLE"]
Issued(c, command) == [c EXCEPT !.pending = command, !.phase = "WAIT_CR"]

\* What an access to the chip does to it.
WithCommand(h, command) == [h EXCEPT !.cr = command]
EventsCleared(h) == [h EXCEPT !.sendok = FALSE, !.timeout = FALSE]

\* advance_target_state, for the commands that can be pending when a call that
\* advances is made: the status that completes a command, and those that may yet.
Target(command) == IF command = "OPEN" THEN {"INIT"}
                   ELSE {"LISTEN", "SYNRECV", "ESTABLISHED", "CLOSE_WAIT"}
OnTheWay(command) == IF command = "OPEN" THEN {"CLOSED", "ARP"} ELSE {"INIT"}

\* advance_pending: its result and the channel after it, for a channel c with a
\* pending command and a status register that reads s.
Advance(c, s) ==
    IF c.phase = "WAIT_CR"
    THEN IF chip.cr # "NONE" THEN [result |-> 0, chan |-> c]
         ELSE IF c.pending \in {"SEND", "RECV"} THEN [result |-> 1, chan |-> Completed(c)]
         ELSE [result |-> 0, chan |-> [c EXCEPT !.phase = "WAIT_TARGET"]]
    ELSE IF s \in Target(c.pending) THEN [result |-> 1, chan |-> Completed(c)]
    ELSE [result |-> IF s \in OnTheWay(c.pending) THEN 0 ELSE -1, chan |-> c]

\* The status register as a call may read it.
Readings == {chip.ssr} \union Glitches

\* Values of a size register read twice alike, or none (no stable read).
Stable(n) == {n, -1}
-----------------------------------------------------------------------------
\* The Core waits for a peer: get_connection_state, then open or listen.  An
\* error is latched in the Core and the call is made again.
Waiting == core = "waiting" /\ UNCHANGED <<core, gen, age, hist>>

ConnectionSeen(s) == [Synced EXCEPT !.connected = IF s = "ESTABLISHED" THEN @ ELSE FALSE]

ReportError(s) ==
    /\ Waiting
    /\ \/ ~Allowed(Synced) /\ chan' = Synced
       \/ Allowed(Synced) /\ s \in Glitches \union {"UDP"} /\ chan' = ConnectionSeen(s)
    /\ UNCHANGED chip

Open(s) ==
    /\ Waiting /\ Allowed(Synced) /\ s = "CLOSED"
    /\ LET c == ConnectionSeen(s) IN
       IF c.pending # "NONE"
       THEN chan' = Advance(c, s).chan /\ UNCHANGED chip
       ELSE /\ chan' = Issued(c, "OPEN")
            /\ chip' = WithCommand([EventsCleared(chip) EXCEPT !.tcp = TRUE], "OPEN")

Listen(s) ==
    /\ Waiting /\ Allowed(Synced) /\ s = "INIT"
    /\ LET c == ConnectionSeen(s) IN
       IF c.pending # "NONE"
       THEN chan' = Advance(c, s).chan /\ UNCHANGED chip
       ELSE chan' = Issued(c, "LISTEN") /\ chip' = WithCommand(EventsCleared(chip), "LISTEN")

KeepListening(s) ==
    /\ Waiting /\ Allowed(Synced) /\ s \in {"LISTEN", "SYNRECV"}
    /\ chan' = ConnectionSeen(s)
    /\ UNCHANGED chip

Connect(s) ==
    /\ core = "waiting" /\ Allowed(Synced) /\ s = "ESTABLISHED"
    /\ core' = "receiving"
    /\ chan' = [Synced EXCEPT !.connected = TRUE]
    /\ UNCHANGED <<chip, gen, age, hist>>

PeerClosed(s) ==
    /\ core = "waiting" /\ Allowed(Synced) /\ s = "CLOSE_WAIT"
    /\ core' = "closing"
    /\ chan' = ConnectionSeen(s)
    /\ UNCHANGED <<chip, gen, age, hist>>
-----------------------------------------------------------------------------
Connected == {"ESTABLISHED", "CLOSE_WAIT"}

\* receive and send are refused unless Allowed(chan), and close on a faulted
\* channel: InService says that the Core never makes such a call.

\* The Core's reaction to a failed call, and to one without progress: it ends the
\* session, or calls again until the timeout BlockCore describes.
Fails == core' = "closing" /\ UNCHANGED <<gen, age, hist>>
NoProgress == core' \in {core, "closing"} /\ UNCHANGED <<gen, age, hist>>

ReceiveAdvances(s) ==
    /\ core = "receiving" /\ Allowed(chan) /\ chan.pending # "NONE"
    /\ chan' = Advance(chan, s).chan
    /\ IF Advance(chan, s).result < 0 THEN Fails ELSE NoProgress
    /\ UNCHANGED chip

\* No command is pending: the octets receive can hand over, size being the
\* reading of Sn_RX_RSR.
Readable(size, capacity) == Even(Smaller(Smaller(size, capacity), RxMem))

ReceiveNothing(s, size, capacity) ==
    /\ core = "receiving" /\ Allowed(chan) /\ chan.pending = "NONE"
    /\ s \in Connected => size = -1 \/ Readable(size, capacity) = 0
    /\ IF s \in Connected /\ size = -1 THEN Fails ELSE NoProgress
    /\ UNCHANGED <<chan, chip>>

\* The octets may complete a frame that is answered, or one that ends the session.
ReceiveSome(s, size, capacity) ==
    /\ core = "receiving" /\ Allowed(chan) /\ chan.pending = "NONE"
    /\ s \in Connected /\ size >= 0 /\ Readable(size, capacity) > 0
    /\ chip' = WithCommand([chip EXCEPT !.read = @ + Readable(size, capacity)], "RECV")
    /\ chan' = Issued(chan, "RECV")
    /\ core' \in {"receiving", "sending", "closing"}
    /\ hist' = [submitted |-> 0, confirmed |-> 0, reported |-> 0]
    /\ UNCHANGED <<gen, age>>
-----------------------------------------------------------------------------
Left == FrameOctets - hist.reported
SendAbandoned(c) == [c EXCEPT !.sending = FALSE, !.octets = 0]

\* A command is in the register: SEND of this segment, or RECV before it.
SendAdvances(s) ==
    /\ core = "sending" /\ Allowed(chan) /\ chan.pending # "NONE"
    /\ IF chan.pending = (IF chan.sending THEN "SEND" ELSE "RECV") /\ chan.phase = "WAIT_CR"
       THEN chan' = Advance(chan, s).chan /\ NoProgress
       ELSE chan' = SendAbandoned(chan) /\ Fails
    /\ UNCHANGED chip

\* The SEND command was taken: SEND_OK, TIMEOUT or neither yet.
SendSegmentLost(s) ==
    /\ core = "sending" /\ Allowed(chan) /\ chan.sending /\ chan.pending = "NONE"
    /\ chip.timeout \/ s \notin Connected
    /\ chip' = IF chip.timeout THEN EventsCleared(chip) ELSE chip
    /\ chan' = SendAbandoned(chan)
    /\ Fails

SendSegmentOpen(s) ==
    /\ core = "sending" /\ Allowed(chan) /\ chan.sending /\ chan.pending = "NONE"
    /\ ~chip.timeout /\ s \in Connected /\ ~chip.sendok
    /\ NoProgress
    /\ UNCHANGED <<chan, chip>>

\* SEND taken is taken for SEND_OK.
MutantSendSegmentDone(s) ==
    /\ core = "sending" /\ Allowed(chan) /\ chan.sending /\ chan.pending = "NONE"
    /\ ~chip.timeout /\ s \in Connected
    /\ chan' = SendAbandoned(chan)
    /\ hist' = [hist EXCEPT !.reported = @ + chan.octets]
    /\ core' \in IF chan.octets = Left THEN {"receiving", "closing"} ELSE {"sending"}
    /\ UNCHANGED <<chip, gen, age>>
\* The last segment of a frame ends the session (an error response) or not.
SendSegmentDone(s) ==
    /\ core = "sending" /\ Allowed(chan) /\ chan.sending /\ chan.pending = "NONE"
    /\ ~chip.timeout /\ s \in Connected /\ chip.sendok
    /\ chip' = [chip EXCEPT !.sendok = FALSE]
    /\ chan' = SendAbandoned(chan)
    /\ hist' = [hist EXCEPT !.reported = @ + chan.octets]
    /\ core' \in IF chan.octets = Left THEN {"receiving", "closing"} ELSE {"sending"}
    /\ UNCHANGED <<gen, age>>

\* The largest segment the chip can take; free is the reading of Sn_TX_FSR.
MutantSendable(free) == Even(Smaller(Left, TxMem))
Sendable(free) == Even(Smaller(Smaller(Left, free), TxMem))

SendNothing(s, free) ==
    /\ core = "sending" /\ Allowed(chan) /\ ~chan.sending /\ chan.pending = "NONE"
    /\ s \in Connected => free = -1 \/ Sendable(free) = 0
    /\ chan' = IF s \in Connected /\ free = -1 THEN SendAbandoned(chan) ELSE chan
    /\ IF s \in Connected /\ free = -1 THEN Fails ELSE NoProgress
    /\ UNCHANGED chip

SendSegment(s, free) ==
    /\ core = "sending" /\ Allowed(chan) /\ ~chan.sending /\ chan.pending = "NONE"
    /\ s \in Connected /\ free >= 0 /\ Sendable(free) > 0
    /\ chip' = WithCommand([EventsCleared(chip) EXCEPT !.tx = @ + Sendable(free),
                                                       !.written = Sendable(free)], "SEND")
    /\ chan' = [Issued(chan, "SEND") EXCEPT !.sending = TRUE, !.octets = Sendable(free)]
    /\ hist' = [hist EXCEPT !.submitted = @ + Sendable(free)]
    /\ core' \in {"sending", "closing"}
    /\ UNCHANGED <<gen, age>>
-----------------------------------------------------------------------------
\* close: done and failed let the Core look for the next peer, busy is called
\* again.  No stage starts when close_timeout_us has passed since the first call.
CloseDone(c) == core' = "waiting" /\ chan' = ResetRuntime(c)
CloseBusy(c) == core' = "closing" /\ chan' = c
CloseFault ==
    /\ core' = "waiting"
    /\ chan' = [Synced EXCEPT !.faulted = TRUE, !.close = "FAULTED",
                              !.sending = FALSE, !.octets = 0]

Stage(c, stage) == [c EXCEPT !.close = stage]

\* A stage of close before its deadline, which runs over all of them.
Closing(stage) ==
    /\ core = "closing" /\ ~Synced.faulted /\ Synced.close = stage
    /\ age' \in {age, age + 1} /\ age' < CloseTimeout
    /\ UNCHANGED <<gen, hist>>

CloseTimedOut ==
    /\ core = "closing" /\ ~Synced.faulted /\ Synced.close # "IDLE"
    /\ age + 1 >= CloseTimeout /\ age' = CloseTimeout
    /\ CloseFault
    /\ UNCHANGED <<chip, gen, hist>>

CloseBegin(s) ==
    /\ core = "closing" /\ ~Synced.faulted /\ Synced.close = "IDLE"
    /\ age' = 0
    /\ IF Synced.pending = "NONE" /\ Synced.phase = "IDLE" /\ s = "CLOSED"
       THEN CloseDone(Synced)
       ELSE CloseBusy(Stage(SendAbandoned(Synced),
                            IF Synced.pending = "NONE" THEN "CHECK_ERRATUM"
                            ELSE "WAIT_EXISTING_CR"))
    /\ UNCHANGED <<chip, gen, hist>>

\* take_pending: the command in the register is waited for, its effect is not.
MutantTaken(c) == c.pending # "NONE"
Taken(c) == c.pending # "NONE" => c.phase = "WAIT_TARGET" \/ chip.cr = "NONE"

CloseTakesPending ==
    /\ Closing("WAIT_EXISTING_CR")
    /\ CloseBusy(IF Taken(Synced) THEN Stage(Completed(Synced), "CHECK_ERRATUM")
                                  ELSE Synced)
    /\ UNCHANGED chip

MutantErratumNeeded(free) == chip.tcp /\ free = 0
ErratumNeeded(free) == chip.tcp /\ free # TxMem

CloseChecksErratum(free) ==
    /\ Closing("CHECK_ERRATUM")
    /\ CloseBusy(IF free = -1 THEN Synced
                 ELSE Stage(Synced, IF ErratumNeeded(free) THEN "UDP_OPEN_ISSUE"
                                                           ELSE "CLOSE_ISSUE"))
    /\ UNCHANGED chip

CloseIssuesUdpOpen ==
    /\ Closing("UDP_OPEN_ISSUE")
    /\ CloseBusy(Stage(Issued(Synced, "UDP_OPEN"), "UDP_OPEN_WAIT_CR"))
    /\ chip' = WithCommand([EventsCleared(chip) EXCEPT !.tcp = FALSE], "OPEN")

\* poll_close_command in the three stages that wait for the command register.
CloseWaits(stage, next) ==
    /\ Closing(stage)
    /\ CloseBusy(IF chip.cr # "NONE" THEN Synced
                 ELSE Stage([Synced EXCEPT !.phase = "WAIT_TARGET"], next))
    /\ UNCHANGED chip

CloseSeesUdp(s) ==
    /\ Closing("UDP_OPEN_WAIT_STATE")
    /\ IF s = "UDP" THEN CloseBusy(Stage(Completed(Synced), "DUMMY_WAIT_TX_SPACE"))
       ELSE IF s \in Statuses THEN CloseBusy(Synced)
       ELSE CloseFault
    /\ UNCHANGED chip

CloseFindsSpace(free) ==
    /\ Closing("DUMMY_WAIT_TX_SPACE")
    /\ CloseBusy(IF free >= 1 THEN Stage(Synced, "DUMMY_SEND_ISSUE") ELSE Synced)
    /\ UNCHANGED chip

CloseIssuesDummySend ==
    /\ Closing("DUMMY_SEND_ISSUE")
    /\ CloseBusy(Stage(Issued(Synced, "DUMMY_SEND"), "DUMMY_SEND_WAIT_CR"))
    /\ chip' = WithCommand([EventsCleared(chip) EXCEPT !.tx = @ + 1, !.written = 1], "SEND")

CloseSeesDummySent(s) ==
    /\ Closing("DUMMY_SEND_WAIT_RESULT")
    /\ IF s = "CLOSED" THEN CloseDone(Synced) /\ UNCHANGED chip
       ELSE IF s \notin Statuses THEN CloseFault /\ UNCHANGED chip
       ELSE IF chip.sendok \/ chip.timeout
       THEN CloseBusy(Stage(Completed(Synced), "CLOSE_ISSUE")) /\ chip' = EventsCleared(chip)
       ELSE CloseBusy(Synced) /\ UNCHANGED chip

CloseIssuesClose ==
    /\ Closing("CLOSE_ISSUE")
    /\ CloseBusy(Stage(Issued(Synced, "CLOSE"), "CLOSE_WAIT_CR"))
    /\ chip' = WithCommand(EventsCleared(chip), "CLOSE")

MutantCloseSeesClosed(s) ==
    /\ Closing("CLOSE_WAIT_STATE")
    /\ IF s \in Statuses THEN CloseDone(Completed(Synced)) ELSE CloseFault
    /\ UNCHANGED chip
CloseSeesClosed(s) ==
    /\ Closing("CLOSE_WAIT_STATE")
    /\ IF s = "CLOSED" THEN CloseDone(Completed(Synced))
       ELSE IF s \in Statuses THEN CloseBusy(Synced)
       ELSE CloseFault
    /\ UNCHANGED chip
-----------------------------------------------------------------------------
\* The chip and the network (external).
BlankChip ==
    [ssr |-> "CLOSED", cr |-> "NONE", doing |-> "NONE", tcp |-> FALSE,
     sendok |-> FALSE, timeout |-> FALSE, written |-> 0, segment |-> 0,
     tx |-> 0, rx |-> 0, read |-> 0, wedged |-> FALSE]

ChipOnly == UNCHANGED <<core, chan, gen, age, hist>>

\* The chip takes the command out of the register.  Erratum 1: a TCP CLOSE with
\* unsent data in the TX buffer wedges the socket.
TakeCommand ==
    /\ chip.cr # "NONE" /\ chip.doing = "NONE"
    /\ chip' = CASE chip.cr = "RECV" ->
                      [chip EXCEPT !.cr = "NONE", !.rx = @ - chip.read, !.read = 0]
                 [] chip.cr = "SEND" ->
                      [chip EXCEPT !.cr = "NONE", !.segment = chip.written, !.written = 0]
                 [] OTHER ->
                      [chip EXCEPT !.cr = "NONE", !.doing = chip.cr,
                         !.wedged = @ \/ (chip.cr = "CLOSE" /\ chip.tcp /\ chip.tx # 0)]
    /\ ChipOnly

\* The status register follows.  Whether a UDP OPEN empties the TX buffer is open.
TakeEffect ==
    /\ chip.doing # "NONE"
    /\ chip' \in
         CASE chip.doing = "LISTEN" ->
                {[chip EXCEPT !.doing = "NONE", !.ssr = IF @ = "INIT" THEN "LISTEN" ELSE @]}
           [] chip.doing = "OPEN" ->
                {[chip EXCEPT !.doing = "NONE", !.ssr = IF chip.tcp THEN "INIT" ELSE "UDP",
                              !.segment = 0, !.rx = 0, !.read = 0, !.tx = n] :
                   n \in IF chip.tcp THEN {0} ELSE {0, chip.tx}}
           [] chip.doing = "CLOSE" ->
                {[chip EXCEPT !.doing = "NONE", !.ssr = "CLOSED", !.segment = 0,
                              !.tx = 0, !.rx = 0, !.read = 0]}
    /\ ChipOnly

SendSucceeds ==
    /\ chip.segment > 0 /\ chip.ssr \in Connected \union {"UDP"}
    /\ chip' = [chip EXCEPT !.segment = 0, !.sendok = TRUE,
                            !.tx = IF chip.tcp THEN @ ELSE 0]
    /\ hist' = [hist EXCEPT !.confirmed = IF chip.tcp THEN @ + chip.segment ELSE @]
    /\ UNCHANGED <<core, chan, gen, age>>

\* No acknowledgement (TCP), or no answer to the ARP request (UDP).
SendTimesOut ==
    /\ chip.segment > 0 /\ chip.ssr \in Connected \union {"UDP"}
    /\ chip' = [chip EXCEPT !.segment = 0, !.timeout = TRUE,
                            !.ssr = IF chip.tcp THEN "CLOSED" ELSE @]
    /\ ChipOnly

Acknowledge ==
    /\ chip.ssr \in Connected
    /\ \E n \in chip.written .. chip.tx - 1 : chip' = [chip EXCEPT !.tx = n]
    /\ ChipOnly

PeerSteps(from, to) == chip.ssr = from /\ chip' = [chip EXCEPT !.ssr = to] /\ ChipOnly

PeerConnects == PeerSteps("LISTEN", "SYNRECV")
HandshakeEnds == PeerSteps("SYNRECV", "ESTABLISHED")
PeerFinishes == PeerSteps("ESTABLISHED", "CLOSE_WAIT")

PeerSends ==
    /\ chip.ssr = "ESTABLISHED"
    /\ \E n \in 1 .. RxMem - chip.rx : chip' = [chip EXCEPT !.rx = @ + n]
    /\ ChipOnly

\* A reset from the peer, or a handshake or a retransmission that timed out.
ConnectionDrops ==
    /\ chip.ssr \in {"SYNRECV"} \union Connected
    /\ chip' = [chip EXCEPT !.ssr = "CLOSED", !.segment = 0]
    /\ ChipOnly

\* PlatformInit succeeds: it resets the chip and starts a generation.
PlatformInit ==
    /\ gen < MaxGeneration
    /\ gen' = gen + 1
    /\ chip' = BlankChip
    /\ UNCHANGED <<core, chan, age, hist>>
-----------------------------------------------------------------------------
\* channel_init has run, after the PlatformInit that precedes it.
Init ==
    /\ core = "waiting"
    /\ chan = [pending |-> "NONE", phase |-> "IDLE", connected |-> FALSE,
               sending |-> FALSE, octets |-> 0, faulted |-> FALSE,
               close |-> "IDLE", seen |-> 1]
    /\ chip = BlankChip
    /\ gen = 1 /\ age = 0
    /\ hist = [submitted |-> 0, confirmed |-> 0, reported |-> 0]

PollWith(s) ==
    \/ ReportError(s) \/ Open(s) \/ Listen(s) \/ KeepListening(s)
    \/ Connect(s) \/ PeerClosed(s)
Poll == \E s \in Readings : PollWith(s)

Receive ==
    \E s \in Readings :
        \/ ReceiveAdvances(s)
        \/ \E size \in Stable(chip.rx), capacity \in Capacities :
             ReceiveNothing(s, size, capacity) \/ ReceiveSome(s, size, capacity)

Send ==
    \E s \in Readings :
        \/ SendAdvances(s)
        \/ SendSegmentLost(s) \/ SendSegmentOpen(s) \/ SendSegmentDone(s)
        \/ \E free \in Stable(TxMem - chip.tx) : SendNothing(s, free) \/ SendSegment(s, free)

Close ==
    \/ CloseTimedOut
    \/ CloseTakesPending
    \/ \E free \in Stable(TxMem - chip.tx) : CloseChecksErratum(free) \/ CloseFindsSpace(free)
    \/ CloseIssuesUdpOpen \/ CloseWaits("UDP_OPEN_WAIT_CR", "UDP_OPEN_WAIT_STATE")
    \/ CloseIssuesDummySend \/ CloseWaits("DUMMY_SEND_WAIT_CR", "DUMMY_SEND_WAIT_RESULT")
    \/ CloseIssuesClose \/ CloseWaits("CLOSE_WAIT_CR", "CLOSE_WAIT_STATE")
    \/ \E s \in Readings : \/ CloseBegin(s) \/ CloseSeesUdp(s)
                           \/ CloseSeesDummySent(s) \/ CloseSeesClosed(s)

Network == \/ PeerConnects \/ HandshakeEnds \/ PeerFinishes \/ PeerSends
           \/ Acknowledge \/ ConnectionDrops

Next ==
    \/ Poll \/ Receive \/ Send \/ Close
    \/ TakeCommand \/ TakeEffect \/ SendSucceeds \/ SendTimesOut
    \/ Network
    \/ PlatformInit

\* The main loop calls Run for ever, the timer advances, the status register is
\* read correctly again and again, and the chip carries out what it was told.
Fairness ==
    /\ WF_vars(PollWith(chip.ssr))
    /\ WF_vars(Close /\ (Synced.close = "IDLE" \/ age' # age))
    /\ WF_vars(TakeCommand)
    /\ WF_vars(TakeEffect)

Spec == Init /\ [][Next]_vars /\ Fairness
-----------------------------------------------------------------------------
\* A TCP CLOSE is never given while the TX buffer holds unsent data, whatever the
\* session was doing when it ended: W5300 erratum 1 cannot strike.
NoErratum == ~chip.wedged

\* A command is never written over one the chip has not taken.
OneCommand == [][chip'.cr \in {"NONE", chip.cr} \/ chip.cr = "NONE"]_vars

SendConfirmed ==
    /\ hist.reported <= hist.confirmed /\ hist.confirmed <= hist.submitted
    /\ core = "sending" =>
         /\ hist.submitted = hist.reported + chan.octets
         /\ chan.sending = (chan.octets # 0)

\* send reports only what the chip confirmed with SEND_OK and submits no octet of
\* a frame twice; receive hands over, in whole words and once, only what arrived.
OctetsOnce == SendConfirmed /\ chip.read <= chip.rx /\ chip.read % 2 = 0

\* close reports success only on a socket that is closed, with nothing in its
\* command register and nothing pending in the channel.
DoneIsClosed ==
    [][core = "closing" /\ core' = "waiting" /\ ~chan'.faulted =>
         chip.ssr = "CLOSED" /\ chip.cr = "NONE" /\ chan'.pending = "NONE"]_vars

\* A channel whose close failed stays out of service and leaves its socket alone
\* until PlatformInit runs again; after that it serves again.
FaultIsolates ==
    [][chan.faulted =>
         /\ chan'.faulted = (chan'.seen = chan.seen)
         /\ chan'.faulted => core' = "waiting" /\ chip'.cr \in {"NONE", chip.cr}]_vars

\* The Core never receives, sends or closes on a channel that refuses it: every
\* way into a session passes a channel that is in service.
InService ==
    /\ core \in {"receiving", "sending"} => ~chan.faulted /\ chan.close = "IDLE"
    /\ core = "closing" => ~chan.faulted

\* A session starts with no command or segment of an earlier one under way.
FreshSession ==
    [][core = "waiting" /\ core' = "receiving" =>
         /\ ~chan'.sending /\ chan'.octets = 0 /\ chan'.close = "IDLE"
         /\ chan'.pending \in {"NONE", "LISTEN"} /\ chip.read = 0]_vars

\* One session never reaches into the next, whatever the close between them met:
\* it is done or the channel is out of service, and the next one starts clean.
SessionsApart == []InService /\ DoneIsClosed /\ FaultIsolates /\ FreshSession

CloseEnds == core = "closing" ~> core # "closing"

\* A block that waits on a closed socket and is not faulted listens again.
Relistens ==
    core = "waiting" /\ chip.ssr = "CLOSED" /\ ~Synced.faulted ~> chip.ssr = "LISTEN"

\* The one way not to: the connection dropped before poll had seen the socket
\* listen, and the LISTEN stays pending on a closed socket (advance_target_state).
MissedListen == Synced.pending = "LISTEN" /\ chip.ssr = "CLOSED"

\* Every close ends, in success or in a fault, whatever the chip does, and a block
\* that then waits without a fault listens again, unless it missed its LISTEN.
ComesBack ==
    /\ CloseEnds
    /\ core = "waiting" /\ chip.ssr = "CLOSED" /\ ~Synced.faulted ~>
           chip.ssr = "LISTEN" \/ MissedListen
====
