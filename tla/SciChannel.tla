---- MODULE SciChannel ----
(***************************************************************************)
(* The SCI IoDevice (dsp/src/c2837x_block_sci.c), driven by the calls the   *)
(* Core makes, against one SCI peripheral in polled FIFO mode and, for a     *)
(* half-duplex line, the CTRL pin of its transceiver.                        *)
(*                                                                         *)
(* A step is one IoDevice call, or one octet that comes from or goes to the  *)
(* line.  The calls that read the receiver are taken apart where it can run  *)
(* in between: the look at the latched errors, the look at the level of the   *)
(* FIFO, and every read of an octet are steps of their own.                  *)
(* Octets have numbers instead of values: those that reach the receiver are  *)
(* numbered from 1, those of an answer by their place in it.                 *)
(* The peripheral is external: it is what the code takes it to be.           *)
(***************************************************************************)
EXTENDS Integers, Sequences

CONSTANTS
    Depth,           \* depth of either FIFO; 16 in the code
    HeaderOctets,    \* C2837X_BLOCK_HEADER_SIZE_BYTES
    Payloads,        \* octets of payload a valid header may announce
    FrameOctets,     \* length of an answer
    Controls,        \* transceivers considered: "NONE", active "HIGH" or "LOW"
    MaxOctets        \* bound: octets that reach the receiver

Even(n) == n % 2 = 0
Lesser(m, n) == IF m < n THEN m ELSE n

ASSUME DepthAssumption == Depth \in Nat \ {0}
ASSUME OctetsAssumption ==
    /\ HeaderOctets \in Nat \ {0} /\ Even(HeaderOctets)
    /\ FrameOctets \in Nat \ {0} /\ Even(FrameOctets)
    /\ Payloads \subseteq Nat /\ \A p \in Payloads : Even(p)
    /\ MaxOctets \in Nat
ASSUME ControlsAssumption == Controls \subseteq {"NONE", "HIGH", "LOW"}

VARIABLES
    core,   \* what the Core is doing, and octets left of what it reads
    chan,   \* C2837xBlock_SciChannel
    call,   \* how far a call that reads the receiver has come, and its locals
    chip,   \* the registers of the SCI module, its shifter, and the CTRL pin
    hist    \* history: what the Core was given, and what left on the line

vars == <<core, chan, call, chip, hist>>

NoOctet == 0
Garbled == MaxOctets + 1        \* an octet the FIFO holds with its framing error
Octets == 1 .. Garbled

\* Between two calls.
Idle == [at |-> "none", toRead |-> 0, produces |-> 0, taken |-> << >>]

\* Every field keeps its range; neither FIFO exceeds its depth.
TypeOK ==
    /\ core \in [doing : {"waiting", "header", "payload", "sending", "closing"},
                 left : Nat]
    /\ chan \in [ctrl : Controls,          \* hardware_config->ctrl
                 state : {"CLOSED", "OPEN", "LISTENING", "CONNECTED"},
                 clean : BOOLEAN,          \* session_cleanup_done
                 staged : 0 .. Garbled,    \* rx_staging_octet, valid unless NoOctet
                 pending : BOOLEAN,        \* software_pending
                 queued : 0 .. FrameOctets,
                 driving : BOOLEAN]        \* ctrl_tx_active
    /\ call \in [at : {"none", "checked", "reading"},
                 toRead : Nat,             \* reads of SCIRXBUF still to make
                 produces : Nat,           \* octets it will return
                 taken : Seq(Octets)]      \* octets read so far
    /\ chip \in [rx : Seq(Octets), error : BOOLEAN,
                 tx : Seq(1 .. FrameOctets), shifter : 0 .. FrameOctets,
                 pin : 0 .. 1]
    /\ Len(chip.rx) <= Depth /\ Len(chip.tx) <= Depth
    /\ hist \in [heard : 0 .. MaxOctets,   \* octets that reached the receiver
                 given : 0 .. MaxOctets,   \* those given to the Core or thrown away
                 whole : BOOLEAN,          \* none was skipped, spoilt, repeated or swapped
                 out : 0 .. FrameOctets]   \* octets of the answer that left
-----------------------------------------------------------------------------
\* Operators named Mutant... are slips the checks must be able to tell from the
\* definition below them; no behaviour of the specification uses one.

HasCtrl(c) == c.ctrl # "NONE"
RxLevel(c) == IF c.ctrl = "HIGH" THEN 0 ELSE 1
TxLevel(c) == IF c.ctrl = "HIGH" THEN 1 ELSE 0

\* GPIO_WritePin, where there is a pin to write.
Written(c, h, level) == IF HasCtrl(c) THEN [h EXCEPT !.pin = level] ELSE h

ResetRuntime(c) ==
    [c EXCEPT !.staged = NoOctet, !.pending = FALSE, !.queued = 0, !.driving = FALSE]

\* What session_cleanup does to the module: both FIFOs empty, no error latched,
\* and, by SWRESET, nothing left in the shifter.
MutantFlushKeepsTx(h) == [h EXCEPT !.rx = << >>, !.error = FALSE]
Flushed(h) ==
    [h EXCEPT !.rx = << >>, !.error = FALSE, !.tx = << >>, !.shifter = NoOctet]

\* session_cleanup, with the state the channel is left in.
SessionCleanup(state) ==
    /\ chan' = [ResetRuntime(chan) EXCEPT !.state = state, !.clean = TRUE]
    /\ chip' = Written(chan, Flushed(chip), RxLevel(chan))
    /\ hist' = [hist EXCEPT !.given = hist.heard, !.whole = TRUE, !.out = 0]

CloseAfterError == SessionCleanup("CLOSED")

HasRxError == chip.error
-----------------------------------------------------------------------------
\* The Core waits for a peer: get_connection_state, then what its answer asks for.
Waiting == core.doing = "waiting"

Open ==
    /\ Waiting /\ chan.state = "CLOSED"
    /\ chan' = [chan EXCEPT !.state = "OPEN"]
    /\ UNCHANGED <<core, call, chip, hist>>

\* The first listen after channel_init cleans up; a later one finds it done.
Listen ==
    /\ Waiting /\ chan.state = "OPEN"
    /\ IF chan.clean
       THEN /\ chan' = [chan EXCEPT !.state = "LISTENING"]
            /\ UNCHANGED <<chip, hist>>
       ELSE SessionCleanup("LISTENING")
    /\ UNCHANGED <<core, call>>

\* get_connection_state while LISTENING: an error closes; without one the level of
\* the FIFO is looked at next.  The first octet connects and stays in the FIFO, and
\* the Core then starts to read a header.
Listening == Waiting /\ chan.state = "LISTENING"

ListeningFails ==
    /\ Listening /\ call.at = "none" /\ HasRxError
    /\ CloseAfterError
    /\ UNCHANGED <<core, call>>

MutantNoErrorSeen ==
    /\ call.at = "none"
    /\ call' = [call EXCEPT !.at = "checked"]
    /\ UNCHANGED <<core, chan, chip, hist>>
NoErrorSeen ==
    /\ call.at = "none" /\ ~HasRxError
    /\ call' = [call EXCEPT !.at = "checked"]
    /\ UNCHANGED <<core, chan, chip, hist>>

ListeningChecks == Listening /\ NoErrorSeen

MutantAcceptPair ==
    /\ Listening /\ call.at = "checked" /\ chip.rx # << >>
    /\ call' = Idle
    /\ IF Len(chip.rx) = 1
       THEN UNCHANGED <<core, chan>>
       ELSE /\ chan' = [chan EXCEPT !.state = "CONNECTED"]
            /\ core' = [doing |-> "header", left |-> HeaderOctets]
    /\ UNCHANGED <<chip, hist>>
Accept ==
    /\ Listening /\ call.at = "checked" /\ chip.rx # << >>
    /\ call' = Idle
    /\ chan' = [chan EXCEPT !.state = "CONNECTED"]
    /\ core' = [doing |-> "header", left |-> HeaderOctets]
    /\ UNCHANGED <<chip, hist>>

KeepListening ==
    /\ Listening /\ call.at = "checked" /\ chip.rx = << >>
    /\ call' = Idle
    /\ UNCHANGED <<core, chan, chip, hist>>
-----------------------------------------------------------------------------
Reading == core.doing \in {"header", "payload"} /\ chan.state = "CONNECTED"

\* receive refuses: the transceiver drives the line, or an error is latched.
ReceiveFails ==
    /\ Reading /\ call.at = "none"
    /\ chan.driving \/ HasRxError
    /\ CloseAfterError
    /\ core' = [doing |-> "closing", left |-> 0]
    /\ UNCHANGED call

\* This is its only look at the latch: what it does next is not undone by an error
\* that comes later.
ReceiveChecks == Reading /\ ~chan.driving /\ NoErrorSeen

\* With the level of the FIFO it is settled how many octets receive returns, and
\* whether it then puts one aside: a staged octet takes the first of those available,
\* the rest goes by pairs, and what is left over is staged only if a word of the
\* caller's would hold it.
StagedCount == IF chan.staged = NoOctet THEN 0 ELSE 1
Available == Len(chip.rx) + StagedCount
Produced ==
    LET pairs == Available \div 2
    IN  2 * (IF 2 * pairs <= core.left THEN pairs ELSE core.left \div 2)
Stages == Available > Produced /\ Produced < core.left
Taken == Produced + (IF Stages THEN 1 ELSE 0)

ReceiveCounts ==
    /\ Reading /\ call.at = "checked"
    /\ call' = [call EXCEPT !.at = "reading", !.toRead = Taken - StagedCount,
                            !.produces = Produced]
    /\ UNCHANGED <<core, chan, chip, hist>>

\* One octet at a time, whatever the FIFO then has first.
ReadOctet ==
    /\ call.at = "reading" /\ call.toRead > 0
    /\ call' = [call EXCEPT !.toRead = @ - 1, !.taken = Append(@, Head(chip.rx))]
    /\ chip' = [chip EXCEPT !.rx = Tail(@)]
    /\ UNCHANGED <<core, chan, hist>>

\* What the call has in hand, and with it all that is on its way to the Core.
Gathered == (IF chan.staged = NoOctet THEN << >> ELSE <<chan.staged>>) \o call.taken
Held == Gathered \o chip.rx

MutantAfterReceive ==
    [chan EXCEPT !.staged = IF Len(Gathered) > call.produces
                            THEN Gathered[call.produces + 1] ELSE @]
AfterReceive ==
    [chan EXCEPT !.staged = IF Len(Gathered) > call.produces
                            THEN Gathered[call.produces + 1] ELSE NoOctet]

\* The Core calls again, or its timer has expired and it ends the session.
NoProgress == core' \in {core, [doing |-> "closing", left |-> 0]}

\* What the Core does with n octets more: it reads on, goes for the payload, answers,
\* or ends the session.
CoreAfter(n) ==
    IF n < core.left THEN {[core EXCEPT !.left = @ - n]}
    ELSE {[doing |-> "sending", left |-> 0], [doing |-> "closing", left |-> 0]}
         \union (IF core.doing = "payload" THEN {}
                 ELSE {[doing |-> "payload", left |-> p] : p \in Payloads \ {0}})

ReceiveReturns ==
    /\ call.at = "reading" /\ call.toRead = 0
    /\ IF call.produces = 0 THEN NoProgress ELSE core' \in CoreAfter(call.produces)
    /\ chan' = AfterReceive
    /\ call' = Idle
    /\ hist' = [hist EXCEPT
           !.given = @ + call.produces,
           !.whole = @ /\ \A i \in 1 .. call.produces : Gathered[i] = hist.given + i]
    /\ UNCHANGED chip
-----------------------------------------------------------------------------
\* send.  The Core calls it with the same words and count until it is confirmed,
\* so that none of its refusals is met: Consistent.
Sending == core.doing = "sending" /\ chan.state = "CONNECTED"

\* As many octets as the FIFO has room for, appended in order.
MutantQueuedBlind(c) ==
    LET n == Lesser(Depth, FrameOctets - c.queued)
    IN  [chan |-> [c EXCEPT !.pending = TRUE, !.queued = @ + n],
         chip |-> [chip EXCEPT !.tx = @ \o [i \in 1 .. n |-> c.queued + i]]]
Queued(c) ==
    LET n == Lesser(Depth - Len(chip.tx), FrameOctets - c.queued)
    IN  [chan |-> [c EXCEPT !.pending = TRUE, !.queued = @ + n],
         chip |-> [chip EXCEPT !.tx = @ \o [i \in 1 .. n |-> c.queued + i]]]

\* A half-duplex line is first turned to TX, and that is all the first call does.
StartDriven ==
    /\ Sending /\ ~chan.pending /\ HasCtrl(chan)
    /\ chan' = [chan EXCEPT !.pending = TRUE, !.queued = 0, !.driving = TRUE]
    /\ chip' = Written(chan, chip, TxLevel(chan))
    /\ hist' = [hist EXCEPT !.out = 0]
    /\ UNCHANGED call
    /\ NoProgress

StartFree ==
    /\ Sending /\ ~chan.pending /\ ~HasCtrl(chan)
    /\ chan' = Queued(chan).chan /\ chip' = Queued(chan).chip
    /\ hist' = [hist EXCEPT !.out = 0]
    /\ UNCHANGED call
    /\ NoProgress

Fill ==
    /\ Sending /\ chan.pending /\ chan.queued < FrameOctets
    /\ chan' = Queued(chan).chan /\ chip' = Queued(chan).chip
    /\ UNCHANGED <<call, hist>>
    /\ NoProgress

\* FIFO empty and TXEMPTY: the last stop bit is out.
Drained == chip.tx = << >> /\ chip.shifter = NoOctet

AwaitDrained ==
    /\ Sending /\ chan.pending /\ chan.queued = FrameOctets /\ ~Drained
    /\ UNCHANGED <<chan, call, chip, hist>>
    /\ NoProgress

\* The answer is confirmed: the Core reads on or ends the session.
MutantConfirm ==
    /\ Sending /\ chan.pending /\ chan.queued = FrameOctets /\ Drained
    /\ chan' = [chan EXCEPT !.pending = FALSE, !.queued = 0]
    /\ UNCHANGED <<call, chip, hist>>
    /\ core' \in {[doing |-> "header", left |-> HeaderOctets],
                  [doing |-> "closing", left |-> 0]}
Confirm ==
    /\ Sending /\ chan.pending /\ chan.queued = FrameOctets /\ Drained
    /\ chan' = [chan EXCEPT !.pending = FALSE, !.queued = 0, !.driving = FALSE]
    /\ chip' = Written(chan, chip, RxLevel(chan))
    /\ UNCHANGED <<call, hist>>
    /\ core' \in {[doing |-> "header", left |-> HeaderOctets],
                  [doing |-> "closing", left |-> 0]}
-----------------------------------------------------------------------------
\* close: one call, which cleans up unless an error already did.
Close ==
    /\ core.doing = "closing"
    /\ IF chan.clean /\ chan.state = "CLOSED"
       THEN UNCHANGED <<chan, chip, hist>>
       ELSE SessionCleanup("CLOSED")
    /\ core' = [doing |-> "waiting", left |-> 0]
    /\ UNCHANGED call
-----------------------------------------------------------------------------
(* External: the line and the peripheral.  An octet that comes while the       *)
(* transceiver drives the line never reaches the receiver, and is no step.     *)

Listens == ~HasCtrl(chan) \/ chip.pin = RxLevel(chan)

OctetArrives ==
    /\ Listens /\ hist.heard < MaxOctets /\ Len(chip.rx) < Depth
    /\ chip' = [chip EXCEPT !.rx = Append(@, hist.heard + 1)]
    /\ hist' = [hist EXCEPT !.heard = @ + 1]
    /\ UNCHANGED <<core, chan, call>>

\* A full FIFO drops its oldest or the new octet and latches RXFFOVF.
Overrun ==
    /\ Listens /\ hist.heard < MaxOctets /\ Len(chip.rx) = Depth
    /\ \E kept \in {chip.rx, Append(Tail(chip.rx), hist.heard + 1)} :
           chip' = [chip EXCEPT !.rx = kept, !.error = TRUE]
    /\ hist' = [hist EXCEPT !.heard = @ + 1]
    /\ UNCHANGED <<core, chan, call>>

\* An octet is lost to a framing or break error, or the FIFO has it as it came: the
\* code masks the flags beside it away.  RXERROR latches either.
LineError ==
    /\ Listens /\ hist.heard < MaxOctets
    /\ \E kept \in {chip.rx} \union
                   (IF Len(chip.rx) < Depth THEN {Append(chip.rx, Garbled)} ELSE {}) :
           chip' = [chip EXCEPT !.rx = kept, !.error = TRUE]
    /\ hist' = [hist EXCEPT !.heard = @ + 1]
    /\ UNCHANGED <<core, chan, call>>

\* The transmitter takes an octet from the FIFO; the octet leaves, stop bit last.
ShifterLoads ==
    /\ chip.shifter = NoOctet /\ chip.tx # << >>
    /\ chip' = [chip EXCEPT !.shifter = Head(chip.tx), !.tx = Tail(@)]
    /\ UNCHANGED <<core, chan, call, hist>>

OctetLeaves ==
    /\ chip.shifter # NoOctet
    /\ chip' = [chip EXCEPT !.shifter = NoOctet]
    /\ hist' = [hist EXCEPT !.out = chip.shifter]
    /\ UNCHANGED <<core, chan, call>>
-----------------------------------------------------------------------------
\* After PlatformInit and channel_init: CTRL is at its RX level.
Init ==
    \E ctrl \in Controls :
        /\ core = [doing |-> "waiting", left |-> 0]
        /\ chan = [ctrl |-> ctrl, state |-> "CLOSED", clean |-> FALSE,
                   staged |-> NoOctet, pending |-> FALSE, queued |-> 0,
                   driving |-> FALSE]
        /\ call = Idle
        /\ chip = [rx |-> << >>, error |-> FALSE, tx |-> << >>, shifter |-> NoOctet,
                   pin |-> IF ctrl = "HIGH" THEN 0 ELSE 1]
        /\ hist = [heard |-> 0, given |-> 0, whole |-> TRUE, out |-> 0]

Run ==
    \/ Open \/ Listen \/ ListeningFails \/ ListeningChecks \/ Accept \/ KeepListening
    \/ ReceiveFails \/ ReceiveChecks \/ ReceiveCounts \/ ReadOctet \/ ReceiveReturns
    \/ StartDriven \/ StartFree \/ Fill \/ AwaitDrained \/ Confirm
    \/ Close
Line == OctetArrives \/ Overrun \/ LineError
Transmitter == ShifterLoads \/ OctetLeaves

Next == Run \/ Line \/ Transmitter

\* The application's loop calls Run for ever, and the transmitter never stops.  No
\* timer that ends an answer is fair: what must happen happens also without it.
TimerEndsSend == core.doing = "sending" /\ core'.doing = "closing" /\ chan'.pending
Spec == Init /\ [][Next]_vars /\ WF_vars(Run /\ ~TimerEndsSend) /\ WF_vars(Transmitter)
-----------------------------------------------------------------------------
(* Properties.                                                               *)

Consecutive(s, from) == \A i \in DOMAIN s : s[i] = from + i

\* Odd-octet staging never reads past the frame: an octet is staged only while
\* the Core wants at least the word it starts, and none outlives its session.  The
\* level a call has seen covers all its reads, although the FIFO may overrun meanwhile.
NeverReadsAhead ==
    /\ Reading => core.left > 0 /\ Even(core.left)
    /\ chan.staged # NoOctet => core.doing \in {"header", "payload", "closing"}
    /\ call.toRead <= Len(chip.rx)

\* While no error is latched, what the Core was given is what came over the line since
\* the last cleanup, in order, whole and without a gap, and what a call has in hand,
\* what is staged and what waits in the FIFO continues it; and there are never more of
\* them than came.  The latch is looked at once, before the FIFO is read, so that the
\* call under way when an octet is lost or spoilt may hand over that octet or those
\* behind the gap.  It is the last to do so: none passes its look at the latch on top
\* of them.
InOrder ==
    /\ NeverReadsAhead
    /\ hist.given + Len(Held) <= hist.heard
    /\ call.at # "none" => hist.whole
    /\ ~chip.error => /\ hist.whole
                      /\ Consecutive(Held, hist.given)
                      /\ hist.given + Len(Held) = hist.heard

\* The contradictions send defends against never arise: an operation is pending
\* only while the Core sends or ends the session, and the transceiver drives the
\* line exactly while one is.
Consistent ==
    /\ chan.pending => core.doing \in {"sending", "closing"}
    /\ chan.driving = (chan.pending /\ HasCtrl(chan))
    /\ core.doing \in {"header", "payload", "sending"} => chan.state = "CONNECTED"

\* The CTRL pin follows ctrl_tx_active, and no octet is on its way out of a
\* half-duplex module whose transceiver does not drive the line.
LineDriven ==
    /\ Consistent
    /\ HasCtrl(chan) =>
         /\ chip.pin = IF chan.driving THEN TxLevel(chan) ELSE RxLevel(chan)
         /\ ~Drained => chan.driving

\* Every octet of the answer is queued once and in order.
QueuedOnce ==
    LET leaving == (IF chip.shifter = NoOctet THEN << >> ELSE <<chip.shifter>>) \o chip.tx
    IN  IF chan.pending
        THEN Consecutive(leaving, hist.out) /\ hist.out + Len(leaving) = chan.queued
        ELSE leaving = << >>

\* send reports progress only when the whole answer has left, stop bit included,
\* and by then the line has been turned back to RX.
SendConfirmed ==
    [][core.doing = "sending" /\ core'.doing = "header" =>
           /\ hist.out = FrameOctets /\ chip.shifter = NoOctet /\ chip.tx = << >>
           /\ HasCtrl(chan) => chip'.pin = RxLevel(chan)]_vars

\* An answer split over many send calls goes out once, whole and before the Core
\* hears of it.
SentOnce == []QueuedOnce /\ SendConfirmed

\* An answer is confirmed, with no timer to end the session instead.
SendEnds == core.doing = "sending" ~> core.doing # "sending"

\* The channel never stays closed, whatever error closed it.
Relistens == chan.state \in {"CLOSED", "OPEN"} ~> chan.state = "LISTENING"

\* The first octet in the FIFO of a channel that listens gets a session, or its
\* error a cleanup.
FirstOctetHeard ==
    (chan.state = "LISTENING" /\ chip.rx # << >>) ~> chan.state # "LISTENING"

\* A session that was given octets from behind a gap ends, be they a whole frame that
\* is answered first: its next receive finds the error.
GapEnds == ~hist.whole ~> hist.whole

\* Between two sessions the channel always comes back to the line, and a session
\* is never stuck in an answer nor goes on behind a gap.
ComesBack == SendEnds /\ Relistens /\ FirstOctetHeard /\ GapEnds
====
