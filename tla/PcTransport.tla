---- MODULE PcTransport ----
(***************************************************************************)
(* The three transports of the PC and the protocol client above them: how a *)
(* frame is sent and received against a deadline over a serial port          *)
(* (simulink/c2837x_block_pc_serial.c), a TCP socket (app/templates/         *)
(* pc_socket.c.in) or a UDP socket (pc_udp.c.in), driven by protocol.c.in.   *)
(*                                                                         *)
(* One deadline covers a frame, header and payload.  A transfer loops over   *)
(* reading the clock, waiting in the operating system and moving octets; the *)
(* steps are the parts of that loop, and time may pass between any two.      *)
(* Frames have lengths and no content.  Time is counted in units fine enough *)
(* to say where between two ticks or two milliseconds a call is made.        *)
(***************************************************************************)
EXTENDS Integers, Sequences

CONSTANTS
    Kinds,          \* transports considered, of "serial", "tcp", "udp"
    TickUnits,      \* units in a tick of the performance counter
    MsUnits,        \* units in a millisecond
    Timeouts,       \* timeouts of a frame, in milliseconds
    HeaderOctets,   \* octets of a header
    FrameOctets,    \* octets of a frame the S-function sends
    Capacity,       \* payload_capacity of its receive buffer
    MaxDatagram,    \* PC_UDP_MAX_DATAGRAM_SIZE: of the longest frame of any type
    Lengths,        \* payload lengths a received header may announce
    Sizes,          \* sizes of the datagrams that arrive
    MaxOctets,      \* bound: octets that wait to be read
    MaxQueue        \* bound: datagrams that wait to be read

ASSUME KindsAssumption == Kinds \subseteq {"serial", "tcp", "udp"}
ASSUME TimeAssumption ==
    /\ TickUnits \in Nat \ {0} /\ MsUnits \in Nat \ {0}
    /\ Timeouts \subseteq Nat \ {0}
ASSUME LengthsAssumption ==
    /\ HeaderOctets \in Nat \ {0} /\ FrameOctets \in Nat \ {0} /\ Capacity \in Nat
    /\ MaxDatagram \in Nat /\ MaxDatagram >= HeaderOctets + Capacity
    /\ Lengths \subseteq Nat /\ Sizes \subseteq Nat /\ MaxOctets \in Nat /\ MaxQueue \in Nat

VARIABLES
    kind,     \* the transport of this instance
    valid,    \* the handle is open
    call,     \* the frame being sent or received, and its deadline
    staged,   \* the UDP datagram of which the header was handed out
    now,      \* the time, in units, from a tick and millisecond before the call
    line,     \* what the operating system holds for the handle
    outcome,  \* how the last frame ended
    hist      \* history: octets of the frame moved, and due

vars == <<kind, valid, call, staged, now, line, outcome, hist>>

NoDatagram == [size |-> 0, length |-> 0]
NoCall == [op |-> "none", at |-> "check", left |-> 0, ms |-> 0, start |-> 0,
           expires |-> 0, armed |-> 0, wakes |-> 0]
Idle == call.op = "none"

\* Every field keeps its range: no transfer asks for or moves more than is left of
\* the frame, and none is behind its datagram.
TypeOK ==
    /\ kind \in Kinds /\ valid \in BOOLEAN /\ now \in Nat
    /\ call \in [op : {"none", "send", "header", "payload"},
                 at : {"check", "wait", "ready"},
                 left : Nat, ms : Timeouts \union {0}, start : Nat,
                 expires : Nat, armed : Nat, wakes : Nat]
    /\ staged \in [size : Nat, length : Nat]
    /\ line \in [rx : Nat, up : BOOLEAN, queue : Seq([size : Nat, length : Nat])]
    /\ outcome \in {"none", "whole", "TIMEOUT", "ERROR"}
    /\ hist \in [out : Nat, outdue : Nat, in : Nat, indue : Nat]
-----------------------------------------------------------------------------
\* Operators named Mutant... are slips the checks must be able to tell from the
\* definition below them; no behaviour of the specification uses one.

Lesser(m, n) == IF m < n THEN m ELSE n
RoundedUp(n, d) == (n + d - 1) \div d

\* The clock a deadline is kept in: ticks, or milliseconds computed from them.
Clock(t) == IF kind = "serial" THEN t \div TickUnits
            ELSE ((t \div TickUnits) * TickUnits) \div MsUnits
MutantDuration(ms) == IF kind = "serial" THEN (ms * MsUnits) \div TickUnits ELSE ms
Duration(ms) == IF kind = "serial" THEN RoundedUp(ms * MsUnits, TickUnits) ELSE ms

Expired == Clock(now) >= call.expires
MutantRemainingMs ==
    LET remaining == call.expires - Clock(now)
    IN  IF kind = "serial" THEN (remaining * TickUnits) \div MsUnits ELSE remaining
RemainingMs ==
    LET remaining == call.expires - Clock(now)
    IN  IF kind = "serial" THEN RoundedUp(remaining * TickUnits, MsUnits) ELSE remaining

\* A serial read or write armed with a total timeout of 0 has none.
Bounded == kind # "serial" \/ call.armed # 0
TimerFires == call.at = "wait" /\ Bounded /\ now >= call.wakes

\* fail: every failure of a transfer closes the handle, and what was staged is gone.
MutantFail(cause) ==
    /\ valid' = (cause = "TIMEOUT" /\ call.left < FrameOctets)
    /\ call' = NoCall /\ staged' = NoDatagram /\ now' = 0
    /\ outcome' = cause
    /\ UNCHANGED <<kind, line, hist>>
Fail(cause) ==
    /\ valid' = FALSE
    /\ call' = NoCall /\ staged' = NoDatagram /\ now' = 0
    /\ outcome' = cause
    /\ UNCHANGED <<kind, line, hist>>

\* The frame is complete.
Complete ==
    /\ call' = NoCall /\ now' = 0
    /\ outcome' = "whole"

Goto(at) == call' = [call EXCEPT !.at = at]
-----------------------------------------------------------------------------
\* The S-function opens a handle, and purges a serial port before it uses it.
Open ==
    /\ ~valid
    /\ valid' = TRUE
    /\ line' = [rx |-> 0, up |-> TRUE, queue |-> << >>]
    /\ outcome' = "none"
    /\ hist' = [out |-> 0, outdue |-> 0, in |-> 0, indue |-> 0]
    /\ UNCHANGED <<kind, call, staged, now>>

\* deadline_start, wherever between two ticks the call is made.
Begin(op, octets) ==
    \E ms \in Timeouts, phase \in 0 .. TickUnits * MsUnits - 1 :
        /\ now' = phase
        /\ call' = [op |-> op, at |-> "check", left |-> octets, ms |-> ms,
                    start |-> phase, expires |-> Clock(phase) + Duration(ms),
                    armed |-> 0, wakes |-> 0]

SendFrame ==
    /\ valid /\ Idle
    /\ Begin("send", FrameOctets)
    /\ hist' = [hist EXCEPT !.out = 0, !.outdue = FrameOctets]
    /\ UNCHANGED <<kind, valid, staged, line, outcome>>

ReceiveFrame ==
    /\ valid /\ Idle
    /\ Begin("header", HeaderOctets)
    /\ hist' = [hist EXCEPT !.in = 0, !.indue = HeaderOctets]
    /\ UNCHANGED <<kind, valid, staged, line, outcome>>

DeadlineFails == valid /\ Idle /\ Fail("ERROR")

\* The S-function ends the simulation, or does not like the frame it was given.
Close ==
    /\ valid /\ Idle
    /\ valid' = FALSE
    /\ UNCHANGED <<kind, call, staged, now, line, outcome, hist>>
-----------------------------------------------------------------------------
\* The loop of transfer_until, wait and stage_datagram_until.

Checks == ~Idle /\ call.at = "check"
NeedsWait == ~(kind = "udp" /\ call.op = "payload")
Waits == ~Idle /\ call.at = "wait"

CheckExpired == Checks /\ Expired /\ Fail("TIMEOUT")

\* remaining_deadline, then ReadFile, WriteFile, select or poll for as long.  Time the
\* process loses between the two is not modelled: the wait runs from the reading on.
Wait ==
    /\ Checks /\ NeedsWait /\ ~Expired
    /\ call' = [call EXCEPT !.at = "wait", !.armed = RemainingMs,
                            !.wakes = now + RemainingMs * MsUnits]
    /\ UNCHANGED <<kind, valid, staged, now, line, outcome, hist>>

\* What the wait is for: octets, the end of the stream, or a datagram.
Readable == line.rx > 0 \/ ~line.up \/ line.queue # << >>

\* select or poll reports the socket ready, and the deadline is looked at again;
\* whether it still is ready when it is used, nobody says.
Reported == Waits /\ kind # "serial" /\ (call.op = "send" \/ Readable)

SocketReady ==
    /\ Reported /\ ~Expired
    /\ Goto("ready")
    /\ UNCHANGED <<kind, valid, staged, now, line, outcome, hist>>

SocketTimeout ==
    /\ kind # "serial"
    /\ TimerFires \/ (Reported /\ Expired)
    /\ Fail("TIMEOUT")

\* EINTR in the wait; EINTR or EWOULDBLOCK behind it, which send_datagram does not
\* try again.
TryAgain ==
    /\ kind # "serial" /\ ~Idle
    /\ \/ call.at = "wait"
       \/ call.at = "ready" /\ ~(kind = "udp" /\ call.op = "send")
    /\ Goto("check")
    /\ UNCHANGED <<kind, valid, staged, now, line, outcome, hist>>

\* A clock that cannot be read, or any other error of the operating system.
SystemFails == ~Idle /\ Fail("ERROR")

\* Whether n octets may be what one call moves: a serial port comes back with fewer
\* than it was asked for only when its timer fires, a socket with any but none.
Moved(n, available) ==
    IF kind = "serial"
    THEN /\ call.at = "wait"
         /\ n = call.left \/ TimerFires
         /\ n = Lesser(call.left, available)
    ELSE call.at = "ready" /\ n \in 1 .. Lesser(call.left, available)

SendOctets ==
    /\ call.op = "send" /\ kind # "udp"
    /\ \E space \in 0 .. call.left, n \in 0 .. call.left :
         /\ Moved(n, space)
         /\ hist' = [hist EXCEPT !.out = @ + n]
         /\ IF n = call.left THEN Complete
            ELSE /\ call' = [call EXCEPT !.at = "check", !.left = @ - n]
                 /\ UNCHANGED <<now, outcome>>
    /\ UNCHANGED <<kind, valid, staged, line>>

\* send_datagram_until: all of the frame in one datagram, or a failure.
SendDatagram ==
    /\ call.op = "send" /\ kind = "udp"
    /\ call.at = "ready"
    /\ hist' = [hist EXCEPT !.out = @ + call.left]
    /\ Complete
    /\ UNCHANGED <<kind, valid, staged, line>>

\* protocol_recv_frame with a complete header that announces n octets: it goes on to
\* the payload, is done, or closes what it cannot take.
Acceptable(n) == n % 2 = 0 /\ n <= Capacity
Announced(n) ==
    IF ~Acceptable(n)
    THEN call' = NoCall /\ now' = 0 /\ outcome' = "ERROR" /\ valid' = FALSE
    ELSE /\ UNCHANGED valid
         /\ IF n = 0 THEN Complete
            ELSE /\ call' = [call EXCEPT !.op = "payload", !.at = "check", !.left = n]
                 /\ UNCHANGED <<now, outcome>>

MutantTaken(n) == call.left
Taken(n) == n

ReceiveOctets ==
    /\ call.op \in {"header", "payload"} /\ kind # "udp"
    /\ \E n \in 0 .. call.left :
         /\ Moved(n, line.rx)
         /\ line' = [line EXCEPT !.rx = @ - Taken(n)]
         /\ IF n < call.left
            THEN /\ call' = [call EXCEPT !.at = "check", !.left = @ - n]
                 /\ hist' = [hist EXCEPT !.in = @ + Taken(n)]
                 /\ UNCHANGED <<valid, now, outcome>>
            ELSE IF call.op = "payload"
            THEN /\ Complete
                 /\ hist' = [hist EXCEPT !.in = @ + Taken(n)]
                 /\ UNCHANGED valid
            ELSE \E length \in Lengths :
                   /\ hist' = [hist EXCEPT !.in = @ + Taken(n), !.indue = HeaderOctets + length]
                   /\ Announced(length)
    /\ UNCHANGED <<kind, staged>>

\* recv returns 0.
Disconnected ==
    /\ kind = "tcp" /\ call.op \in {"header", "payload"} /\ call.at = "ready"
    /\ line.rx = 0 /\ ~line.up
    /\ Fail("ERROR")
-----------------------------------------------------------------------------
\* pc_udp_recv_exact_until.  A datagram is taken whole; its header is handed out
\* first, its payload stays staged for the next call.

Fits(d) == /\ d.size >= HeaderOctets
           /\ d.length = 0 => d.size = HeaderOctets

TakesDatagram ==
    /\ kind = "udp" /\ call.op = "header" /\ call.at = "ready"
    /\ line.queue # << >>

ReceiveHeader ==
    /\ TakesDatagram
    /\ LET d == Head(line.queue)
       IN  /\ d.size <= MaxDatagram /\ Fits(d)
           /\ hist' = [hist EXCEPT !.in = d.size, !.indue = HeaderOctets + d.length]
           /\ staged' = IF d.length = 0 \/ ~Acceptable(d.length) THEN NoDatagram ELSE d
           /\ Announced(d.length)
    /\ line' = [line EXCEPT !.queue = Tail(@)]
    /\ UNCHANGED kind

\* Too long, too short for a header, or octets behind a header without payload.
ReceiveBadDatagram ==
    /\ TakesDatagram
    /\ LET d == Head(line.queue) IN d.size > MaxDatagram \/ ~Fits(d)
    /\ Fail("ERROR")

UdpPayload == kind = "udp" /\ call.op = "payload" /\ Checks /\ ~Expired

AllThere == staged.size = HeaderOctets + staged.length

ReceivePayload ==
    /\ UdpPayload /\ AllThere
    /\ staged' = NoDatagram
    /\ Complete
    /\ UNCHANGED <<kind, valid, line, hist>>

ReceiveBadPayload == UdpPayload /\ ~AllThere /\ Fail("ERROR")
-----------------------------------------------------------------------------
\* External: the peer, the operating system, and time.

OctetArrives ==
    /\ valid /\ kind # "udp" /\ line.up /\ line.rx < MaxOctets
    /\ line' = [line EXCEPT !.rx = @ + 1]
    /\ UNCHANGED <<kind, valid, call, staged, now, outcome, hist>>

PeerCloses ==
    /\ valid /\ kind = "tcp" /\ line.up
    /\ line' = [line EXCEPT !.up = FALSE]
    /\ UNCHANGED <<kind, valid, call, staged, now, outcome, hist>>

DatagramArrives ==
    /\ valid /\ kind = "udp" /\ Len(line.queue) < MaxQueue
    /\ \E size \in Sizes, length \in Lengths :
         line' = [line EXCEPT !.queue = Append(@, [size |-> size, length |-> length])]
    /\ UNCHANGED <<kind, valid, call, staged, now, outcome, hist>>

\* What rounding to ticks and milliseconds may add to a wait.
Grain == MsUnits + 2 * TickUnits
\* A wait ends when its timer fires; the last moment in which anything can happen.
Tick ==
    /\ ~Idle /\ ~TimerFires
    /\ now <= call.start + call.ms * MsUnits + Grain
    /\ now' = now + 1
    /\ UNCHANGED <<kind, valid, call, staged, line, outcome, hist>>
-----------------------------------------------------------------------------
Init ==
    /\ kind \in Kinds /\ valid = FALSE /\ call = NoCall /\ staged = NoDatagram
    /\ now = 0 /\ outcome = "none"
    /\ line = [rx |-> 0, up |-> TRUE, queue |-> << >>]
    /\ hist = [out |-> 0, outdue |-> 0, in |-> 0, indue |-> 0]

Transfer ==
    \/ CheckExpired \/ Wait \/ SocketTimeout \/ SendOctets \/ SendDatagram
    \/ ReceiveOctets \/ Disconnected \/ ReceiveHeader \/ ReceiveBadDatagram
    \/ ReceivePayload \/ ReceiveBadPayload

Next ==
    \/ Open \/ SendFrame \/ ReceiveFrame \/ DeadlineFails \/ Close
    \/ Transfer \/ SocketReady \/ TryAgain \/ SystemFails
    \/ OctetArrives \/ PeerCloses \/ DatagramArrives \/ Tick

\* The PC computes and time passes; no peer and no readiness of a socket is fair.
Spec == Init /\ [][Next]_vars /\ WF_vars(Transfer) /\ WF_vars(Tick)
-----------------------------------------------------------------------------
\* A handle that is open and not in use stands between two frames in either
\* direction: a frame that was cut short, announced too long or put together
\* from a datagram of another length is never followed by another one.
FrameBoundary ==
    valid /\ Idle =>
        /\ hist.out = hist.outdue /\ hist.in = hist.indue
        /\ staged = NoDatagram

\* No frame waits in the operating system beyond its deadline, whatever was received
\* in between, and none is given up before it, but for the grain of the clocks (and for
\* what the process loses between reading the clock and waiting, see Wait).
Due == call.start + call.ms * MsUnits
DeadlineExact ==
    /\ [](Waits => now < Due + Grain)
    /\ [][~Idle /\ call'.op = "none" /\ outcome' = "TIMEOUT" =>
            Due < now + TickUnits + (IF kind = "serial" THEN 0 ELSE MsUnits)]_vars

\* Every frame is over some time, whoever is silent or sends for ever.
CallEnds == ~Idle ~> Idle
====
