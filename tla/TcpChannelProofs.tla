---- MODULE TcpChannelProofs ----
(***************************************************************************)
(* Theorems about TcpChannel for buffers, frames and capacities of any size *)
(* and any number of generations: TypeOK, NoErratum, OctetsOnce, OneCommand *)
(* and SessionsApart.                                                       *)
(*                                                                         *)
(* The argument is about what the channel may take for granted of a chip    *)
(* that moves between its calls.  A channel that is in step with the chip   *)
(* (chan.seen = gen) and the chip satisfy Live; one that has not yet looked *)
(* at a chip PlatformInit has reset knows nothing, but finds it blank.  So  *)
(* sync_platform_generation brings a channel into step (SyncedInStep), and  *)
(* each call keeps it there.                                                *)
(***************************************************************************)
EXTENDS TcpChannel, TLAPS

\* The stages of close on a socket that was opened again as UDP.
UdpPath == {"UDP_OPEN_WAIT_CR", "UDP_OPEN_WAIT_STATE", "DUMMY_WAIT_TX_SPACE",
            "DUMMY_SEND_ISSUE", "DUMMY_SEND_WAIT_CR", "DUMMY_SEND_WAIT_RESULT"}
\* The stages of close that wait for no command.
Idling == {"CHECK_ERRATUM", "UDP_OPEN_ISSUE", "DUMMY_WAIT_TX_SPACE", "DUMMY_SEND_ISSUE", "CLOSE_ISSUE"}

\* What each stage of close has in flight.
Staged(c) ==
    /\ c.close \in Idling => c.pending = "NONE"
    /\ c.close = "IDLE" => c.pending \in {"NONE", "OPEN", "LISTEN", "RECV", "SEND"}
    /\ c.close = "WAIT_EXISTING_CR" => c.pending \in {"LISTEN", "RECV", "SEND"}
    /\ c.close = "UDP_OPEN_WAIT_CR" => c.pending = "UDP_OPEN" /\ c.phase = "WAIT_CR"
    /\ c.close = "UDP_OPEN_WAIT_STATE" => c.pending = "UDP_OPEN" /\ c.phase = "WAIT_TARGET"
    /\ c.close = "DUMMY_SEND_WAIT_CR" => c.pending = "DUMMY_SEND" /\ c.phase = "WAIT_CR"
    /\ c.close = "DUMMY_SEND_WAIT_RESULT" => c.pending = "DUMMY_SEND" /\ c.phase = "WAIT_TARGET"
    /\ c.close = "CLOSE_WAIT_CR" => c.pending = "CLOSE" /\ c.phase = "WAIT_CR"
    /\ c.close = "CLOSE_WAIT_STATE" => c.pending = "CLOSE" /\ c.phase = "WAIT_TARGET"

\* What the Core (k) and the channel (c) know of each other: a faulted channel only
\* waits, and only a closing one is at a stage of close.
Shape(k, c) ==
    /\ c.phase = "IDLE" <=> c.pending = "NONE"
    /\ c.faulted = TRUE <=> c.close = "FAULTED"
    /\ c.close = "FAULTED" => k = "waiting"
    /\ c.close \notin {"IDLE", "FAULTED"} => k = "closing"
    /\ k \in {"waiting", "receiving"} => c.sending = FALSE /\ c.octets = 0

\* A command in the register (h is the chip) is the one that is pending.
Register(p) == CASE p = "UDP_OPEN" -> "OPEN" [] p = "DUMMY_SEND" -> "SEND" [] OTHER -> p
InRegister(c, h) == h.cr # "NONE" => c.phase = "WAIT_CR" /\ h.cr = Register(c.pending)

\* Octets are read under RECV and written under SEND, never more than arrived.
Counts(h) ==
    /\ h.read # 0 => h.cr = "RECV"
    /\ h.written # 0 => h.cr = "SEND"
    /\ h.read <= h.rx /\ h.read % 2 = 0

\* Why erratum 1 does not strike: a CLOSE is given to an empty buffer or to UDP.
Emptied(c, h) ==
    /\ c.close \in UdpPath => h.tcp = FALSE
    /\ c.close = "CLOSE_ISSUE" \/ h.cr = "CLOSE" => h.tcp = FALSE \/ h.tx = 0
    /\ c.close = "DUMMY_SEND_ISSUE" => h.tx < TxMem
    /\ c.close \in UdpPath \ {"UDP_OPEN_WAIT_CR", "UDP_OPEN_WAIT_STATE"} =>
          h.ssr = "UDP" /\ h.doing \in {"NONE", "OPEN"}
    /\ c.close \in {"UDP_OPEN_WAIT_CR", "UDP_OPEN_WAIT_STATE"} /\ h.cr = "NONE" =>
          h.doing \in {"NONE", "OPEN"}
    /\ c.close \in {"CLOSE_WAIT_CR", "CLOSE_WAIT_STATE"} /\ h.cr = "NONE" =>
          h.doing \in {"NONE", "CLOSE"}

\* A SEND of the frame confirms at most what was submitted (t is the history), and a
\* segment outlives its TCP session only as UDP.
Sums(c, h, t) ==
    /\ h.tcp = TRUE => t.confirmed + h.segment + h.written <= t.submitted
    /\ c.faulted = FALSE /\ h.tcp = FALSE /\ h.segment # 0 => c.close \in UdpPath \/ h.ssr = "UDP"
    /\ c.pending = "SEND" => h.tcp = TRUE

\* A segment send has not reported is in the register, under way or done with.
Outstanding(k, c, h, t) ==
    k = "sending" =>
      IF c.sending = TRUE
      THEN /\ h.sendok = TRUE => h.segment = 0 /\ t.reported + c.octets <= t.confirmed
           /\ h.cr = "SEND" => h.written = c.octets /\ h.segment = 0 /\ h.sendok = FALSE
           /\ h.cr # "SEND" => h.segment \in {0, c.octets}
           /\ c.pending \in {"NONE", "SEND"}
      ELSE h.segment = 0 /\ c.pending \in {"NONE", "RECV"}

\* In a session no OPEN or CLOSE is at work, and the socket is a TCP socket.
InTouch(k, c, h) ==
    /\ k \in {"receiving", "sending"} \/ (k = "closing" /\ c.close = "IDLE") =>
          /\ h.doing = "NONE"
          /\ c.pending # "OPEN"
          /\ c.pending = "LISTEN" => h.cr = "NONE"
    /\ k \in {"receiving", "sending"} => h.tcp = TRUE
    /\ k = "receiving" => h.segment = 0 /\ c.pending \in {"NONE", "LISTEN", "RECV"}

\* The ways a channel in service waits for a peer, from the closed socket through
\* OPEN and LISTEN to the connection.
Awaiting(k, c, h) ==
    k = "waiting" /\ c.faulted = FALSE =>
       /\ h.doing \in {"OPEN", "LISTEN"} \/ h.ssr # "CLOSED" \/ c.pending # "NONE" =>
             h.tcp = TRUE
       /\ h.ssr # "UDP"
       /\ \/ /\ c.pending \in {"NONE", "OPEN"} /\ h.cr = c.pending
             /\ h.ssr = "CLOSED" /\ h.doing \in {"NONE", "CLOSE"}
          \/ /\ c.pending = "OPEN" /\ h.cr = "NONE"
             /\ h.ssr = "CLOSED" /\ h.doing = "OPEN"
          \/ /\ c.pending \in {"NONE", "OPEN"} /\ h.cr = "NONE" /\ h.segment = 0
             /\ h.ssr = "INIT" /\ h.doing = "NONE"
          \/ /\ c.pending = "LISTEN" /\ h.cr = "LISTEN" /\ h.segment = 0
             /\ h.ssr = "INIT" /\ h.doing = "NONE"
          \/ /\ c.pending = "LISTEN" /\ h.cr = "NONE" /\ h.segment = 0
             /\ h.ssr = "INIT" /\ h.doing = "LISTEN"
          \/ /\ c.pending = "LISTEN" /\ h.cr = "NONE" /\ h.segment = 0
             /\ h.ssr \in {"LISTEN", "SYNRECV", "ESTABLISHED", "CLOSE_WAIT", "CLOSED"} /\ h.doing = "NONE"

Live(k, c, h, t) ==
    /\ InRegister(c, h) /\ Counts(h) /\ Emptied(c, h) /\ Sums(c, h, t)
    /\ Outstanding(k, c, h, t) /\ InTouch(k, c, h) /\ Awaiting(k, c, h)

IInv ==
    /\ TypeOK /\ SendConfirmed /\ ~chip.wedged
    /\ Shape(core, chan) /\ Staged(chan) /\ chan.seen <= gen
    /\ chan.seen = gen => Live(core, chan, chip, hist)
    /\ chan.seen # gen => chip = BlankChip

-----------------------------------------------------------------------------
\* What the operators of the channel return.
Pendings == Commands \union {"UDP_OPEN", "DUMMY_SEND"}

LEMMA Bounds ==
    /\ TxMem \in Nat /\ RxMem \in Nat /\ FrameOctets \in Nat /\ CloseTimeout \in Nat
    /\ MaxGeneration \in Nat /\ 0 \in 0 .. TxMem /\ 0 \in 0 .. RxMem
BY SizesAssumption

LEMMA ReadingIs == \A s \in Readings : s \in Statuses => s = chip.ssr
BY GlitchAssumption DEF Readings

LEMMA IssuedFields ==
    ASSUME NEW c \in ChannelType, NEW p \in Pendings
    PROVE  LET d == Issued(c, p) IN
           /\ d \in ChannelType /\ d.pending = p /\ d.phase = "WAIT_CR"
           /\ d.connected = c.connected /\ d.sending = c.sending /\ d.octets = c.octets
           /\ d.faulted = c.faulted /\ d.close = c.close /\ d.seen = c.seen
BY DEF Issued, ChannelType, Pendings, Commands

LEMMA CompletedFields ==
    ASSUME NEW c \in ChannelType
    PROVE  LET d == Completed(c) IN
           /\ d \in ChannelType /\ d.pending = "NONE" /\ d.phase = "IDLE"
           /\ d.connected = c.connected /\ d.sending = c.sending /\ d.octets = c.octets
           /\ d.faulted = c.faulted /\ d.close = c.close /\ d.seen = c.seen
BY DEF Completed, ChannelType, Commands

LEMMA ResetFields ==
    ASSUME NEW c \in ChannelType
    PROVE  LET d == ResetRuntime(c) IN
           /\ d \in ChannelType /\ d.pending = "NONE" /\ d.phase = "IDLE"
           /\ d.connected = FALSE /\ d.sending = FALSE /\ d.octets = 0
           /\ d.faulted = FALSE /\ d.close = "IDLE" /\ d.seen = c.seen
BY Bounds DEF ResetRuntime, ChannelType, Commands, CloseStates

LEMMA StageFields ==
    ASSUME NEW c \in ChannelType, NEW stage \in CloseStates
    PROVE  LET d == Stage(c, stage) IN
           /\ d \in ChannelType /\ d.pending = c.pending /\ d.phase = c.phase
           /\ d.connected = c.connected /\ d.sending = c.sending /\ d.octets = c.octets
           /\ d.faulted = c.faulted /\ d.close = stage /\ d.seen = c.seen
BY DEF Stage, ChannelType

LEMMA AbandonedFields ==
    ASSUME NEW c \in ChannelType
    PROVE  LET d == SendAbandoned(c) IN
           /\ d \in ChannelType /\ d.pending = c.pending /\ d.phase = c.phase
           /\ d.connected = c.connected /\ d.sending = FALSE /\ d.octets = 0
           /\ d.faulted = c.faulted /\ d.close = c.close /\ d.seen = c.seen
BY Bounds DEF SendAbandoned, ChannelType

LEMMA CommandFields ==
    ASSUME NEW h \in ChipType, NEW command \in Commands
    PROVE  LET i == WithCommand(h, command) IN
           /\ i \in ChipType /\ i.cr = command /\ i.ssr = h.ssr /\ i.doing = h.doing
           /\ i.tcp = h.tcp /\ i.sendok = h.sendok /\ i.timeout = h.timeout
           /\ i.written = h.written /\ i.segment = h.segment /\ i.tx = h.tx
           /\ i.rx = h.rx /\ i.read = h.read /\ i.wedged = h.wedged
BY DEF WithCommand, ChipType

LEMMA ClearedFields ==
    ASSUME NEW h \in ChipType
    PROVE  LET i == EventsCleared(h) IN
           /\ i \in ChipType /\ i.cr = h.cr /\ i.ssr = h.ssr /\ i.doing = h.doing
           /\ i.tcp = h.tcp /\ i.sendok = FALSE /\ i.timeout = FALSE
           /\ i.written = h.written /\ i.segment = h.segment /\ i.tx = h.tx
           /\ i.rx = h.rx /\ i.read = h.read /\ i.wedged = h.wedged
BY DEF EventsCleared, ChipType

LEMMA CommandIs ==
    ASSUME NEW h \in ChipType, NEW command \in Commands
    PROVE  LET i == WithCommand(EventsCleared(h), command) IN
           /\ i \in ChipType /\ i.cr = command /\ i.ssr = h.ssr /\ i.doing = h.doing
           /\ i.tcp = h.tcp /\ i.sendok = FALSE /\ i.timeout = FALSE
           /\ i.written = h.written /\ i.segment = h.segment /\ i.tx = h.tx
           /\ i.rx = h.rx /\ i.read = h.read /\ i.wedged = h.wedged
<1>1. PICK e : e = EventsCleared(h)  OBVIOUS
<1>2. /\ e \in ChipType /\ e.ssr = h.ssr /\ e.doing = h.doing
      /\ e.tcp = h.tcp /\ e.sendok = FALSE /\ e.timeout = FALSE
      /\ e.written = h.written /\ e.segment = h.segment /\ e.tx = h.tx
      /\ e.rx = h.rx /\ e.read = h.read /\ e.wedged = h.wedged
      BY <1>1, ClearedFields
<1>3. QED  BY <1>1, <1>2, CommandFields

LEMMA BlankFields ==
    /\ BlankChip \in ChipType /\ BlankChip.cr = "NONE" /\ BlankChip.ssr = "CLOSED"
    /\ BlankChip.doing = "NONE" /\ BlankChip.tcp = FALSE
    /\ BlankChip.sendok = FALSE /\ BlankChip.timeout = FALSE
    /\ BlankChip.written = 0 /\ BlankChip.segment = 0 /\ BlankChip.tx = 0
    /\ BlankChip.rx = 0 /\ BlankChip.read = 0 /\ BlankChip.wedged = FALSE
BY Bounds DEF BlankChip, ChipType, Statuses, Commands

\* SendConfirmed, of any state.
Confirmed(k, c, t) ==
    /\ t.reported <= t.confirmed /\ t.confirmed <= t.submitted
    /\ k = "sending" =>
         /\ t.submitted = t.reported + c.octets
         /\ c.sending = TRUE <=> c.octets # 0
ConfirmedFacts == chan \in ChannelType => (SendConfirmed <=> Confirmed(core, chan, hist))
LEMMA ConfirmedIs == ConfirmedFacts /\ ConfirmedFacts'
<1>1. ConfirmedFacts
  <2> SUFFICES ASSUME chan \in ChannelType
               PROVE  SendConfirmed <=> Confirmed(core, chan, hist)
        BY DEF ConfirmedFacts
  <2>1. chan.sending \in BOOLEAN  BY DEF ChannelType
  <2>2. CASE chan.octets = 0
    <3>1. (chan.octets # 0) = FALSE  BY <2>2
    <3>2. (chan.sending = (chan.octets # 0)) <=> ~(chan.sending = TRUE)  BY <2>1, <3>1, Zenon
    <3>3. QED  BY <2>2, <3>2 DEF SendConfirmed, Confirmed
  <2>3. CASE chan.octets # 0
    <3>1. (chan.octets # 0) = TRUE  BY <2>3
    <3>2. (chan.sending = (chan.octets # 0)) <=> (chan.sending = TRUE)  BY <2>1, <3>1, Zenon
    <3>3. QED  BY <2>3, <3>2 DEF SendConfirmed, Confirmed
  <2>4. QED  BY <2>2, <2>3
<1>2. QED  BY <1>1, PTL

\* sync_platform_generation leaves the channel in step with the chip.
InStep(c) ==
    /\ c \in ChannelType /\ c.seen = gen
    /\ Shape(core, c) /\ Staged(c) /\ Live(core, c, chip, hist)

LEMMA SyncedInStep ==
    ASSUME IInv, core \in {"waiting", "closing"}
    PROVE  InStep(Synced) /\ Synced.seen = gen
<1>1. chan \in ChannelType /\ gen \in 1 .. MaxGeneration /\ hist.confirmed \in Nat /\ hist.submitted \in Nat
      /\ hist.confirmed <= hist.submitted
      BY DEF IInv, TypeOK, SendConfirmed
<1>2. CASE chan.seen = gen
  BY <1>1, <1>2 DEF IInv, InStep, Synced
<1>3. CASE chan.seen # gen
  <2>1. PICK r : r = ResetRuntime(chan)  OBVIOUS
  <2>2. /\ r \in ChannelType /\ r.pending = "NONE" /\ r.phase = "IDLE"
        /\ r.sending = FALSE /\ r.octets = 0 /\ r.faulted = FALSE /\ r.close = "IDLE"
        BY <1>1, <2>1, ResetFields
  <2>3. PICK c : c = [r EXCEPT !.seen = gen]  OBVIOUS
  <2>4. gen \in 0 .. MaxGeneration  BY <1>1
  <2>5. /\ c \in ChannelType /\ c.pending = "NONE" /\ c.phase = "IDLE" /\ c.seen = gen
        /\ c.sending = FALSE /\ c.octets = 0 /\ c.faulted = FALSE /\ c.close = "IDLE"
        BY <2>2, <2>3, <2>4 DEF ChannelType
  <2>6. Synced = c  BY <1>3, <2>1, <2>3 DEF Synced
  <2>7. chip = BlankChip  BY <1>3 DEF IInv
  <2>8. Shape(core, c) /\ Staged(c)  BY <2>5 DEF Shape, Staged, Idling
  <2>9. Live(core, c, chip, hist)
    <3>1. InRegister(c, chip) /\ Counts(chip) /\ Emptied(c, chip)
          BY <2>5, <2>7, BlankFields DEF InRegister, Counts, Emptied, UdpPath
    <3>2. Sums(c, chip, hist) /\ Outstanding(core, c, chip, hist) /\ InTouch(core, c, chip)
          BY <1>1, <2>5, <2>7, BlankFields DEF Sums, Outstanding, InTouch
    <3>3. Awaiting(core, c, chip)
          BY <2>5, <2>7, BlankFields DEF Awaiting
    <3>4. QED  BY <3>1, <3>2, <3>3 DEF Live
  <2>10. QED  BY <2>5, <2>6, <2>8, <2>9 DEF InStep
<1>4. QED  BY <1>2, <1>3

\* What there is to show of a step after which channel and chip are in step.
LEMMA Rebuilt ==
    ASSUME TypeOK', SendConfirmed', chip'.wedged = FALSE, chan'.seen = gen',
           Shape(core', chan'), Staged(chan'), Live(core', chan', chip', hist')
    PROVE  IInv'
BY DEF IInv, TypeOK

\* A step of the waiting channel that leaves the chip alone: it notes what it saw,
\* or that its command was taken or is complete.
Noted(d, c) ==
    /\ d \in ChannelType /\ d.sending = c.sending /\ d.octets = c.octets
    /\ d.faulted = c.faulted /\ d.close = c.close /\ d.seen = c.seen
Progressed(d, c, s) ==
    \/ d.pending = c.pending /\ d.phase = c.phase
    \/ d.pending = c.pending /\ d.phase = "WAIT_TARGET" /\ c.phase = "WAIT_CR" /\ chip.cr = "NONE"
    \/ d.pending = "NONE" /\ d.phase = "IDLE"
       /\ IF c.phase = "WAIT_CR" THEN chip.cr = "NONE" /\ c.pending \in {"SEND", "RECV"}
          ELSE c.phase = "WAIT_TARGET" /\ s \in Target(c.pending)

LEMMA AdvanceIs ==
    ASSUME NEW c \in ChannelType, c.pending # "NONE", NEW s, c.phase # "IDLE"
    PROVE  Noted(Advance(c, s).chan, c) /\ Progressed(Advance(c, s).chan, c, s)
<1>1. CASE c.phase = "WAIT_CR" /\ c.pending \notin {"SEND", "RECV"} /\ chip.cr = "NONE"
  <2>1. Advance(c, s).chan = [c EXCEPT !.phase = "WAIT_TARGET"]  BY <1>1 DEF Advance
  <2>2. QED  BY <1>1, <2>1 DEF ChannelType, Noted, Progressed
<1>2. CASE \/ c.phase = "WAIT_CR" /\ chip.cr = "NONE" /\ c.pending \in {"SEND", "RECV"}
           \/ c.phase # "WAIT_CR" /\ s \in Target(c.pending)
  <2>1. Advance(c, s).chan = Completed(c)  BY <1>2 DEF Advance
  <2>2. c.phase \in {"WAIT_CR", "WAIT_TARGET"}  BY DEF ChannelType
  <2>3. QED  BY <1>2, <2>1, <2>2, CompletedFields DEF Noted, Progressed
<1>3. CASE \/ c.phase = "WAIT_CR" /\ chip.cr # "NONE"
           \/ c.phase # "WAIT_CR" /\ s \notin Target(c.pending)
  <2>1. Advance(c, s).chan = c  BY <1>3 DEF Advance
  <2>2. QED  BY <2>1 DEF Noted, Progressed
<1>4. QED  BY <1>1, <1>2, <1>3

LEMMA WaitingNotes ==
    ASSUME IInv, NEW c, InStep(c), core = "waiting", NEW s \in {"CLOSED", "INIT"},
           Noted(chan', c), Progressed(chan', c, s), chan'.pending = c.pending \/ s = chip.ssr,
           UNCHANGED chip, UNCHANGED core, UNCHANGED gen, UNCHANGED age, UNCHANGED hist
    PROVE  IInv'
<1>1. TypeOK' /\ SendConfirmed' /\ chip'.wedged = FALSE
      BY DEF IInv, TypeOK, SendConfirmed, Noted, ChipType
<1>2. Shape(core', chan') /\ Staged(chan') /\ chan'.seen = gen'
      BY DEF InStep, Noted, Progressed, Shape, Staged, Idling
<1>3. Live(core', chan', chip', hist')
      BY DEF InStep, Noted, Progressed, Live, InRegister, Counts, Emptied, Sums, Outstanding,
             InTouch, Awaiting, Shape, Target, Statuses, Register
<1>4. QED  BY <1>1, <1>2, <1>3, Rebuilt

-----------------------------------------------------------------------------
\* The calls of a Core that waits: get_connection_state, open and listen.
LEMMA OpenStep ==
    ASSUME IInv, NEW s \in Readings, Open(s)
    PROVE  IInv'
<1>1. PICK c : c = Synced  OBVIOUS
<1>2. core = "waiting" /\ InStep(c) /\ c.seen = gen /\ Allowed(c) /\ s = "CLOSED" /\ chip.ssr = s
      BY <1>1, SyncedInStep, ReadingIs DEF Open, Waiting, Statuses
<1>3. PICK d : d = ConnectionSeen(s)  OBVIOUS
<1>4. Noted(d, c) /\ d.pending = c.pending /\ d.phase = c.phase
      BY <1>1, <1>2, <1>3 DEF ConnectionSeen, InStep, ChannelType, Noted
<1>5. /\ chip \in ChipType /\ chip.wedged = FALSE /\ core' = core /\ gen' = gen /\ age' = age /\ hist' = hist
      BY DEF IInv, TypeOK, ChipType, Open, Waiting
<1>6. CASE d.pending = "NONE"
  <2>1. PICK h : h = [EventsCleared(chip) EXCEPT !.tcp = TRUE]  OBVIOUS
  <2>2. chip' = WithCommand(h, "OPEN") /\ chan' = Issued(d, "OPEN")
        BY <1>3, <1>6, <2>1 DEF Open
  <2>3. /\ h \in ChipType /\ h.cr = chip.cr /\ h.ssr = chip.ssr /\ h.doing = chip.doing
        /\ h.tcp = TRUE /\ h.written = chip.written /\ h.segment = chip.segment /\ h.tx = chip.tx
        /\ h.rx = chip.rx /\ h.read = chip.read /\ h.wedged = chip.wedged
        /\ h.sendok = FALSE
        BY <1>5, <2>1, ClearedFields DEF ChipType
  <2>4. /\ chip' \in ChipType /\ chip'.cr = "OPEN" /\ chip'.ssr = chip.ssr /\ chip'.doing = chip.doing
        /\ chip'.tcp = TRUE /\ chip'.written = chip.written /\ chip'.segment = chip.segment
        /\ chip'.tx = chip.tx /\ chip'.rx = chip.rx /\ chip'.read = chip.read
        /\ chip'.wedged = chip.wedged /\ chip'.sendok = FALSE
        BY <2>2, <2>3, CommandFields DEF Commands
  <2>5. Noted(chan', d) /\ chan'.pending = "OPEN" /\ chan'.phase = "WAIT_CR"
        BY <1>4, <2>2, IssuedFields DEF Pendings, Commands, Noted
  <2>6. TypeOK' /\ SendConfirmed'  BY <1>2, <1>5, <2>4, <2>5 DEF TypeOK, IInv, SendConfirmed, Noted
  <2>8. Shape(core', chan') /\ Staged(chan')
        BY <1>2, <1>4, <1>5, <2>5 DEF Shape, Staged, InStep, Allowed, Noted, Idling
  <2>10. Live(core', chan', chip', hist')
         BY <1>2, <1>4, <1>5, <1>6, <2>4, <2>5
         DEF InStep, Live, Sums, Counts, InRegister, Shape, Allowed, Awaiting, UdpPath, IInv,
             SendConfirmed, ChipType, TypeOK, Register, Emptied, Outstanding, InTouch, Noted
  <2>11. QED  BY <1>2, <1>4, <1>5, <2>4, <2>5, <2>6, <2>8, <2>10, Rebuilt DEF Noted
<1>7. CASE d.pending # "NONE"
  <2>1. chan' = Advance(d, s).chan /\ UNCHANGED chip  BY <1>3, <1>7 DEF Open
  <2>2. Noted(chan', c) /\ Progressed(chan', c, s)
        BY <1>2, <1>4, <1>7, <2>1, AdvanceIs DEF InStep, Shape, Noted, Progressed
  <2>3. QED  BY <1>2, <1>5, <2>1, <2>2, WaitingNotes
<1>8. QED  BY <1>6, <1>7

LEMMA ConnectionSeenIs ==
    ASSUME Synced \in ChannelType, NEW s
    PROVE  /\ Noted(ConnectionSeen(s), Synced) /\ ConnectionSeen(s).pending = Synced.pending
           /\ ConnectionSeen(s).phase = Synced.phase
BY DEF ConnectionSeen, Noted, ChannelType

LEMMA ReportErrorStep ==
    ASSUME IInv, NEW s \in Readings, ReportError(s)
    PROVE  IInv'
<1>1. core = "waiting" /\ InStep(Synced) /\ UNCHANGED chip /\ UNCHANGED core /\ UNCHANGED gen
      /\ UNCHANGED age /\ UNCHANGED hist
      BY SyncedInStep DEF ReportError, Waiting
<1>2. Noted(chan', Synced) /\ chan'.pending = Synced.pending /\ chan'.phase = Synced.phase
  <2>1. CASE chan' = Synced  BY <1>1, <2>1 DEF Noted, InStep
  <2>2. CASE chan' = ConnectionSeen(s)  BY <1>1, <2>2, ConnectionSeenIs DEF InStep
  <2>3. QED  BY <2>1, <2>2 DEF ReportError
<1>3. Progressed(chan', Synced, "CLOSED")  BY <1>2 DEF Progressed
<1>4. QED  BY <1>1, <1>2, <1>3, WaitingNotes

LEMMA KeepListeningStep ==
    ASSUME IInv, NEW s \in Readings, KeepListening(s)
    PROVE  IInv'
<1>1. core = "waiting" /\ InStep(Synced) /\ UNCHANGED chip /\ UNCHANGED core /\ UNCHANGED gen
      /\ UNCHANGED age /\ UNCHANGED hist
      BY SyncedInStep DEF KeepListening, Waiting
<1>2. Noted(chan', Synced) /\ chan'.pending = Synced.pending /\ chan'.phase = Synced.phase
      BY <1>1, ConnectionSeenIs DEF InStep, KeepListening
<1>3. Progressed(chan', Synced, "CLOSED")  BY <1>2 DEF Progressed
<1>4. QED  BY <1>1, <1>2, <1>3, WaitingNotes

LEMMA ListenStep ==
    ASSUME IInv, NEW s \in Readings, Listen(s)
    PROVE  IInv'
<1>1. PICK c : c = Synced  OBVIOUS
<1>2. core = "waiting" /\ InStep(c) /\ c.seen = gen /\ Allowed(c) /\ s = "INIT" /\ chip.ssr = s
      BY <1>1, SyncedInStep, ReadingIs DEF Listen, Waiting, Statuses
<1>3. PICK d : d = ConnectionSeen(s)  OBVIOUS
<1>4. Noted(d, c) /\ d.pending = c.pending /\ d.phase = c.phase
      BY <1>1, <1>2, <1>3, ConnectionSeenIs DEF InStep
<1>5. /\ chip \in ChipType /\ chip.wedged = FALSE /\ core' = core /\ gen' = gen /\ age' = age /\ hist' = hist
      BY DEF IInv, TypeOK, ChipType, Listen, Waiting
<1>6. CASE d.pending = "NONE"
  <2>2. chip' = WithCommand(EventsCleared(chip), "LISTEN") /\ chan' = Issued(d, "LISTEN")
        BY <1>3, <1>6 DEF Listen
  <2>3. /\ chip' \in ChipType /\ chip'.cr = "LISTEN" /\ chip'.ssr = chip.ssr /\ chip'.doing = chip.doing
        /\ chip'.tcp = chip.tcp /\ chip'.written = chip.written /\ chip'.segment = chip.segment
        /\ chip'.tx = chip.tx /\ chip'.rx = chip.rx /\ chip'.read = chip.read
        /\ chip'.wedged = chip.wedged
        BY <1>5, <2>2, CommandIs DEF Commands
  <2>4. Noted(chan', d) /\ chan'.pending = "LISTEN" /\ chan'.phase = "WAIT_CR"
        BY <1>4, <2>2, IssuedFields DEF Pendings, Commands, Noted
  <2>5. TypeOK' /\ SendConfirmed'  BY <1>2, <1>5, <2>3, <2>4 DEF TypeOK, IInv, SendConfirmed, Noted
  <2>6. Shape(core', chan') /\ Staged(chan')
        BY <1>2, <1>4, <1>5, <2>4 DEF Shape, Staged, InStep, Allowed, Noted, Idling
  <2>7. Live(core', chan', chip', hist')
        BY <1>2, <1>4, <1>5, <1>6, <2>3, <2>4
        DEF InStep, Live, Sums, Counts, InRegister, Shape, Allowed, Awaiting, UdpPath, Register,
            Emptied, Outstanding, InTouch, Noted
  <2>8. QED  BY <1>2, <1>4, <1>5, <2>3, <2>4, <2>5, <2>6, <2>7, Rebuilt DEF Noted
<1>7. CASE d.pending # "NONE"
  <2>1. chan' = Advance(d, s).chan /\ UNCHANGED chip  BY <1>3, <1>7 DEF Listen
  <2>2. Noted(chan', c) /\ Progressed(chan', c, s)
        BY <1>2, <1>4, <1>7, <2>1, AdvanceIs DEF InStep, Shape, Noted, Progressed
  <2>3. QED  BY <1>2, <1>5, <2>1, <2>2, WaitingNotes
<1>8. QED  BY <1>6, <1>7

LEMMA ConnectStep ==
    ASSUME IInv, NEW s \in Readings, Connect(s)
    PROVE  IInv'
<1>1. PICK c : c = Synced  OBVIOUS
<1>2. core = "waiting" /\ InStep(c) /\ c.seen = gen /\ Allowed(c) /\ s = "ESTABLISHED" /\ chip.ssr = s
      BY <1>1, SyncedInStep, ReadingIs DEF Connect, Statuses
<1>3. Noted(chan', c) /\ chan'.pending = c.pending /\ chan'.phase = c.phase
      BY <1>1, <1>2 DEF Connect, InStep, ChannelType, Noted
<1>4. /\ chip' = chip /\ chip \in ChipType /\ chip.wedged = FALSE /\ core' = "receiving"
      /\ gen' = gen /\ age' = age /\ hist' = hist
      BY DEF IInv, TypeOK, ChipType, Connect
<1>5. TypeOK' /\ SendConfirmed'  BY <1>2, <1>3, <1>4 DEF TypeOK, IInv, SendConfirmed, Noted
<1>6. Shape(core', chan') /\ Staged(chan')
      BY <1>2, <1>3, <1>4 DEF Shape, Staged, InStep, Allowed, Noted, Idling
<1>7. Live(core', chan', chip', hist')
      BY <1>2, <1>3, <1>4
      DEF InStep, Live, Sums, Counts, InRegister, Shape, Allowed, Awaiting, UdpPath, Register,
          Emptied, Outstanding, InTouch, Noted
<1>8. QED  BY <1>2, <1>3, <1>4, <1>5, <1>6, <1>7, Rebuilt DEF Noted

LEMMA PeerClosedStep ==
    ASSUME IInv, NEW s \in Readings, PeerClosed(s)
    PROVE  IInv'
<1>1. PICK c : c = Synced  OBVIOUS
<1>2. core = "waiting" /\ InStep(c) /\ c.seen = gen /\ Allowed(c) /\ s = "CLOSE_WAIT" /\ chip.ssr = s
      BY <1>1, SyncedInStep, ReadingIs DEF PeerClosed, Statuses
<1>3. Noted(chan', c) /\ chan'.pending = c.pending /\ chan'.phase = c.phase
      BY <1>1, <1>2, ConnectionSeenIs DEF PeerClosed, InStep
<1>4. /\ chip' = chip /\ chip \in ChipType /\ chip.wedged = FALSE /\ core' = "closing"
      /\ gen' = gen /\ age' = age /\ hist' = hist
      BY DEF IInv, TypeOK, ChipType, PeerClosed
<1>5. TypeOK' /\ SendConfirmed'  BY <1>2, <1>3, <1>4 DEF TypeOK, IInv, SendConfirmed, Noted
<1>6. Shape(core', chan') /\ Staged(chan')
      BY <1>2, <1>3, <1>4 DEF Shape, Staged, InStep, Allowed, Noted, Idling
<1>7. Live(core', chan', chip', hist')
      BY <1>2, <1>3, <1>4
      DEF InStep, Live, Sums, Counts, InRegister, Shape, Allowed, Awaiting, UdpPath, Register,
          Emptied, Outstanding, InTouch, Noted
<1>8. QED  BY <1>2, <1>3, <1>4, <1>5, <1>6, <1>7, Rebuilt DEF Noted

\* A receive or a send that leaves the chip alone: the frame goes on, or it is
\* abandoned and the session ends.
LEMMA SessionNotes ==
    ASSUME IInv, core \in {"receiving", "sending"}, Allowed(chan), NEW s,
           chan' \in ChannelType, chan'.seen = chan.seen, chan'.faulted = chan.faulted,
           chan'.close = chan.close, Progressed(chan', chan, s),
           \/ chan'.sending = chan.sending /\ chan'.octets = chan.octets /\ core' \in {core, "closing"}
           \/ chan'.sending = FALSE /\ chan'.octets = 0 /\ core' = "closing",
           UNCHANGED chip, UNCHANGED gen, UNCHANGED age, UNCHANGED hist
    PROVE  IInv'
<1>1. TypeOK' /\ SendConfirmed' /\ chip'.wedged = FALSE
      BY DEF IInv, TypeOK, SendConfirmed, ChipType
<1>2. Shape(core', chan') /\ Staged(chan')
      BY DEF IInv, Allowed, Progressed, Shape, Staged, Idling
<1>3. CASE chan.seen = gen
  <2>1. Live(core', chan', chip', hist')
        BY <1>3 DEF IInv, Allowed, Progressed, Live, InRegister, Counts, Emptied, Sums, Outstanding,
             InTouch, Awaiting, Shape, Target, Register, UdpPath
  <2>2. QED  BY <1>1, <1>2, <1>3, <2>1, Rebuilt
<1>4. CASE chan.seen # gen
      BY <1>1, <1>2, <1>4 DEF IInv
<1>5. QED  BY <1>3, <1>4

-----------------------------------------------------------------------------
\* The calls of a session: receive.
LEMMA ReceiveAdvancesStep ==
    ASSUME IInv, NEW s \in Readings, ReceiveAdvances(s)
    PROVE  IInv'
<1>1. chan \in ChannelType /\ chan.phase # "IDLE" /\ chan.pending # "NONE"
      BY DEF IInv, TypeOK, Shape, ReceiveAdvances
<1>2. Noted(chan', chan) /\ Progressed(chan', chan, s)
      BY <1>1, AdvanceIs DEF ReceiveAdvances
<1>3. core = "receiving" /\ core' \in {core, "closing"} /\ Allowed(chan)
      /\ UNCHANGED chip /\ UNCHANGED gen /\ UNCHANGED age /\ UNCHANGED hist
      BY DEF ReceiveAdvances, Fails, NoProgress
<1>4. QED  BY <1>2, <1>3, SessionNotes DEF Noted

LEMMA ReceiveNothingStep ==
    ASSUME IInv, NEW s \in Readings, NEW size, NEW capacity, ReceiveNothing(s, size, capacity)
    PROVE  IInv'
<1>1. core = "receiving" /\ core' \in {core, "closing"} /\ Allowed(chan) /\ UNCHANGED chan
      /\ UNCHANGED chip /\ UNCHANGED gen /\ UNCHANGED age /\ UNCHANGED hist
      BY DEF ReceiveNothing, Fails, NoProgress
<1>2. chan \in ChannelType /\ Progressed(chan', chan, s)  BY <1>1 DEF IInv, TypeOK, Progressed
<1>3. QED  BY <1>1, <1>2, SessionNotes

\* Octets are counted in Nat; Even rounds down to whole words.
LEMMA EvenIs == \A n \in Nat : Even(n) \in Nat /\ Even(n) <= n /\ Even(n) % 2 = 0
BY DEF Even

LEMMA SmallerIs ==
    \A a, b \in Nat : Smaller(a, b) \in Nat /\ Smaller(a, b) <= a /\ Smaller(a, b) <= b
BY DEF Smaller

LEMMA ReadableIs ==
    \A size, capacity \in Nat :
       /\ Readable(size, capacity) \in Nat /\ Readable(size, capacity) <= size
       /\ Readable(size, capacity) % 2 = 0
<1> TAKE size, capacity \in Nat
<1>1. PICK n : n = Smaller(Smaller(size, capacity), RxMem)  OBVIOUS
<1>2. n \in Nat /\ n <= size
  <2>1. PICK m : m = Smaller(size, capacity)  OBVIOUS
  <2>2. m \in Nat /\ m <= size  BY <2>1, SmallerIs
  <2>3. n \in Nat /\ n <= m  BY <1>1, <2>1, <2>2, Bounds, SmallerIs
  <2>4. QED  BY <2>2, <2>3
<1>3. Readable(size, capacity) = Even(n)  BY <1>1 DEF Readable
<1>4. PICK e : e = Even(n)  OBVIOUS
<1>5. e \in Nat /\ e <= n /\ e % 2 = 0  BY <1>2, <1>4, EvenIs
<1>6. QED  BY <1>2, <1>3, <1>4, <1>5

LEMMA ReceiveSomeStep ==
    ASSUME IInv, NEW s \in Readings, NEW size \in Stable(chip.rx), NEW capacity \in Capacities,
           ReceiveSome(s, size, capacity)
    PROVE  IInv'
<1>1. core = "receiving" /\ Allowed(chan) /\ chan.pending = "NONE" /\ s \in Connected
      /\ UNCHANGED gen /\ UNCHANGED age
      BY DEF ReceiveSome
<1>2. chan \in ChannelType /\ chip \in ChipType /\ chip.wedged = FALSE /\ chip.rx \in Nat
      /\ chip.read \in Nat
      BY Bounds DEF IInv, TypeOK, ChipType
<1>3. s = chip.ssr  BY <1>1, ReadingIs DEF Connected, Statuses
<1>4. chan.seen = gen
  <2> SUFFICES ASSUME chan.seen # gen PROVE FALSE  OBVIOUS
  <2>1. chip.ssr = "CLOSED"  BY BlankFields DEF IInv
  <2>2. QED  BY <1>1, <1>3, <2>1 DEF Connected
<1>5. Live(core, chan, chip, hist) /\ Shape(core, chan) /\ Staged(chan)  BY <1>4 DEF IInv
<1>6. chip.cr = "NONE" /\ chip.read = 0 /\ chip.written = 0
      BY <1>1, <1>5 DEF Live, InRegister, Shape, Counts
<1>7. size = chip.rx  BY DEF Stable, ReceiveSome
<1>8. PICK n : n = Readable(size, capacity)  OBVIOUS
<1>9. capacity \in Nat  BY SizesAssumption
<1>10. n \in Nat /\ n <= chip.rx /\ n % 2 = 0  BY <1>2, <1>7, <1>8, <1>9, ReadableIs
<1>11. PICK h : h = [chip EXCEPT !.read = n]  OBVIOUS
<1>12. /\ h \in ChipType /\ h.read = n /\ h.ssr = chip.ssr /\ h.doing = chip.doing
       /\ h.tcp = chip.tcp /\ h.written = chip.written /\ h.segment = chip.segment
       /\ h.tx = chip.tx /\ h.rx = chip.rx /\ h.wedged = chip.wedged /\ h.sendok = chip.sendok
       BY <1>2, <1>10, <1>11 DEF ChipType
<1>13. chip' = WithCommand(h, "RECV") /\ chan' = Issued(chan, "RECV")
  <2>1. [chip EXCEPT !.read = @ + n] = h  BY <1>2, <1>6, <1>10, <1>11
  <2>2. QED  BY <1>8, <2>1 DEF ReceiveSome
<1>14. /\ chip' \in ChipType /\ chip'.cr = "RECV" /\ chip'.read = n /\ chip'.ssr = chip.ssr
       /\ chip'.doing = chip.doing /\ chip'.tcp = chip.tcp /\ chip'.written = chip.written
       /\ chip'.segment = chip.segment /\ chip'.tx = chip.tx /\ chip'.rx = chip.rx
       /\ chip'.wedged = chip.wedged /\ chip'.sendok = chip.sendok
       BY <1>12, <1>13, CommandFields DEF Commands
<1>15. Noted(chan', chan) /\ chan'.pending = "RECV" /\ chan'.phase = "WAIT_CR"
       BY <1>2, <1>13, IssuedFields DEF Pendings, Commands, Noted
<1>16. /\ core' \in {"receiving", "sending", "closing"}
       /\ hist' \in [submitted : Nat, confirmed : Nat, reported : Nat]
       /\ hist'.submitted = 0 /\ hist'.confirmed = 0 /\ hist'.reported = 0
       BY DEF ReceiveSome
<1>17. TypeOK'
  <2>1. gen' = gen /\ age' = age /\ gen \in 1 .. MaxGeneration /\ age \in 0 .. CloseTimeout
        BY <1>1 DEF IInv, TypeOK
  <2>2. chan' \in ChannelType  BY <1>15 DEF Noted
  <2>3. QED  BY <1>14, <1>16, <2>1, <2>2 DEF TypeOK
<1>18. SendConfirmed'
  <2>1. Confirmed(core', chan', hist')
        BY <1>1, <1>5, <1>15, <1>16 DEF Confirmed, Noted, Shape
  <2>2. QED  BY <1>15, <2>1, ConfirmedIs DEF ConfirmedFacts, Noted
<1>19. Shape(core', chan') /\ Staged(chan')
       BY <1>1, <1>5, <1>15, <1>16 DEF Shape, Staged, Allowed, Noted, Idling
<1>20. Live(core', chan', chip', hist')
  <2>1. chip.segment = 0  BY <1>1, <1>5 DEF Live, InTouch
  <2>2. InRegister(chan', chip') /\ Counts(chip')
        BY <1>6, <1>10, <1>14, <1>15 DEF InRegister, Register, Counts
  <2>3. Emptied(chan', chip')
        BY <1>1, <1>14, <1>15 DEF Emptied, Noted, Allowed, UdpPath
  <2>4. Sums(chan', chip', hist') /\ Outstanding(core', chan', chip', hist')
        BY <1>1, <1>5, <1>6, <1>14, <1>15, <1>16, <2>1 DEF Sums, Outstanding, Noted, Shape
  <2>5. InTouch(core', chan', chip') /\ Awaiting(core', chan', chip')
        BY <1>1, <1>5, <1>14, <1>15, <1>16, <2>1 DEF Live, InTouch, Awaiting, Noted
  <2>6. QED  BY <2>2, <2>3, <2>4, <2>5 DEF Live
<1>21. QED  BY <1>1, <1>2, <1>4, <1>14, <1>15, <1>17, <1>18, <1>19, <1>20, Rebuilt DEF Noted

-----------------------------------------------------------------------------
\* The calls of a session: send.
LEMMA SendAdvancesStep ==
    ASSUME IInv, NEW s \in Readings, SendAdvances(s)
    PROVE  IInv'
<1>1. chan \in ChannelType /\ chan.phase # "IDLE" /\ chan.pending # "NONE"
      BY DEF IInv, TypeOK, Shape, SendAdvances
<1>2. core = "sending" /\ Allowed(chan) /\ UNCHANGED chip /\ UNCHANGED gen /\ UNCHANGED age
      /\ UNCHANGED hist
      BY DEF SendAdvances, Fails, NoProgress
<1>3. CASE chan' = Advance(chan, s).chan /\ NoProgress
  <2>1. Noted(chan', chan) /\ Progressed(chan', chan, s)  BY <1>1, <1>3, AdvanceIs
  <2>2. QED  BY <1>2, <1>3, <2>1, SessionNotes DEF Noted, NoProgress
<1>4. CASE chan' = SendAbandoned(chan) /\ Fails
  <2>1. /\ chan' \in ChannelType /\ chan'.pending = chan.pending /\ chan'.phase = chan.phase
        /\ chan'.sending = FALSE /\ chan'.octets = 0 /\ chan'.faulted = chan.faulted
        /\ chan'.close = chan.close /\ chan'.seen = chan.seen
        BY <1>1, <1>4, AbandonedFields
  <2>2. QED  BY <1>2, <1>4, <2>1, SessionNotes DEF Progressed, Fails
<1>5. QED  BY <1>3, <1>4 DEF SendAdvances

\* A step that reads a status of a connected socket is one in step with the chip.
LEMMA ConnectedInStep ==
    ASSUME IInv, NEW s \in Readings, s \in Connected
    PROVE  chan.seen = gen /\ s = chip.ssr
<1>1. s = chip.ssr  BY ReadingIs DEF Connected, Statuses
<1>2. chan.seen # gen => chip.ssr = "CLOSED"  BY BlankFields DEF IInv
<1>3. QED  BY <1>1, <1>2 DEF Connected

LEMMA SendSegmentLostStep ==
    ASSUME IInv, NEW s \in Readings, SendSegmentLost(s)
    PROVE  IInv'
<1>1. core = "sending" /\ Allowed(chan) /\ core' = "closing" /\ UNCHANGED gen /\ UNCHANGED age
      /\ UNCHANGED hist
      BY DEF SendSegmentLost, Fails
<1>2. chan \in ChannelType /\ chip \in ChipType /\ chip.wedged = FALSE
      BY DEF IInv, TypeOK, ChipType
<1>3. /\ chan' \in ChannelType /\ chan'.pending = chan.pending /\ chan'.phase = chan.phase
      /\ chan'.sending = FALSE /\ chan'.octets = 0 /\ chan'.faulted = chan.faulted
      /\ chan'.close = chan.close /\ chan'.seen = chan.seen
      BY <1>2, AbandonedFields DEF SendSegmentLost
<1>4. CASE ~chip.timeout
      BY <1>1, <1>3, <1>4, SessionNotes DEF Progressed, SendSegmentLost
<1>5. CASE chip.timeout
  <2>1. chan.seen = gen  BY <1>5, BlankFields DEF IInv
  <2>2. Live(core, chan, chip, hist) /\ Shape(core, chan) /\ Staged(chan)  BY <2>1 DEF IInv
  <2>3. chip' = EventsCleared(chip)  BY <1>5 DEF SendSegmentLost
  <2>4. /\ chip' \in ChipType /\ chip'.cr = chip.cr /\ chip'.read = chip.read /\ chip'.ssr = chip.ssr
        /\ chip'.doing = chip.doing /\ chip'.tcp = chip.tcp /\ chip'.written = chip.written
        /\ chip'.segment = chip.segment /\ chip'.tx = chip.tx /\ chip'.rx = chip.rx
        /\ chip'.wedged = chip.wedged
        BY <1>2, <2>3, ClearedFields
  <2>5. TypeOK'
    <3>1. gen' = gen /\ age' = age /\ hist' = hist  BY <1>1
    <3>2. QED  BY <1>1, <1>3, <2>4, <3>1 DEF TypeOK, IInv
  <2>6. SendConfirmed'  BY <1>1 DEF SendConfirmed, IInv
  <2>7. Shape(core', chan') /\ Staged(chan')
        BY <1>1, <1>3, <2>2 DEF Shape, Staged, Allowed, Idling
  <2>8. Live(core', chan', chip', hist')
        BY <1>1, <1>3, <2>2, <2>4
        DEF Live, Sums, Counts, InRegister, Shape, Allowed, Awaiting, UdpPath, Register,
            Emptied, Outstanding, InTouch
  <2>9. QED  BY <1>1, <1>2, <1>3, <2>1, <2>4, <2>5, <2>6, <2>7, <2>8, Rebuilt
<1>6. QED  BY <1>4, <1>5

LEMMA SendSegmentOpenStep ==
    ASSUME IInv, NEW s \in Readings, SendSegmentOpen(s)
    PROVE  IInv'
<1>1. core = "sending" /\ core' \in {core, "closing"} /\ Allowed(chan) /\ UNCHANGED chan
      /\ UNCHANGED chip /\ UNCHANGED gen /\ UNCHANGED age /\ UNCHANGED hist
      BY DEF SendSegmentOpen, NoProgress
<1>2. chan \in ChannelType /\ Progressed(chan', chan, s)  BY <1>1 DEF IInv, TypeOK, Progressed
<1>3. QED  BY <1>1, <1>2, SessionNotes

LEMMA SendNothingStep ==
    ASSUME IInv, NEW s \in Readings, NEW free, SendNothing(s, free)
    PROVE  IInv'
<1>1. core = "sending" /\ core' \in {core, "closing"} /\ Allowed(chan)
      /\ UNCHANGED chip /\ UNCHANGED gen /\ UNCHANGED age /\ UNCHANGED hist
      BY DEF SendNothing, NoProgress, Fails
<1>2. chan \in ChannelType  BY DEF IInv, TypeOK
<1>3. CASE s \in Connected /\ free = -1
  <2>1. chan' = SendAbandoned(chan) /\ core' = "closing"  BY <1>3 DEF SendNothing, Fails
  <2>2. /\ chan' \in ChannelType /\ chan'.pending = chan.pending /\ chan'.phase = chan.phase
        /\ chan'.sending = FALSE /\ chan'.octets = 0 /\ chan'.faulted = chan.faulted
        /\ chan'.close = chan.close /\ chan'.seen = chan.seen
        BY <1>2, <2>1, AbandonedFields
  <2>3. QED  BY <1>1, <2>1, <2>2, SessionNotes DEF Progressed
<1>4. CASE ~(s \in Connected /\ free = -1)
  <2>1. UNCHANGED chan  BY <1>4 DEF SendNothing
  <2>2. QED  BY <1>1, <1>2, <2>1, SessionNotes DEF Progressed
<1>5. QED  BY <1>3, <1>4

LEMMA SendSegmentDoneStep ==
    ASSUME IInv, NEW s \in Readings, SendSegmentDone(s)
    PROVE  IInv'
<1>1. core = "sending" /\ Allowed(chan) /\ chan.sending = TRUE /\ chan.pending = "NONE"
      /\ chip.sendok = TRUE /\ UNCHANGED gen /\ UNCHANGED age
      /\ core' \in {"sending", "receiving", "closing"}
  <2>1. chan.sending \in BOOLEAN /\ chip.sendok \in BOOLEAN  BY DEF IInv, TypeOK, ChannelType, ChipType
  <2>2. chan.sending = TRUE /\ chip.sendok = TRUE  BY <2>1, Zenon DEF SendSegmentDone
  <2>3. QED  BY <2>2 DEF SendSegmentDone
<1>2. chan \in ChannelType /\ chip \in ChipType /\ chip.wedged = FALSE
      BY DEF IInv, TypeOK, ChipType
<1>3. chan.seen = gen  BY ConnectedInStep DEF SendSegmentDone
<1>4. Live(core, chan, chip, hist) /\ Shape(core, chan) /\ Staged(chan)  BY <1>3 DEF IInv
<1>5. /\ chan' \in ChannelType /\ chan'.pending = chan.pending /\ chan'.phase = chan.phase
      /\ chan'.sending = FALSE /\ chan'.octets = 0 /\ chan'.faulted = chan.faulted
      /\ chan'.close = chan.close /\ chan'.seen = chan.seen
      BY <1>2, AbandonedFields DEF SendSegmentDone
<1>6. /\ chip' \in ChipType /\ chip'.cr = chip.cr /\ chip'.read = chip.read /\ chip'.ssr = chip.ssr
      /\ chip'.doing = chip.doing /\ chip'.tcp = chip.tcp /\ chip'.written = chip.written
      /\ chip'.segment = chip.segment /\ chip'.tx = chip.tx /\ chip'.rx = chip.rx
      /\ chip'.wedged = chip.wedged /\ chip'.sendok = FALSE
      BY <1>2 DEF SendSegmentDone, ChipType
<1>7. /\ hist.submitted \in Nat /\ hist.confirmed \in Nat /\ hist.reported \in Nat
      /\ chan.octets \in Nat
      BY <1>2, Bounds DEF IInv, TypeOK, ChannelType
<1>8. /\ hist' \in [submitted : Nat, confirmed : Nat, reported : Nat]
      /\ hist'.submitted = hist.submitted /\ hist'.confirmed = hist.confirmed
      /\ hist'.reported = hist.reported + chan.octets
      BY <1>7 DEF SendSegmentDone, IInv, TypeOK
<1>9. chip.cr = "NONE" /\ hist.reported + chan.octets <= hist.confirmed /\ chip.segment = 0
      BY <1>1, <1>4 DEF Live, InRegister, Outstanding, Shape
<1>10. TypeOK'
  <2>1. gen' = gen /\ age' = age  BY <1>1
  <2>2. QED  BY <1>1, <1>5, <1>6, <1>8, <2>1 DEF TypeOK, IInv
<1>11. SendConfirmed'
  <2>1. Confirmed(core, chan, hist)  BY <1>2, ConfirmedIs DEF ConfirmedFacts, IInv
  <2>2. Confirmed(core', chan', hist')
        BY <1>1, <1>5, <1>7, <1>8, <1>9, <2>1 DEF Confirmed
  <2>3. QED  BY <1>5, <2>2, ConfirmedIs DEF ConfirmedFacts
<1>12. Shape(core', chan') /\ Staged(chan')
      BY <1>1, <1>4, <1>5 DEF Shape, Staged, Allowed, Idling
<1>13. Live(core', chan', chip', hist')
      BY <1>1, <1>4, <1>5, <1>6, <1>8, <1>9
      DEF Live, Sums, Counts, InRegister, Shape, Allowed, Awaiting, UdpPath, Register,
          Emptied, Outstanding, InTouch
<1>14. QED  BY <1>1, <1>2, <1>3, <1>5, <1>6, <1>10, <1>11, <1>12, <1>13, Rebuilt

LEMMA SendableIs ==
    ASSUME hist.reported \in Nat, NEW free \in Nat, Sendable(free) > 0
    PROVE  Sendable(free) \in Nat \ {0} /\ Sendable(free) <= free
<1>1. PICK m : m = Smaller(Left, free)  OBVIOUS
<1>2. m \in Int /\ m <= free
  <2>1. PICK l : l = Left  OBVIOUS
  <2>2. l \in Int  BY <2>1, Bounds DEF Left
  <2>3. QED  BY <1>1, <2>1, <2>2 DEF Smaller
<1>3. PICK n : n = Smaller(m, TxMem)  OBVIOUS
<1>4. n \in Int /\ n <= m  BY <1>2, <1>3, Bounds DEF Smaller
<1>5. PICK e : e = Even(n)  OBVIOUS
<1>6. e \in Int /\ e <= n  BY <1>4, <1>5 DEF Even
<1>7. Sendable(free) = e  BY <1>1, <1>3, <1>5 DEF Sendable
<1>8. QED  BY <1>2, <1>4, <1>6, <1>7

LEMMA SendSegmentStep ==
    ASSUME IInv, NEW s \in Readings, NEW free \in Stable(TxMem - chip.tx), SendSegment(s, free)
    PROVE  IInv'
<1>1. core = "sending" /\ Allowed(chan) /\ chan.pending = "NONE" /\ chan.sending = FALSE
      /\ UNCHANGED gen /\ UNCHANGED age /\ core' \in {"sending", "closing"}
  <2>1. chan.sending \in BOOLEAN  BY DEF IInv, TypeOK, ChannelType
  <2>2. chan.sending = FALSE  BY <2>1, Zenon DEF SendSegment
  <2>3. QED  BY <2>2 DEF SendSegment
<1>2. chan \in ChannelType /\ chip \in ChipType /\ chip.wedged = FALSE
      BY DEF IInv, TypeOK, ChipType
<1>3. chan.seen = gen  BY ConnectedInStep DEF SendSegment
<1>4. Live(core, chan, chip, hist) /\ Shape(core, chan) /\ Staged(chan)  BY <1>3 DEF IInv
<1>5. /\ hist.submitted \in Nat /\ hist.confirmed \in Nat /\ hist.reported \in Nat
      /\ chip.tx \in 0 .. TxMem
      BY <1>2 DEF IInv, TypeOK, ChipType
<1>6. PICK n : n = Sendable(free)  OBVIOUS
<1>7. n \in Nat \ {0} /\ n <= TxMem - chip.tx
  <2>1. free = TxMem - chip.tx /\ free \in Nat  BY <1>5, Bounds DEF Stable, SendSegment
  <2>2. QED  BY <1>5, <1>6, <2>1, SendableIs DEF SendSegment
<1>8. PICK e : e = EventsCleared(chip)  OBVIOUS
<1>9. /\ e \in ChipType /\ e.cr = chip.cr /\ e.ssr = chip.ssr /\ e.doing = chip.doing
      /\ e.tcp = chip.tcp /\ e.sendok = FALSE /\ e.timeout = FALSE
      /\ e.written = chip.written /\ e.segment = chip.segment /\ e.tx = chip.tx
      /\ e.rx = chip.rx /\ e.read = chip.read /\ e.wedged = chip.wedged
      BY <1>2, <1>8, ClearedFields
<1>10. PICK h : h = [e EXCEPT !.tx = @ + n, !.written = n]  OBVIOUS
<1>11. /\ h \in ChipType /\ h.cr = chip.cr /\ h.ssr = chip.ssr /\ h.doing = chip.doing
       /\ h.tcp = chip.tcp /\ h.sendok = FALSE /\ h.written = n /\ h.segment = chip.segment
       /\ h.rx = chip.rx /\ h.read = chip.read /\ h.wedged = chip.wedged /\ h.tx = chip.tx + n
  <2>1. chip.tx + n \in 0 .. TxMem /\ n \in 0 .. TxMem  BY <1>5, <1>7, Bounds
  <2>2. QED  BY <1>9, <1>10, <2>1 DEF ChipType
<1>12. chip' = WithCommand(h, "SEND")  BY <1>6, <1>8, <1>10 DEF SendSegment
<1>13. /\ chip' \in ChipType /\ chip'.cr = "SEND" /\ chip'.ssr = chip.ssr /\ chip'.doing = chip.doing
       /\ chip'.tcp = chip.tcp /\ chip'.sendok = FALSE /\ chip'.written = n
       /\ chip'.segment = chip.segment /\ chip'.rx = chip.rx /\ chip'.read = chip.read
       /\ chip'.wedged = chip.wedged /\ chip'.tx = chip.tx + n
       BY <1>11, <1>12, CommandFields DEF Commands
<1>14. PICK c : c = Issued(chan, "SEND")  OBVIOUS
<1>15. Noted(c, chan) /\ c.pending = "SEND" /\ c.phase = "WAIT_CR"
       BY <1>2, <1>14, IssuedFields DEF Pendings, Commands, Noted
<1>16. chan' = [c EXCEPT !.sending = TRUE, !.octets = n]  BY <1>6, <1>14 DEF SendSegment
<1>17. /\ chan' \in ChannelType /\ chan'.pending = "SEND" /\ chan'.phase = "WAIT_CR"
       /\ chan'.sending = TRUE /\ chan'.octets = n /\ chan'.faulted = chan.faulted
       /\ chan'.close = chan.close /\ chan'.seen = chan.seen
  <2>1. n \in 0 .. TxMem  BY <1>5, <1>7, Bounds
  <2>2. QED  BY <1>15, <1>16, <2>1 DEF ChannelType, Noted
<1>18. /\ hist' \in [submitted : Nat, confirmed : Nat, reported : Nat]
       /\ hist'.submitted = hist.submitted + n /\ hist'.confirmed = hist.confirmed
       /\ hist'.reported = hist.reported
       BY <1>5, <1>6, <1>7 DEF SendSegment, IInv, TypeOK
<1>19. TypeOK'
  <2>1. gen' = gen /\ age' = age  BY <1>1
  <2>2. QED  BY <1>1, <1>13, <1>17, <1>18, <2>1 DEF TypeOK, IInv
<1>20. Confirmed(core, chan, hist) /\ chan.octets = 0
  <2>1. Confirmed(core, chan, hist)  BY <1>2, ConfirmedIs DEF ConfirmedFacts, IInv
  <2>2. QED  BY <1>1, <2>1 DEF Confirmed
<1>21. SendConfirmed'
  <2>1. Confirmed(core', chan', hist')
        BY <1>1, <1>5, <1>7, <1>17, <1>18, <1>20 DEF Confirmed
  <2>2. QED  BY <1>17, <2>1, ConfirmedIs DEF ConfirmedFacts
<1>22. Shape(core', chan') /\ Staged(chan')
       BY <1>1, <1>4, <1>17 DEF Shape, Staged, Allowed, Idling
<1>23. Live(core', chan', chip', hist')
  <2>1. chip.cr = "NONE" /\ chip.segment = 0 /\ chip.written = 0 /\ chip.doing = "NONE" /\ chip.tcp = TRUE
        BY <1>1, <1>4 DEF Live, InRegister, Outstanding, Counts, InTouch, Shape
  <2>2. InRegister(chan', chip') /\ Counts(chip')
        BY <1>4, <1>13, <1>17, <2>1 DEF InRegister, Register, Counts, Live
  <2>3. Emptied(chan', chip')  BY <1>1, <1>13, <1>17 DEF Emptied, Allowed, UdpPath
  <2>4. Sums(chan', chip', hist')
        BY <1>5, <1>7, <1>13, <1>17, <1>18, <1>20, <2>1 DEF Sums, Confirmed
  <2>5. Outstanding(core', chan', chip', hist')
        BY <1>13, <1>17, <2>1 DEF Outstanding
  <2>6. InTouch(core', chan', chip') /\ Awaiting(core', chan', chip')
        BY <1>1, <1>13, <1>17, <2>1 DEF InTouch, Awaiting
  <2>7. QED  BY <2>2, <2>3, <2>4, <2>5, <2>6 DEF Live
<1>24. QED  BY <1>1, <1>2, <1>3, <1>13, <1>17, <1>19, <1>21, <1>22, <1>23, Rebuilt

-----------------------------------------------------------------------------
\* The stages of close.

\* close is done: the socket is closed and its command register empty.
LEMMA ClosedDone ==
    ASSUME IInv, core = "closing", NEW c, InStep(c), c.faulted = FALSE, c.close \notin UdpPath,
           chip.ssr = "CLOSED", chip.cr = "NONE", chip.doing \in {"NONE", "CLOSE"},
           CloseDone(c), age' \in 0 .. CloseTimeout,
           UNCHANGED chip, UNCHANGED gen, UNCHANGED hist
    PROVE  IInv'
<1>1. /\ chan' \in ChannelType /\ chan'.pending = "NONE" /\ chan'.phase = "IDLE"
      /\ chan'.sending = FALSE /\ chan'.octets = 0 /\ chan'.faulted = FALSE
      /\ chan'.close = "IDLE" /\ chan'.seen = c.seen /\ core' = "waiting"
      BY ResetFields DEF CloseDone, InStep
<1>2. TypeOK' /\ SendConfirmed' /\ chip'.wedged = FALSE
      BY <1>1 DEF IInv, TypeOK, SendConfirmed, ChipType
<1>3. Shape(core', chan') /\ Staged(chan') /\ chan'.seen = gen'
      BY <1>1 DEF InStep, Shape, Staged, Idling
<1>4. Live(core', chan', chip', hist')
      BY <1>1 DEF InStep, Live, InRegister, Counts, Emptied, Sums, Outstanding, InTouch, Awaiting, UdpPath
<1>5. QED  BY <1>2, <1>3, <1>4, Rebuilt

\* close has failed: the channel is out of service.
LEMMA ClosedFault ==
    ASSUME IInv, core = "closing", InStep(Synced), CloseFault, age' \in 0 .. CloseTimeout,
           UNCHANGED chip, UNCHANGED gen, UNCHANGED hist
    PROVE  IInv'
<1>1. PICK c : c = Synced  OBVIOUS
<1>2. /\ chan' \in ChannelType /\ chan'.pending = c.pending /\ chan'.phase = c.phase
      /\ chan'.sending = FALSE /\ chan'.octets = 0 /\ chan'.faulted = TRUE
      /\ chan'.close = "FAULTED" /\ chan'.seen = c.seen /\ core' = "waiting"
      BY <1>1, Bounds DEF CloseFault, InStep, ChannelType, CloseStates
<1>3. TypeOK' /\ SendConfirmed' /\ chip'.wedged = FALSE
      BY <1>2 DEF IInv, TypeOK, SendConfirmed, ChipType
<1>4. Shape(core', chan') /\ Staged(chan') /\ chan'.seen = gen'
      BY <1>1, <1>2 DEF InStep, Shape, Staged, Idling
<1>5. Live(core', chan', chip', hist')
      BY <1>1, <1>2
      DEF InStep, Live, InRegister, Counts, Emptied, Sums, Outstanding, InTouch, Awaiting, UdpPath
<1>6. QED  BY <1>3, <1>4, <1>5, Rebuilt

\* A stage of close that leaves the chip alone and goes on to a stage (d).
LEMMA StageGoesOn ==
    ASSUME IInv, core = "closing", NEW c, InStep(c), NEW d, CloseBusy(d),
           d \in ChannelType, d.faulted = FALSE, d.seen = c.seen, d.close # "IDLE",
           Shape(core, d), Staged(d), InRegister(d, chip), Emptied(d, chip), Sums(d, chip, hist),
           age' \in 0 .. CloseTimeout, UNCHANGED chip, UNCHANGED gen, UNCHANGED hist
    PROVE  IInv'
<1>1. chan' = d /\ core' = core  BY DEF CloseBusy
<1>2. TypeOK' /\ SendConfirmed' /\ chip'.wedged = FALSE
      BY <1>1 DEF IInv, TypeOK, SendConfirmed, ChipType
<1>3. Shape(core', chan') /\ Staged(chan') /\ chan'.seen = gen'  BY <1>1 DEF InStep
<1>4. Live(core', chan', chip', hist')
      BY <1>1 DEF InStep, Live, Outstanding, InTouch, Awaiting, Counts
<1>5. QED  BY <1>2, <1>3, <1>4, Rebuilt

LEMMA ClosingIs ==
    ASSUME IInv, NEW stage, Closing(stage)
    PROVE  /\ core = "closing" /\ InStep(Synced) /\ Synced.faulted = FALSE /\ Synced.close = stage
           /\ age' \in 0 .. CloseTimeout /\ UNCHANGED gen /\ UNCHANGED hist
           /\ Synced.seen = gen
<1>1. core = "closing" /\ InStep(Synced) /\ Synced.seen = gen  BY SyncedInStep DEF Closing
<1>2. Synced.faulted = FALSE
  <2>1. Synced.faulted \in BOOLEAN  BY <1>1 DEF InStep, ChannelType
  <2>2. QED  BY <2>1, Zenon DEF Closing
<1>3. age' \in 0 .. CloseTimeout
  <2>1. age \in 0 .. CloseTimeout  BY DEF IInv, TypeOK
  <2>2. QED  BY <2>1, Bounds DEF Closing
<1>4. QED  BY <1>1, <1>2, <1>3 DEF Closing

LEMMA CloseTimedOutStep ==
    ASSUME IInv, CloseTimedOut
    PROVE  IInv'
<1>1. core = "closing" /\ InStep(Synced)  BY SyncedInStep DEF CloseTimedOut
<1>2. age' \in 0 .. CloseTimeout /\ UNCHANGED chip /\ UNCHANGED gen /\ UNCHANGED hist /\ CloseFault
      BY Bounds DEF CloseTimedOut
<1>3. QED  BY <1>1, <1>2, ClosedFault

LEMMA CloseBeginStep ==
    ASSUME IInv, NEW s \in Readings, CloseBegin(s)
    PROVE  IInv'
<1>1. PICK c : c = Synced  OBVIOUS
<1>2. core = "closing" /\ InStep(c) /\ c.seen = gen /\ c.close = "IDLE"
      BY <1>1, SyncedInStep DEF CloseBegin
<1>3. c.faulted = FALSE  BY <1>2 DEF InStep, Shape, ChannelType
<1>4. age' \in 0 .. CloseTimeout /\ UNCHANGED chip /\ UNCHANGED gen /\ UNCHANGED hist
      BY Bounds DEF CloseBegin
<1>5. CASE c.pending = "NONE" /\ c.phase = "IDLE" /\ s = "CLOSED"
  <2>1. CloseDone(c)  BY <1>1, <1>5 DEF CloseBegin
  <2>2. chip.ssr = "CLOSED"  BY <1>5, ReadingIs DEF Statuses
  <2>3. chip.cr = "NONE" /\ chip.doing = "NONE"
        BY <1>2, <1>5 DEF InStep, Live, InRegister, InTouch
  <2>4. QED  BY <1>2, <1>3, <1>4, <2>1, <2>2, <2>3, ClosedDone DEF UdpPath
<1>6. CASE ~(c.pending = "NONE" /\ c.phase = "IDLE" /\ s = "CLOSED")
  <2>1. PICK stage \in {"CHECK_ERRATUM", "WAIT_EXISTING_CR"} :
             /\ stage = IF c.pending = "NONE" THEN "CHECK_ERRATUM" ELSE "WAIT_EXISTING_CR"
        OBVIOUS
  <2>2. PICK e : e = SendAbandoned(c)  OBVIOUS
  <2>3. PICK d : d = Stage(e, stage)  OBVIOUS
  <2>4. CloseBusy(d)  BY <1>1, <1>6, <2>1, <2>2, <2>3 DEF CloseBegin
  <2>5. /\ e \in ChannelType /\ e.pending = c.pending /\ e.phase = c.phase
        /\ e.sending = FALSE /\ e.octets = 0 /\ e.faulted = c.faulted /\ e.seen = c.seen
        BY <1>2, <2>2, AbandonedFields DEF InStep
  <2>6. /\ d \in ChannelType /\ d.pending = c.pending /\ d.phase = c.phase
        /\ d.sending = FALSE /\ d.octets = 0 /\ d.faulted = c.faulted /\ d.close = stage
        /\ d.seen = c.seen
        BY <2>1, <2>3, <2>5, StageFields DEF CloseStates
  <2>7. Shape(core, d) /\ Staged(d)
        BY <1>2, <1>3, <2>1, <2>6 DEF InStep, Shape, Staged, Live, InTouch, Idling
  <2>8. InRegister(d, chip) /\ Emptied(d, chip) /\ Sums(d, chip, hist)
        BY <1>2, <1>3, <2>1, <2>6 DEF InStep, Live, InRegister, Emptied, Sums, UdpPath, InTouch
  <2>9. QED  BY <1>2, <1>3, <1>4, <2>1, <2>4, <2>6, <2>7, <2>8, StageGoesOn
<1>7. QED  BY <1>5, <1>6

LEMMA CloseTakesPendingStep ==
    ASSUME IInv, CloseTakesPending
    PROVE  IInv'
<1>1. PICK c : c = Synced  OBVIOUS
<1>2. core = "closing" /\ InStep(c) /\ c.seen = gen /\ c.close = "WAIT_EXISTING_CR" /\ c.faulted = FALSE
      /\ age' \in 0 .. CloseTimeout /\ UNCHANGED chip /\ UNCHANGED gen /\ UNCHANGED hist
      BY <1>1, ClosingIs DEF CloseTakesPending
<1>3. CASE Taken(c)
  <2>1. PICK e : e = Completed(c)  OBVIOUS
  <2>2. PICK d : d = Stage(e, "CHECK_ERRATUM")  OBVIOUS
  <2>3. CloseBusy(d)  BY <1>1, <1>3, <2>1, <2>2 DEF CloseTakesPending
  <2>4. Noted(e, c) /\ e.pending = "NONE" /\ e.phase = "IDLE"
        BY <1>2, <2>1, CompletedFields DEF InStep, Noted
  <2>5. /\ d \in ChannelType /\ d.pending = "NONE" /\ d.phase = "IDLE"
        /\ d.sending = c.sending /\ d.octets = c.octets /\ d.faulted = c.faulted
        /\ d.close = "CHECK_ERRATUM" /\ d.seen = c.seen
        BY <2>2, <2>4, StageFields DEF CloseStates, Noted
  <2>6. chip.cr = "NONE"  BY <1>2, <1>3 DEF Taken, InStep, Live, InRegister, Staged
  <2>7. Shape(core, d) /\ Staged(d)
        BY <1>2, <2>5 DEF InStep, Shape, Staged, Idling
  <2>8. InRegister(d, chip) /\ Emptied(d, chip) /\ Sums(d, chip, hist)
        BY <1>2, <2>5, <2>6 DEF InStep, Live, InRegister, Emptied, Sums, UdpPath
  <2>9. QED  BY <1>2, <2>3, <2>5, <2>7, <2>8, StageGoesOn
<1>4. CASE ~Taken(c)
  <2>1. CloseBusy(c)  BY <1>1, <1>4 DEF CloseTakesPending
  <2>2. QED  BY <1>2, <2>1, StageGoesOn DEF InStep, Live
<1>5. QED  BY <1>3, <1>4

LEMMA CloseChecksErratumStep ==
    ASSUME IInv, NEW free \in Stable(TxMem - chip.tx), CloseChecksErratum(free)
    PROVE  IInv'
<1>1. PICK c : c = Synced  OBVIOUS
<1>2. core = "closing" /\ InStep(c) /\ c.seen = gen /\ c.close = "CHECK_ERRATUM" /\ c.faulted = FALSE
      /\ age' \in 0 .. CloseTimeout /\ UNCHANGED chip /\ UNCHANGED gen /\ UNCHANGED hist
      BY <1>1, ClosingIs DEF CloseChecksErratum
<1>3. CASE free = -1
  <2>1. CloseBusy(c)  BY <1>1, <1>3 DEF CloseChecksErratum
  <2>2. QED  BY <1>2, <2>1, StageGoesOn DEF InStep, Live
<1>4. CASE free # -1
  <2>1. PICK stage \in {"UDP_OPEN_ISSUE", "CLOSE_ISSUE"} :
             stage = IF ErratumNeeded(free) THEN "UDP_OPEN_ISSUE" ELSE "CLOSE_ISSUE"
        OBVIOUS
  <2>2. PICK d : d = Stage(c, stage)  OBVIOUS
  <2>3. CloseBusy(d)  BY <1>1, <1>4, <2>1, <2>2 DEF CloseChecksErratum
  <2>4. /\ d \in ChannelType /\ d.pending = c.pending /\ d.phase = c.phase
        /\ d.sending = c.sending /\ d.octets = c.octets /\ d.faulted = c.faulted
        /\ d.close = stage /\ d.seen = c.seen
        BY <1>2, <2>1, <2>2, StageFields DEF CloseStates, InStep
  <2>5. Shape(core, d) /\ Staged(d)
        BY <1>2, <2>1, <2>4 DEF InStep, Shape, Staged, Idling
  <2>6. stage = "CLOSE_ISSUE" => chip.tcp = FALSE \/ chip.tx = 0
    <3>1. chip.tcp \in BOOLEAN /\ chip.tx \in 0 .. TxMem  BY DEF IInv, TypeOK, ChipType
    <3>2. free = TxMem - chip.tx  BY <1>4 DEF Stable
    <3>3. stage = "CLOSE_ISSUE" => ~ErratumNeeded(free)  BY <2>1
    <3>4. CASE free = TxMem  BY <3>1, <3>2, <3>4, Bounds
    <3>5. CASE free # TxMem
      <4>1. stage = "CLOSE_ISSUE" => ~chip.tcp  BY <3>3, <3>5 DEF ErratumNeeded
      <4>2. QED  BY <3>1, <4>1, Zenon
    <3>6. QED  BY <3>4, <3>5
  <2>7. InRegister(d, chip) /\ Emptied(d, chip) /\ Sums(d, chip, hist)
        BY <1>2, <2>1, <2>4, <2>6 DEF InStep, Live, InRegister, Emptied, Sums, UdpPath
  <2>8. QED  BY <1>2, <2>1, <2>3, <2>4, <2>5, <2>7, StageGoesOn
<1>5. QED  BY <1>3, <1>4

\* A stage of close that gives the chip a command, and the channel after it.
IssuedStage(d, c, p, stage) ==
    /\ d \in ChannelType /\ d.pending = p /\ d.phase = "WAIT_CR" /\ d.sending = c.sending
    /\ d.octets = c.octets /\ d.faulted = c.faulted /\ d.close = stage /\ d.seen = c.seen
LEMMA IssuedStageIs ==
    ASSUME NEW c \in ChannelType, NEW p \in Pendings, NEW stage \in CloseStates
    PROVE  IssuedStage(Stage(Issued(c, p), stage), c, p, stage)
<1>1. PICK i : i = Issued(c, p)  OBVIOUS
<1>2. Noted(i, c) /\ i.pending = p /\ i.phase = "WAIT_CR"  BY <1>1, IssuedFields DEF Noted
<1>3. QED  BY <1>1, <1>2, StageFields DEF IssuedStage, Noted

LEMMA StageIssues ==
    ASSUME IInv, core = "closing", NEW c, InStep(c), c.faulted = FALSE, NEW p, NEW stage,
           CloseBusy(Stage(Issued(c, p), stage)),
           <<p, stage>> \in {<<"UDP_OPEN", "UDP_OPEN_WAIT_CR">>, <<"DUMMY_SEND", "DUMMY_SEND_WAIT_CR">>,
                             <<"CLOSE", "CLOSE_WAIT_CR">>},
           chip' \in ChipType, chip'.wedged = FALSE, Live(core, chan', chip', hist),
           age' \in 0 .. CloseTimeout, UNCHANGED gen, UNCHANGED hist
    PROVE  IInv'
<1>1. IssuedStage(chan', c, p, stage) /\ core' = core
  <2>1. p \in Pendings /\ stage \in CloseStates  BY DEF Pendings, Commands, CloseStates
  <2>2. QED  BY <2>1, IssuedStageIs DEF CloseBusy, InStep
<1>2. TypeOK' /\ SendConfirmed'  BY <1>1 DEF IInv, TypeOK, SendConfirmed, IssuedStage
<1>3. Shape(core', chan') /\ Staged(chan') /\ chan'.seen = gen'
      BY <1>1 DEF InStep, Shape, Staged, Idling, IssuedStage
<1>4. Live(core', chan', chip', hist')  BY <1>1
<1>5. QED  BY <1>2, <1>3, <1>4, Rebuilt

LEMMA CloseIssuesUdpOpenStep ==
    ASSUME IInv, CloseIssuesUdpOpen
    PROVE  IInv'
<1>1. PICK c : c = Synced  OBVIOUS
<1>2. core = "closing" /\ InStep(c) /\ c.seen = gen /\ c.close = "UDP_OPEN_ISSUE" /\ c.faulted = FALSE
      /\ age' \in 0 .. CloseTimeout /\ UNCHANGED gen /\ UNCHANGED hist
      BY <1>1, ClosingIs DEF CloseIssuesUdpOpen
<1>3. CloseBusy(Stage(Issued(c, "UDP_OPEN"), "UDP_OPEN_WAIT_CR"))  BY <1>1 DEF CloseIssuesUdpOpen
<1>4. IssuedStage(chan', c, "UDP_OPEN", "UDP_OPEN_WAIT_CR")
      BY <1>2, <1>3, IssuedStageIs DEF CloseBusy, Pendings, CloseStates, InStep
<1>5. chip \in ChipType /\ chip.wedged = FALSE  BY DEF IInv, TypeOK, ChipType
<1>6. PICK h : h = [EventsCleared(chip) EXCEPT !.tcp = FALSE]  OBVIOUS
<1>7. /\ h \in ChipType /\ h.cr = chip.cr /\ h.ssr = chip.ssr /\ h.doing = chip.doing
      /\ h.tcp = FALSE /\ h.written = chip.written /\ h.segment = chip.segment /\ h.tx = chip.tx
      /\ h.rx = chip.rx /\ h.read = chip.read /\ h.wedged = chip.wedged
      BY <1>5, <1>6, ClearedFields DEF ChipType
<1>8. chip' = WithCommand(h, "OPEN")  BY <1>6 DEF CloseIssuesUdpOpen
<1>9. /\ chip' \in ChipType /\ chip'.cr = "OPEN" /\ chip'.ssr = chip.ssr /\ chip'.doing = chip.doing
      /\ chip'.tcp = FALSE /\ chip'.written = chip.written /\ chip'.segment = chip.segment
      /\ chip'.tx = chip.tx /\ chip'.rx = chip.rx /\ chip'.read = chip.read
      /\ chip'.wedged = chip.wedged
      BY <1>7, <1>8, CommandFields DEF Commands
<1>10. Live(core, chan', chip', hist)
       BY <1>2, <1>4, <1>9
       DEF InStep, Live, InRegister, Register, Counts, Emptied, Sums, Outstanding, InTouch, Awaiting,
           UdpPath, IssuedStage, Staged, Idling, Shape
<1>11. QED  BY <1>2, <1>3, <1>5, <1>9, <1>10, StageIssues

LEMMA CloseIssuesDummySendStep ==
    ASSUME IInv, CloseIssuesDummySend
    PROVE  IInv'
<1>1. PICK c : c = Synced  OBVIOUS
<1>2. core = "closing" /\ InStep(c) /\ c.seen = gen /\ c.close = "DUMMY_SEND_ISSUE" /\ c.faulted = FALSE
      /\ age' \in 0 .. CloseTimeout /\ UNCHANGED gen /\ UNCHANGED hist
      BY <1>1, ClosingIs DEF CloseIssuesDummySend
<1>3. CloseBusy(Stage(Issued(c, "DUMMY_SEND"), "DUMMY_SEND_WAIT_CR"))  BY <1>1 DEF CloseIssuesDummySend
<1>4. IssuedStage(chan', c, "DUMMY_SEND", "DUMMY_SEND_WAIT_CR")
      BY <1>2, <1>3, IssuedStageIs DEF CloseBusy, Pendings, CloseStates, InStep
<1>5. chip \in ChipType /\ chip.wedged = FALSE /\ chip.tx \in 0 .. TxMem
      BY DEF IInv, TypeOK, ChipType
<1>6. PICK e : e = EventsCleared(chip)  OBVIOUS
<1>7. /\ e \in ChipType /\ e.cr = chip.cr /\ e.ssr = chip.ssr /\ e.doing = chip.doing
      /\ e.tcp = chip.tcp /\ e.written = chip.written /\ e.segment = chip.segment /\ e.tx = chip.tx
      /\ e.rx = chip.rx /\ e.read = chip.read /\ e.wedged = chip.wedged
      BY <1>5, <1>6, ClearedFields
<1>8. PICK h : h = [e EXCEPT !.tx = @ + 1, !.written = 1]  OBVIOUS
<1>9. chip.tx < TxMem  BY <1>2 DEF InStep, Live, Emptied
<1>10. /\ h \in ChipType /\ h.cr = chip.cr /\ h.ssr = chip.ssr /\ h.doing = chip.doing
       /\ h.tcp = chip.tcp /\ h.written = 1 /\ h.segment = chip.segment
       /\ h.rx = chip.rx /\ h.read = chip.read /\ h.wedged = chip.wedged
  <2>1. chip.tx + 1 \in 0 .. TxMem /\ 1 \in 0 .. TxMem  BY <1>5, <1>9, Bounds
  <2>2. QED  BY <1>7, <1>8, <2>1 DEF ChipType
<1>11. chip' = WithCommand(h, "SEND")  BY <1>6, <1>8 DEF CloseIssuesDummySend
<1>12. /\ chip' \in ChipType /\ chip'.cr = "SEND" /\ chip'.ssr = chip.ssr /\ chip'.doing = chip.doing
       /\ chip'.tcp = chip.tcp /\ chip'.written = 1 /\ chip'.segment = chip.segment
       /\ chip'.rx = chip.rx /\ chip'.read = chip.read /\ chip'.wedged = chip.wedged
       BY <1>10, <1>11, CommandFields DEF Commands
<1>13. chip.cr = "NONE"  BY <1>2 DEF InStep, Live, InRegister, Staged, Shape, Idling
<1>14. Live(core, chan', chip', hist)
       BY <1>2, <1>4, <1>12, <1>13
       DEF InStep, Live, InRegister, Register, Counts, Emptied, Sums, Outstanding, InTouch, Awaiting,
           UdpPath, IssuedStage, Staged, Idling, Shape
<1>15. QED  BY <1>2, <1>3, <1>5, <1>12, <1>14, StageIssues

LEMMA CloseIssuesCloseStep ==
    ASSUME IInv, CloseIssuesClose
    PROVE  IInv'
<1>1. PICK c : c = Synced  OBVIOUS
<1>2. core = "closing" /\ InStep(c) /\ c.seen = gen /\ c.close = "CLOSE_ISSUE" /\ c.faulted = FALSE
      /\ age' \in 0 .. CloseTimeout /\ UNCHANGED gen /\ UNCHANGED hist
      BY <1>1, ClosingIs DEF CloseIssuesClose
<1>3. CloseBusy(Stage(Issued(c, "CLOSE"), "CLOSE_WAIT_CR"))  BY <1>1 DEF CloseIssuesClose
<1>4. IssuedStage(chan', c, "CLOSE", "CLOSE_WAIT_CR")
      BY <1>2, <1>3, IssuedStageIs DEF CloseBusy, Pendings, CloseStates, InStep, Commands
<1>5. chip \in ChipType /\ chip.wedged = FALSE  BY DEF IInv, TypeOK, ChipType
<1>6. /\ chip' \in ChipType /\ chip'.cr = "CLOSE" /\ chip'.ssr = chip.ssr /\ chip'.doing = chip.doing
      /\ chip'.tcp = chip.tcp /\ chip'.written = chip.written /\ chip'.segment = chip.segment
      /\ chip'.tx = chip.tx /\ chip'.rx = chip.rx /\ chip'.read = chip.read
      /\ chip'.wedged = chip.wedged
      BY <1>5, CommandIs DEF Commands, CloseIssuesClose
<1>7. chip.cr = "NONE"  BY <1>2 DEF InStep, Live, InRegister, Staged, Shape, Idling
<1>8. Live(core, chan', chip', hist)
      BY <1>2, <1>4, <1>6, <1>7
      DEF InStep, Live, InRegister, Register, Counts, Emptied, Sums, Outstanding, InTouch, Awaiting,
          UdpPath, IssuedStage, Staged, Idling, Shape
<1>9. QED  BY <1>2, <1>3, <1>5, <1>6, <1>8, StageIssues

LEMMA CloseWaitsStep ==
    ASSUME IInv, NEW stage, NEW next, CloseWaits(stage, next),
           <<stage, next>> \in {<<"UDP_OPEN_WAIT_CR", "UDP_OPEN_WAIT_STATE">>,
                                <<"DUMMY_SEND_WAIT_CR", "DUMMY_SEND_WAIT_RESULT">>,
                                <<"CLOSE_WAIT_CR", "CLOSE_WAIT_STATE">>}
    PROVE  IInv'
<1>1. PICK c : c = Synced  OBVIOUS
<1>2. core = "closing" /\ InStep(c) /\ c.seen = gen /\ c.close = stage /\ c.faulted = FALSE
      /\ age' \in 0 .. CloseTimeout /\ UNCHANGED chip /\ UNCHANGED gen /\ UNCHANGED hist
      BY <1>1, ClosingIs DEF CloseWaits
<1>3. CASE chip.cr # "NONE"
  <2>1. CloseBusy(c)  BY <1>1, <1>3 DEF CloseWaits
  <2>2. QED  BY <1>2, <2>1, StageGoesOn DEF InStep, Live
<1>4. CASE chip.cr = "NONE"
  <2>1. PICK e : e = [c EXCEPT !.phase = "WAIT_TARGET"]  OBVIOUS
  <2>2. PICK d : d = Stage(e, next)  OBVIOUS
  <2>3. CloseBusy(d)  BY <1>1, <1>4, <2>1, <2>2 DEF CloseWaits
  <2>4. Noted(e, c) /\ e.pending = c.pending /\ e.phase = "WAIT_TARGET"
        BY <1>2, <2>1 DEF InStep, ChannelType, Noted
  <2>5. /\ d \in ChannelType /\ d.pending = c.pending /\ d.phase = "WAIT_TARGET"
        /\ d.sending = c.sending /\ d.octets = c.octets /\ d.faulted = c.faulted
        /\ d.close = next /\ d.seen = c.seen
        BY <2>2, <2>4, StageFields DEF CloseStates, Noted
  <2>6. Shape(core, d) /\ Staged(d)
        BY <1>2, <2>5 DEF InStep, Shape, Staged, Idling
  <2>7. InRegister(d, chip) /\ Emptied(d, chip) /\ Sums(d, chip, hist)
        BY <1>2, <1>4, <2>5 DEF InStep, Live, InRegister, Emptied, Sums, UdpPath
  <2>8. QED  BY <1>2, <2>3, <2>5, <2>6, <2>7, StageGoesOn
<1>5. QED  BY <1>3, <1>4

LEMMA CloseSeesUdpStep ==
    ASSUME IInv, NEW s \in Readings, CloseSeesUdp(s)
    PROVE  IInv'
<1>1. PICK c : c = Synced  OBVIOUS
<1>2. core = "closing" /\ InStep(c) /\ c.seen = gen /\ c.close = "UDP_OPEN_WAIT_STATE" /\ c.faulted = FALSE
      /\ age' \in 0 .. CloseTimeout /\ UNCHANGED chip /\ UNCHANGED gen /\ UNCHANGED hist
      BY <1>1, ClosingIs DEF CloseSeesUdp
<1>3. CASE s = "UDP"
  <2>1. PICK e : e = Completed(c)  OBVIOUS
  <2>2. PICK d : d = Stage(e, "DUMMY_WAIT_TX_SPACE")  OBVIOUS
  <2>3. CloseBusy(d)  BY <1>1, <1>3, <2>1, <2>2 DEF CloseSeesUdp
  <2>4. Noted(e, c) /\ e.pending = "NONE" /\ e.phase = "IDLE"
        BY <1>2, <2>1, CompletedFields DEF InStep, Noted
  <2>5. /\ d \in ChannelType /\ d.pending = "NONE" /\ d.phase = "IDLE"
        /\ d.sending = c.sending /\ d.octets = c.octets /\ d.faulted = c.faulted
        /\ d.close = "DUMMY_WAIT_TX_SPACE" /\ d.seen = c.seen
        BY <2>2, <2>4, StageFields DEF CloseStates, Noted
  <2>6. chip.cr = "NONE"  BY <1>2 DEF InStep, Live, InRegister, Staged
  <2>7. chip.ssr = "UDP"  BY <1>3, ReadingIs DEF Statuses
  <2>8. Shape(core, d) /\ Staged(d)
        BY <1>2, <2>5 DEF InStep, Shape, Staged, Idling
  <2>9. InRegister(d, chip) /\ Emptied(d, chip) /\ Sums(d, chip, hist)
        BY <1>2, <2>5, <2>6, <2>7 DEF InStep, Live, InRegister, Emptied, Sums, UdpPath
  <2>10. QED  BY <1>2, <2>3, <2>5, <2>8, <2>9, StageGoesOn
<1>4. CASE s # "UDP" /\ s \in Statuses
  <2>1. CloseBusy(c)  BY <1>1, <1>4 DEF CloseSeesUdp
  <2>2. QED  BY <1>2, <2>1, StageGoesOn DEF InStep, Live
<1>5. CASE s \notin Statuses
  <2>1. CloseFault  BY <1>5 DEF CloseSeesUdp, Statuses
  <2>2. QED  BY <1>1, <1>2, <2>1, ClosedFault
<1>6. QED  BY <1>3, <1>4, <1>5

LEMMA CloseFindsSpaceStep ==
    ASSUME IInv, NEW free \in Stable(TxMem - chip.tx), CloseFindsSpace(free)
    PROVE  IInv'
<1>1. PICK c : c = Synced  OBVIOUS
<1>2. core = "closing" /\ InStep(c) /\ c.seen = gen /\ c.close = "DUMMY_WAIT_TX_SPACE" /\ c.faulted = FALSE
      /\ age' \in 0 .. CloseTimeout /\ UNCHANGED chip /\ UNCHANGED gen /\ UNCHANGED hist
      BY <1>1, ClosingIs DEF CloseFindsSpace
<1>3. CASE free >= 1
  <2>1. PICK d : d = Stage(c, "DUMMY_SEND_ISSUE")  OBVIOUS
  <2>2. CloseBusy(d)  BY <1>1, <1>3, <2>1 DEF CloseFindsSpace
  <2>3. /\ d \in ChannelType /\ d.pending = c.pending /\ d.phase = c.phase
        /\ d.sending = c.sending /\ d.octets = c.octets /\ d.faulted = c.faulted
        /\ d.close = "DUMMY_SEND_ISSUE" /\ d.seen = c.seen
        BY <1>2, <2>1, StageFields DEF CloseStates, InStep
  <2>4. Shape(core, d) /\ Staged(d)  BY <1>2, <2>3 DEF InStep, Shape, Staged, Idling
  <2>5. chip.tx < TxMem
    <3>1. chip.tx \in 0 .. TxMem  BY DEF IInv, TypeOK, ChipType
    <3>2. free = TxMem - chip.tx  BY <1>3 DEF Stable
    <3>3. QED  BY <1>3, <3>1, <3>2, Bounds
  <2>6. InRegister(d, chip) /\ Emptied(d, chip) /\ Sums(d, chip, hist)
        BY <1>2, <2>3, <2>5 DEF InStep, Live, InRegister, Emptied, Sums, UdpPath
  <2>7. QED  BY <1>2, <2>2, <2>3, <2>4, <2>6, StageGoesOn
<1>4. CASE ~(free >= 1)
  <2>1. CloseBusy(c)  BY <1>1, <1>4 DEF CloseFindsSpace
  <2>2. QED  BY <1>2, <2>1, StageGoesOn DEF InStep, Live
<1>5. QED  BY <1>3, <1>4

LEMMA CloseSeesDummySentStep ==
    ASSUME IInv, NEW s \in Readings, CloseSeesDummySent(s)
    PROVE  IInv'
<1>1. PICK c : c = Synced  OBVIOUS
<1>2. core = "closing" /\ InStep(c) /\ c.seen = gen /\ c.close = "DUMMY_SEND_WAIT_RESULT" /\ c.faulted = FALSE
      /\ age' \in 0 .. CloseTimeout /\ UNCHANGED gen /\ UNCHANGED hist
      BY <1>1, ClosingIs DEF CloseSeesDummySent
<1>3. chip.ssr = "UDP"  BY <1>2 DEF InStep, Live, Emptied, UdpPath
<1>4. s # "CLOSED"  BY <1>3, ReadingIs DEF Statuses
<1>5. CASE s \notin Statuses
  <2>1. CloseFault /\ UNCHANGED chip  BY <1>4, <1>5 DEF CloseSeesDummySent
  <2>2. QED  BY <1>1, <1>2, <2>1, ClosedFault
<1>6. CASE s \in Statuses /\ ~(chip.sendok \/ chip.timeout)
  <2>1. CloseBusy(c) /\ UNCHANGED chip  BY <1>1, <1>4, <1>6 DEF CloseSeesDummySent
  <2>2. QED  BY <1>2, <2>1, StageGoesOn DEF InStep, Live
<1>7. CASE s \in Statuses /\ (chip.sendok \/ chip.timeout)
  <2>1. PICK e : e = Completed(c)  OBVIOUS
  <2>2. PICK d : d = Stage(e, "CLOSE_ISSUE")  OBVIOUS
  <2>3. CloseBusy(d) /\ chip' = EventsCleared(chip)
        BY <1>1, <1>4, <1>7, <2>1, <2>2 DEF CloseSeesDummySent
  <2>4. Noted(e, c) /\ e.pending = "NONE" /\ e.phase = "IDLE"
        BY <1>2, <2>1, CompletedFields DEF InStep, Noted
  <2>5. /\ d \in ChannelType /\ d.pending = "NONE" /\ d.phase = "IDLE"
        /\ d.sending = c.sending /\ d.octets = c.octets /\ d.faulted = c.faulted
        /\ d.close = "CLOSE_ISSUE" /\ d.seen = c.seen
        BY <2>2, <2>4, StageFields DEF CloseStates, Noted
  <2>6. chip \in ChipType /\ chip.wedged = FALSE  BY DEF IInv, TypeOK, ChipType
  <2>7. /\ chip' \in ChipType /\ chip'.cr = chip.cr /\ chip'.read = chip.read /\ chip'.ssr = chip.ssr
        /\ chip'.doing = chip.doing /\ chip'.tcp = chip.tcp /\ chip'.written = chip.written
        /\ chip'.segment = chip.segment /\ chip'.tx = chip.tx /\ chip'.rx = chip.rx
        /\ chip'.wedged = chip.wedged
        BY <2>3, <2>6, ClearedFields
  <2>8. chip.cr = "NONE"  BY <1>2 DEF InStep, Live, InRegister, Staged
  <2>9. chan' = d /\ core' = core  BY <1>2, <2>3 DEF CloseBusy
  <2>10. TypeOK' /\ SendConfirmed'
    <3>1. gen' = gen /\ hist' = hist  BY <1>2
    <3>2. QED  BY <1>2, <2>5, <2>7, <2>9, <3>1 DEF IInv, TypeOK, SendConfirmed
  <2>11. Shape(core', chan') /\ Staged(chan') /\ chan'.seen = gen'
         BY <1>2, <2>5, <2>9 DEF InStep, Shape, Staged, Idling
  <2>12. Live(core', chan', chip', hist')
         BY <1>2, <1>3, <2>5, <2>7, <2>8, <2>9
         DEF InStep, Live, InRegister, Counts, Emptied, Sums, Outstanding, InTouch, Awaiting, UdpPath
  <2>13. QED  BY <2>6, <2>7, <2>10, <2>11, <2>12, Rebuilt
<1>8. QED  BY <1>5, <1>6, <1>7

LEMMA CloseSeesClosedStep ==
    ASSUME IInv, NEW s \in Readings, CloseSeesClosed(s)
    PROVE  IInv'
<1>1. PICK c : c = Synced  OBVIOUS
<1>2. core = "closing" /\ InStep(c) /\ c.seen = gen /\ c.close = "CLOSE_WAIT_STATE" /\ c.faulted = FALSE
      /\ age' \in 0 .. CloseTimeout /\ UNCHANGED chip /\ UNCHANGED gen /\ UNCHANGED hist
      BY <1>1, ClosingIs DEF CloseSeesClosed
<1>3. CASE s = "CLOSED"
  <2>1. PICK e : e = Completed(c)  OBVIOUS
  <2>2. CloseDone(e)  BY <1>1, <1>3, <2>1 DEF CloseSeesClosed
  <2>3. Noted(e, c) /\ e.pending = "NONE" /\ e.phase = "IDLE"
        BY <1>2, <2>1, CompletedFields DEF InStep, Noted
  <2>4. chip.ssr = "CLOSED"  BY <1>3, ReadingIs DEF Statuses
  <2>5. chip.cr = "NONE" /\ chip.doing \in {"NONE", "CLOSE"}
        BY <1>2 DEF InStep, Live, InRegister, Staged, Emptied
  <2>6. CloseDone(c)
    <3>1. ResetRuntime(e) = ResetRuntime(c)
          BY <1>2, <2>1 DEF ResetRuntime, Completed, InStep, ChannelType
    <3>2. QED  BY <2>2, <3>1 DEF CloseDone
  <2>7. QED  BY <1>2, <2>4, <2>5, <2>6, ClosedDone DEF UdpPath
<1>4. CASE s # "CLOSED" /\ s \in Statuses
  <2>1. CloseBusy(c)  BY <1>1, <1>4 DEF CloseSeesClosed
  <2>2. QED  BY <1>2, <2>1, StageGoesOn DEF InStep, Live
<1>5. CASE s \notin Statuses
  <2>1. CloseFault  BY <1>5 DEF CloseSeesClosed, Statuses
  <2>2. QED  BY <1>1, <1>2, <2>1, ClosedFault
<1>6. QED  BY <1>3, <1>4, <1>5

\* A step of the chip in step with the channel.
LEMMA ChipMoves ==
    ASSUME IInv, chan.seen = gen, UNCHANGED core, UNCHANGED chan, UNCHANGED gen, UNCHANGED age,
           UNCHANGED hist, chip' \in ChipType, chip'.wedged = FALSE, Live(core, chan, chip', hist)
    PROVE  IInv'
<1>1. TypeOK' /\ SendConfirmed'  BY DEF IInv, TypeOK, SendConfirmed
<1>2. QED  BY <1>1, Rebuilt DEF IInv

-----------------------------------------------------------------------------
\* The chip and the network, of a channel in step: a blank chip does nothing.
LEMMA TakeCommandStep ==
    ASSUME IInv, TakeCommand
    PROVE  IInv'
<1>1. chip.cr # "NONE" /\ chip.doing = "NONE" /\ UNCHANGED core /\ UNCHANGED chan /\ UNCHANGED gen
      /\ UNCHANGED age /\ UNCHANGED hist
      BY DEF TakeCommand, ChipOnly
<1>2. chip \in ChipType /\ chip.wedged = FALSE  BY DEF IInv, TypeOK, ChipType
<1>3. chan.seen = gen  BY <1>1, BlankFields DEF IInv
<1>4. Live(core, chan, chip, hist) /\ Shape(core, chan) /\ Staged(chan)  BY <1>3 DEF IInv
<1>5. CASE chip.cr = "RECV"
  <2>1. chip' = [chip EXCEPT !.cr = "NONE", !.rx = @ - chip.read, !.read = 0]
        BY <1>5 DEF TakeCommand
  <2>2. chip.rx - chip.read \in 0 .. RxMem
    <3>1. chip.rx \in 0 .. RxMem /\ chip.read \in Nat  BY <1>2 DEF ChipType
    <3>2. chip.read <= chip.rx  BY <1>4 DEF Live, Counts
    <3>3. QED  BY <3>1, <3>2, Bounds
  <2>8. PICK n \in 0 .. RxMem : chip' = [chip EXCEPT !.cr = "NONE", !.rx = n, !.read = 0]
        BY <2>1, <2>2
  <2>9. n \in Nat  BY Bounds
  <2>3. /\ chip' \in ChipType /\ chip'.cr = "NONE" /\ chip'.read = 0 /\ chip'.ssr = chip.ssr
        /\ chip'.doing = chip.doing /\ chip'.tcp = chip.tcp /\ chip'.written = chip.written
        /\ chip'.segment = chip.segment /\ chip'.tx = chip.tx /\ chip'.rx \in Nat
        /\ chip'.wedged = chip.wedged /\ chip'.sendok = chip.sendok
        BY <1>2, <2>8, <2>9 DEF ChipType, Commands
  <2>4. Live(core, chan, chip', hist)
        BY <1>1, <1>4, <1>5, <2>3, <2>9
        DEF Live, InRegister, Register, Counts, Emptied, Sums, Outstanding, InTouch, Awaiting, UdpPath
  <2>5. QED  BY <1>1, <1>2, <1>3, <2>3, <2>4, ChipMoves
<1>6. CASE chip.cr = "SEND"
  <2>1. chip' = [chip EXCEPT !.cr = "NONE", !.segment = chip.written, !.written = 0]
        BY <1>6 DEF TakeCommand
  <2>2. /\ chip' \in ChipType /\ chip'.cr = "NONE" /\ chip'.read = chip.read /\ chip'.ssr = chip.ssr
        /\ chip'.doing = chip.doing /\ chip'.tcp = chip.tcp /\ chip'.written = 0
        /\ chip'.segment = chip.written /\ chip'.tx = chip.tx /\ chip'.rx = chip.rx
        /\ chip'.wedged = chip.wedged /\ chip'.sendok = chip.sendok
        BY <1>2, <2>1, Bounds DEF ChipType, Commands
  <2>3. chip.written \in Nat /\ chip.segment \in Nat /\ hist.confirmed \in Nat /\ hist.submitted \in Nat
        BY <1>2, Bounds DEF ChipType, IInv, TypeOK
  <2>4. Sums(chan, chip', hist)
    <3>1. chan.phase = "WAIT_CR" /\ chan.pending \in {"SEND", "DUMMY_SEND"}
          BY <1>4, <1>6 DEF Live, InRegister, Register
    <3>2. chan.pending = "SEND" => chip.tcp = TRUE  BY <1>4 DEF Live, Sums
    <3>3. chan \in ChannelType  BY DEF IInv, TypeOK
    <3>4. chan.faulted = FALSE /\ chan.pending = "DUMMY_SEND" => chan.close \in UdpPath
          BY <1>4, <3>3 DEF Staged, Shape, ChannelType, CloseStates, UdpPath, Idling
    <3>5. chip.tcp = TRUE => hist.confirmed + chip.segment + chip.written <= hist.submitted
          BY <1>4 DEF Live, Sums
    <3>6. QED  BY <2>2, <2>3, <3>1, <3>2, <3>4, <3>5 DEF Sums
  <2>5. Live(core, chan, chip', hist)
        BY <1>1, <1>4, <1>6, <2>2, <2>3, <2>4
        DEF Live, InRegister, Register, Counts, Emptied, Outstanding, InTouch, Awaiting, UdpPath
  <2>6. QED  BY <1>1, <1>2, <1>3, <2>2, <2>5, ChipMoves
<1>7. CASE chip.cr \in {"OPEN", "LISTEN", "CLOSE"}
  <2>1. chip.cr = "CLOSE" => chip.tcp = FALSE \/ chip.tx = 0  BY <1>4 DEF Live, Emptied
  <2>2. PICK w : w = (chip.wedged \/ (chip.cr = "CLOSE" /\ chip.tcp /\ chip.tx # 0))  OBVIOUS
  <2>3. w = FALSE  BY <1>2, <2>1, <2>2
  <2>4. chip' = [chip EXCEPT !.cr = "NONE", !.doing = chip.cr, !.wedged = w]
        BY <1>7, <2>2 DEF TakeCommand
  <2>5. /\ chip' \in ChipType /\ chip'.cr = "NONE" /\ chip'.read = chip.read /\ chip'.ssr = chip.ssr
        /\ chip'.doing = chip.cr /\ chip'.tcp = chip.tcp /\ chip'.written = chip.written
        /\ chip'.segment = chip.segment /\ chip'.tx = chip.tx /\ chip'.rx = chip.rx
        /\ chip'.wedged = FALSE /\ chip'.sendok = chip.sendok
        BY <1>2, <1>7, <2>3, <2>4 DEF ChipType, Commands
  <2>8. chan \in ChannelType /\ core \in {"waiting", "receiving", "sending", "closing"}
        BY DEF IInv, TypeOK
  <2>9. chan.phase = "WAIT_CR" /\ chip.cr = Register(chan.pending)
        BY <1>4, <1>7 DEF Live, InRegister
  <2>10. /\ chan.pending \in {"OPEN", "UDP_OPEN", "LISTEN", "CLOSE"}
         /\ chan.pending \in {"OPEN", "LISTEN", "CLOSE"} => chip.cr = chan.pending
         /\ chan.pending = "UDP_OPEN" => chip.cr = "OPEN"
        BY <1>7, <2>8, <2>9 DEF Register, ChannelType, Commands
  <2>11. InRegister(chan, chip')  BY <2>5 DEF InRegister
  <2>12. Counts(chip')  BY <1>4, <1>7, <2>5 DEF Live, Counts
  <2>13. Sums(chan, chip', hist)  BY <1>4, <2>5 DEF Live, Sums
  <2>14. Emptied(chan, chip')
        BY <1>4, <2>5, <2>8, <2>10 DEF Live, Emptied, Staged, UdpPath, Idling
  <2>15. core \notin {"receiving", "sending"} /\ ~(core = "closing" /\ chan.close = "IDLE")
        BY <1>4, <1>7, <2>8, <2>10 DEF Live, InTouch, Outstanding, Staged
  <2>16. Outstanding(core, chan, chip', hist) /\ InTouch(core, chan, chip')
        BY <2>15 DEF Outstanding, InTouch
  <2>17. Awaiting(core, chan, chip')
        BY <1>4, <1>7, <2>5, <2>8, <2>10 DEF Live, Awaiting
  <2>6. Live(core, chan, chip', hist)  BY <2>11, <2>12, <2>13, <2>14, <2>16, <2>17 DEF Live
  <2>7. QED  BY <1>1, <1>2, <1>3, <2>5, <2>6, ChipMoves
<1>8. QED  BY <1>1, <1>2, <1>5, <1>6, <1>7 DEF ChipType, Commands

LEMMA TakeEffectStep ==
    ASSUME IInv, TakeEffect
    PROVE  IInv'
<1>1. chip.doing # "NONE" /\ UNCHANGED core /\ UNCHANGED chan /\ UNCHANGED gen
      /\ UNCHANGED age /\ UNCHANGED hist
      BY DEF TakeEffect, ChipOnly
<1>2. chip \in ChipType /\ chip.wedged = FALSE /\ chip.tx \in 0 .. TxMem
      BY DEF IInv, TypeOK, ChipType
<1>3. chan.seen = gen  BY <1>1, BlankFields DEF IInv
<1>4. Live(core, chan, chip, hist) /\ Shape(core, chan) /\ Staged(chan)  BY <1>3 DEF IInv
<1>5. hist.confirmed <= hist.submitted /\ hist.confirmed \in Nat /\ hist.submitted \in Nat
      BY DEF IInv, SendConfirmed, TypeOK
<1>6. CASE chip.doing = "LISTEN"
  <2>1. PICK to : to = IF chip.ssr = "INIT" THEN "LISTEN" ELSE chip.ssr  OBVIOUS
  <2>2. chip' = [chip EXCEPT !.doing = "NONE", !.ssr = to]  BY <1>6, <2>1 DEF TakeEffect
  <2>3. to \in Statuses  BY <1>2, <2>1 DEF ChipType, Statuses
  <2>4. /\ chip' \in ChipType /\ chip'.cr = chip.cr /\ chip'.read = chip.read /\ chip'.ssr = to
        /\ chip'.doing = "NONE" /\ chip'.tcp = chip.tcp /\ chip'.written = chip.written
        /\ chip'.segment = chip.segment /\ chip'.tx = chip.tx /\ chip'.rx = chip.rx
        /\ chip'.wedged = chip.wedged /\ chip'.sendok = chip.sendok
        BY <1>2, <2>2, <2>3 DEF ChipType
  <2>5. Live(core, chan, chip', hist)
        BY <1>1, <1>4, <1>6, <2>1, <2>4
        DEF Live, InRegister, Register, Counts, Emptied, Sums, Outstanding, InTouch, Awaiting, UdpPath
  <2>6. QED  BY <1>1, <1>2, <1>3, <2>4, <2>5, ChipMoves
<1>7. CASE chip.doing = "OPEN"
  <2>1. PICK n \in {0, chip.tx}, to \in {"INIT", "UDP"} :
             /\ chip' = [chip EXCEPT !.doing = "NONE", !.ssr = to, !.segment = 0, !.rx = 0,
                                     !.read = 0, !.tx = n]
             /\ to = IF chip.tcp THEN "INIT" ELSE "UDP"
    <3>1. CASE chip.tcp
          BY <1>7, <3>1 DEF TakeEffect
    <3>2. CASE ~chip.tcp
          BY <1>7, <3>2 DEF TakeEffect
    <3>3. QED  BY <3>1, <3>2
  <2>2. /\ chip' \in ChipType /\ chip'.cr = chip.cr /\ chip'.read = 0 /\ chip'.ssr = to
        /\ chip'.doing = "NONE" /\ chip'.tcp = chip.tcp /\ chip'.written = chip.written
        /\ chip'.segment = 0 /\ chip'.tx \in {0, chip.tx} /\ chip'.rx = 0
        /\ chip'.wedged = chip.wedged /\ chip'.sendok = chip.sendok
        BY <1>2, <2>1, Bounds DEF ChipType, Statuses
  <2>3. chip.tcp = TRUE => to = "INIT"  BY <2>1
  <2>4. chip.tcp = FALSE => to = "UDP"  BY <2>1
  <2>5. Live(core, chan, chip', hist)
        BY <1>1, <1>2, <1>4, <1>5, <1>7, <2>2, <2>3, <2>4, Bounds
        DEF Live, InRegister, Register, Counts, Emptied, Sums, Outstanding, InTouch, Awaiting, UdpPath,
            ChipType
  <2>6. QED  BY <1>1, <1>2, <1>3, <2>2, <2>5, ChipMoves
<1>8. CASE chip.doing = "CLOSE"
  <2>1. chip' = [chip EXCEPT !.doing = "NONE", !.ssr = "CLOSED", !.segment = 0,
                             !.tx = 0, !.rx = 0, !.read = 0]
        BY <1>8 DEF TakeEffect
  <2>2. /\ chip' \in ChipType /\ chip'.cr = chip.cr /\ chip'.read = 0 /\ chip'.ssr = "CLOSED"
        /\ chip'.doing = "NONE" /\ chip'.tcp = chip.tcp /\ chip'.written = chip.written
        /\ chip'.segment = 0 /\ chip'.tx = 0 /\ chip'.rx = 0
        /\ chip'.wedged = chip.wedged /\ chip'.sendok = chip.sendok
        BY <1>2, <2>1, Bounds DEF ChipType, Statuses
  <2>3. Live(core, chan, chip', hist)
        BY <1>1, <1>2, <1>4, <1>5, <1>8, <2>2, Bounds
        DEF Live, InRegister, Register, Counts, Emptied, Sums, Outstanding, InTouch, Awaiting, UdpPath,
            ChipType
  <2>4. QED  BY <1>1, <1>2, <1>3, <2>2, <2>3, ChipMoves
<1>9. QED  BY <1>1, <1>2, <1>6, <1>7, <1>8 DEF ChipType

LEMMA SendSucceedsStep ==
    ASSUME IInv, SendSucceeds
    PROVE  IInv'
<1>1. chip.segment > 0 /\ UNCHANGED core /\ UNCHANGED chan /\ UNCHANGED gen /\ UNCHANGED age
      BY DEF SendSucceeds
<1>2. chip \in ChipType /\ chip.wedged = FALSE /\ chip.tcp \in BOOLEAN
      /\ chip.segment \in Nat /\ chip.written \in Nat
      BY Bounds DEF IInv, TypeOK, ChipType
<1>3. chan.seen = gen  BY <1>1, BlankFields DEF IInv
<1>4. Live(core, chan, chip, hist) /\ Shape(core, chan) /\ Staged(chan)  BY <1>3 DEF IInv
<1>5. chan \in ChannelType /\ hist \in [submitted : Nat, confirmed : Nat, reported : Nat]
      /\ hist.confirmed \in Nat /\ hist.submitted \in Nat /\ hist.reported \in Nat
      /\ chan.octets \in Nat /\ Confirmed(core, chan, hist)
      BY Bounds, ConfirmedIs DEF IInv, TypeOK, ConfirmedFacts, ChannelType
<1>6. PICK n \in 0 .. TxMem, m \in Nat :
         /\ chip' = [chip EXCEPT !.segment = 0, !.sendok = TRUE, !.tx = n]
         /\ hist' = [hist EXCEPT !.confirmed = m]
         /\ chip.tcp = TRUE => n = chip.tx /\ m = hist.confirmed + chip.segment
         /\ chip.tcp = FALSE => n = 0 /\ m = hist.confirmed
  <2>1. CASE chip.tcp = TRUE
    <3>1. /\ chip' = [chip EXCEPT !.segment = 0, !.sendok = TRUE, !.tx = chip.tx]
          /\ hist' = [hist EXCEPT !.confirmed = hist.confirmed + chip.segment]
          BY <2>1 DEF SendSucceeds
    <3>2. chip.tx \in 0 .. TxMem /\ hist.confirmed + chip.segment \in Nat
          BY <1>2, <1>5 DEF ChipType
    <3>3. QED  BY <2>1, <3>1, <3>2
  <2>2. CASE chip.tcp = FALSE
    <3>1. /\ chip' = [chip EXCEPT !.segment = 0, !.sendok = TRUE, !.tx = 0]
          /\ hist' = [hist EXCEPT !.confirmed = hist.confirmed]
          BY <2>2 DEF SendSucceeds
    <3>2. QED  BY <1>5, <2>2, <3>1, Bounds
  <2>3. QED  BY <1>2, <2>1, <2>2
<1>7. /\ chip' \in ChipType /\ chip'.cr = chip.cr /\ chip'.read = chip.read /\ chip'.ssr = chip.ssr
      /\ chip'.doing = chip.doing /\ chip'.tcp = chip.tcp /\ chip'.written = chip.written
      /\ chip'.segment = 0 /\ chip'.tx = n /\ chip'.rx = chip.rx
      /\ chip'.wedged = FALSE /\ chip'.sendok = TRUE
      BY <1>2, <1>6, Bounds DEF ChipType
<1>8. /\ hist' \in [submitted : Nat, confirmed : Nat, reported : Nat]
      /\ hist'.submitted = hist.submitted /\ hist'.reported = hist.reported /\ hist'.confirmed = m
      BY <1>5, <1>6
<1>9. chip.tcp = TRUE => hist.confirmed + chip.segment + chip.written <= hist.submitted
      BY <1>4 DEF Live, Sums
<1>10. hist.confirmed <= m /\ m <= hist.submitted
       BY <1>2, <1>5, <1>6, <1>9 DEF Confirmed
<1>11. TypeOK' /\ SendConfirmed'
  <2>1. gen' = gen /\ age' = age /\ core' = core /\ chan' = chan  BY <1>1
  <2>2. Confirmed(core', chan', hist')  BY <1>5, <1>8, <1>10, <2>1 DEF Confirmed
  <2>3. chan' \in ChannelType  BY <1>5, <2>1
  <2>4. SendConfirmed'  BY <2>2, <2>3, ConfirmedIs DEF ConfirmedFacts
  <2>5. QED  BY <1>7, <1>8, <2>1, <2>3, <2>4 DEF IInv, TypeOK
<1>12. Live(core, chan, chip', hist')
  <2>1. InRegister(chan, chip') /\ Counts(chip')
        BY <1>4, <1>7 DEF Live, InRegister, Counts
  <2>2. Sums(chan, chip', hist')
        BY <1>2, <1>4, <1>5, <1>6, <1>7, <1>8, <1>9 DEF Live, Sums
  <2>3. Emptied(chan, chip')
        BY <1>2, <1>4, <1>6, <1>7, SizesAssumption DEF Live, Emptied, UdpPath
  <2>4. Outstanding(core, chan, chip', hist')
    <3>1. SUFFICES ASSUME core = "sending" PROVE Outstanding(core, chan, chip', hist')
          BY DEF Outstanding
    <3>2. chip.tcp = TRUE  BY <1>4, <3>1 DEF Live, InTouch
    <3>3. chan.sending = TRUE /\ chip.cr # "SEND" /\ chip.segment = chan.octets
          BY <1>1, <1>2, <1>4, <3>1 DEF Live, Outstanding
    <3>4. hist.reported + chan.octets <= m
          BY <1>2, <1>5, <1>6, <3>2, <3>3 DEF Confirmed
    <3>5. QED  BY <1>4, <1>7, <1>8, <3>1, <3>3, <3>4 DEF Live, Outstanding
  <2>5. InTouch(core, chan, chip') /\ Awaiting(core, chan, chip')
        BY <1>1, <1>4, <1>7 DEF Live, InTouch, Awaiting
  <2>6. QED  BY <2>1, <2>2, <2>3, <2>4, <2>5 DEF Live
<1>13. QED  BY <1>1, <1>3, <1>4, <1>7, <1>11, <1>12, Rebuilt DEF IInv

LEMMA SendTimesOutStep ==
    ASSUME IInv, SendTimesOut
    PROVE  IInv'
<1>1. chip.segment > 0 /\ chip.ssr \in Connected \union {"UDP"} /\ UNCHANGED core /\ UNCHANGED chan
      /\ UNCHANGED gen /\ UNCHANGED age /\ UNCHANGED hist
      BY DEF SendTimesOut, ChipOnly
<1>2. chip \in ChipType /\ chip.wedged = FALSE /\ chip.tcp \in BOOLEAN /\ chip.segment \in Nat
      /\ chip.written \in Nat /\ hist.confirmed \in Nat /\ hist.submitted \in Nat /\ hist.reported \in Nat
      BY Bounds DEF IInv, TypeOK, ChipType
<1>3. chan.seen = gen  BY <1>1, BlankFields DEF IInv
<1>4. Live(core, chan, chip, hist) /\ Shape(core, chan) /\ Staged(chan)  BY <1>3 DEF IInv
<1>5. PICK to \in Statuses :
         /\ chip' = [chip EXCEPT !.segment = 0, !.timeout = TRUE, !.ssr = to]
         /\ to = IF chip.tcp = TRUE THEN "CLOSED" ELSE chip.ssr
  <2>1. CASE chip.tcp = TRUE
        BY <2>1 DEF SendTimesOut, Statuses
  <2>2. CASE chip.tcp = FALSE
        BY <1>2, <2>2 DEF SendTimesOut, ChipType
  <2>3. QED  BY <1>2, <2>1, <2>2
<1>6. /\ chip' \in ChipType /\ chip'.cr = chip.cr /\ chip'.read = chip.read /\ chip'.ssr = to
      /\ chip'.doing = chip.doing /\ chip'.tcp = chip.tcp /\ chip'.written = chip.written
      /\ chip'.segment = 0 /\ chip'.tx = chip.tx /\ chip'.rx = chip.rx
      /\ chip'.wedged = FALSE /\ chip'.sendok = chip.sendok
      BY <1>2, <1>5, Bounds DEF ChipType
<1>7. core = "waiting" /\ chan.faulted = FALSE => FALSE
      BY <1>1, <1>2, <1>4 DEF Live, Awaiting, Connected
<1>8. Live(core, chan, chip', hist)
  <2>1. InRegister(chan, chip') /\ Counts(chip')
        BY <1>4, <1>6 DEF Live, InRegister, Counts
  <2>2. Sums(chan, chip', hist)  BY <1>2, <1>4, <1>6 DEF Live, Sums
  <2>3. Emptied(chan, chip')  BY <1>2, <1>4, <1>5, <1>6 DEF Live, Emptied, UdpPath
  <2>4. Outstanding(core, chan, chip', hist)
        BY <1>1, <1>4, <1>6 DEF Live, Outstanding
  <2>5. InTouch(core, chan, chip') /\ Awaiting(core, chan, chip')
        BY <1>4, <1>6, <1>7 DEF Live, InTouch, Awaiting
  <2>6. QED  BY <2>1, <2>2, <2>3, <2>4, <2>5 DEF Live
<1>9. QED  BY <1>1, <1>3, <1>6, <1>8, ChipMoves

LEMMA AcknowledgeStep ==
    ASSUME IInv, Acknowledge
    PROVE  IInv'
<1>1. chip.ssr \in Connected /\ UNCHANGED core /\ UNCHANGED chan
      /\ UNCHANGED gen /\ UNCHANGED age /\ UNCHANGED hist
      BY DEF Acknowledge, ChipOnly
<1>2. chip \in ChipType /\ chip.wedged = FALSE /\ chip.written \in 0 .. TxMem /\ chip.tx \in 0 .. TxMem
      BY DEF IInv, TypeOK, ChipType
<1>3. chan.seen = gen  BY <1>1, BlankFields DEF IInv, Connected
<1>4. Live(core, chan, chip, hist)  BY <1>3 DEF IInv
<1>5. PICK n \in chip.written .. chip.tx - 1 : chip' = [chip EXCEPT !.tx = n]  BY DEF Acknowledge
<1>6. n \in 0 .. TxMem /\ n < chip.tx  BY <1>2, Bounds
<1>7. /\ chip' \in ChipType /\ chip'.cr = chip.cr /\ chip'.read = chip.read /\ chip'.ssr = chip.ssr
      /\ chip'.doing = chip.doing /\ chip'.tcp = chip.tcp /\ chip'.written = chip.written
      /\ chip'.segment = chip.segment /\ chip'.tx = n /\ chip'.rx = chip.rx
      /\ chip'.wedged = FALSE /\ chip'.sendok = chip.sendok
      BY <1>2, <1>5, <1>6 DEF ChipType
<1>8. Live(core, chan, chip', hist)
  <2>1. Emptied(chan, chip')
        BY <1>2, <1>4, <1>6, <1>7, Bounds DEF Live, Emptied, UdpPath
  <2>2. QED
        BY <1>4, <1>7, <2>1 DEF Live, InRegister, Counts, Sums, Outstanding, InTouch, Awaiting
<1>9. QED  BY <1>1, <1>3, <1>7, <1>8, ChipMoves

LEMMA PeerStep ==
    ASSUME IInv, NEW from, NEW to, PeerSteps(from, to),
           <<from, to>> \in {<<"LISTEN", "SYNRECV">>, <<"SYNRECV", "ESTABLISHED">>,
                             <<"ESTABLISHED", "CLOSE_WAIT">>}
    PROVE  IInv'
<1>1. chip.ssr = from /\ UNCHANGED core /\ UNCHANGED chan
      /\ UNCHANGED gen /\ UNCHANGED age /\ UNCHANGED hist /\ chip' = [chip EXCEPT !.ssr = to]
      BY DEF PeerSteps, ChipOnly
<1>2. chip \in ChipType /\ chip.wedged = FALSE  BY DEF IInv, TypeOK, ChipType
<1>3. from \in {"LISTEN", "SYNRECV", "ESTABLISHED"} /\ to \in {"SYNRECV", "ESTABLISHED", "CLOSE_WAIT"}
      OBVIOUS
<1>4. chan.seen = gen  BY <1>1, <1>3, BlankFields DEF IInv
<1>5. Live(core, chan, chip, hist)  BY <1>4 DEF IInv
<1>6. /\ chip' \in ChipType /\ chip'.cr = chip.cr /\ chip'.read = chip.read /\ chip'.ssr = to
      /\ chip'.doing = chip.doing /\ chip'.tcp = chip.tcp /\ chip'.written = chip.written
      /\ chip'.segment = chip.segment /\ chip'.tx = chip.tx /\ chip'.rx = chip.rx
      /\ chip'.wedged = FALSE /\ chip'.sendok = chip.sendok
      BY <1>1, <1>2, <1>3 DEF ChipType, Statuses
<1>7. Live(core, chan, chip', hist)
  <2>1. Emptied(chan, chip') /\ Sums(chan, chip', hist)
        BY <1>1, <1>3, <1>5, <1>6 DEF Live, Emptied, UdpPath, Sums
  <2>2. Awaiting(core, chan, chip')
        BY <1>1, <1>3, <1>5, <1>6 DEF Live, Awaiting
  <2>3. QED
        BY <1>5, <1>6, <2>1, <2>2 DEF Live, InRegister, Counts, Outstanding, InTouch
<1>8. QED  BY <1>1, <1>4, <1>6, <1>7, ChipMoves

LEMMA PeerSendsStep ==
    ASSUME IInv, PeerSends
    PROVE  IInv'
<1>1. chip.ssr = "ESTABLISHED" /\ UNCHANGED core /\ UNCHANGED chan
      /\ UNCHANGED gen /\ UNCHANGED age /\ UNCHANGED hist
      BY DEF PeerSends, ChipOnly
<1>2. chip \in ChipType /\ chip.wedged = FALSE /\ chip.rx \in 0 .. RxMem /\ chip.read \in Nat
      BY DEF IInv, TypeOK, ChipType
<1>3. chan.seen = gen  BY <1>1, BlankFields DEF IInv
<1>4. Live(core, chan, chip, hist)  BY <1>3 DEF IInv
<1>5. PICK n \in 1 .. RxMem - chip.rx : chip' = [chip EXCEPT !.rx = chip.rx + n]  BY DEF PeerSends
<1>6. PICK m : m = chip.rx + n  OBVIOUS
<1>7. m \in 0 .. RxMem /\ chip.rx <= m /\ m \in Nat  BY <1>2, <1>6, Bounds
<1>8. chip' = [chip EXCEPT !.rx = m]  BY <1>5, <1>6
<1>9. /\ chip' \in ChipType /\ chip'.cr = chip.cr /\ chip'.read = chip.read /\ chip'.ssr = chip.ssr
      /\ chip'.doing = chip.doing /\ chip'.tcp = chip.tcp /\ chip'.written = chip.written
      /\ chip'.segment = chip.segment /\ chip'.tx = chip.tx /\ chip'.rx = m
      /\ chip'.wedged = FALSE /\ chip'.sendok = chip.sendok
      BY <1>2, <1>7, <1>8 DEF ChipType
<1>10. Live(core, chan, chip', hist)
  <2>1. chip.read <= m
    <3>1. chip.read <= chip.rx  BY <1>4 DEF Live, Counts
    <3>2. QED  BY <1>2, <1>7, <3>1
  <2>2. QED
        BY <1>4, <1>9, <2>1
        DEF Live, Emptied, InRegister, Counts, Sums, Outstanding, InTouch, Awaiting
<1>11. QED  BY <1>1, <1>3, <1>9, <1>10, ChipMoves

LEMMA ConnectionDropsStep ==
    ASSUME IInv, ConnectionDrops
    PROVE  IInv'
<1>1. chip.ssr \in {"SYNRECV", "ESTABLISHED", "CLOSE_WAIT"} /\ UNCHANGED core /\ UNCHANGED chan
      /\ UNCHANGED gen /\ UNCHANGED age /\ UNCHANGED hist
      /\ chip' = [chip EXCEPT !.ssr = "CLOSED", !.segment = 0]
      BY DEF ConnectionDrops, ChipOnly, Connected
<1>2. chip \in ChipType /\ chip.wedged = FALSE /\ chip.segment \in Nat /\ chip.written \in Nat
      /\ hist.confirmed \in Nat /\ hist.submitted \in Nat /\ hist.reported \in Nat
      BY Bounds DEF IInv, TypeOK, ChipType
<1>3. chan.seen = gen  BY <1>1, BlankFields DEF IInv
<1>4. Live(core, chan, chip, hist)  BY <1>3 DEF IInv
<1>5. /\ chip' \in ChipType /\ chip'.cr = chip.cr /\ chip'.read = chip.read /\ chip'.ssr = "CLOSED"
      /\ chip'.doing = chip.doing /\ chip'.tcp = chip.tcp /\ chip'.written = chip.written
      /\ chip'.segment = 0 /\ chip'.tx = chip.tx /\ chip'.rx = chip.rx
      /\ chip'.wedged = FALSE /\ chip'.sendok = chip.sendok
      BY <1>1, <1>2, Bounds DEF ChipType, Statuses
<1>6. Live(core, chan, chip', hist)
  <2>1. Emptied(chan, chip')  BY <1>1, <1>4, <1>5 DEF Live, Emptied, UdpPath
  <2>2. Sums(chan, chip', hist)  BY <1>2, <1>4, <1>5 DEF Live, Sums
  <2>3. Outstanding(core, chan, chip', hist)  BY <1>4, <1>5 DEF Live, Outstanding
  <2>4. Awaiting(core, chan, chip')  BY <1>1, <1>4, <1>5 DEF Live, Awaiting
  <2>5. QED  BY <1>4, <1>5, <2>1, <2>2, <2>3, <2>4 DEF Live, InRegister, Counts, InTouch
<1>7. QED  BY <1>1, <1>3, <1>5, <1>6, ChipMoves

LEMMA PlatformInitStep ==
    ASSUME IInv, PlatformInit
    PROVE  IInv'
<1>1. gen < MaxGeneration /\ gen' = gen + 1 /\ chip' = BlankChip /\ core' = core /\ chan' = chan
      /\ age' = age /\ hist' = hist
      BY DEF PlatformInit
<1>2. gen' \in 1 .. MaxGeneration  BY <1>1, Bounds DEF IInv, TypeOK
<1>3. chan.seen # gen' /\ chan.seen <= gen'
      BY <1>1, Bounds DEF IInv, TypeOK, ChannelType
<1>4. TypeOK' /\ SendConfirmed'  BY <1>1, <1>2, BlankFields DEF IInv, TypeOK, SendConfirmed
<1>5. QED  BY <1>1, <1>3, <1>4, BlankFields DEF IInv

-----------------------------------------------------------------------------
\* The invariant.
LEMMA Initial == Init => IInv
<1> SUFFICES ASSUME Init PROVE IInv
    OBVIOUS
<1>1. /\ chan \in ChannelType /\ chan.pending = "NONE" /\ chan.phase = "IDLE" /\ chan.sending = FALSE
      /\ chan.octets = 0 /\ chan.faulted = FALSE /\ chan.close = "IDLE" /\ chan.seen = 1
      BY SizesAssumption DEF Init, ChannelType, Commands, CloseStates
<1>2. chip = BlankChip /\ gen = 1 /\ age = 0 /\ core = "waiting"  BY DEF Init
<1>3. /\ hist \in [submitted : Nat, confirmed : Nat, reported : Nat]
      /\ hist.submitted = 0 /\ hist.confirmed = 0 /\ hist.reported = 0
      BY DEF Init
<1>4. TypeOK  BY <1>1, <1>2, <1>3, BlankFields, SizesAssumption DEF TypeOK
<1>5. SendConfirmed  BY <1>1, <1>2, <1>3 DEF SendConfirmed
<1>6. Shape(core, chan) /\ Staged(chan)  BY <1>1, <1>2 DEF Shape, Staged, Idling
<1>7. Live(core, chan, chip, hist)
  <2>1. InRegister(chan, chip) /\ Counts(chip) /\ Emptied(chan, chip)
        BY <1>1, <1>2, BlankFields DEF InRegister, Counts, Emptied, UdpPath
  <2>2. Sums(chan, chip, hist) /\ Outstanding(core, chan, chip, hist) /\ InTouch(core, chan, chip)
        BY <1>1, <1>2, <1>3, BlankFields DEF Sums, Outstanding, InTouch
  <2>3. Awaiting(core, chan, chip)
        BY <1>1, <1>2, BlankFields DEF Awaiting
  <2>4. QED  BY <2>1, <2>2, <2>3 DEF Live
<1>8. QED  BY <1>1, <1>2, <1>4, <1>5, <1>6, <1>7, BlankFields DEF IInv

LEMMA PollKeepsIInv ==
    ASSUME IInv, Poll
    PROVE  IInv'
<1>1. PICK s \in Readings : PollWith(s)  BY DEF Poll
<1>2. QED
      BY <1>1, ReportErrorStep, OpenStep, ListenStep, KeepListeningStep, ConnectStep, PeerClosedStep
      DEF PollWith

LEMMA ReceiveKeepsIInv ==
    ASSUME IInv, Receive
    PROVE  IInv'
BY ReceiveAdvancesStep, ReceiveNothingStep, ReceiveSomeStep DEF Receive

LEMMA SendKeepsIInv ==
    ASSUME IInv, Send
    PROVE  IInv'
BY SendAdvancesStep, SendSegmentLostStep, SendSegmentOpenStep, SendSegmentDoneStep, SendNothingStep,
   SendSegmentStep DEF Send

LEMMA CloseKeepsIInv ==
    ASSUME IInv, Close
    PROVE  IInv'
<1>1. CASE \E free \in Stable(TxMem - chip.tx) : CloseChecksErratum(free) \/ CloseFindsSpace(free)
      BY <1>1, CloseChecksErratumStep, CloseFindsSpaceStep
<1>2. CASE \E s \in Readings : \/ CloseBegin(s) \/ CloseSeesUdp(s)
                               \/ CloseSeesDummySent(s) \/ CloseSeesClosed(s)
      BY <1>2, CloseBeginStep, CloseSeesUdpStep, CloseSeesDummySentStep, CloseSeesClosedStep
<1>3. CASE \/ CloseWaits("UDP_OPEN_WAIT_CR", "UDP_OPEN_WAIT_STATE")
           \/ CloseWaits("DUMMY_SEND_WAIT_CR", "DUMMY_SEND_WAIT_RESULT")
           \/ CloseWaits("CLOSE_WAIT_CR", "CLOSE_WAIT_STATE")
      BY <1>3, CloseWaitsStep
<1>4. CASE \/ CloseTimedOut \/ CloseTakesPending
           \/ CloseIssuesUdpOpen \/ CloseIssuesDummySend \/ CloseIssuesClose
      BY <1>4, CloseTimedOutStep, CloseTakesPendingStep, CloseIssuesUdpOpenStep, CloseIssuesDummySendStep,
         CloseIssuesCloseStep
<1>5. QED  BY <1>1, <1>2, <1>3, <1>4 DEF Close

LEMMA StutterKeepsIInv ==
    ASSUME IInv, UNCHANGED vars
    PROVE  IInv'
<1>1. core' = core /\ chan' = chan /\ chip' = chip /\ gen' = gen /\ age' = age /\ hist' = hist
      BY DEF vars
<1>2. TypeOK' /\ SendConfirmed'  BY <1>1 DEF IInv, TypeOK, SendConfirmed
<1>3. QED  BY <1>1, <1>2 DEF IInv

LEMMA StepKeepsIInv == IInv /\ [Next]_vars => IInv'
<1> SUFFICES ASSUME IInv, [Next]_vars PROVE IInv'
    OBVIOUS
<1>1. CASE Poll  BY <1>1, PollKeepsIInv
<1>2. CASE Receive  BY <1>2, ReceiveKeepsIInv
<1>3. CASE Send  BY <1>3, SendKeepsIInv
<1>4. CASE Close  BY <1>4, CloseKeepsIInv
<1>5. CASE TakeCommand \/ TakeEffect  BY <1>5, TakeCommandStep, TakeEffectStep
<1>6. CASE SendSucceeds \/ SendTimesOut  BY <1>6, SendSucceedsStep, SendTimesOutStep
<1>7. CASE Network
      BY <1>7, PeerStep, PeerSendsStep, AcknowledgeStep, ConnectionDropsStep
      DEF Network, PeerConnects, HandshakeEnds, PeerFinishes
<1>8. CASE PlatformInit  BY <1>8, PlatformInitStep
<1>9. CASE UNCHANGED vars  BY <1>9, StutterKeepsIInv
<1>10. QED  BY <1>1, <1>2, <1>3, <1>4, <1>5, <1>6, <1>7, <1>8, <1>9 DEF Next

LEMMA Invariance == Spec => []IInv
BY Initial, StepKeepsIInv, PTL DEF Spec

\* Every field of the channel and of the chip keeps its range: a call never reads or
\* writes more than the hardware buffers hold.
THEOREM TcpTypeCorrect == Spec => []TypeOK
<1>1. IInv => TypeOK  BY DEF IInv
<1>2. QED  BY <1>1, Invariance, PTL

\* W5300 erratum 1 cannot strike: whatever the session was doing when it ended, the
\* close sequence gives CLOSE only once the TX buffer is empty or the socket is UDP.
THEOREM NoErratumCorrect == Spec => []NoErratum
<1>1. IInv => NoErratum  BY DEF IInv, NoErratum
<1>2. QED  BY <1>1, Invariance, PTL

\* send reports only octets the chip confirmed with SEND_OK and submits none twice;
\* receive hands over only octets that arrived, in whole words.
THEOREM OctetsOnceCorrect == Spec => []OctetsOnce
<1>1. IInv => OctetsOnce
  <2> SUFFICES ASSUME IInv PROVE OctetsOnce
      OBVIOUS
  <2>1. CASE chan.seen = gen  BY <2>1 DEF IInv, Live, Counts, OctetsOnce
  <2>2. CASE chan.seen # gen  BY <2>2, BlankFields DEF IInv, OctetsOnce
  <2>3. QED  BY <2>1, <2>2
<1>2. QED  BY <1>1, Invariance, PTL

\* The command register as a step may leave it.
OneCommandStep == chip'.cr \in {"NONE", chip.cr} \/ chip.cr = "NONE"

LEMMA NothingPending ==
    ASSUME IInv, NEW c, InStep(c), c.pending = "NONE"
    PROVE  chip.cr = "NONE"
BY DEF InStep, Live, InRegister, Shape

LEMMA PollWritesOnce ==
    ASSUME IInv, NEW s \in Readings, PollWith(s)
    PROVE  OneCommandStep
<1>1. core = "waiting" /\ InStep(Synced)
      BY SyncedInStep DEF PollWith, ReportError, Open, Listen, KeepListening, Connect, PeerClosed, Waiting
<1>2. ConnectionSeen(s).pending = Synced.pending  BY <1>1, ConnectionSeenIs DEF InStep
<1>3. CASE Synced.pending = "NONE"  BY <1>1, <1>3, NothingPending DEF OneCommandStep
<1>4. CASE Synced.pending # "NONE"
      BY <1>2, <1>4
      DEF PollWith, ReportError, Open, Listen, KeepListening, Connect, PeerClosed, OneCommandStep
<1>5. QED  BY <1>3, <1>4

LEMMA ReceiveWritesOnce ==
    ASSUME IInv, Receive
    PROVE  OneCommandStep
<1>1. CASE chan.pending = "NONE"
  <2>1. chan.phase = "IDLE"  BY <1>1 DEF IInv, Shape
  <2>2. chip.cr = "NONE"  BY <2>1, BlankFields DEF IInv, Live, InRegister
  <2>3. QED  BY <2>2 DEF OneCommandStep
<1>2. CASE chan.pending # "NONE"
  <2>1. UNCHANGED chip  BY <1>2 DEF Receive, ReceiveAdvances, ReceiveNothing, ReceiveSome
  <2>2. QED  BY <2>1 DEF OneCommandStep
<1>3. QED  BY <1>1, <1>2

LEMMA SendWritesOnce ==
    ASSUME IInv, Send
    PROVE  OneCommandStep
<1>1. CASE chan.pending = "NONE"
  <2>1. chan.phase = "IDLE"  BY <1>1 DEF IInv, Shape
  <2>2. chip.cr = "NONE"  BY <2>1, BlankFields DEF IInv, Live, InRegister
  <2>3. QED  BY <2>2 DEF OneCommandStep
<1>2. CASE chan.pending # "NONE"
  <2>1. UNCHANGED chip
        BY <1>2 DEF Send, SendAdvances, SendSegmentLost, SendSegmentOpen, SendSegmentDone, SendNothing,
           SendSegment
  <2>2. QED  BY <2>1 DEF OneCommandStep
<1>3. QED  BY <1>1, <1>2

LEMMA CloseWritesOnce ==
    ASSUME IInv, Close
    PROVE  OneCommandStep
<1>1. core = "closing"
      BY DEF Close, Closing, CloseTimedOut, CloseTakesPending, CloseChecksErratum, CloseFindsSpace,
             CloseIssuesUdpOpen, CloseWaits, CloseIssuesDummySend, CloseIssuesClose, CloseBegin,
             CloseSeesUdp, CloseSeesDummySent, CloseSeesClosed
<1>2. InStep(Synced)  BY <1>1, SyncedInStep
<1>3. chip \in ChipType  BY DEF IInv, TypeOK
<1>4. CASE CloseIssuesUdpOpen \/ CloseIssuesDummySend \/ CloseIssuesClose
  <2>1. Synced.close \in Idling
        BY <1>4 DEF CloseIssuesUdpOpen, CloseIssuesDummySend, CloseIssuesClose, Closing, Idling
  <2>2. Synced.pending = "NONE"  BY <1>2, <2>1 DEF InStep, Staged
  <2>3. QED  BY <1>2, <2>2, NothingPending DEF OneCommandStep
<1>5. CASE \E s \in Readings : CloseSeesDummySent(s)
  <2>1. chip' \in {chip, EventsCleared(chip)}  BY <1>5 DEF CloseSeesDummySent
  <2>2. chip'.cr = chip.cr  BY <1>3, <2>1, ClearedFields
  <2>3. QED  BY <2>2 DEF OneCommandStep
<1>6. CASE UNCHANGED chip  BY <1>6 DEF OneCommandStep
<1>7. QED
      BY <1>4, <1>5, <1>6
      DEF Close, CloseTimedOut, CloseTakesPending, CloseChecksErratum, CloseFindsSpace, CloseWaits,
          CloseBegin, CloseSeesUdp, CloseSeesClosed

\* What the steps of the chip and of the network do to what the channel relies on.
OutsideStep ==
    \/ TakeCommand \/ TakeEffect \/ SendSucceeds \/ SendTimesOut \/ Network \/ PlatformInit
LEMMA OutsideIs ==
    ASSUME IInv, OutsideStep
    PROVE  core' = core /\ chan' = chan /\ chip'.cr \in {"NONE", chip.cr}
<1>1. chip \in ChipType  BY DEF IInv, TypeOK
<1>2. CASE TakeCommand
  <2>1. CASE chip.cr = "RECV"
        BY <1>1, <1>2, <2>1 DEF TakeCommand, ChipOnly, ChipType
  <2>2. CASE chip.cr = "SEND"
        BY <1>1, <1>2, <2>2 DEF TakeCommand, ChipOnly, ChipType
  <2>3. CASE chip.cr \notin {"RECV", "SEND"}
    <3>1. PICK w : w = (chip.wedged \/ (chip.cr = "CLOSE" /\ chip.tcp /\ chip.tx # 0))
          OBVIOUS
    <3>2. chip' = [chip EXCEPT !.cr = "NONE", !.doing = chip.cr, !.wedged = w]
          BY <1>2, <2>3, <3>1 DEF TakeCommand
    <3>3. QED  BY <1>1, <1>2, <3>2 DEF TakeCommand, ChipOnly, ChipType
  <2>4. QED  BY <2>1, <2>2, <2>3
<1>3. CASE TakeEffect
  <2>1. CASE chip.doing = "LISTEN"
    <3>1. PICK to : to = IF chip.ssr = "INIT" THEN "LISTEN" ELSE chip.ssr  OBVIOUS
    <3>2. chip' = [chip EXCEPT !.doing = "NONE", !.ssr = to]  BY <1>3, <2>1, <3>1 DEF TakeEffect
    <3>3. core' = core /\ chan' = chan  BY <1>3 DEF TakeEffect, ChipOnly
    <3>4. chip'.cr = chip.cr  BY <1>1, <3>2 DEF ChipType
    <3>5. QED  BY <3>3, <3>4
  <2>2. CASE chip.doing = "OPEN"
    <3>1. PICK n, to :
             chip' = [chip EXCEPT !.doing = "NONE", !.ssr = to, !.segment = 0, !.rx = 0,
                                  !.read = 0, !.tx = n]
      <4>1. CASE chip.tcp  BY <1>3, <2>2, <4>1 DEF TakeEffect
      <4>2. CASE ~chip.tcp  BY <1>3, <2>2, <4>2 DEF TakeEffect
      <4>3. QED  BY <4>1, <4>2
    <3>2. core' = core /\ chan' = chan  BY <1>3 DEF TakeEffect, ChipOnly
    <3>3. chip'.cr = chip.cr  BY <1>1, <3>1 DEF ChipType
    <3>4. QED  BY <3>2, <3>3
  <2>3. CASE chip.doing = "CLOSE"  BY <1>1, <1>3, <2>3 DEF TakeEffect, ChipOnly, ChipType
  <2>4. QED  BY <1>1, <1>3, <2>1, <2>2, <2>3 DEF TakeEffect, ChipType
<1>4. CASE SendSucceeds \/ SendTimesOut
      BY <1>1, <1>4 DEF SendSucceeds, SendTimesOut, ChipOnly, ChipType
<1>5. CASE Network
      BY <1>1, <1>5 DEF Network, PeerConnects, HandshakeEnds, PeerFinishes, PeerSteps, PeerSends,
         Acknowledge, ConnectionDrops, ChipOnly, ChipType
<1>6. CASE PlatformInit  BY <1>6, BlankFields DEF PlatformInit
<1>7. QED  BY <1>2, <1>3, <1>4, <1>5, <1>6 DEF OutsideStep

\* No call writes the command register over a command the chip has not taken.
THEOREM TcpOneCommandCorrect == Spec => OneCommand
<1>1. IInv /\ [Next]_vars => [OneCommandStep]_vars
  <2> SUFFICES ASSUME IInv, Next PROVE OneCommandStep
      OBVIOUS
  <2>1. CASE Poll  BY <2>1, PollWritesOnce DEF Poll
  <2>2. CASE Receive  BY <2>2, ReceiveWritesOnce
  <2>3. CASE Send  BY <2>3, SendWritesOnce
  <2>4. CASE Close  BY <2>4, CloseWritesOnce
  <2>5. CASE OutsideStep  BY <2>5, OutsideIs DEF OneCommandStep
  <2>6. QED  BY <2>1, <2>2, <2>3, <2>4, <2>5 DEF Next, OutsideStep
<1>2. QED  BY <1>1, Invariance, PTL DEF Spec, OneCommand, OneCommandStep

\* Whose call a step is.
LEMMA WhoMoves ==
    ASSUME IInv, Next
    PROVE  \/ core = "waiting" /\ Poll
           \/ core = "receiving" /\ Receive
           \/ core = "sending" /\ Send
           \/ core = "closing" /\ Close
           \/ OutsideStep
<1>1. Poll => core = "waiting"
      BY DEF Poll, PollWith, ReportError, Open, Listen, KeepListening, Connect, PeerClosed, Waiting
<1>2. Receive => core = "receiving"
      BY DEF Receive, ReceiveAdvances, ReceiveNothing, ReceiveSome
<1>3. Send => core = "sending"
      BY DEF Send, SendAdvances, SendSegmentLost, SendSegmentOpen, SendSegmentDone, SendNothing, SendSegment
<1>4. Close => core = "closing"
      BY DEF Close, Closing, CloseTimedOut, CloseTakesPending, CloseChecksErratum, CloseFindsSpace,
             CloseIssuesUdpOpen, CloseWaits, CloseIssuesDummySend, CloseIssuesClose, CloseBegin,
             CloseSeesUdp, CloseSeesDummySent, CloseSeesClosed
<1>5. QED  BY <1>1, <1>2, <1>3, <1>4 DEF Next, OutsideStep

DoneIsClosedStep ==
    core = "closing" /\ core' = "waiting" /\ ~chan'.faulted =>
         chip.ssr = "CLOSED" /\ chip.cr = "NONE" /\ chan'.pending = "NONE"

LEMMA CloseIsDone ==
    ASSUME IInv, Close, core = "closing"
    PROVE  DoneIsClosedStep
<1> SUFFICES ASSUME core' = "waiting", ~chan'.faulted
             PROVE  chip.ssr = "CLOSED" /\ chip.cr = "NONE" /\ chan'.pending = "NONE"
    BY DEF DoneIsClosedStep
<1>1. InStep(Synced)  BY SyncedInStep
<1>2. PICK c : c = Synced  OBVIOUS
<1>3. c \in ChannelType  BY <1>1, <1>2 DEF InStep
<1>4. ~CloseFault  BY <1>2, <1>3 DEF CloseFault, ChannelType
<1>5. \A d : ~CloseBusy(d)  BY DEF CloseBusy
<1>6. PICK s \in Readings : CloseBegin(s) \/ CloseSeesDummySent(s) \/ CloseSeesClosed(s)
      BY <1>4, <1>5
      DEF Close, CloseTimedOut, CloseTakesPending, CloseChecksErratum, CloseFindsSpace, CloseWaits,
          CloseIssuesUdpOpen, CloseIssuesDummySend, CloseIssuesClose, CloseSeesUdp
<1>7. s = "CLOSED"
      BY <1>4, <1>5, <1>6 DEF CloseBegin, CloseSeesDummySent, CloseSeesClosed
<1>8. chip.ssr = "CLOSED"  BY <1>7, ReadingIs DEF Statuses
<1>9. chip.cr = "NONE"
  <2>1. CASE CloseBegin(s)
        BY <1>1, <1>5, <2>1, NothingPending DEF CloseBegin
  <2>2. CASE CloseSeesDummySent(s) \/ CloseSeesClosed(s)
    <3>1. Synced.phase = "WAIT_TARGET"
          BY <1>1, <2>2 DEF InStep, Staged, CloseSeesDummySent, CloseSeesClosed, Closing
    <3>2. QED  BY <1>1, <3>1 DEF InStep, Live, InRegister
  <2>3. QED  BY <1>6, <2>1, <2>2
<1>10. chan'.pending = "NONE"
  <2>1. PICK d \in {Synced, Completed(Synced)} : CloseDone(d)
        BY <1>5, <1>6, <1>7 DEF CloseBegin, CloseSeesDummySent, CloseSeesClosed
  <2>2. d \in ChannelType  BY <1>2, <1>3, <2>1, CompletedFields
  <2>3. QED  BY <2>1, <2>2, ResetFields DEF CloseDone
<1>11. QED  BY <1>8, <1>9, <1>10

FaultIsolatesStep ==
    chan.faulted =>
         /\ chan'.faulted = (chan'.seen = chan.seen)
         /\ chan'.faulted => core' = "waiting" /\ chip'.cr \in {"NONE", chip.cr}

LEMMA FaultStays ==
    ASSUME IInv, Next
    PROVE  FaultIsolatesStep
<1> SUFFICES ASSUME chan.faulted = TRUE
             PROVE  /\ chan'.faulted = (chan'.seen = chan.seen)
                    /\ chan'.faulted => core' = "waiting" /\ chip'.cr \in {"NONE", chip.cr}
  <2>1. chan.faulted \in BOOLEAN  BY DEF IInv, TypeOK, ChannelType
  <2>2. QED  BY <2>1, Zenon DEF FaultIsolatesStep
<1>1. chan \in ChannelType /\ core = "waiting"  BY DEF IInv, TypeOK, Shape
<1>2. CASE OutsideStep
  <2>1. core' = core /\ chan' = chan /\ chip'.cr \in {"NONE", chip.cr}  BY <1>2, OutsideIs
  <2>2. chan'.faulted = TRUE /\ (chan'.seen = chan.seen) = TRUE  BY <2>1
  <2>3. QED  BY <1>1, <2>1, <2>2
<1>3. CASE Poll
  <2>1. PICK s \in Readings : PollWith(s)  BY <1>3 DEF Poll
  <2>2. InStep(Synced) /\ Synced.seen = gen  BY <1>1, SyncedInStep
  <2>3. CASE chan.seen = gen
    <3>1. Synced = chan  BY <2>3 DEF Synced
    <3>2. ~Allowed(Synced)  BY <3>1 DEF Allowed
    <3>3. chan' = chan /\ chip' = chip /\ core' = core
          BY <2>1, <3>1, <3>2
          DEF PollWith, ReportError, Open, Listen, KeepListening, Connect, PeerClosed, Waiting
    <3>4. chan'.faulted = TRUE /\ (chan'.seen = chan.seen) = TRUE  BY <3>3
    <3>5. QED  BY <1>1, <3>3, <3>4
  <2>4. CASE chan.seen # gen
    <3>1. Synced.faulted = FALSE
      <4>1. PICK r : r = ResetRuntime(chan)  OBVIOUS
      <4>2. r \in ChannelType /\ r.faulted = FALSE  BY <1>1, <4>1, ResetFields
      <4>3. Synced = [r EXCEPT !.seen = gen]  BY <2>4, <4>1 DEF Synced
      <4>4. QED  BY <4>2, <4>3 DEF ChannelType
    <3>2. IInv' /\ core' \in {"waiting", "receiving", "closing"} /\ gen' = gen
          BY <1>3, <2>1, PollKeepsIInv, <1>1
          DEF PollWith, ReportError, Open, Listen, KeepListening, Connect, PeerClosed, Waiting
    <3>3. Noted(chan', Synced)
      <4>1. Noted(Synced, Synced) /\ Noted(ConnectionSeen(s), Synced)
            BY <2>2, ConnectionSeenIs DEF InStep, Noted
      <4>2. PICK d : d = ConnectionSeen(s)  OBVIOUS
      <4>3. CASE chan' \in {Synced, d}  BY <4>1, <4>2, <4>3
      <4>4. CASE chan' \in {Issued(d, "OPEN"), Issued(d, "LISTEN")}
            BY <4>1, <4>2, <4>4, IssuedFields DEF Noted, Pendings, Commands
      <4>5. CASE chan' = [Synced EXCEPT !.connected = TRUE]
            BY <2>2, <4>5 DEF InStep, Noted, ChannelType
      <4>6. CASE d.pending # "NONE" /\ chan' = Advance(d, s).chan
        <5>1. Synced.pending = "NONE"
          <6>1. PICK r : r = ResetRuntime(chan)  OBVIOUS
          <6>2. r \in ChannelType /\ r.pending = "NONE"  BY <1>1, <6>1, ResetFields
          <6>3. Synced = [r EXCEPT !.seen = gen]  BY <2>4, <6>1 DEF Synced
          <6>4. QED  BY <6>2, <6>3 DEF ChannelType
        <5>2. QED  BY <2>2, <4>2, <4>6, <5>1, ConnectionSeenIs DEF InStep
      <4>7. QED
            BY <2>1, <4>2, <4>3, <4>4, <4>5, <4>6
            DEF PollWith, ReportError, Open, Listen, KeepListening, Connect, PeerClosed
    <3>4. chan'.faulted = FALSE /\ chan'.seen = gen  BY <2>2, <3>1, <3>3 DEF Noted
    <3>5. (chan'.seen = chan.seen) = FALSE  BY <2>4, <3>4
    <3>6. QED  BY <3>4, <3>5
  <2>5. QED  BY <2>3, <2>4
<1>4. QED  BY <1>1, <1>2, <1>3, WhoMoves

FreshSessionStep ==
    core = "waiting" /\ core' = "receiving" =>
         /\ ~chan'.sending /\ chan'.octets = 0 /\ chan'.close = "IDLE"
         /\ chan'.pending \in {"NONE", "LISTEN"} /\ chip.read = 0

LEMMA SessionStartsClean ==
    ASSUME IInv, Next
    PROVE  FreshSessionStep
<1> SUFFICES ASSUME core = "waiting", core' = "receiving"
             PROVE  /\ ~chan'.sending /\ chan'.octets = 0 /\ chan'.close = "IDLE"
                    /\ chan'.pending \in {"NONE", "LISTEN"} /\ chip.read = 0
    BY DEF FreshSessionStep
<1>1. ~OutsideStep  BY OutsideIs
<1>2. PICK s \in Readings : PollWith(s)  BY <1>1, WhoMoves DEF Poll
<1>3. Connect(s)
      BY <1>2 DEF PollWith, ReportError, Open, Listen, KeepListening, PeerClosed, Waiting
<1>4. PICK c : c = Synced  OBVIOUS
<1>5. InStep(c) /\ Allowed(c) /\ chip.ssr = "ESTABLISHED"
      BY <1>3, <1>4, SyncedInStep, ReadingIs DEF Connect, Statuses
<1>6. chan' = [c EXCEPT !.connected = TRUE]  BY <1>3, <1>4 DEF Connect
<1>7. /\ chan'.sending = c.sending /\ chan'.octets = c.octets /\ chan'.close = c.close
      /\ chan'.pending = c.pending
      BY <1>5, <1>6 DEF InStep, ChannelType
<1>8. c.close = "IDLE" /\ c.faulted = FALSE
  <2>1. c.close = "IDLE"  BY <1>5 DEF Allowed
  <2>2. QED  BY <1>5, <2>1 DEF InStep, Shape, ChannelType
<1>9. c.sending = FALSE /\ c.octets = 0  BY <1>5 DEF InStep, Shape
<1>10. c.pending = "LISTEN" /\ chip.cr = "NONE"  BY <1>5, <1>8 DEF InStep, Live, Awaiting
<1>11. chip.read = 0  BY <1>5, <1>10 DEF InStep, Live, Counts
<1>12. QED  BY <1>7, <1>8, <1>9, <1>10, <1>11

\* close reports success only on a closed socket with nothing pending, a fault keeps
\* the channel out of service until PlatformInit, the Core uses no channel that
\* refuses it, and a session starts with nothing left of the one before.
THEOREM TcpSessionsApartCorrect == Spec => SessionsApart
<1>1. IInv => InService
  <2>1. IInv => core \in {"waiting", "receiving", "sending", "closing"} /\ chan \in ChannelType
        BY DEF IInv, TypeOK
  <2>2. QED  BY <2>1 DEF IInv, Shape, InService, ChannelType
<1>2. IInv /\ [Next]_vars => [DoneIsClosedStep]_vars
  <2> SUFFICES ASSUME IInv, Next PROVE DoneIsClosedStep
      OBVIOUS
  <2>1. CASE core = "closing" /\ Close  BY <2>1, CloseIsDone
  <2>2. CASE OutsideStep  BY <2>2, OutsideIs DEF DoneIsClosedStep
  <2>3. CASE core # "closing"  BY <2>3 DEF DoneIsClosedStep
  <2>4. QED  BY <2>1, <2>2, <2>3, WhoMoves
<1>3. IInv /\ [Next]_vars => [FaultIsolatesStep]_vars  BY FaultStays
<1>4. IInv /\ [Next]_vars => [FreshSessionStep]_vars  BY SessionStartsClean
<1>5. QED
      BY <1>1, <1>2, <1>3, <1>4, Invariance, PTL
      DEF Spec, SessionsApart, DoneIsClosed, FaultIsolates, FreshSession, DoneIsClosedStep,
          FaultIsolatesStep, FreshSessionStep
====
