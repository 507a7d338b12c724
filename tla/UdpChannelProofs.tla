---- MODULE UdpChannelProofs ----
(***************************************************************************)
(* Theorems about UdpChannel for any set of peers, any datagrams, any FIFO  *)
(* and buffer, and any number of generations: TypeOK, Aligned, OneCommand,  *)
(* AnsweredOnce and SessionsApart.                                          *)
(*                                                                         *)
(* As for the TCP channel, a channel in step with the chip (chan.seen = gen) *)
(* and the chip satisfy Live, and one that has not yet looked at a chip      *)
(* PlatformInit has reset finds it blank.  What UDP adds: send and receive   *)
(* do not look at the generation, so that a session may go on against a     *)
(* blank chip (SessionHolds); and the FIFO must stand at a boundary between  *)
(* datagrams whenever RECV is issued (Whole, Reading).                       *)
(***************************************************************************)
EXTENDS UdpChannel, TLAPS

\* What the Core does between two closes.
Sessions == {"header", "payload", "sending"}

\* What the Core (k), the channel (c) and the history (t) know of each other,
\* whatever the chip is.
Bound(k, c, t) ==
    /\ c.phase = "IDLE" <=> c.pending = "NONE"
    /\ c.pending = "RECV" => c.phase = "WAIT_CR"
    /\ c.faulted = TRUE <=> c.close = "FAULTED"
    /\ c.close = "FAULTED" => k = "waiting"
    /\ c.close \notin {"IDLE", "FAULTED"} => k = "closing"
    /\ c.tx # "IDLE" => c.pending = "NONE"
    /\ k \in Sessions => c.candidate # NoPeer /\ c.pending \in {"NONE", "RECV"}
    /\ k \in {"payload", "sending"} => t.asker = c.candidate
    /\ t.submitted <= 1

\* A channel in service that waits for a peer holds nothing of an earlier one.
Rested(k, c) ==
    k = "waiting" /\ c.faulted = FALSE =>
       c.candidate = NoPeer /\ c.active = FALSE /\ c.tx = "IDLE" /\ c.pending \in {"NONE", "OPEN"}

\* How far a session has read the datagram, and how far the answer is.
Midway(k, c, t) ==
    /\ k \in {"header", "payload"} => c.tx = "IDLE"
    /\ k = "header" => /\ c.pending = "RECV" => c.active = TRUE
                       /\ c.active = TRUE /\ c.pending = "NONE" => c.left = c.size
    /\ k = "payload" => /\ c.active = TRUE /\ c.pending = "NONE"
                        /\ c.size >= HeaderOctets /\ c.left = c.size - HeaderOctets
                        /\ t.submitted = 0 /\ t.confirmed = 0
    /\ k = "sending" => /\ c.tx = "IDLE" => t.submitted = 0 /\ t.confirmed = 0
                        /\ c.tx # "IDLE" => t.submitted = 1 /\ c.active = FALSE
                        /\ c.active = TRUE /\ c.pending = "NONE" => c.left <= c.size

\* What each stage of close has in flight.
AtStage(k, c) ==
    /\ k = "closing" /\ c.close = "IDLE" => c.pending \in {"NONE", "RECV"}
    /\ c.close = "WAIT_EXISTING_CR" =>
          c.pending \in {"NONE", "RECV"} /\ (c.pending = "RECV" \/ c.tx # "IDLE")
    /\ c.close = "ISSUE" => c.pending = "NONE" /\ c.tx = "IDLE"
    /\ c.close = "WAIT_CR" => c.pending = "CLOSE" /\ c.phase = "WAIT_CR"
    /\ c.close = "WAIT_STATE" => c.pending = "CLOSE" /\ c.phase = "WAIT_TARGET"

Shape(k, c, t) == Bound(k, c, t) /\ Rested(k, c) /\ Midway(k, c, t) /\ AtStage(k, c)

\* A command in the register (h is the chip) is the one the channel waits for.
InRegister(c, h) ==
    c.faulted = FALSE /\ h.cr # "NONE" =>
       \/ h.cr = "SEND" /\ c.tx = "WAIT_CR_CLEAR"
       \/ h.cr = c.pending /\ c.phase = "WAIT_CR"

\* RECV is given with one whole datagram read; a closed socket has nothing to do.
Whole(h) ==
    /\ h.cr = "RECV" => h.fifo # << >> /\ h.read = InfoOctets + Words(Head(h.fifo).size)
    /\ h.ssr = "CLOSED" => h.read = 0 /\ h.sending = FALSE /\ h.cr \notin {"SEND", "RECV"}
    /\ h.cr \in {"SEND", "RECV"} => h.doing = "NONE"

\* No OPEN or CLOSE is at work in a session, and none but its own CLOSE in a close.
Settled(k, c, h) ==
    k \in Sessions \/ (k = "closing" /\ c.close \in {"IDLE", "WAIT_EXISTING_CR", "ISSUE"})
        => h.doing = "NONE"
Leaving(c, h) == c.close \in {"WAIT_CR", "WAIT_STATE"} => h.doing \in {"NONE", "CLOSE"}

\* The channel and the FIFO agree on how far the datagram at its head was read.
Reading(k, c, h) ==
    k \in Sessions =>
       /\ h.ssr = "UDP"
       /\ c.pending = "RECV" /\ h.cr = "NONE" => h.read = 0
       /\ c.pending = "NONE" /\ c.active = FALSE => h.read = 0
       /\ c.pending = "NONE" /\ c.active = TRUE =>
             /\ h.fifo # << >> /\ c.size = Head(h.fifo).size
             /\ c.candidate = Head(h.fifo).from
             /\ h.read = InfoOctets + Words(c.size - c.left)

\* SEND_OK in the interrupt register is that of the answer under way, and of no other.
Answering(k, c, h, t) ==
    /\ k \in {"header", "payload"} \/ (k = "sending" /\ c.tx = "IDLE") => h.sending = FALSE
    /\ k = "sending" /\ c.tx # "IDLE" =>
          /\ h.cr = "SEND" => t.confirmed = 0 /\ h.sending = FALSE /\ h.sendok = FALSE
          /\ h.sending = TRUE => t.confirmed = 0 /\ h.sendok = FALSE
          /\ h.sendok = TRUE => t.confirmed = 1

\* The ways a channel in service waits for a peer: closed, opening, or open.
Awaiting(k, c, h) ==
    k = "waiting" /\ c.faulted = FALSE =>
       /\ h.read = 0 /\ h.sending = FALSE
       /\ \/ h.cr = c.pending /\ h.ssr = "CLOSED" /\ h.doing \in {"NONE", "CLOSE"}
          \/ h.cr = "NONE" /\ h.ssr = "UDP" /\ h.doing = "NONE"
          \/ h.cr = "NONE" /\ c.pending = "OPEN" /\ h.ssr = "CLOSED" /\ h.doing = "OPEN"

Live(k, c, h, t) ==
    /\ InRegister(c, h) /\ Whole(h) /\ Settled(k, c, h) /\ Leaving(c, h)
    /\ Reading(k, c, h) /\ Answering(k, c, h, t) /\ Awaiting(k, c, h)

IInv ==
    /\ TypeOK /\ ~chip.torn
    /\ Shape(core, chan, hist) /\ chan.seen <= gen
    /\ chan.seen = gen => Live(core, chan, chip, hist)
    /\ chan.seen # gen => chip = BlankChip

-----------------------------------------------------------------------------
\* What the operators of the channel return.
Packets == [from : Peers, size : Nat, length : Nat]
Histories == [asker : Peers \union {NoPeer}, submitted : Nat, confirmed : Nat]

LEMMA Bounds ==
    /\ FrameOctets \in Nat /\ FrameOctets > 0 /\ TxMem \in Nat /\ MaxDatagram \in Nat
    /\ CloseTimeout \in Nat /\ CloseTimeout > 0 /\ MaxGeneration \in Nat /\ MaxGeneration > 0 /\ MaxQueue \in Nat
    /\ 0 \in 0 .. TxMem
BY SizesAssumption

LEMMA ReadingIs == \A s \in Readings : s \in {"CLOSED", "UDP"} => s = chip.ssr
BY GlitchAssumption DEF Readings

LEMMA OddIs == \A n \in Nat : n % 2 \in Nat
OBVIOUS
LEMMA WordsIs == HeaderOctets = 4 /\ InfoOctets = 8 /\ Words(0) = 0 /\ Words(4) = 4
                 /\ \A n \in Nat : Words(n) \in Nat /\ Read(n) = Words(n)
<1>1. \A n \in Nat : Words(n) \in Nat  BY OddIs DEF Words
<1>2. QED  BY <1>1 DEF Words, Read, HeaderOctets, InfoOctets

LEMMA IssuedFields ==
    ASSUME NEW c \in ChannelType, NEW p \in {"OPEN", "RECV", "CLOSE"}
    PROVE  LET d == Issued(c, p) IN
           /\ d \in ChannelType /\ d.pending = p /\ d.phase = "WAIT_CR"
           /\ d.candidate = c.candidate /\ d.active = c.active /\ d.size = c.size
           /\ d.left = c.left /\ d.tx = c.tx
           /\ d.faulted = c.faulted /\ d.close = c.close /\ d.seen = c.seen
BY DEF Issued, ChannelType

LEMMA CompletedFields ==
    ASSUME NEW c \in ChannelType
    PROVE  LET d == Completed(c) IN
           /\ d \in ChannelType /\ d.pending = "NONE" /\ d.phase = "IDLE"
           /\ d.candidate = c.candidate /\ d.active = c.active /\ d.size = c.size
           /\ d.left = c.left /\ d.tx = c.tx
           /\ d.faulted = c.faulted /\ d.close = c.close /\ d.seen = c.seen
BY DEF Completed, ChannelType

LEMMA UnstagedFields ==
    ASSUME NEW c \in ChannelType
    PROVE  LET d == Unstaged(c) IN
           /\ d \in ChannelType /\ d.pending = "NONE" /\ d.phase = "IDLE"
           /\ d.candidate = c.candidate /\ d.active = FALSE /\ d.size = 0
           /\ d.left = 0 /\ d.tx = c.tx
           /\ d.faulted = c.faulted /\ d.close = c.close /\ d.seen = c.seen
<1>1. PICK e : e = Completed(c)  OBVIOUS
<1>2. /\ e \in ChannelType /\ e.pending = "NONE" /\ e.phase = "IDLE"
      /\ e.candidate = c.candidate /\ e.tx = c.tx
      /\ e.faulted = c.faulted /\ e.close = c.close /\ e.seen = c.seen
      BY <1>1, CompletedFields
<1>3. Unstaged(c) = [e EXCEPT !.active = FALSE, !.size = 0, !.left = 0]  BY <1>1 DEF Unstaged
<1>4. PICK d : d = [e EXCEPT !.active = FALSE, !.size = 0, !.left = 0]  OBVIOUS
<1>5. /\ d \in ChannelType /\ d.pending = "NONE" /\ d.phase = "IDLE"
      /\ d.candidate = c.candidate /\ d.active = FALSE /\ d.size = 0
      /\ d.left = 0 /\ d.tx = c.tx
      /\ d.faulted = c.faulted /\ d.close = c.close /\ d.seen = c.seen
      BY <1>2, <1>4 DEF ChannelType
<1>6. QED  BY <1>3, <1>4, <1>5

LEMMA StagedFields ==
    ASSUME NEW c \in ChannelType, NEW p \in Packets
    PROVE  LET d == Staged(c, p) IN
           /\ d \in ChannelType /\ d.pending = c.pending /\ d.phase = c.phase
           /\ d.candidate = c.candidate /\ d.active = TRUE /\ d.size = p.size
           /\ d.left = p.size /\ d.tx = c.tx
           /\ d.faulted = c.faulted /\ d.close = c.close /\ d.seen = c.seen
BY DEF Staged, ChannelType, Packets

LEMMA ResetFields ==
    ASSUME NEW c \in ChannelType
    PROVE  LET d == ResetRuntime(c) IN
           /\ d \in ChannelType /\ d.pending = "NONE" /\ d.phase = "IDLE"
           /\ d.candidate = NoPeer /\ d.active = FALSE /\ d.size = 0 /\ d.left = 0
           /\ d.tx = "IDLE" /\ d.faulted = FALSE /\ d.close = "IDLE" /\ d.seen = c.seen
BY DEF ResetRuntime, ChannelType, CloseStates, TxStates

LEMMA StageFields ==
    ASSUME NEW c \in ChannelType, NEW stage \in CloseStates
    PROVE  LET d == Stage(c, stage) IN
           /\ d \in ChannelType /\ d.pending = c.pending /\ d.phase = c.phase
           /\ d.candidate = c.candidate /\ d.active = c.active /\ d.size = c.size
           /\ d.left = c.left /\ d.tx = c.tx
           /\ d.faulted = c.faulted /\ d.close = stage /\ d.seen = c.seen
BY DEF Stage, ChannelType

LEMMA TxResetFields ==
    ASSUME NEW c \in ChannelType
    PROVE  LET d == TxReset(c) IN
           /\ d \in ChannelType /\ d.pending = c.pending /\ d.phase = c.phase
           /\ d.candidate = c.candidate /\ d.active = c.active /\ d.size = c.size
           /\ d.left = c.left /\ d.tx = "IDLE"
           /\ d.faulted = c.faulted /\ d.close = c.close /\ d.seen = c.seen
BY DEF TxReset, ChannelType, TxStates

LEMMA CommandFields ==
    ASSUME NEW h \in ChipType, NEW command \in Commands
    PROVE  LET i == WithCommand(h, command) IN
           /\ i \in ChipType /\ i.cr = command /\ i.ssr = h.ssr /\ i.doing = h.doing
           /\ i.sending = h.sending /\ i.sendok = h.sendok /\ i.timeout = h.timeout
           /\ i.tx = h.tx /\ i.destination = h.destination /\ i.fifo = h.fifo
           /\ i.read = h.read /\ i.torn = h.torn
BY DEF WithCommand, ChipType

LEMMA ClearedFields ==
    ASSUME NEW h \in ChipType
    PROVE  LET i == EventsCleared(h) IN
           /\ i \in ChipType /\ i.cr = h.cr /\ i.ssr = h.ssr /\ i.doing = h.doing
           /\ i.sending = h.sending /\ i.sendok = FALSE /\ i.timeout = FALSE
           /\ i.tx = h.tx /\ i.destination = h.destination /\ i.fifo = h.fifo
           /\ i.read = h.read /\ i.torn = h.torn
BY DEF EventsCleared, ChipType

LEMMA CommandIs ==
    ASSUME NEW h \in ChipType, NEW command \in Commands
    PROVE  LET i == WithCommand(EventsCleared(h), command) IN
           /\ i \in ChipType /\ i.cr = command /\ i.ssr = h.ssr /\ i.doing = h.doing
           /\ i.sending = h.sending /\ i.sendok = FALSE /\ i.timeout = FALSE
           /\ i.tx = h.tx /\ i.destination = h.destination /\ i.fifo = h.fifo
           /\ i.read = h.read /\ i.torn = h.torn
<1>1. PICK e : e = EventsCleared(h)  OBVIOUS
<1>2. /\ e \in ChipType /\ e.cr = h.cr /\ e.ssr = h.ssr /\ e.doing = h.doing
      /\ e.sending = h.sending /\ e.sendok = FALSE /\ e.timeout = FALSE
      /\ e.tx = h.tx /\ e.destination = h.destination /\ e.fifo = h.fifo
      /\ e.read = h.read /\ e.torn = h.torn
      BY <1>1, ClearedFields
<1>3. QED  BY <1>1, <1>2, CommandFields

LEMMA ReadFields ==
    ASSUME NEW h \in ChipType, NEW n \in Nat
    PROVE  LET i == [h EXCEPT !.read = n] IN
           /\ i \in ChipType /\ i.cr = h.cr /\ i.ssr = h.ssr /\ i.doing = h.doing
           /\ i.sending = h.sending /\ i.sendok = h.sendok /\ i.timeout = h.timeout
           /\ i.tx = h.tx /\ i.destination = h.destination /\ i.fifo = h.fifo
           /\ i.read = n /\ i.torn = h.torn
BY DEF ChipType

LEMMA BlankFields ==
    /\ BlankChip \in ChipType /\ BlankChip.cr = "NONE" /\ BlankChip.ssr = "CLOSED"
    /\ BlankChip.doing = "NONE" /\ BlankChip.sending = FALSE
    /\ BlankChip.sendok = FALSE /\ BlankChip.timeout = FALSE
    /\ BlankChip.tx = 0 /\ BlankChip.destination = NoPeer /\ BlankChip.fifo = << >>
    /\ BlankChip.read = 0 /\ BlankChip.torn = FALSE /\ Len(BlankChip.fifo) = 0
<1>1. << >> \in Seq(Packets) /\ Len(<< >>) = 0  OBVIOUS
<1>2. QED  BY <1>1, Bounds DEF BlankChip, ChipType, Commands, Packets

LEMMA FirstIs ==
    ASSUME chip \in ChipType, chip.fifo # << >>
    PROVE  /\ Head(chip.fifo) \in Packets /\ Head(chip.fifo).size \in Nat
           /\ Head(chip.fifo).from \in Peers /\ Head(chip.fifo).from # NoPeer
<1>1. chip.fifo \in Seq(Packets)  BY DEF ChipType, Packets
<1>2. Head(chip.fifo) \in Packets  BY <1>1
<1>3. QED  BY <1>2, PeersAssumption DEF Packets

-----------------------------------------------------------------------------
\* sync_platform_generation leaves the channel in step with the chip.
InStep(c) ==
    /\ c \in ChannelType /\ c.seen = gen
    /\ Shape(core, c, hist) /\ Live(core, c, chip, hist)

LEMMA SyncedInStep ==
    ASSUME IInv, core \in {"waiting", "closing"}
    PROVE  InStep(Synced) /\ Synced.seen = gen
<1>1. chan \in ChannelType /\ gen \in 1 .. MaxGeneration /\ hist.submitted <= 1
      BY DEF IInv, TypeOK, Shape, Bound
<1>2. CASE chan.seen = gen
  BY <1>1, <1>2 DEF IInv, InStep, Synced
<1>3. CASE chan.seen # gen
  <2>1. PICK r : r = ResetRuntime(chan)  OBVIOUS
  <2>2. /\ r \in ChannelType /\ r.pending = "NONE" /\ r.phase = "IDLE" /\ r.candidate = NoPeer
        /\ r.active = FALSE /\ r.tx = "IDLE" /\ r.faulted = FALSE /\ r.close = "IDLE"
        BY <1>1, <2>1, ResetFields
  <2>3. PICK c : c = [r EXCEPT !.seen = gen]  OBVIOUS
  <2>4. gen \in 0 .. MaxGeneration  BY <1>1
  <2>5. /\ c \in ChannelType /\ c.pending = "NONE" /\ c.phase = "IDLE" /\ c.seen = gen
        /\ c.candidate = NoPeer /\ c.active = FALSE /\ c.tx = "IDLE"
        /\ c.faulted = FALSE /\ c.close = "IDLE"
        BY <2>2, <2>3, <2>4 DEF ChannelType
  <2>6. Synced = c  BY <1>3, <2>1, <2>3 DEF Synced
  <2>7. chip = BlankChip  BY <1>3 DEF IInv
  <2>8. Shape(core, c, hist)
        BY <1>1, <2>5 DEF Shape, Bound, Rested, Midway, AtStage, Sessions
  <2>9. Live(core, c, chip, hist)
        BY <2>5, <2>7, BlankFields
        DEF Live, InRegister, Whole, Settled, Leaving, Reading, Answering, Awaiting, Sessions
  <2>10. QED  BY <2>5, <2>6, <2>8, <2>9 DEF InStep
<1>4. QED  BY <1>2, <1>3

LEMMA Rebuilt ==
    ASSUME TypeOK', chip'.torn = FALSE, chan'.seen = gen',
           Shape(core', chan', hist'), Live(core', chan', chip', hist')
    PROVE  IInv'
BY DEF IInv, TypeOK

-----------------------------------------------------------------------------
\* The calls of a Core that waits for a peer.
\* A channel that differs from another only in its pending command and phase.
Noted(d, c) ==
    /\ d \in ChannelType /\ d.candidate = c.candidate /\ d.active = c.active
    /\ d.size = c.size /\ d.left = c.left /\ d.tx = c.tx
    /\ d.faulted = c.faulted /\ d.close = c.close /\ d.seen = c.seen

LEMMA ContinueOpenStep ==
    ASSUME IInv, NEW s \in Readings, ContinueOpen(s)
    PROVE  IInv'
<1>1. PICK c : c = Synced  OBVIOUS
<1>2. core = "waiting" /\ InStep(c) /\ c.seen = gen /\ Allowed(c) /\ c.pending = "OPEN"
      /\ chip' = chip /\ core' = core /\ gen' = gen /\ age' = age /\ hist' = hist
      BY <1>1, SyncedInStep DEF ContinueOpen, Waiting
<1>3. c \in ChannelType /\ c.phase \in {"WAIT_CR", "WAIT_TARGET"} /\ c.faulted = FALSE
      BY <1>2 DEF InStep, ChannelType, Shape, Bound, Allowed
<1>4. /\ Noted(chan', c)
      /\ \/ chan'.pending = c.pending /\ chan'.phase = c.phase
         \/ chan'.pending = c.pending /\ chan'.phase = "WAIT_TARGET" /\ chip.cr = "NONE"
         \/ chan'.pending = "NONE" /\ chan'.phase = "IDLE" /\ c.phase = "WAIT_TARGET" /\ s = "UDP"
  <2>1. CASE chan' = c  BY <1>3, <2>1 DEF Noted
  <2>2. CASE chan' = [c EXCEPT !.phase = "WAIT_TARGET"] /\ chip.cr = "NONE"
        BY <1>3, <2>2 DEF Noted, ChannelType
  <2>3. CASE chan' = Completed(c) /\ c.phase = "WAIT_TARGET" /\ s = "UDP"
        BY <1>3, <2>3, CompletedFields DEF Noted
  <2>4. QED  BY <1>1, <1>3, <2>1, <2>2, <2>3 DEF ContinueOpen, OpenAdvanced
<1>5. s = "UDP" => chip.ssr = "UDP"  BY ReadingIs
<1>6. TypeOK' /\ chip'.torn = FALSE  BY <1>2, <1>4 DEF IInv, TypeOK, Noted, ChipType
<1>7. Shape(core', chan', hist') /\ chan'.seen = gen'
      BY <1>2, <1>3, <1>4 DEF InStep, Noted, Shape, Bound, Rested, Midway, AtStage, Sessions
<1>8. Live(core', chan', chip', hist')
      BY <1>2, <1>3, <1>4, <1>5
      DEF InStep, Noted, Live, InRegister, Whole, Settled, Leaving, Reading, Answering, Awaiting, Sessions
<1>9. QED  BY <1>6, <1>7, <1>8, Rebuilt

LEMMA OpenStep ==
    ASSUME IInv, NEW s \in Readings, Open(s)
    PROVE  IInv'
<1>1. PICK c : c = Synced  OBVIOUS
<1>2. core = "waiting" /\ InStep(c) /\ c.seen = gen /\ Allowed(c) /\ c.pending = "NONE"
      /\ chip.ssr = "CLOSED" /\ core' = core /\ gen' = gen /\ age' = age /\ hist' = hist
      BY <1>1, SyncedInStep, ReadingIs DEF Open, Waiting, Serving
<1>3. c \in ChannelType /\ c.faulted = FALSE /\ chip \in ChipType /\ chip.torn = FALSE
      BY <1>2 DEF InStep, ChannelType, Shape, Bound, Allowed, IInv, TypeOK, ChipType
<1>4. Noted(chan', c) /\ chan'.pending = "OPEN" /\ chan'.phase = "WAIT_CR"
      BY <1>1, <1>3, IssuedFields DEF Open, Noted
<1>5. /\ chip' \in ChipType /\ chip'.cr = "OPEN" /\ chip'.ssr = chip.ssr /\ chip'.doing = chip.doing
      /\ chip'.sending = chip.sending /\ chip'.fifo = chip.fifo
      /\ chip'.read = chip.read /\ chip'.torn = chip.torn
      BY <1>3, CommandIs DEF Commands, Open
<1>6. TypeOK'  BY <1>2, <1>4, <1>5 DEF IInv, TypeOK, Noted
<1>7. Shape(core', chan', hist') /\ chan'.seen = gen'
      BY <1>2, <1>3, <1>4 DEF InStep, Noted, Shape, Bound, Rested, Midway, AtStage, Sessions
<1>8. Live(core', chan', chip', hist')
      BY <1>2, <1>3, <1>4, <1>5
      DEF InStep, Noted, Live, InRegister, Whole, Settled, Leaving, Reading, Answering, Awaiting, Sessions
<1>9. QED  BY <1>3, <1>5, <1>6, <1>7, <1>8, Rebuilt

LEMMA LooksStep ==
    ASSUME IInv, Waiting, chan' = Synced, UNCHANGED chip
    PROVE  IInv'
<1>1. PICK c : c = Synced  OBVIOUS
<1>2. core = "waiting" /\ InStep(c) /\ c.seen = gen /\ chan' = c
      /\ chip' = chip /\ core' = core /\ gen' = gen /\ age' = age /\ hist' = hist
      BY <1>1, SyncedInStep DEF Waiting
<1>3. TypeOK' /\ chip'.torn = FALSE  BY <1>2 DEF IInv, TypeOK, InStep, ChipType
<1>4. QED  BY <1>2, <1>3, Rebuilt DEF InStep

LEMMA AcceptCandidateStep ==
    ASSUME IInv, NEW s \in Readings, NEW s2, NEW size \in Stable(RxSize), AcceptCandidate(s, s2, size)
    PROVE  IInv'
<1>1. PICK c : c = Synced  OBVIOUS
<1>2. core = "waiting" /\ InStep(c) /\ c.seen = gen /\ Allowed(c) /\ c.pending = "NONE"
      /\ chip.ssr = "UDP" /\ core' = "header" /\ gen' = gen /\ age' = age /\ hist' = hist
      BY <1>1, SyncedInStep, ReadingIs DEF AcceptCandidate, Serving
<1>3. c \in ChannelType /\ c.faulted = FALSE /\ chip \in ChipType /\ chip.torn = FALSE /\ chip.read = 0
      /\ c.tx = "IDLE" /\ c.phase = "IDLE" /\ c.close = "IDLE"
      BY <1>2 DEF InStep, ChannelType, Shape, Bound, Rested, Allowed, IInv, TypeOK, ChipType, Live, Awaiting
<1>4. chip.cr = "NONE" /\ chip.doing = "NONE" /\ chip.sending = FALSE
      BY <1>2, <1>3 DEF InStep, Live, Awaiting
<1>5. chip.fifo # << >>
      BY DEF AcceptCandidate, Stable, RxSize, InfoOctets
<1>6. PICK p \in Packets : p = Head(chip.fifo) /\ p.size \in Nat /\ p.from \in Peers /\ p.from # NoPeer
      BY <1>3, <1>5, FirstIs
<1>7. PICK e : e = [c EXCEPT !.candidate = p.from]  OBVIOUS
<1>8. /\ e \in ChannelType /\ e.pending = "NONE" /\ e.phase = "IDLE" /\ e.candidate = p.from
      /\ e.tx = "IDLE" /\ e.faulted = FALSE /\ e.close = "IDLE" /\ e.seen = gen
      BY <1>2, <1>3, <1>6, <1>7 DEF ChannelType
<1>9. /\ chan' \in ChannelType /\ chan'.pending = "NONE" /\ chan'.phase = "IDLE"
      /\ chan'.candidate = p.from /\ chan'.active = TRUE /\ chan'.size = p.size
      /\ chan'.left = p.size /\ chan'.tx = "IDLE" /\ chan'.faulted = FALSE
      /\ chan'.close = "IDLE" /\ chan'.seen = gen
      BY <1>1, <1>6, <1>7, <1>8, StagedFields DEF AcceptCandidate
<1>10. chip' = [chip EXCEPT !.read = 8]  BY <1>3 DEF AcceptCandidate, InfoOctets, ChipType
<1>11. /\ chip' \in ChipType /\ chip'.cr = chip.cr /\ chip'.ssr = chip.ssr /\ chip'.doing = chip.doing
       /\ chip'.sending = chip.sending /\ chip'.fifo = chip.fifo
       /\ chip'.read = 8 /\ chip'.torn = FALSE
       BY <1>3, <1>10, ReadFields
<1>12. TypeOK'  BY <1>2, <1>9, <1>11 DEF IInv, TypeOK
<1>13. Shape(core', chan', hist') /\ chan'.seen = gen'
       BY <1>2, <1>6, <1>9 DEF InStep, Shape, Bound, Rested, Midway, AtStage, Sessions
<1>14. chip'.read = InfoOctets + Words(chan'.size - chan'.left)
       BY <1>6, <1>9, <1>11, WordsIs
<1>15. Live(core', chan', chip', hist')
       BY <1>2, <1>4, <1>5, <1>6, <1>9, <1>11, <1>14
       DEF Live, InRegister, Whole, Settled, Leaving, Reading, Answering, Awaiting, Sessions
<1>16. QED  BY <1>11, <1>12, <1>13, <1>15, Rebuilt

LEMMA PollStep ==
    ASSUME IInv, Poll
    PROVE  IInv'
<1>1. PICK s, s2 \in Readings, size \in Stable(RxSize) : PollWith(s, s2, size)  BY DEF Poll
<1>2. CASE ReportError(s, s2, size) \/ KeepListening(s, s2, size)
      BY <1>2, LooksStep DEF ReportError, KeepListening
<1>3. QED  BY <1>1, <1>2, ContinueOpenStep, OpenStep, AcceptCandidateStep DEF PollWith

-----------------------------------------------------------------------------
\* receive.
\* What a call that reads the status register as UDP knows.
LEMMA SeesUdp ==
    ASSUME IInv, core \in Sessions, NEW s \in Readings, s = "UDP"
    PROVE  InStep(chan) /\ chan.seen = gen /\ chip.ssr = "UDP"
<1>1. chip.ssr = "UDP"  BY ReadingIs
<1>2. chan.seen = gen  BY <1>1, BlankFields DEF IInv
<1>3. QED  BY <1>1, <1>2 DEF IInv, TypeOK, InStep

\* A call of a session that leaves the chip alone and fails or makes no progress.
LEMMA SessionHolds ==
    ASSUME IInv, core \in Sessions, core' \in {core, "closing"}, chan' \in ChannelType,
           chan'.seen = chan.seen, chan'.faulted = chan.faulted, chan'.close = chan.close,
           Shape(core', chan', hist'), UNCHANGED chip, UNCHANGED gen, UNCHANGED age, UNCHANGED hist,
           chan.seen = gen => Live(core', chan', chip', hist')
    PROVE  IInv'
<1>1. gen' = gen /\ age' = age /\ hist' = hist /\ chip' = chip  OBVIOUS
<1>2. TypeOK'  BY <1>1 DEF IInv, TypeOK, Sessions
<1>3. QED  BY <1>1, <1>2 DEF IInv

LEMMA ReceiveCommitsStep ==
    ASSUME IInv, ReceiveCommits
    PROVE  IInv'
<1>1. core = "header" /\ chan \in ChannelType /\ chan.pending = "RECV" /\ chan.active = TRUE
      /\ chip' = chip /\ gen' = gen /\ age' = age /\ hist' = hist /\ core' \in {core, "closing"}
      BY DEF ReceiveCommits, NoProgress, IInv, TypeOK, ChannelType
<1>2. CASE chip.cr # "NONE"
  <2>1. chan' = chan  BY <1>2 DEF ReceiveCommits
  <2>2. Shape(core', chan', hist')
        BY <1>1, <2>1 DEF IInv, Shape, Bound, Rested, Midway, AtStage, Sessions, ReceiveCommits, Allowed
  <2>3. chan.seen = gen => Live(core', chan', chip', hist')
        BY <1>1, <2>1, <2>2 DEF IInv, Live, InRegister, Whole, Settled, Leaving, Reading, Answering, Awaiting,
           Sessions, ReceiveCommits, Allowed
  <2>4. QED  BY <1>1, <2>1, <2>2, <2>3, SessionHolds DEF Sessions
<1>3. CASE chip.cr = "NONE"
  <2>1. /\ chan' \in ChannelType /\ chan'.pending = "NONE" /\ chan'.phase = "IDLE"
        /\ chan'.candidate = chan.candidate /\ chan'.active = FALSE /\ chan'.size = 0
        /\ chan'.left = 0 /\ chan'.tx = chan.tx
        /\ chan'.faulted = chan.faulted /\ chan'.close = chan.close /\ chan'.seen = chan.seen
        BY <1>1, <1>3, UnstagedFields DEF ReceiveCommits
  <2>2. Shape(core', chan', hist')
        BY <1>1, <2>1 DEF IInv, Shape, Bound, Rested, Midway, AtStage, Sessions, ReceiveCommits, Allowed
  <2>3. chan.seen = gen => Live(core', chan', chip', hist')
        BY <1>1, <1>3, <2>1, <2>2
        DEF IInv, Live, InRegister, Whole, Settled, Leaving, Reading, Answering, Awaiting, Sessions,
            ReceiveCommits, Allowed
  <2>4. QED  BY <1>1, <2>1, <2>2, <2>3, SessionHolds DEF Sessions
<1>4. QED  BY <1>2, <1>3

\* Nothing changes, or the session ends.
LEMMA SessionStops ==
    ASSUME IInv, core \in Sessions, core' \in {core, "closing"}, Allowed(chan), UNCHANGED chan,
           UNCHANGED chip, UNCHANGED gen, UNCHANGED age, UNCHANGED hist
    PROVE  IInv'
<1>1. chan' = chan /\ chan \in ChannelType /\ chip' = chip /\ gen' = gen /\ hist' = hist
      BY DEF IInv, TypeOK
<1>2. Shape(core', chan', hist')
      BY <1>1 DEF IInv, Shape, Bound, Rested, Midway, AtStage, Sessions, Allowed
<1>3. chan.seen = gen => Live(core', chan', chip', hist')
      BY <1>1 DEF IInv, Live, InRegister, Whole, Settled, Leaving, Reading, Answering, Awaiting,
         Sessions, Allowed
<1>4. QED  BY <1>1, <1>2, <1>3, SessionHolds

LEMMA ReceiveNothingSteps ==
    ASSUME IInv, NEW s, NEW size, ReceiveNothing(s, size) \/ ReceivePayloadNothing(s)
    PROVE  IInv'
<1>1. core \in Sessions /\ Allowed(chan) /\ UNCHANGED chan /\ UNCHANGED chip /\ UNCHANGED gen
      /\ UNCHANGED age /\ UNCHANGED hist /\ core' \in {core, "closing"}
      BY DEF ReceiveNothing, ReceivePayloadNothing, InPayload, Fails, NoProgress, Sessions
<1>2. QED  BY <1>1, SessionStops

\* The channel and the chip once PACKET-INFO was read, now or by an earlier call.
AtHead(c, h, p) ==
    /\ c \in ChannelType /\ c.pending = "NONE" /\ c.phase = "IDLE" /\ c.candidate = chan.candidate
    /\ c.active = TRUE /\ c.size = p.size /\ c.left = p.size /\ c.tx = "IDLE"
    /\ c.faulted = FALSE /\ c.close = "IDLE" /\ c.seen = chan.seen
    /\ h \in ChipType /\ h.cr = chip.cr /\ h.ssr = chip.ssr /\ h.doing = chip.doing
    /\ h.sending = chip.sending /\ h.sendok = chip.sendok /\ h.fifo = chip.fifo /\ h.tx = chip.tx
    /\ h.torn = FALSE /\ h.destination = chip.destination

LEMMA AtDatagramIs ==
    ASSUME IInv, NEW s \in Readings, NEW size \in Stable(RxSize), AtDatagram(s, size)
    PROVE  \E p \in Packets :
             /\ AtHead(Staging, [chip EXCEPT !.read = @ + InfoRead], p)
             /\ \/ chan.active = TRUE /\ InfoRead = 0
                \/ chan.active = FALSE /\ s = "UDP" /\ InfoRead = InfoOctets
             /\ chan.seen = gen =>
                  /\ chip.fifo # << >> /\ p = Head(chip.fifo) /\ p.from = chan.candidate
                  /\ chip.read + InfoRead = InfoOctets /\ chip.cr = "NONE" /\ chip.ssr = "UDP"
<1>1. core = "header" /\ Allowed(chan) /\ chan.pending = "NONE" /\ chan \in ChannelType
      /\ chip \in ChipType /\ chip.torn = FALSE /\ chip.read \in Nat
      BY DEF AtDatagram, IInv, TypeOK, ChipType
<1>2. chan.phase = "IDLE" /\ chan.tx = "IDLE" /\ chan.faulted = FALSE /\ chan.close = "IDLE"
      BY <1>1 DEF IInv, Shape, Bound, Midway, Allowed, ChannelType
<1>3. chan.active \in BOOLEAN  BY <1>1 DEF ChannelType
<1>4. CASE chan.active = TRUE
  <2>1. Staging = chan /\ InfoRead = 0  BY <1>4 DEF Staging, InfoRead
  <2>2. chan.left = chan.size /\ chan.size \in Nat
        BY <1>1, <1>4 DEF IInv, Shape, Midway, ChannelType
  <2>3. [chip EXCEPT !.read = @ + InfoRead] = chip  BY <1>1, <2>1 DEF ChipType
  <2>4. CASE chan.seen = gen
    <3>1. /\ chip.fifo # << >> /\ chan.size = Head(chip.fifo).size
          /\ chan.candidate = Head(chip.fifo).from /\ chip.ssr = "UDP"
          /\ chip.read = InfoOctets + Words(chan.size - chan.left)
          BY <1>1, <1>4, <2>4 DEF IInv, Live, Reading, Sessions
    <3>2. chip.read = InfoOctets  BY <2>2, <3>1, WordsIs
    <3>3. PICK p \in Packets : p = Head(chip.fifo)  BY <1>1, <3>1, FirstIs
    <3>4. chip.cr = "NONE"  BY <1>1, <1>2, <2>4 DEF IInv, Live, InRegister
    <3>5. AtHead(chan, chip, p)  BY <1>1, <1>2, <1>4, <2>2, <3>1, <3>3 DEF AtHead
    <3>6. chip.read + InfoRead = InfoOctets  BY <1>1, <2>1, <3>2
    <3>7. QED  BY <1>4, <2>1, <2>3, <3>1, <3>3, <3>4, <3>5, <3>6
  <2>5. CASE chan.seen # gen
    <3>1. PICK p : p = [from |-> chan.candidate, size |-> chan.size, length |-> 0]  OBVIOUS
    <3>2. p \in Packets
          BY <1>1, <2>2, <3>1 DEF Packets, ChannelType, IInv, Shape, Bound, Sessions
    <3>3. AtHead(chan, chip, p)  BY <1>1, <1>2, <1>4, <2>2, <3>1 DEF AtHead
    <3>4. QED  BY <1>4, <2>1, <2>3, <2>5, <3>2, <3>3
  <2>6. QED  BY <2>4, <2>5
<1>5. CASE chan.active = FALSE
  <2>1. Staging = Staged(chan, Head(chip.fifo)) /\ InfoRead = InfoOctets  BY <1>5 DEF Staging, InfoRead
  <2>2. s = "UDP" /\ size >= InfoOctets /\ Own  BY <1>5, <1>3 DEF AtDatagram, Acquires
  <2>3. chip.ssr = "UDP" /\ chan.seen = gen  BY <1>1, <2>2, SeesUdp DEF Sessions
  <2>4. chip.read = 0 /\ chip.cr = "NONE"
        BY <1>1, <1>2, <1>5, <2>3 DEF IInv, Live, Reading, Sessions, InRegister
  <2>5. chip.fifo # << >>  BY <2>2 DEF Stable, RxSize, InfoOctets
  <2>6. PICK p \in Packets : p = Head(chip.fifo)  BY <1>1, <2>5, FirstIs
  <2>7. chip.read + InfoRead = InfoOctets /\ InfoOctets \in Nat  BY <2>1, <2>4 DEF InfoOctets
  <2>8. PICK h : h = [chip EXCEPT !.read = @ + InfoRead]  OBVIOUS
  <2>9. h = [chip EXCEPT !.read = InfoOctets]  BY <1>1, <2>7, <2>8 DEF ChipType
  <2>10. AtHead(Staging, h, p)
    <3>1. /\ h \in ChipType /\ h.cr = chip.cr /\ h.ssr = chip.ssr /\ h.doing = chip.doing
          /\ h.sending = chip.sending /\ h.sendok = chip.sendok /\ h.fifo = chip.fifo /\ h.tx = chip.tx
          /\ h.torn = FALSE /\ h.destination = chip.destination
          BY <1>1, <2>7, <2>9, ReadFields
    <3>2. PICK d : d = Staged(chan, p)  OBVIOUS
    <3>3. /\ d \in ChannelType /\ d.pending = chan.pending /\ d.phase = chan.phase
          /\ d.candidate = chan.candidate /\ d.active = TRUE /\ d.size = p.size
          /\ d.left = p.size /\ d.tx = chan.tx
          /\ d.faulted = chan.faulted /\ d.close = chan.close /\ d.seen = chan.seen
          BY <1>1, <3>2, StagedFields
    <3>4. QED  BY <1>1, <1>2, <2>1, <2>6, <3>1, <3>2, <3>3 DEF AtHead
  <2>11. p.from = chan.candidate  BY <2>2, <2>6 DEF Own
  <2>12. QED  BY <1>5, <2>1, <2>2, <2>3, <2>4, <2>5, <2>6, <2>7, <2>8, <2>10, <2>11
<1>6. QED  BY <1>3, <1>4, <1>5

\* A call of receive that ends the session where the datagram stands.
LEMMA ReceiveEnds ==
    ASSUME IInv, core = "header", NEW p \in Packets, NEW h, AtHead(chan', h, p), NEW n \in Nat,
           chip' = [h EXCEPT !.read = n], core' = "closing", chan.close = "IDLE",
           chan.seen = gen => chip.cr = "NONE" /\ chip.ssr = "UDP",
           chan.seen # gen => chip' = BlankChip,
           UNCHANGED gen, UNCHANGED age, UNCHANGED hist
    PROVE  IInv'
<1>1. gen' = gen /\ age' = age /\ hist' = hist /\ h \in ChipType  BY DEF AtHead
<1>2. /\ chip' \in ChipType /\ chip'.cr = chip.cr /\ chip'.ssr = chip.ssr /\ chip'.doing = chip.doing
      /\ chip'.sending = chip.sending /\ chip'.sendok = chip.sendok /\ chip'.fifo = chip.fifo
      /\ chip'.torn = FALSE
      BY <1>1, ReadFields DEF AtHead
<1>3. TypeOK'  BY <1>1, <1>2 DEF IInv, TypeOK, AtHead
<1>4. Shape(core', chan', hist')
      BY <1>1 DEF IInv, Shape, Bound, Rested, Midway, AtStage, Sessions, AtHead
<1>5. chan.seen = gen => Live(core', chan', chip', hist')
  <2> SUFFICES ASSUME chan.seen = gen PROVE Live(core', chan', chip', hist')
      OBVIOUS
  <2>1. Live(core, chan, chip, hist) /\ chip.cr = "NONE" /\ chip.ssr = "UDP"  BY DEF IInv
  <2>2. QED
        BY <1>2, <2>1
        DEF Live, InRegister, Whole, Settled, Leaving, Reading, Answering, Awaiting, Sessions, AtHead
<1>6. chan'.seen = chan.seen /\ gen' = gen  BY DEF AtHead
<1>7. QED  BY <1>2, <1>3, <1>4, <1>5, <1>6 DEF IInv

LEMMA ReceiveBadSizeStep ==
    ASSUME IInv, NEW s \in Readings, NEW size \in Stable(RxSize), ReceiveBadSize(s, size)
    PROVE  IInv'
<1>1. PICK p \in Packets :
             /\ AtHead(Staging, [chip EXCEPT !.read = @ + InfoRead], p)
             /\ \/ chan.active = TRUE /\ InfoRead = 0
                \/ chan.active = FALSE /\ s = "UDP" /\ InfoRead = InfoOctets
             /\ chan.seen = gen =>
                  /\ chip.fifo # << >> /\ p = Head(chip.fifo) /\ p.from = chan.candidate
                  /\ chip.read + InfoRead = InfoOctets /\ chip.cr = "NONE" /\ chip.ssr = "UDP"
      BY AtDatagramIs DEF ReceiveBadSize
<1>2. core = "header" /\ Allowed(chan) /\ core' = "closing" /\ UNCHANGED gen /\ UNCHANGED age
      /\ UNCHANGED hist /\ chan' = Staging /\ chip' = [chip EXCEPT !.read = @ + InfoRead]
      /\ chip.read \in Nat /\ chip \in ChipType
      BY DEF ReceiveBadSize, AtDatagram, Fails, IInv, TypeOK, ChipType
<1>3. PICK n \in Nat : n = chip.read + InfoRead  BY <1>1, <1>2 DEF InfoOctets
<1>4. AtHead(chan', chip', p)  BY <1>1, <1>2
<1>5. chip' = [chip' EXCEPT !.read = n]
  <2>1. chip' = [chip EXCEPT !.read = n]  BY <1>2, <1>3 DEF ChipType
  <2>2. QED  BY <1>2, <2>1 DEF ChipType
<1>6. chan.seen # gen => chip' = BlankChip
  <2> SUFFICES ASSUME chan.seen # gen PROVE chip' = BlankChip
      OBVIOUS
  <2>1. ~(s = "UDP")  BY <1>2, SeesUdp DEF Sessions
  <2>2. InfoRead = 0 /\ chip = BlankChip  BY <1>1, <2>1 DEF IInv
  <2>3. chip' = chip  BY <1>2, <2>2 DEF ChipType
  <2>4. QED  BY <2>2, <2>3
<1>7. QED  BY <1>1, <1>2, <1>4, <1>5, <1>6, ReceiveEnds DEF Allowed

LEMMA ReceiveHeaderNothingStep ==
    ASSUME IInv, NEW s \in Readings, NEW s2, NEW size \in Stable(RxSize),
           ReceiveHeaderNothing(s, s2, size)
    PROVE  IInv'
<1>1. PICK p \in Packets :
             /\ AtHead(Staging, [chip EXCEPT !.read = @ + InfoRead], p)
             /\ \/ chan.active = TRUE /\ InfoRead = 0
                \/ chan.active = FALSE /\ s = "UDP" /\ InfoRead = InfoOctets
             /\ chan.seen = gen =>
                  /\ chip.fifo # << >> /\ p = Head(chip.fifo) /\ p.from = chan.candidate
                  /\ chip.read + InfoRead = InfoOctets /\ chip.cr = "NONE" /\ chip.ssr = "UDP"
      BY AtDatagramIs DEF ReceiveHeaderNothing
<1>2. core = "header" /\ Allowed(chan) /\ core' \in {"header", "closing"} /\ gen' = gen /\ age' = age
      /\ hist' = hist /\ chan' = Staging /\ chip' = [chip EXCEPT !.read = @ + InfoRead]
      /\ chip.read \in Nat /\ chip \in ChipType
      BY DEF ReceiveHeaderNothing, AtDatagram, NoProgress, IInv, TypeOK, ChipType
<1>3. PICK n \in Nat : n = chip.read + InfoRead  BY <1>1, <1>2 DEF InfoOctets
<1>4. AtHead(chan', chip', p)  BY <1>1, <1>2
<1>5. chip' = [chip EXCEPT !.read = n] /\ chip'.read = n  BY <1>2, <1>3 DEF ChipType
<1>6. chan.seen # gen => chip' = BlankChip
  <2> SUFFICES ASSUME chan.seen # gen PROVE chip' = BlankChip
      OBVIOUS
  <2>1. ~(s = "UDP")  BY <1>2, SeesUdp DEF Sessions
  <2>2. InfoRead = 0 /\ chip = BlankChip  BY <1>1, <2>1 DEF IInv
  <2>3. chip' = chip  BY <1>2, <2>2 DEF ChipType
  <2>4. QED  BY <2>2, <2>3
<1>7. TypeOK'  BY <1>2, <1>4 DEF IInv, TypeOK, AtHead
<1>8. Shape(core', chan', hist')
      BY <1>2, <1>4 DEF IInv, Shape, Bound, Rested, Midway, AtStage, Sessions, AtHead, Allowed
<1>9. chan.seen = gen => Live(core', chan', chip', hist')
  <2> SUFFICES ASSUME chan.seen = gen PROVE Live(core', chan', chip', hist')
      OBVIOUS
  <2>1. Live(core, chan, chip, hist) /\ chip.cr = "NONE" /\ chip.ssr = "UDP"
        /\ p = Head(chip.fifo) /\ p.from = chan.candidate /\ chip.fifo # << >> /\ n = InfoOctets
        BY <1>1, <1>3 DEF IInv
  <2>2. p.size \in Nat  BY DEF Packets
  <2>3. chip'.read = InfoOctets + Words(chan'.size - chan'.left)
        BY <1>4, <1>5, <2>1, <2>2, WordsIs DEF AtHead
  <2>4. QED
        BY <1>2, <1>4, <2>1, <2>3
        DEF Live, InRegister, Whole, Settled, Leaving, Reading, Answering, Awaiting, Sessions, AtHead
<1>10. chan'.seen = chan.seen /\ chip'.torn = FALSE  BY <1>4 DEF AtHead
<1>11. QED  BY <1>2, <1>6, <1>7, <1>8, <1>9, <1>10 DEF IInv

\* The last octets of a datagram were read (d is the channel, h the chip): RECV, or
\* the session ends.
LEMMA CommitStep ==
    ASSUME IInv, core \in {"header", "payload"}, InStep(chan), chip.cr = "NONE", chip.ssr = "UDP",
           NEW d \in ChannelType, d.pending = "NONE", d.phase = "IDLE", d.candidate = chan.candidate,
           d.active = TRUE, d.tx = "IDLE", d.faulted = FALSE, d.close = "IDLE", d.seen = gen,
           NEW h \in ChipType, h.cr = chip.cr, h.ssr = chip.ssr, h.doing = chip.doing,
           h.sending = chip.sending, h.fifo = chip.fifo, h.torn = FALSE,
           h.fifo # << >>, h.read = InfoOctets + Words(Head(h.fifo).size),
           NEW s, NEW then \in SUBSET {"header", "sending", "closing"}, Commit(d, h, s, then),
           hist' \in Histories, hist'.submitted <= 1,
           "header" \in then => core = "header",
           "sending" \in then => hist'.asker = chan.candidate /\ hist'.submitted = 0 /\ hist'.confirmed = 0,
           UNCHANGED gen, UNCHANGED age
    PROVE  IInv'
<1>1. gen' = gen /\ age' = age  OBVIOUS
<1>2. chip.sending = FALSE /\ chip.doing = "NONE" /\ chan.candidate # NoPeer
      BY DEF InStep, Live, Answering, Settled, Sessions, Shape, Bound
<1>3. CASE s = "UDP"
  <2>1. chan' = Issued(d, "RECV") /\ chip' = WithCommand(h, "RECV") /\ core' \in then
        BY <1>3 DEF Commit
  <2>2. /\ chan' \in ChannelType /\ chan'.pending = "RECV" /\ chan'.phase = "WAIT_CR"
        /\ chan'.candidate = chan.candidate /\ chan'.active = TRUE /\ chan'.tx = "IDLE"
        /\ chan'.faulted = FALSE /\ chan'.close = "IDLE" /\ chan'.seen = gen
        BY <2>1, IssuedFields
  <2>3. /\ chip' \in ChipType /\ chip'.cr = "RECV" /\ chip'.ssr = chip.ssr /\ chip'.doing = chip.doing
        /\ chip'.sending = chip.sending /\ chip'.fifo = chip.fifo /\ chip'.torn = FALSE
        /\ chip'.read = h.read
        BY <2>1, CommandFields DEF Commands
  <2>4. TypeOK'  BY <1>1, <2>1, <2>2, <2>3 DEF IInv, TypeOK, Histories
  <2>5. Shape(core', chan', hist') /\ chan'.seen = gen'
        BY <1>1, <1>2, <2>1, <2>2 DEF Shape, Bound, Rested, Midway, AtStage, Sessions
  <2>6. Live(core', chan', chip', hist')
        BY <1>2, <2>1, <2>2, <2>3
        DEF Live, InRegister, Whole, Settled, Leaving, Reading, Answering, Awaiting, Sessions
  <2>7. QED  BY <2>3, <2>4, <2>5, <2>6, Rebuilt
<1>4. CASE s # "UDP"
  <2>1. chan' = d /\ chip' = h /\ core' = "closing"  BY <1>4 DEF Commit
  <2>2. TypeOK'  BY <1>1, <2>1 DEF IInv, TypeOK, Histories
  <2>3. Shape(core', chan', hist') /\ chan'.seen = gen'
        BY <1>1, <1>2, <2>1 DEF Shape, Bound, Rested, Midway, AtStage, Sessions
  <2>4. Live(core', chan', chip', hist')
        BY <1>2, <2>1
        DEF Live, InRegister, Whole, Settled, Leaving, Reading, Answering, Awaiting, Sessions
  <2>5. QED  BY <2>1, <2>2, <2>3, <2>4, Rebuilt
<1>5. QED  BY <1>3, <1>4

LEMMA ReceiveHeaderStep ==
    ASSUME IInv, NEW s \in Readings, NEW s2 \in Readings, NEW s3 \in Readings,
           NEW size \in Stable(RxSize), ReceiveHeader(s, s2, s3, size)
    PROVE  IInv'
<1>1. PICK p \in Packets :
             /\ AtHead(Staging, [chip EXCEPT !.read = @ + InfoRead], p)
             /\ chan.seen = gen =>
                  /\ chip.fifo # << >> /\ p = Head(chip.fifo) /\ p.from = chan.candidate
                  /\ chip.read + InfoRead = InfoOctets /\ chip.cr = "NONE" /\ chip.ssr = "UDP"
      BY AtDatagramIs DEF ReceiveHeader
<1>2. core = "header" /\ Allowed(chan) /\ gen' = gen /\ age' = age /\ chip \in ChipType
      /\ chip.read \in Nat /\ chip.torn = FALSE
      BY DEF ReceiveHeader, AtDatagram, IInv, TypeOK, ChipType
<1>3. InStep(chan) /\ chan.seen = gen  BY <1>2, SeesUdp DEF ReceiveHeader, Sessions
<1>4. /\ chip.fifo # << >> /\ p = Head(chip.fifo) /\ p.from = chan.candidate
      /\ chip.read + InfoRead = InfoOctets /\ chip.cr = "NONE" /\ chip.ssr = "UDP"
      BY <1>1, <1>3
<1>5. chip.sending = FALSE /\ chip.doing = "NONE" /\ chan.candidate # NoPeer
      BY <1>2, <1>3 DEF InStep, Live, Answering, Settled, Sessions, Shape, Bound
<1>6. PICK c : c = Staging  OBVIOUS
<1>7. /\ c \in ChannelType /\ c.pending = "NONE" /\ c.phase = "IDLE" /\ c.candidate = chan.candidate
      /\ c.active = TRUE /\ c.size = p.size /\ c.left = p.size /\ c.tx = "IDLE"
      /\ c.faulted = FALSE /\ c.close = "IDLE" /\ c.seen = gen
      BY <1>1, <1>3, <1>6 DEF AtHead
<1>8. p.size \in Nat /\ p.size >= HeaderOctets /\ p.length \in Nat /\ p.from \in Peers
      BY <1>6, <1>7 DEF ReceiveHeader, Packets, HeaderOctets
<1>9. PICK m \in Nat : m = p.size - HeaderOctets  BY <1>8, WordsIs
<1>10. PICK t : t = [c EXCEPT !.left = @ - HeaderOctets]  OBVIOUS
<1>11. /\ t \in ChannelType /\ t.pending = "NONE" /\ t.phase = "IDLE" /\ t.candidate = chan.candidate
       /\ t.active = TRUE /\ t.size = p.size /\ t.left = m /\ t.tx = "IDLE"
       /\ t.faulted = FALSE /\ t.close = "IDLE" /\ t.seen = gen
  <2>1. t = [c EXCEPT !.left = m]  BY <1>7, <1>9, <1>10 DEF ChannelType
  <2>2. QED  BY <1>7, <2>1 DEF ChannelType
<1>12. PICK h : h = [chip EXCEPT !.read = @ + InfoRead + Read(HeaderOctets)]  OBVIOUS
<1>13. /\ h \in ChipType /\ h.cr = chip.cr /\ h.ssr = chip.ssr /\ h.doing = chip.doing
       /\ h.sending = chip.sending /\ h.fifo = chip.fifo /\ h.torn = FALSE
       /\ h.read = 12
  <2>1. h = [chip EXCEPT !.read = 12]
    <3>1. chip.read + InfoRead + Read(HeaderOctets) = 12  BY <1>4, WordsIs
    <3>2. QED  BY <1>2, <1>12, <3>1 DEF ChipType
  <2>2. QED  BY <1>2, <2>1, ReadFields
<1>14. hist' = [asker |-> p.from, submitted |-> 0, confirmed |-> 0]  BY <1>4 DEF ReceiveHeader
<1>15. hist' \in Histories /\ hist'.asker = chan.candidate /\ hist'.submitted = 0 /\ hist'.confirmed = 0
       BY <1>4, <1>8, <1>14 DEF Histories
<1>16. CASE p.size = HeaderOctets /\ p.length = 0
  <2>1. ~(c.size # HeaderOctets + p.length)  BY <1>7, <1>16, WordsIs
  <2>2. Commit(t, h, s3, AfterHeader(0))
        BY <1>4, <1>6, <1>7, <1>10, <1>12, <1>16, <2>1 DEF ReceiveHeader
  <2>3. AfterHeader(0) = {"sending", "closing"}  BY DEF AfterHeader
  <2>4. h.read = InfoOctets + Words(Head(h.fifo).size)  BY <1>4, <1>13, <1>16, WordsIs
  <2>5. PICK then \in SUBSET {"header", "sending", "closing"} : then = {"sending", "closing"}
        OBVIOUS
  <2>6. Commit(t, h, s3, then)  BY <2>2, <2>3, <2>5 DEF Commit
  <2>7. hist'.submitted <= 1 /\ h.fifo # << >> /\ UNCHANGED gen /\ UNCHANGED age
        /\ core \in {"header", "payload"}
        BY <1>2, <1>4, <1>13, <1>15
  <2>8. InStep(chan) /\ chip.cr = "NONE" /\ chip.ssr = "UDP"  BY <1>3, <1>4
  <2>9. hist' \in Histories
        /\ ("header" \in then => core = "header")
        /\ ("sending" \in then => hist'.asker = chan.candidate /\ hist'.submitted = 0 /\ hist'.confirmed = 0)
        BY <1>2, <1>15
  <2>10. QED  BY <1>11, <1>13, <2>4, <2>5, <2>6, <2>7, <2>8, <2>9, CommitStep
<1>17. CASE ~(p.size = HeaderOctets /\ p.length = 0)
  <2>1. chan' = t /\ chip' = h
        BY <1>4, <1>6, <1>7, <1>8, <1>10, <1>12, <1>17, WordsIs DEF ReceiveHeader
  <2>2. core' \in {"payload", "sending", "closing"}
        BY <1>4, <1>6, <1>7, <1>8, <1>10, <1>12, <1>17, WordsIs DEF ReceiveHeader, AfterHeader
  <2>3. TypeOK'  BY <1>2, <1>11, <1>13, <1>15, <2>1, <2>2 DEF IInv, TypeOK, Histories
  <2>4. Shape(core', chan', hist') /\ chan'.seen = gen'
        BY <1>2, <1>5, <1>8, <1>9, <1>11, <1>15, <2>1, <2>2, WordsIs
        DEF Shape, Bound, Rested, Midway, AtStage, Sessions
  <2>5. chip'.read = InfoOctets + Words(chan'.size - chan'.left)
    <3>1. chan'.size - chan'.left = 4  BY <1>8, <1>9, <1>11, <2>1, WordsIs
    <3>2. QED  BY <1>13, <2>1, <3>1, WordsIs
  <2>6. Live(core', chan', chip', hist')
        BY <1>4, <1>5, <1>11, <1>13, <1>15, <2>1, <2>2, <2>5
        DEF Live, InRegister, Whole, Settled, Leaving, Reading, Answering, Awaiting, Sessions
  <2>7. QED  BY <1>13, <2>1, <2>3, <2>4, <2>6, Rebuilt
<1>18. QED  BY <1>16, <1>17

LEMMA DropForeignStep ==
    ASSUME IInv, NEW s \in Readings, NEW s2 \in Readings, NEW s3 \in Readings,
           NEW size \in Stable(RxSize), DropForeign(s, s2, s3, size)
    PROVE  IInv'
<1>1. core = "header" /\ Allowed(chan) /\ gen' = gen /\ age' = age /\ hist' = hist
      /\ chip \in ChipType /\ chip.torn = FALSE /\ chan.pending = "NONE" /\ chan.active = FALSE
      /\ core' \in {"header", "closing"}
  <2>1. chan.active \in BOOLEAN  BY DEF IInv, TypeOK, ChannelType
  <2>2. chan.active = FALSE  BY <2>1, Zenon DEF DropForeign, Acquires
  <2>3. UNCHANGED gen /\ UNCHANGED age /\ UNCHANGED hist /\ core' \in {core, "closing"}
        BY DEF DropForeign, Fails, NoProgress
  <2>4. QED  BY <2>2, <2>3 DEF DropForeign, Acquires, IInv, TypeOK, ChipType
<1>2. InStep(chan) /\ chan.seen = gen /\ chip.ssr = "UDP"
      BY <1>1, SeesUdp DEF DropForeign, Acquires, Sessions
<1>3. chip.fifo # << >>  BY DEF DropForeign, Acquires, Stable, RxSize, InfoOctets
<1>4. PICK p \in Packets : p = Head(chip.fifo) /\ p.size \in Nat  BY <1>1, <1>3, FirstIs
<1>5. chan \in ChannelType /\ chan.phase = "IDLE" /\ chan.tx = "IDLE" /\ chan.faulted = FALSE
      /\ chan.close = "IDLE" /\ chip.read = 0 /\ chip.cr = "NONE" /\ chip.sending = FALSE
      /\ chip.doing = "NONE" /\ chan.candidate # NoPeer
      BY <1>1, <1>2
      DEF InStep, Shape, Bound, Midway, Allowed, ChannelType, Live, Reading, InRegister, Answering,
          Settled, Sessions
<1>6. PICK drained \in BOOLEAN : drained = (p.size = 0 \/ s2 = "UDP")  OBVIOUS
<1>7. PICK e : e = Staged(chan, p)  OBVIOUS
<1>8. PICK m \in Nat : m = IF drained THEN 0 ELSE p.size  BY <1>4
<1>9. PICK t : t = [e EXCEPT !.left = m]  OBVIOUS
<1>10. PICK n \in Nat : n = InfoOctets + IF drained THEN Read(p.size) ELSE 0
  <2>1. Read(p.size) \in Nat  BY <1>4, WordsIs
  <2>2. QED  BY <2>1, WordsIs
<1>11. PICK h : h = [chip EXCEPT !.read = n]  OBVIOUS
<1>12. /\ t \in ChannelType /\ t.pending = "NONE" /\ t.phase = "IDLE" /\ t.candidate = chan.candidate
       /\ t.active = TRUE /\ t.tx = "IDLE" /\ t.faulted = FALSE /\ t.close = "IDLE" /\ t.seen = gen
  <2>1. /\ e \in ChannelType /\ e.pending = "NONE" /\ e.phase = "IDLE" /\ e.candidate = chan.candidate
        /\ e.active = TRUE /\ e.tx = "IDLE" /\ e.faulted = FALSE /\ e.close = "IDLE" /\ e.seen = gen
        BY <1>1, <1>2, <1>5, <1>7, StagedFields
  <2>2. QED  BY <1>9, <2>1 DEF ChannelType
<1>13. /\ h \in ChipType /\ h.cr = chip.cr /\ h.ssr = chip.ssr /\ h.doing = chip.doing
       /\ h.sending = chip.sending /\ h.fifo = chip.fifo /\ h.torn = FALSE /\ h.read = n
       BY <1>1, <1>11, ReadFields
<1>14. IF drained /\ s3 = "UDP"
       THEN chan' = Issued(t, "RECV") /\ chip' = WithCommand(h, "RECV")
       ELSE chan' = t /\ chip' = h /\ core' = "closing"
  <2>1. h = [chip EXCEPT !.read = @ + InfoOctets + IF drained THEN Read(p.size) ELSE 0]
    <3>1. n = chip.read + InfoOctets + IF drained THEN Read(p.size) ELSE 0
      <4>1. Read(p.size) \in Nat  BY <1>4, WordsIs
      <4>2. QED  BY <1>5, <1>10, <4>1, WordsIs
    <3>2. QED  BY <1>1, <1>11, <3>1 DEF ChipType
  <2>2. t = [Staged(chan, p) EXCEPT !.left = IF drained THEN 0 ELSE p.size]
        BY <1>7, <1>8, <1>9
  <2>3. QED  BY <1>4, <1>6, <2>1, <2>2 DEF DropForeign, Fails
<1>15. hist' \in Histories /\ hist'.submitted <= 1
       BY <1>1 DEF IInv, TypeOK, Histories, Shape, Bound
<1>16. CASE drained /\ s3 = "UDP"
  <2>1. Commit(t, h, s3, {"header", "closing"})  BY <1>1, <1>14, <1>16 DEF Commit
  <2>2. h.read = InfoOctets + Words(Head(h.fifo).size)
        BY <1>4, <1>10, <1>13, <1>16, WordsIs
  <2>3. PICK then \in SUBSET {"header", "sending", "closing"} : then = {"header", "closing"}
        OBVIOUS
  <2>4. QED  BY <1>1, <1>2, <1>3, <1>5, <1>12, <1>13, <1>15, <2>1, <2>2, <2>3, CommitStep
<1>17. CASE ~(drained /\ s3 = "UDP")
  <2>1. chan' = t /\ chip' = h /\ core' = "closing"  BY <1>14, <1>17
  <2>2. TypeOK'  BY <1>1, <1>12, <1>13, <2>1 DEF IInv, TypeOK
  <2>3. Shape(core', chan', hist') /\ chan'.seen = gen'
        BY <1>1, <1>5, <1>12, <1>15, <2>1 DEF Shape, Bound, Rested, Midway, AtStage, Sessions
  <2>4. Live(core', chan', chip', hist')
        BY <1>2, <1>5, <1>12, <1>13, <2>1
        DEF Live, InRegister, Whole, Settled, Leaving, Reading, Answering, Awaiting, Sessions
  <2>5. QED  BY <1>13, <2>1, <2>2, <2>3, <2>4, Rebuilt
<1>18. QED  BY <1>16, <1>17

LEMMA ReceivePayloadStep ==
    ASSUME IInv, NEW s \in Readings, NEW s2 \in Readings, ReceivePayload(s, s2)
    PROVE  IInv'
<1>1. core = "payload" /\ Allowed(chan) /\ gen' = gen /\ age' = age /\ hist' = hist
      /\ chip \in ChipType /\ chip.torn = FALSE /\ chan.pending = "NONE" /\ chan.active = TRUE
      BY DEF ReceivePayload, InPayload, IInv, TypeOK, ChipType, ChannelType
<1>2. InStep(chan) /\ chan.seen = gen /\ chip.ssr = "UDP"
      BY <1>1, SeesUdp DEF ReceivePayload, Sessions
<1>3. chan \in ChannelType /\ chan.phase = "IDLE" /\ chan.tx = "IDLE" /\ chan.faulted = FALSE
      /\ chan.close = "IDLE" /\ chip.cr = "NONE" /\ chan.left \in Nat /\ chan.size \in Nat
      /\ chan.left = chan.size - HeaderOctets /\ chan.size >= HeaderOctets
      BY <1>1, <1>2
      DEF InStep, Shape, Bound, Midway, Allowed, ChannelType, Live, InRegister
<1>4. /\ chip.fifo # << >> /\ chan.size = Head(chip.fifo).size
      /\ chip.read = InfoOctets + Words(chan.size - chan.left)
      BY <1>1, <1>2 DEF InStep, Live, Reading, Sessions
<1>5. chip.read = 12
  <2>1. chan.size - chan.left = 4  BY <1>3, WordsIs
  <2>2. QED  BY <1>4, <2>1, WordsIs
<1>6. PICK n \in Nat : n = 12 + Words(chan.left)  BY <1>3, WordsIs
<1>7. n = InfoOctets + Words(chan.size)
      BY <1>3, <1>6, WordsIs DEF Words
<1>8. PICK h : h = [chip EXCEPT !.read = n]  OBVIOUS
<1>9. h = [chip EXCEPT !.read = @ + Read(chan.left)]
  <2>1. n = chip.read + Read(chan.left)  BY <1>3, <1>5, <1>6, WordsIs
  <2>2. QED  BY <1>1, <1>8, <2>1 DEF ChipType
<1>10. /\ h \in ChipType /\ h.cr = chip.cr /\ h.ssr = chip.ssr /\ h.doing = chip.doing
       /\ h.sending = chip.sending /\ h.fifo = chip.fifo /\ h.torn = FALSE /\ h.read = n
       BY <1>1, <1>8, ReadFields
<1>11. PICK d : d = [chan EXCEPT !.left = 0]  OBVIOUS
<1>12. /\ d \in ChannelType /\ d.pending = "NONE" /\ d.phase = "IDLE" /\ d.candidate = chan.candidate
       /\ d.active = TRUE /\ d.tx = "IDLE" /\ d.faulted = FALSE /\ d.close = "IDLE" /\ d.seen = gen
       BY <1>1, <1>2, <1>3, <1>11 DEF ChannelType
<1>13. PICK then \in SUBSET {"header", "sending", "closing"} : then = {"sending"}  OBVIOUS
<1>14. Commit(d, h, s2, then)  BY <1>9, <1>11, <1>13 DEF ReceivePayload
<1>15. hist' \in Histories /\ hist'.submitted <= 1 /\ hist'.asker = chan.candidate
       /\ hist'.submitted = 0 /\ hist'.confirmed = 0
       BY <1>1 DEF IInv, TypeOK, Histories, Shape, Bound, Midway
<1>16. h.read = InfoOctets + Words(Head(h.fifo).size)  BY <1>4, <1>7, <1>10
<1>17. QED  BY <1>1, <1>2, <1>3, <1>4, <1>10, <1>12, <1>13, <1>14, <1>15, <1>16, CommitStep

LEMMA ReceiveKeepsIInv ==
    ASSUME IInv, Receive
    PROVE  IInv'
BY ReceiveCommitsStep, ReceiveNothingSteps, ReceivePayloadStep, ReceiveBadSizeStep,
   ReceiveHeaderNothingStep, DropForeignStep, ReceiveHeaderStep DEF Receive

-----------------------------------------------------------------------------
\* send.
LEMMA SendPendingStep ==
    ASSUME IInv, SendPending
    PROVE  IInv'
<1>1. core = "sending" /\ Allowed(chan) /\ gen' = gen /\ age' = age /\ hist' = hist /\ chip' = chip
      /\ chan \in ChannelType /\ chan.tx # "IDLE" /\ core' \in {"sending", "closing"}
      BY DEF SendPending, InSend, NoProgress, IInv, TypeOK
<1>2. /\ chan' \in ChannelType /\ chan'.pending = chan.pending /\ chan'.phase = chan.phase
      /\ chan'.candidate = chan.candidate /\ chan'.active = chan.active /\ chan'.size = chan.size
      /\ chan'.left = chan.left /\ chan'.faulted = chan.faulted /\ chan'.close = chan.close
      /\ chan'.seen = chan.seen
      /\ chan'.tx # "IDLE" /\ (chan'.tx = chan.tx \/ chip.cr = "NONE" \/ chan.tx = "WAIT_RESULT")
  <2>1. CASE SendTaken
        BY <1>1, <2>1 DEF SendPending, ChannelType, TxStates, SendTaken
  <2>2. CASE ~SendTaken  BY <1>1, <2>2 DEF SendPending
  <2>3. QED  BY <2>1, <2>2
<1>3. chan.tx = "WAIT_RESULT" => chan'.tx = "WAIT_RESULT"
      BY <1>1 DEF SendPending, SendTaken, ChannelType
<1>4. chan.faulted = FALSE /\ chan.close = "IDLE"  BY <1>1 DEF Allowed, ChannelType
<1>5. Shape(core', chan', hist')
      BY <1>1, <1>2, <1>4 DEF IInv, Shape, Bound, Rested, Midway, AtStage, Sessions
<1>6. chan.seen = gen => Live(core', chan', chip', hist')
      BY <1>1, <1>2, <1>3, <1>4
      DEF IInv, Live, InRegister, Whole, Settled, Leaving, Reading, Answering, Awaiting, Sessions
<1>7. QED  BY <1>1, <1>2, <1>5, <1>6, SessionHolds DEF Sessions

\* An answer is over: the chip says so, and the channel notes it.
LEMMA SendOverStep ==
    ASSUME IInv, core = "sending", Allowed(chan), chan.tx # "IDLE", chan' = TxReset(chan),
           chip' \in ChipType, chip'.cr = chip.cr, chip'.ssr = chip.ssr, chip'.doing = chip.doing,
           chip'.sending = chip.sending, chip'.fifo = chip.fifo, chip'.read = chip.read, chip'.torn = FALSE,
           chip # BlankChip, core' \in {"header", "closing"},
           core' = "header" => chip.sending = FALSE, SendTaken,
           UNCHANGED gen, UNCHANGED age, UNCHANGED hist
    PROVE  IInv'
<1>1. gen' = gen /\ age' = age /\ hist' = hist /\ chan \in ChannelType /\ chan.seen = gen
      BY DEF IInv, TypeOK
<1>2. chan.faulted = FALSE /\ chan.close = "IDLE"  BY <1>1 DEF Allowed, ChannelType
<1>3. chan.pending = "NONE" /\ chan.phase = "IDLE" /\ chan.active = FALSE /\ chan.candidate # NoPeer
      BY <1>1 DEF IInv, Shape, Bound, Midway, Sessions
<1>4. /\ chan' \in ChannelType /\ chan'.pending = "NONE" /\ chan'.phase = "IDLE"
      /\ chan'.candidate = chan.candidate /\ chan'.active = FALSE /\ chan'.tx = "IDLE"
      /\ chan'.faulted = FALSE /\ chan'.close = "IDLE" /\ chan'.seen = gen
      BY <1>1, <1>2, <1>3, TxResetFields
<1>5. chip.cr = "NONE"
      BY <1>1, <1>2, <1>3 DEF IInv, Live, InRegister, SendTaken
<1>6. TypeOK'  BY <1>1, <1>4 DEF IInv, TypeOK
<1>7. Shape(core', chan', hist') /\ chan'.seen = gen'
      BY <1>1, <1>3, <1>4 DEF IInv, Shape, Bound, Rested, Midway, AtStage, Sessions
<1>8. Live(core', chan', chip', hist')
      BY <1>1, <1>3, <1>4, <1>5
      DEF IInv, Live, InRegister, Whole, Settled, Leaving, Reading, Answering, Awaiting, Sessions
<1>9. QED  BY <1>6, <1>7, <1>8, Rebuilt

LEMMA SendLostStep ==
    ASSUME IInv, SendLost
    PROVE  IInv'
<1>1. core = "sending" /\ Allowed(chan) /\ chan.tx # "IDLE" /\ SendTaken /\ chip.timeout = TRUE
      /\ core' = "closing" /\ UNCHANGED gen /\ UNCHANGED age /\ UNCHANGED hist /\ chan' = TxReset(chan)
      /\ chip \in ChipType /\ chip.torn = FALSE
      BY DEF SendLost, InSend, Fails, IInv, TypeOK, ChipType
<1>2. chip' = [chip EXCEPT !.timeout = FALSE]  BY DEF SendLost
<1>3. /\ chip' \in ChipType /\ chip'.cr = chip.cr /\ chip'.ssr = chip.ssr /\ chip'.doing = chip.doing
      /\ chip'.sending = chip.sending /\ chip'.fifo = chip.fifo /\ chip'.read = chip.read
      /\ chip'.torn = FALSE
      BY <1>1, <1>2 DEF ChipType
<1>4. chip # BlankChip  BY <1>1, BlankFields
<1>5. QED  BY <1>1, <1>3, <1>4, SendOverStep

LEMMA SendDoneStep ==
    ASSUME IInv, SendDone
    PROVE  IInv'
<1>1. core = "sending" /\ Allowed(chan) /\ chan.tx # "IDLE" /\ SendTaken /\ chip.sendok = TRUE
      /\ core' \in {"header", "closing"} /\ UNCHANGED gen /\ UNCHANGED age /\ UNCHANGED hist
      /\ chan' = TxReset(chan) /\ chip \in ChipType /\ chip.torn = FALSE
      BY DEF SendDone, InSend, IInv, TypeOK, ChipType
<1>2. chip' = [chip EXCEPT !.sendok = FALSE]  BY DEF SendDone
<1>3. /\ chip' \in ChipType /\ chip'.cr = chip.cr /\ chip'.ssr = chip.ssr /\ chip'.doing = chip.doing
      /\ chip'.sending = chip.sending /\ chip'.fifo = chip.fifo /\ chip'.read = chip.read
      /\ chip'.torn = FALSE
      BY <1>1, <1>2 DEF ChipType
<1>4. chip # BlankChip  BY <1>1, BlankFields
<1>5. chip.sending = FALSE
      BY <1>1, <1>4 DEF IInv, Live, Answering, ChipType
<1>6. QED  BY <1>1, <1>3, <1>4, <1>5, SendOverStep

LEMMA SendWaitsSteps ==
    ASSUME IInv, SendAwaitsReceive
    PROVE  IInv'
<1>1. core \in Sessions /\ Allowed(chan) /\ UNCHANGED chan /\ UNCHANGED chip /\ UNCHANGED gen
      /\ UNCHANGED age /\ UNCHANGED hist /\ core' \in {core, "closing"}
      BY DEF SendAwaitsReceive, InSend, NoProgress, Sessions
<1>2. QED  BY <1>1, SessionStops

LEMMA SendRefusedStep ==
    ASSUME IInv, SendRefused
    PROVE  IInv'
<1>1. chan \in ChannelType /\ chan.tx = "IDLE"  BY DEF SendRefused, IInv, TypeOK
<1>2. chan' = chan  BY <1>1 DEF SendRefused, TxReset, ChannelType
<1>3. core \in Sessions /\ Allowed(chan) /\ UNCHANGED chip /\ UNCHANGED gen
      /\ UNCHANGED age /\ UNCHANGED hist /\ core' \in {core, "closing"}
      BY DEF SendRefused, InSend, Fails, Sessions
<1>4. QED  BY <1>2, <1>3, SessionStops

\* The channel once the datagram that asked has left the FIFO.
LEMMA ReceivedIs ==
    ASSUME IInv, Submittable
    PROVE  /\ core = "sending" /\ chan.faulted = FALSE /\ chan.close = "IDLE" /\ chan.tx = "IDLE"
           /\ Received \in ChannelType /\ Received.pending = "NONE" /\ Received.phase = "IDLE"
           /\ Received.candidate = chan.candidate /\ Received.active = FALSE
           /\ Received.tx = "IDLE" /\ Received.faulted = FALSE /\ Received.close = "IDLE"
           /\ Received.seen = chan.seen
           /\ \/ chan.pending = "RECV" /\ chip.cr = "NONE"
              \/ chan.pending = "NONE" /\ chan.active = FALSE
           /\ chan.candidate # NoPeer /\ hist.asker = chan.candidate
           /\ hist.submitted = 0 /\ hist.confirmed = 0
<1>1. core = "sending" /\ Allowed(chan) /\ chan.tx = "IDLE" /\ chan \in ChannelType
      BY DEF Submittable, InSend, IInv, TypeOK
<1>2. chan.faulted = FALSE /\ chan.close = "IDLE"  BY <1>1 DEF Allowed, ChannelType
<1>3. chan.candidate # NoPeer /\ hist.asker = chan.candidate /\ hist.submitted = 0 /\ hist.confirmed = 0
      BY <1>1 DEF IInv, Shape, Bound, Midway, Sessions
<1>4. CASE chan.pending = "RECV" /\ chip.cr = "NONE"
  <2>1. Received = Unstaged(chan)  BY <1>4 DEF Received
  <2>2. QED  BY <1>1, <1>2, <1>3, <1>4, <2>1, UnstagedFields
<1>5. CASE ~(chan.pending = "RECV" /\ chip.cr = "NONE")
  <2>1. Received = chan  BY <1>5 DEF Received
  <2>2. chan.pending = "NONE"  BY <2>1 DEF Submittable
  <2>3. chan.active = FALSE
    <3>1. chan.active \in BOOLEAN  BY <1>1 DEF ChannelType
    <3>2. ~chan.active  BY <2>1 DEF Submittable
    <3>3. QED  BY <3>1, <3>2, Zenon
  <2>4. chan.phase = "IDLE"  BY <2>2 DEF IInv, Shape, Bound
  <2>5. QED  BY <1>1, <1>2, <1>3, <2>1, <2>2, <2>3, <2>4
<1>6. QED  BY <1>4, <1>5

LEMMA SendNothingStep ==
    ASSUME IInv, NEW s, NEW free, SendNothing(s, free)
    PROVE  IInv'
<1>1. PICK c : c = Received  OBVIOUS
<1>2. /\ core = "sending" /\ chan.faulted = FALSE /\ chan.close = "IDLE" /\ chan.tx = "IDLE"
      /\ c \in ChannelType /\ c.pending = "NONE" /\ c.phase = "IDLE"
      /\ c.candidate = chan.candidate /\ c.active = FALSE
      /\ c.tx = "IDLE" /\ c.faulted = FALSE /\ c.close = "IDLE" /\ c.seen = chan.seen
      /\ \/ chan.pending = "RECV" /\ chip.cr = "NONE"
         \/ chan.pending = "NONE" /\ chan.active = FALSE
      /\ chan.candidate # NoPeer /\ hist.asker = chan.candidate
      /\ hist.submitted = 0 /\ hist.confirmed = 0
      BY <1>1, ReceivedIs DEF SendNothing
<1>3. chan' = c /\ chip' = chip /\ gen' = gen /\ age' = age /\ hist' = hist
      /\ core' \in {"sending", "closing"}
      BY <1>1, <1>2 DEF SendNothing, Fails, NoProgress
<1>4. Shape(core', chan', hist')
      BY <1>2, <1>3 DEF Shape, Bound, Rested, Midway, AtStage, Sessions
<1>5. chan.seen = gen => Live(core', chan', chip', hist')
      BY <1>2, <1>3
      DEF IInv, Live, InRegister, Whole, Settled, Leaving, Reading, Answering, Awaiting, Sessions,
          Shape, Bound
<1>6. QED  BY <1>2, <1>3, <1>4, <1>5, SessionHolds DEF Sessions

LEMMA SendSubmitStep ==
    ASSUME IInv, NEW s \in Readings, NEW free \in Stable(TxMem - chip.tx), SendSubmit(s, free)
    PROVE  IInv'
<1>1. PICK c : c = Received  OBVIOUS
<1>2. /\ core = "sending" /\ chan.faulted = FALSE /\ chan.close = "IDLE" /\ chan.tx = "IDLE"
      /\ c \in ChannelType /\ c.pending = "NONE" /\ c.phase = "IDLE"
      /\ c.candidate = chan.candidate /\ c.active = FALSE
      /\ c.tx = "IDLE" /\ c.faulted = FALSE /\ c.close = "IDLE" /\ c.seen = chan.seen
      /\ \/ chan.pending = "RECV" /\ chip.cr = "NONE"
         \/ chan.pending = "NONE" /\ chan.active = FALSE
      /\ chan.candidate # NoPeer /\ hist.asker = chan.candidate
      /\ hist.submitted = 0 /\ hist.confirmed = 0
      BY <1>1, ReceivedIs DEF SendSubmit
<1>3. InStep(chan) /\ chan.seen = gen /\ chip.ssr = "UDP"
      BY <1>2, SeesUdp DEF SendSubmit, Sessions
<1>4. chip \in ChipType /\ chip.torn = FALSE /\ chip.tx \in 0 .. TxMem /\ chan \in ChannelType
      BY DEF IInv, TypeOK, ChipType
<1>5. chip.cr = "NONE" /\ chip.doing = "NONE" /\ chip.sending = FALSE /\ chip.read = 0
      BY <1>2, <1>3
      DEF InStep, Live, InRegister, Settled, Answering, Reading, Sessions, Shape, Bound
<1>6. free = TxMem - chip.tx
      BY <1>4, Bounds DEF Stable, SendSubmit
<1>7. PICK n \in 0 .. TxMem : n = chip.tx + FrameOctets
      BY <1>4, <1>6, Bounds DEF SendSubmit
<1>8. PICK e : e = EventsCleared(chip)  OBVIOUS
<1>9. /\ e \in ChipType /\ e.cr = chip.cr /\ e.ssr = chip.ssr /\ e.doing = chip.doing
      /\ e.sending = chip.sending /\ e.sendok = FALSE
      /\ e.tx = chip.tx /\ e.fifo = chip.fifo /\ e.read = chip.read /\ e.torn = chip.torn
      BY <1>4, <1>8, ClearedFields
<1>10. PICK h : h = [e EXCEPT !.destination = chan.candidate, !.tx = n]  OBVIOUS
<1>11. /\ h \in ChipType /\ h.cr = chip.cr /\ h.ssr = chip.ssr /\ h.doing = chip.doing
       /\ h.sending = chip.sending /\ h.sendok = FALSE
       /\ h.fifo = chip.fifo /\ h.read = chip.read /\ h.torn = chip.torn
  <2>1. chan.candidate \in Peers \union {NoPeer}  BY <1>4 DEF ChannelType
  <2>2. QED  BY <1>9, <1>10, <2>1 DEF ChipType
<1>12. chip' = WithCommand(h, "SEND")
  <2>1. h = [e EXCEPT !.destination = chan.candidate, !.tx = @ + FrameOctets]
        BY <1>7, <1>9, <1>10 DEF ChipType
  <2>2. QED  BY <1>8, <2>1 DEF SendSubmit
<1>13. /\ chip' \in ChipType /\ chip'.cr = "SEND" /\ chip'.ssr = chip.ssr /\ chip'.doing = chip.doing
       /\ chip'.sending = chip.sending /\ chip'.sendok = FALSE
       /\ chip'.fifo = chip.fifo /\ chip'.read = chip.read /\ chip'.torn = FALSE
       BY <1>4, <1>11, <1>12, CommandFields DEF Commands
<1>14. /\ chan' \in ChannelType /\ chan'.pending = "NONE" /\ chan'.phase = "IDLE"
       /\ chan'.candidate = chan.candidate /\ chan'.active = FALSE
       /\ chan'.tx = "WAIT_CR_CLEAR" /\ chan'.faulted = FALSE /\ chan'.close = "IDLE"
       /\ chan'.seen = gen
       BY <1>1, <1>2, <1>3 DEF SendSubmit, ChannelType, TxStates
<1>15. gen' = gen /\ age' = age /\ core' \in {"sending", "closing"}  BY DEF SendSubmit
<1>16. /\ hist' \in Histories /\ hist'.submitted = 1 /\ hist'.confirmed = 0
       /\ hist'.asker = chan.candidate
  <2>1. hist \in Histories  BY DEF IInv, TypeOK, Histories
  <2>2. hist' = [hist EXCEPT !.submitted = 1]  BY <1>2, <2>1 DEF SendSubmit, Histories
  <2>3. QED  BY <1>2, <2>1, <2>2 DEF Histories
<1>17. TypeOK'  BY <1>13, <1>14, <1>15, <1>16 DEF IInv, TypeOK, Histories
<1>18. Shape(core', chan', hist') /\ chan'.seen = gen'
       BY <1>2, <1>14, <1>15, <1>16 DEF Shape, Bound, Rested, Midway, AtStage, Sessions
<1>19. Live(core', chan', chip', hist')
       BY <1>3, <1>5, <1>13, <1>14, <1>15, <1>16
       DEF Live, InRegister, Whole, Settled, Leaving, Reading, Answering, Awaiting, Sessions
<1>20. QED  BY <1>13, <1>17, <1>18, <1>19, Rebuilt

LEMMA SendKeepsIInv ==
    ASSUME IInv, Send
    PROVE  IInv'
BY SendPendingStep, SendLostStep, SendDoneStep, SendWaitsSteps, SendRefusedStep, SendNothingStep,
   SendSubmitStep DEF Send

-----------------------------------------------------------------------------
\* close.
\* close is done: the socket is closed and its command register empty.
LEMMA ClosedDone ==
    ASSUME IInv, core = "closing", NEW c, InStep(c), c.faulted = FALSE,
           chip.ssr = "CLOSED", chip.cr = "NONE", chip.doing \in {"NONE", "CLOSE"},
           CloseDone(c), age' \in 0 .. CloseTimeout,
           UNCHANGED chip, UNCHANGED gen, UNCHANGED hist
    PROVE  IInv'
<1>1. /\ chan' \in ChannelType /\ chan'.pending = "NONE" /\ chan'.phase = "IDLE"
      /\ chan'.candidate = NoPeer /\ chan'.active = FALSE /\ chan'.tx = "IDLE"
      /\ chan'.faulted = FALSE /\ chan'.close = "IDLE" /\ chan'.seen = c.seen /\ core' = "waiting"
      BY ResetFields DEF CloseDone, InStep
<1>2. chip' = chip /\ gen' = gen /\ hist' = hist  OBVIOUS
<1>3. TypeOK' /\ chip'.torn = FALSE  BY <1>1, <1>2 DEF IInv, TypeOK, ChipType
<1>4. Shape(core', chan', hist') /\ chan'.seen = gen'
      BY <1>1, <1>2 DEF InStep, Shape, Bound, Rested, Midway, AtStage, Sessions
<1>5. Live(core', chan', chip', hist')
      BY <1>1, <1>2
      DEF InStep, Live, InRegister, Whole, Settled, Leaving, Reading, Answering, Awaiting, Sessions
<1>6. QED  BY <1>3, <1>4, <1>5, Rebuilt

\* close has failed: the channel is out of service.
LEMMA ClosedFault ==
    ASSUME IInv, core = "closing", InStep(Synced), CloseFault, age' \in 0 .. CloseTimeout,
           UNCHANGED chip, UNCHANGED gen, UNCHANGED hist
    PROVE  IInv'
<1>1. PICK c : c = Synced  OBVIOUS
<1>2. /\ chan' \in ChannelType /\ chan'.pending = c.pending /\ chan'.phase = c.phase
      /\ chan'.tx = "IDLE" /\ chan'.faulted = TRUE
      /\ chan'.close = "FAULTED" /\ chan'.seen = c.seen /\ core' = "waiting"
      BY <1>1 DEF CloseFault, InStep, ChannelType, CloseStates, TxStates
<1>3. chip' = chip /\ gen' = gen /\ hist' = hist  OBVIOUS
<1>4. TypeOK' /\ chip'.torn = FALSE  BY <1>2, <1>3 DEF IInv, TypeOK, ChipType
<1>5. Shape(core', chan', hist') /\ chan'.seen = gen'
      BY <1>1, <1>2, <1>3 DEF InStep, Shape, Bound, Rested, Midway, AtStage, Sessions
<1>6. Live(core', chan', chip', hist')
      BY <1>1, <1>2, <1>3
      DEF InStep, Live, InRegister, Whole, Settled, Leaving, Reading, Answering, Awaiting, Sessions
<1>7. QED  BY <1>4, <1>5, <1>6, Rebuilt

\* A stage of close that leaves the chip alone and goes on to a stage (d).
LEMMA StageGoesOn ==
    ASSUME IInv, core = "closing", NEW c, InStep(c), NEW d, CloseBusy(d),
           d \in ChannelType, d.faulted = FALSE, d.seen = c.seen, Shape(core, d, hist),
           InRegister(d, chip), Settled(core, d, chip), Leaving(d, chip),
           age' \in 0 .. CloseTimeout, UNCHANGED chip, UNCHANGED gen, UNCHANGED hist
    PROVE  IInv'
<1>1. chan' = d /\ core' = core /\ chip' = chip /\ gen' = gen /\ hist' = hist  BY DEF CloseBusy
<1>2. TypeOK' /\ chip'.torn = FALSE  BY <1>1 DEF IInv, TypeOK, ChipType
<1>3. Shape(core', chan', hist') /\ chan'.seen = gen'  BY <1>1 DEF InStep
<1>4. Live(core', chan', chip', hist')
      BY <1>1 DEF InStep, Live, Whole, Reading, Answering, Awaiting, Sessions
<1>5. QED  BY <1>2, <1>3, <1>4, Rebuilt

LEMMA ClosingIs ==
    ASSUME IInv, NEW stage, Closing(stage)
    PROVE  /\ core = "closing" /\ InStep(Synced) /\ Synced.faulted = FALSE /\ Synced.close = stage
           /\ age' \in 0 .. CloseTimeout /\ UNCHANGED gen /\ UNCHANGED hist
           /\ Synced.seen = gen
<1>1. core = "closing" /\ InStep(Synced) /\ Synced.seen = gen  BY SyncedInStep DEF Closing
<1>2. Synced.faulted = FALSE
  <2>1. Synced.faulted \in BOOLEAN  BY <1>1 DEF InStep, ChannelType
  <2>2. QED  BY <2>1, Zenon DEF Closing
<1>3. age' \in 0 .. CloseTimeout
  <2>1. age \in 0 .. CloseTimeout  BY DEF IInv, TypeOK
  <2>2. QED  BY <2>1, Bounds DEF Closing
<1>4. QED  BY <1>1, <1>2, <1>3 DEF Closing

LEMMA CloseTimedOutStep ==
    ASSUME IInv, CloseTimedOut
    PROVE  IInv'
<1>1. core = "closing" /\ InStep(Synced)  BY SyncedInStep DEF CloseTimedOut
<1>2. age' \in 0 .. CloseTimeout /\ UNCHANGED chip /\ UNCHANGED gen /\ UNCHANGED hist /\ CloseFault
      BY Bounds DEF CloseTimedOut
<1>3. QED  BY <1>1, <1>2, ClosedFault

LEMMA CloseBeginStep ==
    ASSUME IInv, NEW s \in Readings, CloseBegin(s)
    PROVE  IInv'
<1>1. PICK c : c = Synced  OBVIOUS
<1>2. core = "closing" /\ InStep(c) /\ c.seen = gen /\ c.close = "IDLE"
      BY <1>1, SyncedInStep DEF CloseBegin
<1>3. c \in ChannelType /\ c.faulted = FALSE  BY <1>2 DEF InStep, Shape, Bound, ChannelType
<1>4. age' \in 0 .. CloseTimeout /\ UNCHANGED chip /\ UNCHANGED gen /\ UNCHANGED hist
      BY Bounds DEF CloseBegin
<1>5. PICK quiet \in BOOLEAN : quiet = (c.pending = "NONE" /\ c.tx = "IDLE")  OBVIOUS
<1>6. CASE quiet /\ s = "CLOSED"
  <2>1. CloseDone(c)  BY <1>1, <1>5, <1>6 DEF CloseBegin
  <2>2. chip.ssr = "CLOSED"  BY <1>6, ReadingIs
  <2>3. chip.cr = "NONE" /\ chip.doing = "NONE"
        BY <1>2, <1>3, <1>5, <1>6 DEF InStep, Live, InRegister, Settled
  <2>4. QED  BY <1>2, <1>3, <1>4, <2>1, <2>2, <2>3, ClosedDone
<1>7. CASE ~(quiet /\ s = "CLOSED")
  <2>1. PICK stage \in {"ISSUE", "WAIT_EXISTING_CR"} :
             stage = IF quiet THEN "ISSUE" ELSE "WAIT_EXISTING_CR"
        OBVIOUS
  <2>2. PICK d : d = Stage(c, stage)  OBVIOUS
  <2>3. CloseBusy(d)  BY <1>1, <1>5, <1>7, <2>1, <2>2 DEF CloseBegin
  <2>4. /\ d \in ChannelType /\ d.pending = c.pending /\ d.phase = c.phase
        /\ d.candidate = c.candidate /\ d.active = c.active /\ d.tx = c.tx
        /\ d.faulted = c.faulted /\ d.close = stage /\ d.seen = c.seen
        BY <1>3, <2>1, <2>2, StageFields DEF CloseStates
  <2>5. Shape(core, d, hist)
        BY <1>2, <1>3, <1>5, <2>1, <2>4
        DEF InStep, Shape, Bound, Rested, Midway, AtStage, Sessions
  <2>6. InRegister(d, chip) /\ Settled(core, d, chip) /\ Leaving(d, chip)
        BY <1>2, <1>3, <2>1, <2>4 DEF InStep, Live, InRegister, Settled, Leaving
  <2>7. QED  BY <1>2, <1>3, <1>4, <2>3, <2>4, <2>5, <2>6, StageGoesOn
<1>8. QED  BY <1>6, <1>7

LEMMA CloseTakesExistingStep ==
    ASSUME IInv, CloseTakesExisting
    PROVE  IInv'
<1>1. PICK c : c = Synced  OBVIOUS
<1>2. core = "closing" /\ InStep(c) /\ c.seen = gen /\ c.close = "WAIT_EXISTING_CR" /\ c.faulted = FALSE
      /\ age' \in 0 .. CloseTimeout /\ UNCHANGED chip /\ UNCHANGED gen /\ UNCHANGED hist
      BY <1>1, ClosingIs DEF CloseTakesExisting
<1>3. c \in ChannelType /\ (c.tx # "IDLE" => c.pending = "NONE" /\ c.phase = "IDLE")
      BY <1>2 DEF InStep, Shape, Bound
<1>4. CASE Taken
  <2>1. chip.cr = "NONE"
        BY <1>1, <1>2, <1>3, <1>4 DEF Taken, InStep, Live, InRegister
  <2>2. PICK e : e = IF c.tx # "IDLE" THEN TxReset(c) ELSE Completed(c)  OBVIOUS
  <2>3. /\ e \in ChannelType /\ e.pending = "NONE" /\ e.phase = "IDLE"
        /\ e.candidate = c.candidate /\ e.active = c.active
        /\ e.tx = "IDLE" /\ e.faulted = c.faulted /\ e.close = c.close /\ e.seen = c.seen
    <3>1. CASE c.tx # "IDLE"  BY <1>3, <2>2, <3>1, TxResetFields
    <3>2. CASE c.tx = "IDLE"  BY <1>3, <2>2, <3>2, CompletedFields
    <3>3. QED  BY <3>1, <3>2
  <2>4. PICK d : d = Stage(e, "ISSUE")  OBVIOUS
  <2>5. CloseBusy(d)  BY <1>1, <1>4, <2>2, <2>4 DEF CloseTakesExisting
  <2>6. /\ d \in ChannelType /\ d.pending = "NONE" /\ d.phase = "IDLE"
        /\ d.candidate = c.candidate /\ d.active = c.active
        /\ d.tx = "IDLE" /\ d.faulted = c.faulted /\ d.close = "ISSUE" /\ d.seen = c.seen
        BY <2>3, <2>4, StageFields DEF CloseStates
  <2>7. Shape(core, d, hist)
        BY <1>2, <2>6 DEF InStep, Shape, Bound, Rested, Midway, AtStage, Sessions
  <2>8. InRegister(d, chip) /\ Settled(core, d, chip) /\ Leaving(d, chip)
        BY <1>2, <2>1, <2>6 DEF InStep, Live, InRegister, Settled, Leaving
  <2>9. QED  BY <1>2, <2>5, <2>6, <2>7, <2>8, StageGoesOn
<1>5. CASE ~Taken
  <2>1. CloseBusy(c)  BY <1>1, <1>5 DEF CloseTakesExisting
  <2>2. QED  BY <1>2, <2>1, StageGoesOn DEF InStep, Live
<1>6. QED  BY <1>4, <1>5

LEMMA CloseIssuesCloseStep ==
    ASSUME IInv, CloseIssuesClose
    PROVE  IInv'
<1>1. PICK c : c = Synced  OBVIOUS
<1>2. core = "closing" /\ InStep(c) /\ c.seen = gen /\ c.close = "ISSUE" /\ c.faulted = FALSE
      /\ age' \in 0 .. CloseTimeout /\ gen' = gen /\ hist' = hist
      BY <1>1, ClosingIs DEF CloseIssuesClose
<1>3. c \in ChannelType /\ c.pending = "NONE" /\ c.tx = "IDLE" /\ chip \in ChipType /\ chip.torn = FALSE
      BY <1>2 DEF InStep, Shape, AtStage, IInv, TypeOK, ChipType
<1>4. chip.doing = "NONE" /\ chip.cr = "NONE"
      BY <1>2, <1>3 DEF InStep, Live, Settled, InRegister
<1>5. PICK e : e = Issued(c, "CLOSE")  OBVIOUS
<1>6. /\ e \in ChannelType /\ e.pending = "CLOSE" /\ e.phase = "WAIT_CR" /\ e.candidate = c.candidate
      /\ e.active = c.active /\ e.tx = c.tx /\ e.faulted = c.faulted /\ e.seen = c.seen
      BY <1>3, <1>5, IssuedFields
<1>7. /\ chan' \in ChannelType /\ chan'.pending = "CLOSE" /\ chan'.phase = "WAIT_CR"
      /\ chan'.candidate = c.candidate /\ chan'.active = c.active /\ chan'.tx = "IDLE"
      /\ chan'.faulted = FALSE /\ chan'.close = "WAIT_CR" /\ chan'.seen = gen /\ core' = "closing"
      BY <1>1, <1>2, <1>3, <1>5, <1>6, StageFields DEF CloseStates, CloseIssuesClose, CloseBusy
<1>8. /\ chip' \in ChipType /\ chip'.cr = "CLOSE" /\ chip'.ssr = chip.ssr /\ chip'.doing = chip.doing
      /\ chip'.sending = chip.sending /\ chip'.fifo = chip.fifo
      /\ chip'.read = chip.read /\ chip'.torn = FALSE
      BY <1>3, CommandIs DEF Commands, CloseIssuesClose
<1>9. TypeOK'  BY <1>2, <1>7, <1>8 DEF IInv, TypeOK
<1>10. Shape(core', chan', hist') /\ chan'.seen = gen'
       BY <1>2, <1>7 DEF InStep, Shape, Bound, Rested, Midway, AtStage, Sessions
<1>11. Live(core', chan', chip', hist')
       BY <1>2, <1>4, <1>7, <1>8
       DEF InStep, Live, InRegister, Whole, Settled, Leaving, Reading, Answering, Awaiting, Sessions
<1>12. QED  BY <1>8, <1>9, <1>10, <1>11, Rebuilt

LEMMA CloseWaitsStep ==
    ASSUME IInv, CloseWaits
    PROVE  IInv'
<1>1. PICK c : c = Synced  OBVIOUS
<1>2. core = "closing" /\ InStep(c) /\ c.seen = gen /\ c.close = "WAIT_CR" /\ c.faulted = FALSE
      /\ age' \in 0 .. CloseTimeout /\ UNCHANGED chip /\ UNCHANGED gen /\ UNCHANGED hist
      BY <1>1, ClosingIs DEF CloseWaits
<1>3. CASE chip.cr # "NONE"
  <2>1. CloseBusy(c)  BY <1>1, <1>3 DEF CloseWaits
  <2>2. QED  BY <1>2, <2>1, StageGoesOn DEF InStep, Live
<1>4. CASE chip.cr = "NONE"
  <2>1. PICK e : e = [c EXCEPT !.phase = "WAIT_TARGET"]  OBVIOUS
  <2>2. PICK d : d = Stage(e, "WAIT_STATE")  OBVIOUS
  <2>3. CloseBusy(d)  BY <1>1, <1>4, <2>1, <2>2 DEF CloseWaits
  <2>4. Noted(e, c) /\ e.pending = c.pending /\ e.phase = "WAIT_TARGET"
        BY <1>2, <2>1 DEF InStep, ChannelType, Noted
  <2>5. /\ d \in ChannelType /\ d.pending = c.pending /\ d.phase = "WAIT_TARGET"
        /\ d.candidate = c.candidate /\ d.active = c.active /\ d.tx = c.tx
        /\ d.faulted = c.faulted /\ d.close = "WAIT_STATE" /\ d.seen = c.seen
        BY <2>2, <2>4, StageFields DEF CloseStates, Noted
  <2>6. Shape(core, d, hist)
        BY <1>2, <2>5 DEF InStep, Shape, Bound, Rested, Midway, AtStage, Sessions
  <2>7. InRegister(d, chip) /\ Settled(core, d, chip) /\ Leaving(d, chip)
        BY <1>2, <1>4, <2>5 DEF InStep, Live, InRegister, Settled, Leaving, Sessions
  <2>8. QED  BY <1>2, <2>3, <2>5, <2>6, <2>7, StageGoesOn
<1>5. QED  BY <1>3, <1>4

LEMMA CloseSeesClosedStep ==
    ASSUME IInv, NEW s \in Readings, CloseSeesClosed(s)
    PROVE  IInv'
<1>1. PICK c : c = Synced  OBVIOUS
<1>2. core = "closing" /\ InStep(c) /\ c.seen = gen /\ c.close = "WAIT_STATE" /\ c.faulted = FALSE
      /\ age' \in 0 .. CloseTimeout /\ UNCHANGED chip /\ UNCHANGED gen /\ UNCHANGED hist
      BY <1>1, ClosingIs DEF CloseSeesClosed
<1>3. CASE s = "CLOSED"
  <2>1. CloseDone(c)  BY <1>1, <1>3 DEF CloseSeesClosed
  <2>2. chip.ssr = "CLOSED"  BY <1>3, ReadingIs
  <2>3. chip.cr = "NONE" /\ chip.doing \in {"NONE", "CLOSE"}
        BY <1>2 DEF InStep, Live, InRegister, Leaving, Shape, Bound, AtStage
  <2>4. QED  BY <1>2, <2>1, <2>2, <2>3, ClosedDone
<1>4. CASE s # "CLOSED" /\ s \in Statuses
  <2>1. CloseBusy(c)  BY <1>1, <1>4 DEF CloseSeesClosed
  <2>2. QED  BY <1>2, <2>1, StageGoesOn DEF InStep, Live
<1>5. CASE s \notin Statuses
  <2>1. CloseFault  BY <1>5 DEF CloseSeesClosed, Statuses
  <2>2. QED  BY <1>1, <1>2, <2>1, ClosedFault
<1>6. QED  BY <1>3, <1>4, <1>5

LEMMA CloseKeepsIInv ==
    ASSUME IInv, Close
    PROVE  IInv'
BY CloseTimedOutStep, CloseTakesExistingStep, CloseIssuesCloseStep, CloseWaitsStep, CloseBeginStep,
   CloseSeesClosedStep DEF Close

-----------------------------------------------------------------------------
\* The chip and the network.
\* A step of the chip in step with the channel.
LEMMA ChipMoves ==
    ASSUME IInv, chan.seen = gen, UNCHANGED core, UNCHANGED chan, UNCHANGED gen, UNCHANGED age,
           UNCHANGED hist, chip' \in ChipType, Len(chip'.fifo) <= MaxQueue, chip'.torn = FALSE,
           Live(core, chan, chip', hist)
    PROVE  IInv'
<1>1. core' = core /\ chan' = chan /\ gen' = gen /\ age' = age /\ hist' = hist  OBVIOUS
<1>2. TypeOK'  BY <1>1 DEF IInv, TypeOK
<1>3. QED  BY <1>1, <1>2, Rebuilt DEF IInv

\* What a step of the chip knows once its registers show that it is in step.
LEMMA ChipIs ==
    ASSUME IInv, chip # BlankChip
    PROVE  /\ chan.seen = gen /\ Live(core, chan, chip, hist) /\ Shape(core, chan, hist)
           /\ chip \in ChipType /\ chip.torn = FALSE /\ Len(chip.fifo) <= MaxQueue
           /\ chan \in ChannelType /\ hist \in Histories
           /\ core \in {"waiting", "header", "payload", "sending", "closing"}
           /\ (core \in Sessions \/ core = "closing" => chan.faulted = FALSE)
<1>1. chan.seen = gen  BY DEF IInv
<1>2. chan \in ChannelType /\ Shape(core, chan, hist)  BY DEF IInv, TypeOK
<1>3. core \in Sessions \/ core = "closing" => chan.faulted = FALSE
      BY <1>2 DEF Shape, Bound, Sessions, ChannelType
<1>4. QED  BY <1>1, <1>2, <1>3 DEF IInv, TypeOK, ChipType, Histories

LEMMA TakeReceiveStep ==
    ASSUME IInv, TakeReceive
    PROVE  IInv'
<1>1. chip.cr = "RECV" /\ UNCHANGED core /\ UNCHANGED chan /\ UNCHANGED gen
      /\ UNCHANGED age /\ UNCHANGED hist
      BY DEF TakeReceive, ChipOnly
<1>2. /\ chan.seen = gen /\ Live(core, chan, chip, hist) /\ Shape(core, chan, hist)
      /\ chip \in ChipType /\ chip.torn = FALSE /\ Len(chip.fifo) <= MaxQueue
      /\ chan \in ChannelType
      /\ (core \in Sessions \/ core = "closing" => chan.faulted = FALSE)
      BY <1>1, ChipIs, BlankFields
<1>3. chip.fifo # << >> /\ chip.read = InfoOctets + Words(Head(chip.fifo).size)
      BY <1>1, <1>2 DEF Live, Whole
<1>4. chip' = [chip EXCEPT !.cr = "NONE", !.read = 0, !.fifo = Tail(@)]
      BY <1>3 DEF TakeReceive
<1>5. chip.fifo \in Seq(Packets)  BY <1>2 DEF ChipType, Packets
<1>6. PICK rest \in Seq(Packets) : rest = Tail(chip.fifo) /\ Len(rest) <= MaxQueue
  <2>1. Tail(chip.fifo) \in Seq(Packets) /\ Len(Tail(chip.fifo)) = Len(chip.fifo) - 1
        BY <1>3, <1>5
  <2>2. Len(chip.fifo) \in Nat  BY <1>5
  <2>3. Len(chip.fifo) - 1 <= MaxQueue  BY <1>2, <2>2, Bounds
  <2>4. Len(Tail(chip.fifo)) <= MaxQueue  BY <2>1, <2>3
  <2>5. QED  BY <2>1, <2>4, Zenon
<1>7. chip' = [chip EXCEPT !.cr = "NONE", !.read = 0, !.fifo = rest]
      BY <1>2, <1>4, <1>6 DEF ChipType
<1>8. /\ chip' \in ChipType /\ chip'.cr = "NONE" /\ chip'.ssr = chip.ssr /\ chip'.doing = chip.doing
      /\ chip'.sending = chip.sending /\ chip'.sendok = chip.sendok
      /\ chip'.fifo = rest /\ chip'.read = 0 /\ chip'.torn = FALSE
      BY <1>2, <1>6, <1>7 DEF ChipType, Commands, Packets
<1>9. Live(core, chan, chip', hist)
      BY <1>1, <1>2, <1>8
      DEF Live, InRegister, Whole, Settled, Leaving, Reading, Answering, Awaiting, Sessions, Shape, Bound
<1>10. QED  BY <1>1, <1>2, <1>6, <1>8, <1>9, ChipMoves

LEMMA TakeSendStep ==
    ASSUME IInv, TakeSend
    PROVE  IInv'
<1>1. chip.cr = "SEND" /\ UNCHANGED core /\ UNCHANGED chan /\ UNCHANGED gen
      /\ UNCHANGED age /\ UNCHANGED hist
      BY DEF TakeSend, ChipOnly
<1>2. /\ chan.seen = gen /\ Live(core, chan, chip, hist) /\ Shape(core, chan, hist)
      /\ chip \in ChipType /\ chip.torn = FALSE /\ Len(chip.fifo) <= MaxQueue
      /\ chan \in ChannelType
      /\ (core \in Sessions \/ core = "closing" => chan.faulted = FALSE)
      BY <1>1, ChipIs, BlankFields
<1>3. chip' = [chip EXCEPT !.cr = "NONE", !.sending = TRUE]  BY DEF TakeSend
<1>4. /\ chip' \in ChipType /\ chip'.cr = "NONE" /\ chip'.ssr = chip.ssr /\ chip'.doing = chip.doing
      /\ chip'.sending = TRUE /\ chip'.sendok = chip.sendok
      /\ chip'.fifo = chip.fifo /\ chip'.read = chip.read /\ chip'.torn = FALSE
      BY <1>2, <1>3 DEF ChipType, Commands
<1>5. chan.faulted = FALSE => chan.tx = "WAIT_CR_CLEAR"
      BY <1>1, <1>2 DEF Live, InRegister, ChannelType
<1>6. Live(core, chan, chip', hist)
      BY <1>1, <1>2, <1>4, <1>5
      DEF Live, InRegister, Whole, Settled, Leaving, Reading, Answering, Awaiting, Sessions, Shape, Bound,
          Midway, Rested
<1>7. QED  BY <1>1, <1>2, <1>4, <1>6, ChipMoves

LEMMA TakeControlStep ==
    ASSUME IInv, TakeControl
    PROVE  IInv'
<1>1. chip.cr \in {"OPEN", "CLOSE"} /\ UNCHANGED core /\ UNCHANGED chan /\ UNCHANGED gen
      /\ UNCHANGED age /\ UNCHANGED hist
      BY DEF TakeControl, ChipOnly
<1>2. /\ chan.seen = gen /\ Live(core, chan, chip, hist) /\ Shape(core, chan, hist)
      /\ chip \in ChipType /\ chip.torn = FALSE /\ Len(chip.fifo) <= MaxQueue
      /\ chan \in ChannelType
      /\ (core \in Sessions \/ core = "closing" => chan.faulted = FALSE)
      BY <1>1, ChipIs, BlankFields
<1>3. chip' = [chip EXCEPT !.cr = "NONE", !.doing = chip.cr]  BY DEF TakeControl
<1>4. /\ chip' \in ChipType /\ chip'.cr = "NONE" /\ chip'.ssr = chip.ssr /\ chip'.doing = chip.cr
      /\ chip'.sending = chip.sending /\ chip'.sendok = chip.sendok
      /\ chip'.fifo = chip.fifo /\ chip'.read = chip.read /\ chip'.torn = FALSE
      BY <1>1, <1>2, <1>3 DEF ChipType, Commands
<1>5. chan.faulted = FALSE => chip.cr = chan.pending /\ chan.phase = "WAIT_CR"
      BY <1>1, <1>2 DEF Live, InRegister
<1>6. chan.close = "FAULTED" <=> chan.faulted = TRUE  BY <1>2 DEF Shape, Bound
<1>7. Settled(core, chan, chip') /\ Leaving(chan, chip')
      BY <1>1, <1>2, <1>4, <1>5, <1>6
      DEF Settled, Leaving, Sessions, Shape, Bound, AtStage, ChannelType
<1>8. Awaiting(core, chan, chip')
      BY <1>1, <1>2, <1>4, <1>5 DEF Live, Awaiting, Shape, Rested
<1>9. Live(core, chan, chip', hist)
      BY <1>1, <1>2, <1>4, <1>5, <1>7, <1>8
      DEF Live, InRegister, Whole, Reading, Answering, Sessions, Shape, Bound
<1>10. QED  BY <1>1, <1>2, <1>4, <1>9, ChipMoves

LEMMA TakeEffectStep ==
    ASSUME IInv, TakeEffect
    PROVE  IInv'
<1>1. chip.doing # "NONE" /\ UNCHANGED core /\ UNCHANGED chan /\ UNCHANGED gen
      /\ UNCHANGED age /\ UNCHANGED hist
      BY DEF TakeEffect, ChipOnly
<1>2. /\ chan.seen = gen /\ Live(core, chan, chip, hist) /\ Shape(core, chan, hist)
      /\ chip \in ChipType /\ chip.torn = FALSE
      /\ chan \in ChannelType
      /\ (core \in Sessions \/ core = "closing" => chan.faulted = FALSE)
      BY <1>1, ChipIs, BlankFields
<1>3. PICK to \in {"UDP", "CLOSED"} : to = IF chip.doing = "OPEN" THEN "UDP" ELSE "CLOSED"  OBVIOUS
<1>4. chip' = [chip EXCEPT !.doing = "NONE", !.sending = FALSE, !.tx = 0,
                           !.fifo = << >>, !.read = 0, !.ssr = to]
      BY <1>3 DEF TakeEffect
<1>5. << >> \in Seq(Packets) /\ Len(<< >>) <= MaxQueue
  <2>1. << >> \in Seq(Packets) /\ Len(<< >>) = 0  OBVIOUS
  <2>2. QED  BY <2>1, Bounds
<1>6. /\ chip' \in ChipType /\ chip'.cr = chip.cr /\ chip'.ssr = to /\ chip'.doing = "NONE"
      /\ chip'.sending = FALSE /\ chip'.sendok = chip.sendok
      /\ chip'.fifo = << >> /\ chip'.read = 0 /\ chip'.torn = FALSE
      BY <1>2, <1>4, <1>5, Bounds DEF ChipType, Packets
<1>7. chip.cr \notin {"SEND", "RECV"}  BY <1>1, <1>2 DEF Live, Whole
<1>8. core \notin Sessions  BY <1>1, <1>2 DEF Live, Settled
<1>9. Awaiting(core, chan, chip')
      BY <1>1, <1>2, <1>3, <1>6 DEF Live, Awaiting
<1>10. Live(core, chan, chip', hist)
       BY <1>2, <1>6, <1>7, <1>8, <1>9
       DEF Live, InRegister, Whole, Settled, Leaving, Reading, Answering, Sessions
<1>11. QED  BY <1>1, <1>2, <1>5, <1>6, <1>10, ChipMoves

LEMMA SendSucceedsStep ==
    ASSUME IInv, SendSucceeds
    PROVE  IInv'
<1>1. chip.sending = TRUE /\ core' = core /\ chan' = chan /\ gen' = gen /\ age' = age
      BY DEF SendSucceeds, IInv, TypeOK, ChipType
<1>2. /\ chan.seen = gen /\ Live(core, chan, chip, hist) /\ Shape(core, chan, hist)
      /\ chip \in ChipType /\ chip.torn = FALSE /\ Len(chip.fifo) <= MaxQueue
      /\ chan \in ChannelType /\ hist \in Histories
      /\ (core \in Sessions \/ core = "closing" => chan.faulted = FALSE)
      BY <1>1, ChipIs, BlankFields
<1>3. chip' = [chip EXCEPT !.sending = FALSE, !.sendok = TRUE, !.tx = 0]  BY DEF SendSucceeds
<1>4. /\ chip' \in ChipType /\ chip'.cr = chip.cr /\ chip'.ssr = chip.ssr /\ chip'.doing = chip.doing
      /\ chip'.sending = FALSE /\ chip'.sendok = TRUE
      /\ chip'.fifo = chip.fifo /\ chip'.read = chip.read /\ chip'.torn = FALSE
      BY <1>2, <1>3, Bounds DEF ChipType
<1>5. PICK n \in Nat : n = hist.confirmed + 1  BY <1>2 DEF Histories
<1>6. hist' = [hist EXCEPT !.confirmed = n]  BY <1>2, <1>5 DEF SendSucceeds, Histories
<1>7. hist' \in Histories /\ hist'.asker = hist.asker /\ hist'.submitted = hist.submitted
      /\ hist'.confirmed = n
      BY <1>2, <1>6 DEF Histories
<1>8. core = "payload" \/ (core = "sending" /\ chan.tx = "IDLE") => FALSE
      BY <1>1, <1>2 DEF Live, Answering
<1>9. TypeOK'  BY <1>1, <1>2, <1>4, <1>7 DEF IInv, TypeOK, Histories
<1>10. Shape(core', chan', hist') /\ chan'.seen = gen'
       BY <1>1, <1>2, <1>7, <1>8 DEF Shape, Bound, Rested, Midway, AtStage, Sessions
<1>11. core = "sending" /\ chan.tx # "IDLE" => n = 1 /\ chip.cr # "SEND"
       BY <1>1, <1>2, <1>5 DEF Live, Answering
<1>12. Live(core', chan', chip', hist')
       BY <1>1, <1>2, <1>4, <1>7, <1>11
       DEF Live, InRegister, Whole, Settled, Leaving, Reading, Answering, Awaiting, Sessions
<1>13. QED  BY <1>4, <1>9, <1>10, <1>12, Rebuilt

LEMMA SendTimesOutStep ==
    ASSUME IInv, SendTimesOut
    PROVE  IInv'
<1>1. chip.sending = TRUE /\ UNCHANGED core /\ UNCHANGED chan /\ UNCHANGED gen
      /\ UNCHANGED age /\ UNCHANGED hist
      BY DEF SendTimesOut, ChipOnly, IInv, TypeOK, ChipType
<1>2. /\ chan.seen = gen /\ Live(core, chan, chip, hist)
      /\ chip \in ChipType /\ chip.torn = FALSE /\ Len(chip.fifo) <= MaxQueue
      /\ chip.tx \in 0 .. TxMem
      BY <1>1, ChipIs, BlankFields DEF ChipType
<1>3. PICK n \in {0, chip.tx} : chip' = [chip EXCEPT !.sending = FALSE, !.timeout = TRUE, !.tx = n]
      BY DEF SendTimesOut
<1>4. /\ chip' \in ChipType /\ chip'.cr = chip.cr /\ chip'.ssr = chip.ssr /\ chip'.doing = chip.doing
      /\ chip'.sending = FALSE /\ chip'.sendok = chip.sendok
      /\ chip'.fifo = chip.fifo /\ chip'.read = chip.read /\ chip'.torn = FALSE
      BY <1>2, <1>3, Bounds DEF ChipType
<1>5. Live(core, chan, chip', hist)
      BY <1>2, <1>4
      DEF Live, InRegister, Whole, Settled, Leaving, Reading, Answering, Awaiting, Sessions
<1>6. QED  BY <1>1, <1>2, <1>4, <1>5, ChipMoves

LEMMA ArriveStep ==
    ASSUME IInv, Arrive
    PROVE  IInv'
<1>1. chip.ssr = "UDP" /\ Len(chip.fifo) < MaxQueue /\ UNCHANGED core /\ UNCHANGED chan
      /\ UNCHANGED gen /\ UNCHANGED age /\ UNCHANGED hist
      BY DEF Arrive, ChipOnly
<1>2. /\ chan.seen = gen /\ Live(core, chan, chip, hist)
      /\ chip \in ChipType /\ chip.torn = FALSE
      BY <1>1, ChipIs, BlankFields
<1>3. PICK p \in Peers, d \in Datagrams :
           chip' = [chip EXCEPT !.fifo = Append(@, [from |-> p, size |-> d.size, length |-> d.length])]
      BY DEF Arrive
<1>4. PICK e : e = [from |-> p, size |-> d.size, length |-> d.length]  OBVIOUS
<1>5. e \in Packets  BY <1>4, SizesAssumption DEF Packets
<1>6. chip.fifo \in Seq(Packets)  BY <1>2 DEF ChipType, Packets
<1>7. PICK queue : queue = Append(chip.fifo, e)  OBVIOUS
<1>8. /\ queue \in Seq(Packets) /\ Len(queue) = Len(chip.fifo) + 1 /\ queue # << >>
      /\ (chip.fifo # << >> => Head(queue) = Head(chip.fifo))
      BY <1>5, <1>6, <1>7
<1>9. Len(queue) <= MaxQueue  BY <1>1, <1>6, <1>8, Bounds
<1>10. chip' = [chip EXCEPT !.fifo = queue]  BY <1>2, <1>3, <1>4, <1>7 DEF ChipType
<1>11. /\ chip' \in ChipType /\ chip'.cr = chip.cr /\ chip'.ssr = chip.ssr /\ chip'.doing = chip.doing
       /\ chip'.sending = chip.sending /\ chip'.sendok = chip.sendok
       /\ chip'.fifo = queue /\ chip'.read = chip.read /\ chip'.torn = FALSE
       BY <1>2, <1>8, <1>10 DEF ChipType, Packets
<1>12. Live(core, chan, chip', hist)
       BY <1>2, <1>8, <1>11
       DEF Live, InRegister, Whole, Settled, Leaving, Reading, Answering, Awaiting, Sessions
<1>13. QED  BY <1>1, <1>2, <1>9, <1>11, <1>12, ChipMoves

LEMMA PlatformInitStep ==
    ASSUME IInv, PlatformInit
    PROVE  IInv'
<1>1. gen < MaxGeneration /\ gen' = gen + 1 /\ chip' = BlankChip /\ core' = core /\ chan' = chan
      /\ age' = age /\ hist' = hist
      BY DEF PlatformInit
<1>2. gen' \in 1 .. MaxGeneration  BY <1>1, Bounds DEF IInv, TypeOK
<1>3. chan.seen # gen' /\ chan.seen <= gen'
      BY <1>1, Bounds DEF IInv, TypeOK, ChannelType
<1>4. TypeOK'  BY <1>1, <1>2, BlankFields, Bounds DEF IInv, TypeOK
<1>5. QED  BY <1>1, <1>3, <1>4, BlankFields DEF IInv

-----------------------------------------------------------------------------
LEMMA Initial == Init => IInv
<1> SUFFICES ASSUME Init PROVE IInv
    OBVIOUS
<1>1. /\ chan \in ChannelType /\ chan.pending = "NONE" /\ chan.phase = "IDLE"
      /\ chan.candidate = NoPeer /\ chan.active = FALSE /\ chan.tx = "IDLE"
      /\ chan.faulted = FALSE /\ chan.close = "IDLE" /\ chan.seen = 1
      BY Bounds DEF Init, ChannelType, CloseStates, TxStates
<1>2. chip = BlankChip /\ gen = 1 /\ age = 0 /\ core = "waiting"  BY DEF Init
<1>3. hist \in Histories /\ hist.submitted = 0 /\ hist.confirmed = 0  BY DEF Init, Histories
<1>4. TypeOK
  <2>1. 1 \in 1 .. MaxGeneration /\ 0 \in 0 .. CloseTimeout  BY Bounds
  <2>2. QED  BY <1>1, <1>2, <1>3, <2>1, BlankFields, Bounds DEF TypeOK, Histories
<1>5. Shape(core, chan, hist)
      BY <1>1, <1>2, <1>3 DEF Shape, Bound, Rested, Midway, AtStage, Sessions
<1>6. Live(core, chan, chip, hist)
      BY <1>1, <1>2, <1>3, BlankFields
      DEF Live, InRegister, Whole, Settled, Leaving, Reading, Answering, Awaiting, Sessions
<1>7. QED  BY <1>1, <1>2, <1>4, <1>5, <1>6, BlankFields DEF IInv

LEMMA StutterKeepsIInv ==
    ASSUME IInv, UNCHANGED vars
    PROVE  IInv'
<1>1. core' = core /\ chan' = chan /\ chip' = chip /\ gen' = gen /\ age' = age /\ hist' = hist
      BY DEF vars
<1>2. TypeOK'  BY <1>1 DEF IInv, TypeOK
<1>3. QED  BY <1>1, <1>2 DEF IInv

LEMMA StepKeepsIInv == IInv /\ [Next]_vars => IInv'
<1> SUFFICES ASSUME IInv, [Next]_vars PROVE IInv'
    OBVIOUS
<1>1. CASE Poll  BY <1>1, PollStep
<1>2. CASE Receive  BY <1>2, ReceiveKeepsIInv
<1>3. CASE Send  BY <1>3, SendKeepsIInv
<1>4. CASE Close  BY <1>4, CloseKeepsIInv
<1>5. CASE TakeCommand  BY <1>5, TakeReceiveStep, TakeSendStep, TakeControlStep DEF TakeCommand
<1>6. CASE TakeEffect  BY <1>6, TakeEffectStep
<1>7. CASE SendSucceeds \/ SendTimesOut  BY <1>7, SendSucceedsStep, SendTimesOutStep
<1>8. CASE Arrive \/ PlatformInit  BY <1>8, ArriveStep, PlatformInitStep
<1>9. CASE UNCHANGED vars  BY <1>9, StutterKeepsIInv
<1>10. QED  BY <1>1, <1>2, <1>3, <1>4, <1>5, <1>6, <1>7, <1>8, <1>9 DEF Next

LEMMA Invariance == Spec => []IInv
BY Initial, StepKeepsIInv, PTL DEF Spec

\* Every field of the channel and of the chip keeps its range: an answer never
\* overruns the TX buffer, and no count of octets goes below zero.
THEOREM UdpTypeCorrect == Spec => []TypeOK
<1>1. IInv => TypeOK  BY DEF IInv
<1>2. QED  BY <1>1, Invariance, PTL

\* RECV only ever frees one whole datagram, and while one is read the channel and the
\* FIFO agree on how far, whatever arrives, from whom and with which length field.
THEOREM AlignedCorrect == Spec => []Aligned
<1>1. IInv => Aligned
  <2> SUFFICES ASSUME IInv PROVE Aligned
      OBVIOUS
  <2>1. chip.torn = FALSE  BY DEF IInv, TypeOK, ChipType
  <2>2. ASSUME InSession, chan.active, chan.pending = "NONE", chan.seen = gen
        PROVE  /\ chip.fifo # << >> /\ chan.size = Head(chip.fifo).size
               /\ chan.candidate = Head(chip.fifo).from
               /\ chip.read = InfoOctets + Words(chan.size - chan.left)
        BY <2>2 DEF IInv, Live, Reading, Sessions, InSession
  <2>3. QED  BY <2>1, <2>2 DEF Aligned
<1>2. QED  BY <1>1, Invariance, PTL

\* The command register as a step may leave it.
OneCommandStep == chip'.cr \in {"NONE", chip.cr} \/ chip.cr = "NONE"

LEMMA NothingPending ==
    ASSUME IInv, NEW c, InStep(c), c.pending = "NONE", c.tx = "IDLE", c.faulted = FALSE
    PROVE  chip.cr = "NONE"
BY DEF InStep, Live, InRegister

LEMMA PollWritesOnce ==
    ASSUME IInv, Poll
    PROVE  OneCommandStep
<1>1. PICK s, s2 \in Readings, size \in Stable(RxSize) : PollWith(s, s2, size)  BY DEF Poll
<1>2. chip \in ChipType  BY DEF IInv, TypeOK
<1>3. CASE Open(s)
  <2>1. InStep(Synced) /\ core = "waiting"  BY <1>3, SyncedInStep DEF Open, Waiting
  <2>2. Synced.pending = "NONE" /\ Allowed(Synced)  BY <1>3 DEF Open, Serving
  <2>3. Synced.faulted = FALSE  BY <2>1, <2>2 DEF InStep, Shape, Bound, Allowed, ChannelType
  <2>4. Synced.tx = "IDLE"  BY <2>1, <2>3 DEF InStep, Shape, Rested
  <2>5. QED  BY <2>1, <2>2, <2>3, <2>4, NothingPending DEF OneCommandStep
<1>4. CASE AcceptCandidate(s, s2, size)
  <2>1. chip' = [chip EXCEPT !.read = @ + InfoOctets]  BY <1>4 DEF AcceptCandidate
  <2>2. chip'.cr = chip.cr  BY <1>2, <2>1 DEF ChipType
  <2>3. QED  BY <2>2 DEF OneCommandStep
<1>5. CASE UNCHANGED chip  BY <1>5 DEF OneCommandStep
<1>6. QED  BY <1>1, <1>3, <1>4, <1>5 DEF PollWith, ContinueOpen, ReportError, KeepListening

\* In a session nothing else is under way while nothing is pending.
LEMMA SessionIdle ==
    ASSUME IInv, core \in Sessions, chan.pending = "NONE", chan.tx = "IDLE"
    PROVE  chip.cr = "NONE"
<1>1. CASE chan.seen = gen
  <2>1. chan.faulted = FALSE  BY DEF IInv, TypeOK, Shape, Bound, Sessions, ChannelType
  <2>2. QED  BY <1>1, <2>1 DEF IInv, Live, InRegister
<1>2. CASE chan.seen # gen  BY <1>2, BlankFields DEF IInv
<1>3. QED  BY <1>1, <1>2

LEMMA ReceiveWritesOnce ==
    ASSUME IInv, Receive
    PROVE  OneCommandStep
<1>1. core \in {"header", "payload"}
      BY DEF Receive, ReceiveCommits, ReceiveNothing, DropForeign, AtDatagram, ReceiveBadSize,
         ReceiveHeaderNothing, ReceiveHeader, InPayload, ReceivePayloadNothing, ReceivePayload
<1>2. chan.tx = "IDLE"  BY <1>1 DEF IInv, Shape, Midway
<1>3. CASE chan.pending = "NONE"
  <2>1. chip.cr = "NONE"  BY <1>1, <1>2, <1>3, SessionIdle DEF Sessions
  <2>2. QED  BY <2>1 DEF OneCommandStep
<1>4. CASE chan.pending # "NONE"
  <2>1. UNCHANGED chip
        BY <1>4 DEF Receive, ReceiveCommits, ReceiveNothing, DropForeign, Acquires, AtDatagram, ReceiveBadSize,
           ReceiveHeaderNothing, ReceiveHeader, InPayload, ReceivePayloadNothing, ReceivePayload
  <2>2. QED  BY <2>1 DEF OneCommandStep
<1>5. QED  BY <1>3, <1>4

\* The octets of an answer are on their way to a chip whose command register is empty.
LEMMA SubmitIs ==
    ASSUME IInv, NEW s \in Readings, NEW free, SendSubmit(s, free)
    PROVE  /\ chip.cr = "NONE" /\ chip.read = 0 /\ chip.ssr = "UDP"
           /\ chip'.cr = "SEND" /\ chip'.destination = chan.candidate
           /\ chan'.active = FALSE
           /\ hist.asker = chan.candidate /\ chan.candidate # NoPeer
           /\ hist'.asker = hist.asker
<1>1. PICK c : c = Received  OBVIOUS
<1>2. /\ core = "sending" /\ chan.faulted = FALSE /\ chan.close = "IDLE" /\ chan.tx = "IDLE"
      /\ c \in ChannelType /\ c.active = FALSE /\ c.candidate = chan.candidate
      /\ \/ chan.pending = "RECV" /\ chip.cr = "NONE"
         \/ chan.pending = "NONE" /\ chan.active = FALSE
      /\ chan.candidate # NoPeer /\ hist.asker = chan.candidate
      BY <1>1, ReceivedIs DEF SendSubmit
<1>3. InStep(chan) /\ chan.seen = gen /\ chip.ssr = "UDP"
      BY <1>2, SeesUdp DEF SendSubmit, Sessions
<1>4. chip.cr = "NONE" /\ chip.read = 0
      BY <1>2, <1>3 DEF InStep, Live, InRegister, Reading, Sessions
<1>5. chan' = [c EXCEPT !.tx = "WAIT_CR_CLEAR"] /\ hist' = [hist EXCEPT !.submitted = @ + 1]
      BY <1>1 DEF SendSubmit
<1>6. chan'.active = FALSE  BY <1>2, <1>5 DEF ChannelType
<1>7. hist'.asker = hist.asker  BY <1>5 DEF IInv, TypeOK
<1>8. chip \in ChipType  BY DEF IInv, TypeOK
<1>9. PICK e : e = EventsCleared(chip)  OBVIOUS
<1>10. e \in ChipType  BY <1>8, <1>9, ClearedFields
<1>11. PICK n : n = chip.tx + FrameOctets  OBVIOUS
<1>12. chip' = [[e EXCEPT !.destination = chan.candidate, !.tx = n] EXCEPT !.cr = "SEND"]
  <2>1. e.tx = chip.tx  BY <1>8, <1>9, ClearedFields
  <2>2. [e EXCEPT !.destination = chan.candidate, !.tx = @ + FrameOctets]
        = [e EXCEPT !.destination = chan.candidate, !.tx = n]
        BY <1>10, <1>11, <2>1 DEF ChipType
  <2>3. QED  BY <1>9, <2>2 DEF SendSubmit, WithCommand
<1>13. chip'.cr = "SEND" /\ chip'.destination = chan.candidate  BY <1>10, <1>12 DEF ChipType
<1>14. QED  BY <1>2, <1>3, <1>4, <1>6, <1>7, <1>13

LEMMA SendWritesOnce ==
    ASSUME IInv, Send
    PROVE  OneCommandStep
<1>1. chip \in ChipType  BY DEF IInv, TypeOK
<1>2. CASE SendPending \/ SendLost \/ SendDone \/ SendAwaitsReceive \/ SendRefused
  <2>1. chip' \in {chip, [chip EXCEPT !.timeout = FALSE], [chip EXCEPT !.sendok = FALSE]}
        BY <1>2 DEF SendPending, SendLost, SendDone, SendAwaitsReceive, SendRefused
  <2>2. chip'.cr = chip.cr  BY <1>1, <2>1 DEF ChipType
  <2>3. QED  BY <2>2 DEF OneCommandStep
<1>3. CASE \E s \in Readings, free \in Stable(TxMem - chip.tx) : SendNothing(s, free)
      BY <1>3 DEF SendNothing, OneCommandStep
<1>4. CASE \E s \in Readings, free \in Stable(TxMem - chip.tx) : SendSubmit(s, free)
      BY <1>4, SubmitIs DEF OneCommandStep
<1>5. QED  BY <1>2, <1>3, <1>4 DEF Send

LEMMA CloseWritesOnce ==
    ASSUME IInv, Close
    PROVE  OneCommandStep
<1>1. CASE CloseIssuesClose
  <2>1. InStep(Synced) /\ Synced.faulted = FALSE /\ Synced.close = "ISSUE"
        BY <1>1, ClosingIs DEF CloseIssuesClose
  <2>2. Synced.pending = "NONE" /\ Synced.tx = "IDLE"  BY <2>1 DEF InStep, Shape, AtStage
  <2>3. QED  BY <2>1, <2>2, NothingPending DEF OneCommandStep
<1>2. CASE UNCHANGED chip  BY <1>2 DEF OneCommandStep
<1>3. QED
      BY <1>1, <1>2
      DEF Close, CloseTimedOut, CloseTakesExisting, CloseWaits, CloseBegin, CloseSeesClosed

\* What the steps of the chip and of the network leave alone.
OutsideStep ==
    TakeCommand \/ TakeEffect \/ SendSucceeds \/ SendTimesOut \/ Arrive \/ PlatformInit

LEMMA OutsideIs ==
    ASSUME IInv, OutsideStep
    PROVE  /\ core' = core /\ chan' = chan /\ chip'.cr \in {"NONE", chip.cr}
           /\ hist'.submitted = hist.submitted
<1>1. chip \in ChipType /\ hist \in Histories  BY DEF IInv, TypeOK, Histories
<1>2. CASE TakeReceive
  <2>1. PICK n, fifo, torn : chip' = [chip EXCEPT !.cr = "NONE", !.read = n, !.fifo = fifo, !.torn = torn]
    <3>1. CASE chip.fifo # << >> /\ chip.read = InfoOctets + Words(Head(chip.fifo).size)
      <4>1. chip' = [chip EXCEPT !.cr = "NONE", !.read = 0, !.fifo = Tail(chip.fifo)]
            BY <1>1, <1>2, <3>1 DEF TakeReceive, ChipType
      <4>2. chip' = [chip EXCEPT !.cr = "NONE", !.read = 0, !.fifo = Tail(chip.fifo), !.torn = chip.torn]
            BY <1>1, <4>1 DEF ChipType
      <4>3. QED  BY <4>2
    <3>2. CASE ~(chip.fifo # << >> /\ chip.read = InfoOctets + Words(Head(chip.fifo).size))
      <4>1. chip' = [chip EXCEPT !.cr = "NONE", !.read = 0, !.torn = TRUE]
            BY <1>2, <3>2 DEF TakeReceive
      <4>2. chip' = [chip EXCEPT !.cr = "NONE", !.read = 0, !.fifo = chip.fifo, !.torn = TRUE]
            BY <1>1, <4>1 DEF ChipType
      <4>3. QED  BY <4>2
    <3>3. QED  BY <3>1, <3>2
  <2>2. chip'.cr = "NONE"  BY <1>1, <2>1 DEF ChipType
  <2>3. QED  BY <1>2, <2>2 DEF TakeReceive, ChipOnly
<1>3. CASE TakeSend  BY <1>1, <1>3 DEF TakeSend, ChipOnly, ChipType
<1>4. CASE TakeControl  BY <1>1, <1>4 DEF TakeControl, ChipOnly, ChipType
<1>5. CASE TakeEffect
  <2>1. PICK to : to = IF chip.doing = "OPEN" THEN "UDP" ELSE "CLOSED"  OBVIOUS
  <2>2. chip' = [chip EXCEPT !.doing = "NONE", !.sending = FALSE, !.tx = 0,
                             !.fifo = << >>, !.read = 0, !.ssr = to]
        BY <1>5, <2>1 DEF TakeEffect
  <2>3. chip'.cr = chip.cr  BY <1>1, <2>2 DEF ChipType
  <2>4. QED  BY <1>5, <2>3 DEF TakeEffect, ChipOnly
<1>6. CASE SendSucceeds  BY <1>1, <1>6 DEF SendSucceeds, ChipType, Histories
<1>7. CASE SendTimesOut
  <2>1. PICK n \in {0, chip.tx} : chip' = [chip EXCEPT !.sending = FALSE, !.timeout = TRUE, !.tx = n]
        BY <1>7 DEF SendTimesOut
  <2>2. chip'.cr = chip.cr  BY <1>1, <2>1 DEF ChipType
  <2>3. QED  BY <1>7, <2>2 DEF SendTimesOut, ChipOnly
<1>8. CASE Arrive
  <2>1. PICK fifo : chip' = [chip EXCEPT !.fifo = fifo]
    <3>1. PICK e : chip' = [chip EXCEPT !.fifo = Append(@, e)]  BY <1>8 DEF Arrive
    <3>2. chip' = [chip EXCEPT !.fifo = Append(chip.fifo, e)]  BY <1>1, <3>1 DEF ChipType
    <3>3. QED  BY <3>2
  <2>2. chip'.cr = chip.cr  BY <1>1, <2>1 DEF ChipType
  <2>3. QED  BY <1>8, <2>2 DEF Arrive, ChipOnly
<1>9. CASE PlatformInit  BY <1>9, BlankFields DEF PlatformInit
<1>10. QED
       BY <1>2, <1>3, <1>4, <1>5, <1>6, <1>7, <1>8, <1>9 DEF OutsideStep, TakeCommand

\* No call writes the command register over a command the chip has not taken.
THEOREM UdpOneCommandCorrect == Spec => OneCommand
<1>1. IInv /\ [Next]_vars => [OneCommandStep]_vars
  <2> SUFFICES ASSUME IInv, Next PROVE OneCommandStep
      OBVIOUS
  <2>1. CASE Poll  BY <2>1, PollWritesOnce
  <2>2. CASE Receive  BY <2>2, ReceiveWritesOnce
  <2>3. CASE Send  BY <2>3, SendWritesOnce
  <2>4. CASE Close  BY <2>4, CloseWritesOnce
  <2>5. CASE OutsideStep  BY <2>5, OutsideIs DEF OneCommandStep
  <2>6. QED  BY <2>1, <2>2, <2>3, <2>4, <2>5 DEF Next, OutsideStep
<1>2. QED  BY <1>1, Invariance, PTL DEF Spec, OneCommand, OneCommandStep

\* Whose call a step is.
LEMMA WhoMoves ==
    ASSUME IInv, Next
    PROVE  \/ core = "waiting" /\ Poll
           \/ core \in {"header", "payload"} /\ Receive
           \/ core = "sending" /\ Send
           \/ core = "closing" /\ Close
           \/ OutsideStep
<1>1. Poll => core = "waiting"
      BY DEF Poll, PollWith, ContinueOpen, ReportError, Open, KeepListening, AcceptCandidate, Waiting
<1>2. Receive => core \in {"header", "payload"}
      BY DEF Receive, ReceiveCommits, ReceiveNothing, DropForeign, AtDatagram, ReceiveBadSize,
         ReceiveHeaderNothing, ReceiveHeader, InPayload, ReceivePayloadNothing, ReceivePayload
<1>3. Send => core = "sending"
      BY DEF Send, InSend, SendPending, SendLost, SendDone, SendAwaitsReceive, SendRefused, Submittable,
         SendNothing, SendSubmit
<1>4. Close => core = "closing"
      BY DEF Close, Closing, CloseTimedOut, CloseTakesExisting, CloseIssuesClose, CloseWaits, CloseBegin,
         CloseSeesClosed
<1>5. QED  BY <1>1, <1>2, <1>3, <1>4 DEF Next, OutsideStep

\* The two halves of FrameSentOnce and AnsweredOnce, as actions.
SentOnceStep ==
    /\ hist'.submitted <= 1
    /\ core = "sending" /\ core' = "header" => hist.submitted = 1 /\ hist.confirmed = 1
AnsweredStep ==
    chip.cr # "SEND" /\ chip'.cr = "SEND" =>
       /\ chip'.destination = hist.asker /\ hist.asker # NoPeer
       /\ chip.read = 0 /\ ~chan'.active

LEMMA DoneWasConfirmed ==
    ASSUME IInv, Send, core = "sending", core' = "header"
    PROVE  hist.submitted = 1 /\ hist.confirmed = 1
<1>1. SendDone
      BY DEF Send, SendPending, SendLost, SendDone, SendAwaitsReceive, SendRefused, SendNothing, SendSubmit,
         Fails, NoProgress
<1>2. chip.sendok = TRUE /\ chan.tx # "IDLE"  BY <1>1 DEF SendDone, IInv, TypeOK, ChipType
<1>3. chan.seen = gen /\ Live(core, chan, chip, hist) /\ Shape(core, chan, hist)
      BY <1>2, ChipIs, BlankFields
<1>4. QED  BY <1>2, <1>3 DEF Live, Answering, Shape, Midway

LEMMA SendKeepsSent ==
    ASSUME IInv, Next
    PROVE  SentOnceStep
<1>1. IInv'  BY StepKeepsIInv
<1>2. hist'.submitted <= 1  BY <1>1 DEF IInv, Shape, Bound
<1>3. core = "sending" /\ core' = "header" => hist.submitted = 1 /\ hist.confirmed = 1
      BY WhoMoves, OutsideIs, DoneWasConfirmed
<1>4. QED  BY <1>2, <1>3 DEF SentOnceStep

LEMMA ReceiveNeverSends ==
    ASSUME IInv, Receive
    PROVE  chip'.cr \in {chip.cr, "RECV"}
<1>1. chip \in ChipType  BY DEF IInv, TypeOK
<1>2. \A n : /\ [chip EXCEPT !.read = n].cr = chip.cr
             /\ WithCommand([chip EXCEPT !.read = n], "RECV").cr = "RECV"
      BY <1>1 DEF WithCommand, ChipType
<1>3. PICK n : \/ chip' = chip
               \/ chip' = [chip EXCEPT !.read = n]
               \/ chip' = WithCommand([chip EXCEPT !.read = n], "RECV")
  <2>1. CASE \/ ReceiveCommits
             \/ \E s \in Readings : ReceivePayloadNothing(s)
             \/ \E s \in Readings, size \in Stable(RxSize) : ReceiveNothing(s, size)
        BY <2>1 DEF ReceiveCommits, ReceivePayloadNothing, ReceiveNothing
  <2>2. CASE \E s, s2 \in Readings : ReceivePayload(s, s2)
    <3>1. PICK k : k = chip.read + Read(chan.left)  OBVIOUS
    <3>2. [chip EXCEPT !.read = @ + Read(chan.left)] = [chip EXCEPT !.read = k]
          BY <1>1, <3>1 DEF ChipType
    <3>3. QED  BY <2>2, <3>2 DEF ReceivePayload, Commit
  <2>3. CASE \E s, s2 \in Readings, size \in Stable(RxSize) :
                ReceiveBadSize(s, size) \/ ReceiveHeaderNothing(s, s2, size)
    <3>1. PICK k : k = chip.read + InfoRead  OBVIOUS
    <3>2. [chip EXCEPT !.read = @ + InfoRead] = [chip EXCEPT !.read = k]
          BY <1>1, <3>1 DEF ChipType
    <3>3. QED  BY <2>3, <3>2 DEF ReceiveBadSize, ReceiveHeaderNothing
  <2>4. CASE \E s, s2, s3 \in Readings, size \in Stable(RxSize) : ReceiveHeader(s, s2, s3, size)
    <3>1. PICK k : k = chip.read + InfoRead + Read(HeaderOctets)  OBVIOUS
    <3>2. [chip EXCEPT !.read = @ + InfoRead + Read(HeaderOctets)] = [chip EXCEPT !.read = k]
          BY <1>1, <3>1 DEF ChipType
    <3>3. PICK s3, t, then : \/ Commit(t, [chip EXCEPT !.read = k], s3, then)
                             \/ chip' = [chip EXCEPT !.read = k]
          BY <2>4, <3>2 DEF ReceiveHeader
    <3>4. QED  BY <3>3 DEF Commit
  <2>5. CASE \E s, s2, s3 \in Readings, size \in Stable(RxSize) : DropForeign(s, s2, s3, size)
    <3>1. PICK s2, drained : drained = (Head(chip.fifo).size = 0 \/ s2 = "UDP")
             /\ \E s, s3 \in Readings, size \in Stable(RxSize) : DropForeign(s, s2, s3, size)
          BY <2>5
    <3>2. PICK m : m = IF drained THEN Read(Head(chip.fifo).size) ELSE 0  OBVIOUS
    <3>3. PICK k : k = chip.read + InfoOctets + m  OBVIOUS
    <3>4. [chip EXCEPT !.read = @ + InfoOctets + m] = [chip EXCEPT !.read = k]
          BY <1>1, <3>3 DEF ChipType
    <3>5. \/ chip' = WithCommand([chip EXCEPT !.read = @ + InfoOctets + m], "RECV")
          \/ chip' = [chip EXCEPT !.read = @ + InfoOctets + m]
          BY <3>1, <3>2 DEF DropForeign
    <3>6. QED  BY <3>4, <3>5
  <2>6. QED  BY <2>1, <2>2, <2>3, <2>4, <2>5 DEF Receive
<1>4. QED  BY <1>2, <1>3

LEMMA OnlySubmitSends ==
    ASSUME IInv, Next
    PROVE  AnsweredStep
<1> SUFFICES ASSUME chip.cr # "SEND", chip'.cr = "SEND"
             PROVE  /\ chip'.destination = hist.asker /\ hist.asker # NoPeer
                    /\ chip.read = 0 /\ ~chan'.active
    BY DEF AnsweredStep
<1>1. chip \in ChipType /\ chan \in ChannelType  BY DEF IInv, TypeOK
<1>2. ~OutsideStep  BY OutsideIs
<1>3. ~Poll
  <2>1. SUFFICES ASSUME NEW s \in Readings, NEW s2 \in Readings, NEW size \in Stable(RxSize),
                        PollWith(s, s2, size)
                 PROVE  FALSE
        BY DEF Poll
  <2>2. CASE Open(s)
    <3>1. chip'.cr = "OPEN"  BY <1>1, <2>2, CommandIs DEF Open, Commands
    <3>2. QED  BY <3>1
  <2>3. CASE AcceptCandidate(s, s2, size)
    <3>1. chip' = [chip EXCEPT !.read = @ + InfoOctets]  BY <2>3 DEF AcceptCandidate
    <3>2. chip'.cr = chip.cr  BY <1>1, <3>1 DEF ChipType
    <3>3. QED  BY <3>2
  <2>4. CASE UNCHANGED chip  BY <2>4
  <2>5. QED  BY <2>1, <2>2, <2>3, <2>4 DEF PollWith, ContinueOpen, ReportError, KeepListening
<1>4. ~Receive  BY ReceiveNeverSends
<1>5. ~Close
  <2>1. SUFFICES ASSUME Close PROVE FALSE
        OBVIOUS
  <2>2. CASE CloseIssuesClose
    <3>1. chip'.cr = "CLOSE"  BY <1>1, <2>2, CommandIs DEF CloseIssuesClose, Commands
    <3>2. QED  BY <3>1
  <2>3. CASE UNCHANGED chip  BY <2>3
  <2>4. QED
        BY <2>1, <2>2, <2>3
        DEF Close, CloseTimedOut, CloseTakesExisting, CloseWaits, CloseBegin, CloseSeesClosed
<1>6. Send  BY <1>2, <1>3, <1>4, <1>5 DEF Next, OutsideStep
<1>7. CASE SendPending \/ SendLost \/ SendDone \/ SendAwaitsReceive \/ SendRefused
  <2>1. chip' \in {chip, [chip EXCEPT !.timeout = FALSE], [chip EXCEPT !.sendok = FALSE]}
        BY <1>7 DEF SendPending, SendLost, SendDone, SendAwaitsReceive, SendRefused
  <2>2. chip'.cr = chip.cr  BY <1>1, <2>1 DEF ChipType
  <2>3. QED  BY <2>2
<1>8. CASE \E s \in Readings, free \in Stable(TxMem - chip.tx) : SendNothing(s, free)
      BY <1>8 DEF SendNothing
<1>9. CASE \E s \in Readings, free \in Stable(TxMem - chip.tx) : SendSubmit(s, free)
  <2>1. /\ chip.read = 0 /\ chip'.destination = chan.candidate /\ chan'.active = FALSE
        /\ hist.asker = chan.candidate /\ chan.candidate # NoPeer
        BY <1>9, SubmitIs
  <2>2. QED  BY <2>1
<1>10. QED  BY <1>6, <1>7, <1>8, <1>9 DEF Send

\* An answer is one datagram, sent once to the peer that asked and after its datagram
\* has left the FIFO, and the Core goes on only once the chip confirmed it.
THEOREM AnsweredOnceCorrect == Spec => AnsweredOnce
<1>1. IInv /\ [Next]_vars => [SentOnceStep]_vars
  <2> SUFFICES ASSUME IInv, Next PROVE SentOnceStep
      OBVIOUS
  <2>1. QED  BY SendKeepsSent
<1>2. IInv /\ [Next]_vars => [AnsweredStep]_vars  BY OnlySubmitSends
<1>3. QED
      BY <1>1, <1>2, Invariance, PTL
      DEF Spec, AnsweredOnce, FrameSentOnce, SentOnceStep, AnsweredStep

\* The parts of SessionsApart, as actions.
DoneIsClosedStep ==
    core = "closing" /\ core' = "waiting" /\ ~chan'.faulted =>
         chip.ssr = "CLOSED" /\ chip.cr = "NONE" /\ chan'.pending = "NONE"

LEMMA CloseIsDone ==
    ASSUME IInv, Close, core = "closing"
    PROVE  DoneIsClosedStep
<1> SUFFICES ASSUME core' = "waiting", ~chan'.faulted
             PROVE  chip.ssr = "CLOSED" /\ chip.cr = "NONE" /\ chan'.pending = "NONE"
    BY DEF DoneIsClosedStep
<1>1. PICK c : c = Synced  OBVIOUS
<1>2. InStep(c) /\ c \in ChannelType  BY <1>1, SyncedInStep DEF InStep
<1>3. c.faulted = FALSE \/ c.close = "FAULTED"  BY <1>2 DEF InStep, Shape, Bound, ChannelType
<1>4. ~CloseFault  BY <1>1, <1>2 DEF CloseFault, ChannelType
<1>5. \A d : ~CloseBusy(d)  BY DEF CloseBusy
<1>6. PICK s \in Readings : CloseBegin(s) \/ CloseSeesClosed(s)
      BY <1>4, <1>5 DEF Close, CloseTimedOut, CloseTakesExisting, CloseIssuesClose, CloseWaits
<1>7. s = "CLOSED" /\ CloseDone(c)
      BY <1>1, <1>4, <1>5, <1>6 DEF CloseBegin, CloseSeesClosed
<1>8. chip.ssr = "CLOSED"  BY <1>7, ReadingIs
<1>9. chan'.pending = "NONE"  BY <1>2, <1>7, ResetFields DEF CloseDone
<1>10. chip.cr = "NONE"
  <2>1. CASE CloseBegin(s)
    <3>1. c.pending = "NONE" /\ c.tx = "IDLE" /\ c.close = "IDLE"
          BY <1>1, <1>5, <2>1 DEF CloseBegin
    <3>2. QED  BY <1>2, <1>3, <3>1, NothingPending
  <2>2. CASE CloseSeesClosed(s)
    <3>1. c.close = "WAIT_STATE"  BY <1>1, <2>2 DEF CloseSeesClosed, Closing
    <3>2. c.pending = "CLOSE" /\ c.phase = "WAIT_TARGET" /\ c.tx = "IDLE"
          BY <1>2, <3>1 DEF InStep, Shape, AtStage, Bound, ChannelType
    <3>3. QED  BY <1>2, <1>3, <3>1, <3>2 DEF InStep, Live, InRegister
  <2>3. QED  BY <1>6, <2>1, <2>2
<1>11. QED  BY <1>8, <1>9, <1>10

FaultIsolatesStep ==
    chan.faulted =>
         /\ chan'.faulted = (chan'.seen = chan.seen)
         /\ chan'.faulted => core' = "waiting" /\ chip'.cr \in {"NONE", chip.cr}

\* A channel that comes back into step after PlatformInit is out of its fault.
LEMMA SyncedRecovers ==
    ASSUME IInv, core = "waiting", chan.seen # gen
    PROVE  Synced.faulted = FALSE /\ Synced.pending = "NONE"
<1>1. chan \in ChannelType  BY DEF IInv, TypeOK
<1>2. PICK r : r = ResetRuntime(chan)  OBVIOUS
<1>3. r \in ChannelType /\ r.faulted = FALSE /\ r.pending = "NONE"  BY <1>1, <1>2, ResetFields
<1>4. Synced = [r EXCEPT !.seen = gen]  BY <1>2 DEF Synced
<1>5. QED  BY <1>3, <1>4 DEF ChannelType

LEMMA FaultStays ==
    ASSUME IInv, Next
    PROVE  FaultIsolatesStep
<1> SUFFICES ASSUME chan.faulted = TRUE
             PROVE  /\ chan'.faulted = (chan'.seen = chan.seen)
                    /\ chan'.faulted => core' = "waiting" /\ chip'.cr \in {"NONE", chip.cr}
  <2>1. chan.faulted \in BOOLEAN  BY DEF IInv, TypeOK, ChannelType
  <2>2. QED  BY <2>1, Zenon DEF FaultIsolatesStep
<1>1. chan \in ChannelType /\ core = "waiting"  BY DEF IInv, TypeOK, Shape, Bound
<1>2. CASE OutsideStep
  <2>1. core' = core /\ chan' = chan /\ chip'.cr \in {"NONE", chip.cr}  BY <1>2, OutsideIs
  <2>2. chan'.faulted = TRUE /\ (chan'.seen = chan.seen) = TRUE  BY <2>1
  <2>3. QED  BY <1>1, <2>1, <2>2
<1>3. CASE Poll
  <2>1. PICK s, s2 \in Readings, size \in Stable(RxSize) : PollWith(s, s2, size)  BY <1>3 DEF Poll
  <2>2. InStep(Synced) /\ Synced.seen = gen  BY <1>1, SyncedInStep
  <2>3. CASE chan.seen = gen
    <3>1. Synced = chan  BY <2>3 DEF Synced
    <3>2. ~Allowed(Synced)  BY <3>1 DEF Allowed
    <3>3. chan' = chan /\ chip' = chip /\ core' = core
          BY <2>1, <3>1, <3>2
          DEF PollWith, ContinueOpen, ReportError, Open, KeepListening, AcceptCandidate, Waiting, Serving
    <3>4. chan'.faulted = TRUE /\ (chan'.seen = chan.seen) = TRUE  BY <3>3
    <3>5. QED  BY <1>1, <3>3, <3>4
  <2>4. CASE chan.seen # gen
    <3>1. PICK c : c = Synced  OBVIOUS
    <3>2. c \in ChannelType /\ c.faulted = FALSE /\ c.pending = "NONE" /\ c.seen = gen
          BY <1>1, <2>2, <2>4, <3>1, SyncedRecovers DEF InStep
    <3>3. chip = BlankChip  BY <2>4 DEF IInv
    <3>4. chip.ssr = "CLOSED"  BY <3>3, BlankFields
    <3>5. s # "UDP"  BY <3>4, ReadingIs
    <3>6. chan' \in {c, Issued(c, "OPEN")}
          BY <2>1, <3>1, <3>2, <3>5
          DEF PollWith, ContinueOpen, ReportError, Open, KeepListening, AcceptCandidate
    <3>7. chan'.faulted = FALSE /\ chan'.seen = gen
          BY <3>2, <3>6, IssuedFields
    <3>8. (chan'.seen = chan.seen) = FALSE  BY <2>4, <3>7
    <3>9. QED  BY <3>7, <3>8
  <2>5. QED  BY <2>3, <2>4
<1>4. QED  BY <1>1, <1>2, <1>3, WhoMoves

FreshSessionStep ==
    core = "waiting" /\ core' = "header" =>
         /\ chan'.tx = "IDLE" /\ chan'.pending = "NONE"
         /\ chip.cr = "NONE" /\ ~chip.sending /\ chip.read = 0
         /\ chan'.candidate = Head(chip.fifo).from

LEMMA SessionStartsClean ==
    ASSUME IInv, Next
    PROVE  FreshSessionStep
<1> SUFFICES ASSUME core = "waiting", core' = "header"
             PROVE  /\ chan'.tx = "IDLE" /\ chan'.pending = "NONE"
                    /\ chip.cr = "NONE" /\ ~chip.sending /\ chip.read = 0
                    /\ chan'.candidate = Head(chip.fifo).from
    BY DEF FreshSessionStep
<1>1. ~OutsideStep  BY OutsideIs
<1>2. PICK s, s2 \in Readings, size \in Stable(RxSize) : PollWith(s, s2, size)
      BY <1>1, WhoMoves DEF Poll
<1>3. AcceptCandidate(s, s2, size)
      BY <1>2 DEF PollWith, ContinueOpen, ReportError, Open, KeepListening, Waiting
<1>4. PICK c : c = Synced  OBVIOUS
<1>5. InStep(c) /\ Allowed(c) /\ c.pending = "NONE" /\ chip.ssr = "UDP"
      BY <1>3, <1>4, SyncedInStep, ReadingIs DEF AcceptCandidate, Serving
<1>6. c \in ChannelType /\ c.faulted = FALSE /\ c.tx = "IDLE"
      BY <1>5 DEF InStep, Shape, Bound, Rested, Allowed, ChannelType
<1>7. chip.cr = "NONE" /\ chip.sending = FALSE /\ chip.read = 0
      BY <1>5, <1>6 DEF InStep, Live, Awaiting
<1>8. chip.fifo # << >>  BY <1>3 DEF AcceptCandidate, Stable, RxSize, InfoOctets
<1>9. PICK p \in Packets : p = Head(chip.fifo) /\ p.from \in Peers
      BY <1>8, FirstIs DEF IInv, TypeOK
<1>10. PICK e : e = [c EXCEPT !.candidate = p.from]  OBVIOUS
<1>11. e \in ChannelType /\ e.candidate = p.from /\ e.tx = "IDLE" /\ e.pending = "NONE"
       BY <1>5, <1>6, <1>9, <1>10 DEF ChannelType
<1>12. chan' = Staged(e, p)  BY <1>3, <1>4, <1>9, <1>10 DEF AcceptCandidate
<1>13. chan'.tx = "IDLE" /\ chan'.pending = "NONE" /\ chan'.candidate = p.from
       BY <1>11, <1>12, StagedFields
<1>14. QED  BY <1>7, <1>9, <1>13

\* close reports success only on a closed socket with nothing pending, a fault keeps
\* the channel out of service until PlatformInit, the Core uses no channel that
\* refuses it, and a session starts with nothing left of the one before.
THEOREM UdpSessionsApartCorrect == Spec => SessionsApart
<1>1. IInv => InService
  <2>1. IInv => core \in {"waiting", "header", "payload", "sending", "closing"} /\ chan \in ChannelType
        BY DEF IInv, TypeOK
  <2>2. QED  BY <2>1 DEF IInv, Shape, Bound, Rested, InService, InSession, Sessions, ChannelType
<1>2. IInv /\ [Next]_vars => [DoneIsClosedStep]_vars
  <2> SUFFICES ASSUME IInv, Next PROVE DoneIsClosedStep
      OBVIOUS
  <2>1. CASE core = "closing" /\ Close  BY <2>1, CloseIsDone
  <2>2. CASE OutsideStep  BY <2>2, OutsideIs DEF DoneIsClosedStep
  <2>3. CASE core # "closing"  BY <2>3 DEF DoneIsClosedStep
  <2>4. QED  BY <2>1, <2>2, <2>3, WhoMoves
<1>3. IInv /\ [Next]_vars => [FaultIsolatesStep]_vars  BY FaultStays
<1>4. IInv /\ [Next]_vars => [FreshSessionStep]_vars  BY SessionStartsClean
<1>5. QED
      BY <1>1, <1>2, <1>3, <1>4, Invariance, PTL
      DEF Spec, SessionsApart, DoneIsClosed, FaultIsolates, FreshSession, DoneIsClosedStep,
          FaultIsolatesStep, FreshSessionStep
====
