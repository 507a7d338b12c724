---- MODULE SciChannelProofs ----
(***************************************************************************)
(* Theorems about SciChannel for FIFOs, headers, payloads and answers of any *)
(* size: TypeOK, InOrder, LineDriven and SentOnce.  Together with Underway   *)
(* and Settled they are inductive.                                           *)
(***************************************************************************)
EXTENDS SciChannel, SequenceTheorems, TLAPS

\* A call that reads the receiver is at a place where the Core makes one, has read
\* nothing before it has looked at the level of the FIFO, and from then on is to
\* gather what it returns and at most the one octet it puts aside.
Underway ==
    /\ call.at # "reading" => call.toRead = 0 /\ call.produces = 0 /\ call.taken = << >>
    /\ call.at # "none" => Listening \/ Reading
    /\ call.at = "reading" =>
         /\ Reading /\ Even(call.produces) /\ call.produces <= core.left
         /\ \/ Len(Gathered) + call.toRead = call.produces
            \/ /\ Len(Gathered) + call.toRead = call.produces + 1
               /\ call.produces < core.left

\* What an operation that is over has left behind.
Settled ==
    /\ ~chan.pending => chan.queued = 0
    /\ chan.state = "CLOSED" => ~chan.pending /\ chan.staged = NoOctet

IInv == TypeOK /\ InOrder /\ LineDriven /\ QueuedOnce /\ Underway /\ Settled

Leaving == (IF chip.shifter = NoOctet THEN << >> ELSE <<chip.shifter>>) \o chip.tx
Cores == [doing : {"waiting", "header", "payload", "sending", "closing"}, left : Nat]
Channels == [ctrl : Controls, state : {"CLOSED", "OPEN", "LISTENING", "CONNECTED"},
             clean : BOOLEAN, staged : 0 .. Garbled, pending : BOOLEAN,
             queued : 0 .. FrameOctets, driving : BOOLEAN]
Calls == [at : {"none", "checked", "reading"}, toRead : Nat, produces : Nat,
          taken : Seq(Octets)]
Chips == [rx : Seq(Octets), error : BOOLEAN, tx : Seq(1 .. FrameOctets),
          shifter : 0 .. FrameOctets, pin : 0 .. 1]
Histories == [heard : 0 .. MaxOctets, given : 0 .. MaxOctets, whole : BOOLEAN,
              out : 0 .. FrameOctets]

\* What the state is made of.  Each of these facts is used of this state and of the next.
TypedFacts ==
    TypeOK <=> /\ core \in Cores /\ chan \in Channels /\ call \in Calls
               /\ chip \in Chips /\ hist \in Histories
               /\ Len(chip.rx) <= Depth /\ Len(chip.tx) <= Depth
LEMMA Typed == TypedFacts /\ TypedFacts'
BY DEF TypedFacts, TypeOK, Cores, Channels, Calls, Chips, Histories

LEMMA Bounds ==
    /\ FrameOctets \in Nat /\ MaxOctets \in Nat /\ Depth \in Nat \ {0}
    /\ NoOctet \in 0 .. FrameOctets /\ NoOctet \in 0 .. MaxOctets /\ NoOctet = 0
    /\ NoOctet \in 0 .. Garbled /\ Garbled = MaxOctets + 1 /\ Octets = 1 .. Garbled
BY OctetsAssumption, DepthAssumption DEF NoOctet, Garbled, Octets

LEMMA Levels == \A c : RxLevel(c) \in 0 .. 1 /\ TxLevel(c) \in 0 .. 1
BY DEF RxLevel, TxLevel

\* GPIO_WritePin changes nothing but the pin.
LEMMA WrittenFields ==
    ASSUME NEW c, NEW h \in Chips, NEW level \in 0 .. 1
    PROVE  /\ Written(c, h, level) \in Chips
           /\ Written(c, h, level).rx = h.rx /\ Written(c, h, level).tx = h.tx
           /\ Written(c, h, level).error = h.error /\ Written(c, h, level).shifter = h.shifter
           /\ Written(c, h, level).pin = IF HasCtrl(c) THEN level ELSE h.pin
BY DEF Written, Chips

\* What a call has in hand: the staged octet first.
GatheredFacts ==
    chan \in Channels /\ call \in Calls =>
           /\ Gathered \in Seq(Octets) /\ Len(Gathered) \in Nat
           /\ call.taken \in Seq(Octets) /\ Len(call.taken) \in Nat
           /\ Len(Gathered) = StagedCount + Len(call.taken)
           /\ chan.staged = NoOctet => Gathered = call.taken /\ StagedCount = 0
           /\ chan.staged # NoOctet => /\ Gathered = <<chan.staged>> \o call.taken
                                       /\ chan.staged \in Octets /\ StagedCount = 1
LEMMA GatheredIs == GatheredFacts /\ GatheredFacts'
<1>1. GatheredFacts
  <2> SUFFICES ASSUME chan \in Channels, call \in Calls
               PROVE  GatheredFacts
        BY DEF GatheredFacts
  <2>1. call.taken \in Seq(Octets) /\ chan.staged \in 0 .. Garbled  BY DEF Channels, Calls
  <2>2. Len(call.taken) \in Nat  BY <2>1, LenProperties
  <2>3. CASE chan.staged = NoOctet
    <3>1. Gathered = call.taken  BY <2>1, <2>3, ConcatEmptySeq DEF Gathered
    <3>2. QED  BY <2>1, <2>2, <2>3, <3>1 DEF StagedCount, GatheredFacts
  <2>4. CASE chan.staged # NoOctet
    <3>1. chan.staged \in Octets  BY <2>1, <2>4, Bounds
    <3>2. <<chan.staged>> \in Seq(Octets) /\ Len(<<chan.staged>>) = 1  BY <3>1
    <3>3. Gathered = <<chan.staged>> \o call.taken  BY <2>4 DEF Gathered
    <3>4. Gathered \in Seq(Octets) /\ Len(Gathered) = 1 + Len(call.taken)
          BY <2>1, <3>2, <3>3, ConcatProperties
    <3>5. QED  BY <2>1, <2>2, <2>4, <3>1, <3>3, <3>4 DEF StagedCount, GatheredFacts
  <2>5. QED  BY <2>3, <2>4
<1>2. QED  BY <1>1, PTL

\* All that is on its way to the Core.
HeldFacts ==
    chan \in Channels /\ call \in Calls /\ chip \in Chips =>
           /\ Held \in Seq(Octets) /\ Len(Held) \in Nat
           /\ Held = Gathered \o chip.rx
           /\ chip.rx \in Seq(Octets) /\ Len(chip.rx) \in Nat
           /\ Len(Held) = Len(Gathered) + Len(chip.rx)
           /\ \A i \in 1 .. Len(Held) :
                 Held[i] = IF i <= Len(Gathered) THEN Gathered[i]
                           ELSE chip.rx[i - Len(Gathered)]
LEMMA HeldIs == HeldFacts /\ HeldFacts'
<1>1. HeldFacts
  <2> SUFFICES ASSUME chan \in Channels, call \in Calls, chip \in Chips
               PROVE  HeldFacts
        BY DEF HeldFacts
  <2>1. Gathered \in Seq(Octets) /\ Len(Gathered) \in Nat  BY GatheredIs DEF GatheredFacts
  <2>2. chip.rx \in Seq(Octets) /\ Len(chip.rx) \in Nat  BY LenProperties DEF Chips
  <2>3. \A g, r \in Seq(Octets) :
            /\ g \o r \in Seq(Octets) /\ Len(g \o r) = Len(g) + Len(r)
            /\ \A i \in 1 .. Len(g) + Len(r) :
                  (g \o r)[i] = IF i <= Len(g) THEN g[i] ELSE r[i - Len(g)]
        BY ConcatProperties
  <2>4. Held = Gathered \o chip.rx  BY DEF Held
  <2> HIDE DEF Held
  <2>5. /\ Held \in Seq(Octets) /\ Len(Held) = Len(Gathered) + Len(chip.rx)
        /\ \A i \in 1 .. Len(Gathered) + Len(chip.rx) :
              Held[i] = IF i <= Len(Gathered) THEN Gathered[i] ELSE chip.rx[i - Len(Gathered)]
        BY <2>1, <2>2, <2>3, <2>4
  <2>6. QED  BY <2>1, <2>2, <2>4, <2>5 DEF HeldFacts
<1>2. QED  BY <1>1, PTL

LEMMA HeldKept ==
    ASSUME chan'.staged = chan.staged, call'.taken = call.taken
    PROVE  Gathered' = Gathered /\ (chip'.rx = chip.rx => Held' = Held)
<1> DEFINE first(x) == IF x = NoOctet THEN << >> ELSE <<x>>
<1>1. Gathered = first(chan.staged) \o call.taken
      /\ Gathered' = first(chan'.staged) \o call'.taken
      BY Zenon DEF Gathered
<1>2. first(chan'.staged) = first(chan.staged)  OBVIOUS
<1> HIDE DEF first
<1>3. Gathered' = Gathered  BY <1>1, <1>2
<1>4. Held = Gathered \o chip.rx /\ Held' = Gathered' \o chip'.rx  BY Zenon DEF Held
<1>5. QED  BY <1>3, <1>4

\* The octets on their way out, the one in the shifter first.
LeavingFacts ==
    chip \in Chips =>
           /\ Leaving \in Seq(1 .. FrameOctets)
           /\ DOMAIN Leaving = 1 .. Len(Leaving)
           /\ chip.shifter = NoOctet => Leaving = chip.tx
           /\ chip.shifter # NoOctet => Leaving = <<chip.shifter>> \o chip.tx
                                        /\ Len(Leaving) = 1 + Len(chip.tx)
LEMMA LeavingIs == LeavingFacts /\ LeavingFacts'
<1>1. LeavingFacts
  <2> SUFFICES ASSUME chip \in Chips
               PROVE  LeavingFacts
        BY DEF LeavingFacts
  <2>1. chip.tx \in Seq(1 .. FrameOctets) /\ chip.shifter \in 0 .. FrameOctets  BY DEF Chips
  <2>2. CASE chip.shifter = NoOctet
    <3>1. Leaving = chip.tx  BY <2>1, <2>2, ConcatEmptySeq DEF Leaving
    <3>2. QED  BY <2>1, <2>2, <3>1, LenProperties DEF LeavingFacts
  <2>3. CASE chip.shifter # NoOctet
    <3>1. chip.shifter \in 1 .. FrameOctets
      <4>1. FrameOctets \in Nat  BY Bounds
      <4>2. QED  BY <2>1, <2>3, <4>1 DEF NoOctet
    <3>2. <<chip.shifter>> \in Seq(1 .. FrameOctets) /\ Len(<<chip.shifter>>) = 1  BY <3>1
    <3>3. Leaving = <<chip.shifter>> \o chip.tx  BY <2>3 DEF Leaving
    <3>4. Leaving \in Seq(1 .. FrameOctets) /\ Len(Leaving) = 1 + Len(chip.tx)
          BY <2>1, <3>2, <3>3, ConcatProperties
    <3>5. QED  BY <2>3, <3>3, <3>4, LenProperties DEF LeavingFacts
  <2>4. QED  BY <2>2, <2>3
<1>2. QED  BY <1>1, PTL

\* Nothing is on its way out exactly when the module is drained.
DrainedFacts ==
    chip \in Chips =>
    (Drained <=> Len(Leaving) = 0)
LEMMA DrainedIs == DrainedFacts /\ DrainedFacts'
<1>1. DrainedFacts
  <2> SUFFICES ASSUME chip \in Chips
               PROVE  DrainedFacts
        BY DEF DrainedFacts
  <2>1. chip.tx \in Seq(1 .. FrameOctets) /\ Len(chip.tx) \in Nat
        BY LenProperties DEF Chips
  <2>2. chip.tx = << >> <=> Len(chip.tx) = 0  BY <2>1, EmptySeq
  <2>3. CASE chip.shifter = NoOctet
    <3>1. Leaving = chip.tx  BY <2>3, LeavingIs DEF LeavingFacts
    <3>2. QED  BY <2>2, <2>3, <3>1 DEF Drained, DrainedFacts
  <2>4. CASE chip.shifter # NoOctet
    <3>1. Len(Leaving) = 1 + Len(chip.tx)  BY <2>4, LeavingIs DEF LeavingFacts
    <3>2. Len(Leaving) # 0  BY <2>1, <3>1
    <3>3. QED  BY <2>4, <3>2 DEF Drained, DrainedFacts
  <2>5. QED  BY <2>3, <2>4
<1>2. QED  BY <1>1, PTL

QueuedOnceFacts ==
    chip \in Chips =>
           (QueuedOnce <=>
             IF chan.pending
             THEN /\ \A i \in 1 .. Len(Leaving) : Leaving[i] = hist.out + i
                  /\ hist.out + Len(Leaving) = chan.queued
             ELSE Len(Leaving) = 0)
LEMMA QueuedOnceIs == QueuedOnceFacts /\ QueuedOnceFacts'
<1>1. QueuedOnceFacts
  <2> SUFFICES ASSUME chip \in Chips
               PROVE  QueuedOnceFacts
        BY DEF QueuedOnceFacts
  <2>1. Leaving \in Seq(1 .. FrameOctets) /\ DOMAIN Leaving = 1 .. Len(Leaving)
        BY LeavingIs DEF LeavingFacts
  <2>2. Leaving = << >> <=> Len(Leaving) = 0  BY <2>1, EmptySeq
  <2>3. QED  BY <2>1, <2>2 DEF QueuedOnce, Consecutive, Leaving, QueuedOnceFacts
<1>2. QED  BY <1>1, PTL

InOrderFacts ==
    chan \in Channels /\ call \in Calls /\ chip \in Chips =>
           (InOrder <=>
             /\ NeverReadsAhead
             /\ hist.given + Len(Held) <= hist.heard
             /\ call.at # "none" => hist.whole
             /\ ~chip.error => /\ hist.whole
                               /\ \A i \in 1 .. Len(Held) : Held[i] = hist.given + i
                               /\ hist.given + Len(Held) = hist.heard)
LEMMA InOrderIs == InOrderFacts /\ InOrderFacts'
<1>1. InOrderFacts
  <2> SUFFICES ASSUME chan \in Channels, call \in Calls, chip \in Chips
               PROVE  InOrderFacts
        BY DEF InOrderFacts
  <2>1. Held \in Seq(Octets)  BY HeldIs DEF HeldFacts
  <2>2. DOMAIN Held = 1 .. Len(Held)  BY <2>1, LenProperties
  <2>3. QED  BY <2>2 DEF InOrderFacts, InOrder, Consecutive
<1>2. QED  BY <1>1, PTL

LEMMA InitHolds == Init => IInv
<1> SUFFICES ASSUME Init PROVE IInv  OBVIOUS
<1>1. PICK ctrl \in Controls :
        /\ core = [doing |-> "waiting", left |-> 0]
        /\ chan = [ctrl |-> ctrl, state |-> "CLOSED", clean |-> FALSE, staged |-> NoOctet,
                   pending |-> FALSE, queued |-> 0, driving |-> FALSE]
        /\ call = Idle
        /\ chip = [rx |-> << >>, error |-> FALSE, tx |-> << >>, shifter |-> NoOctet,
                   pin |-> IF ctrl = "HIGH" THEN 0 ELSE 1]
        /\ hist = [heard |-> 0, given |-> 0, whole |-> TRUE, out |-> 0]
      BY DEF Init
<1>2. /\ core \in Cores /\ chan \in Channels /\ call \in Calls /\ chip \in Chips
      /\ hist \in Histories
  <2>1. 0 \in 0 .. FrameOctets /\ 0 \in 0 .. MaxOctets  BY Bounds
  <2>2. chip \in Chips  BY <1>1, Bounds DEF Chips
  <2>3. call \in Calls  BY <1>1 DEF Idle, Calls
  <2>4. QED  BY <1>1, <2>1, <2>2, <2>3, Bounds DEF Cores, Channels, Histories
<1>3. Len(chip.rx) = 0 /\ Len(chip.tx) = 0 /\ call.at = "none"
      /\ call.toRead = 0 /\ call.produces = 0 /\ call.taken = << >>
      BY <1>1 DEF Idle
<1>4. TypeOK  BY <1>2, <1>3, Bounds, Typed DEF TypedFacts
<1>5. Len(Held) = 0
  <2>1. Len(Gathered) = 0  BY <1>1, <1>2, <1>3, GatheredIs DEF GatheredFacts
  <2>2. QED  BY <1>2, <1>3, <2>1, HeldIs DEF HeldFacts
<1>6. Len(Leaving) = 0  BY <1>1, <1>2, <1>3, LeavingIs DEF LeavingFacts
<1>7. NeverReadsAhead  BY <1>1, <1>3 DEF NeverReadsAhead, Reading
<1>8. InOrder  BY <1>1, <1>2, <1>3, <1>5, <1>7, InOrderIs DEF InOrderFacts
<1>9. LineDriven  BY <1>1 DEF LineDriven, Consistent, HasCtrl, RxLevel, Drained
<1>10. QueuedOnce  BY <1>1, <1>2, <1>6, QueuedOnceIs DEF QueuedOnceFacts
<1>11. Underway  BY <1>3 DEF Underway
<1>12. QED  BY <1>1, <1>4, <1>8, <1>9, <1>10, <1>11 DEF IInv, Settled

\* Between two calls the next one has nothing in hand.
LEMMA BetweenCalls ==
    ASSUME Underway, ~Listening, ~Reading, call' = call
    PROVE  call.at = "none" /\ Underway'
<1>1. call.at = "none"  BY DEF Underway
<1>2. call'.at = "none" /\ call'.toRead = 0 /\ call'.produces = 0 /\ call'.taken = << >>
      BY <1>1 DEF Underway
<1>3. QED  BY <1>1, <1>2 DEF Underway

LEMMA UnderwayKept ==
    ASSUME Underway, core' = core, chan' = chan, call' = call
    PROVE  Underway'
<1>1. Gathered' = Gathered  BY HeldKept
<1>2. QED  BY <1>1 DEF Underway, Listening, Waiting, Reading
-----------------------------------------------------------------------------
(* Sequences.                                                                *)

\* Two runs of consecutive numbers, one after the other, are one.
LEMMA Joined ==
    ASSUME NEW S, NEW s \in Seq(S), NEW t \in Seq(S), NEW from \in Nat,
           \A i \in 1 .. Len(s) : s[i] = from + i,
           \A i \in 1 .. Len(t) : t[i] = from + Len(s) + i
    PROVE  /\ s \o t \in Seq(S) /\ Len(s \o t) = Len(s) + Len(t)
           /\ \A i \in 1 .. Len(s \o t) : (s \o t)[i] = from + i
<1>1. Len(s) \in Nat /\ Len(t) \in Nat  BY LenProperties
<1>2. /\ s \o t \in Seq(S) /\ Len(s \o t) = Len(s) + Len(t)
      /\ \A i \in 1 .. Len(s) + Len(t) :
            (s \o t)[i] = IF i <= Len(s) THEN s[i] ELSE t[i - Len(s)]
      BY ConcatProperties
<1>3. ASSUME NEW i \in 1 .. Len(s) + Len(t)
      PROVE  (s \o t)[i] = from + i
  <2>1. CASE i <= Len(s)
    <3>1. i \in 1 .. Len(s)  BY <1>1, <2>1
    <3>2. QED  BY <1>2, <2>1, <3>1
  <2>2. CASE ~(i <= Len(s))
    <3>1. i - Len(s) \in 1 .. Len(t)  BY <1>1, <2>2
    <3>2. (s \o t)[i] = from + Len(s) + (i - Len(s))  BY <1>2, <2>2, <3>1
    <3>3. QED  BY <1>1, <3>2
  <2>3. QED  BY <2>1, <2>2
<1>4. QED  BY <1>2, <1>3

LEMMA FirstJoined ==
    ASSUME NEW S, NEW x \in S, NEW s \in Seq(S), NEW t \in Seq(S)
    PROVE  (<<x>> \o s) \o t = <<x>> \o (s \o t)
<1>1. PICK first \in Seq(S) : first = <<x>>
  <2>1. <<x>> \in Seq(S)  OBVIOUS
  <2>2. QED  BY <2>1
<1>2. (first \o s) \o t = first \o (s \o t)  BY ConcatAssociative
<1>3. QED  BY <1>1, <1>2

\* An element before a sequence, and the first of a sequence before the rest.
LEMMA FirstThen ==
    ASSUME NEW S, NEW x \in S, NEW s \in Seq(S)
    PROVE  /\ <<x>> \o s \in Seq(S) /\ Len(<<x>> \o s) = Len(s) + 1
           /\ (<<x>> \o s)[1] = x
           /\ \A i \in 1 .. Len(s) : s[i] = (<<x>> \o s)[i + 1]
<1>1. <<x>> \in Seq(S) /\ Len(<<x>>) = 1 /\ <<x>>[1] = x  OBVIOUS
<1>2. PICK first \in Seq(S) : first = <<x>> /\ Len(first) = 1 /\ first[1] = x  BY <1>1
<1>3. /\ first \o s \in Seq(S) /\ Len(first \o s) = Len(first) + Len(s)
      /\ \A i \in 1 .. Len(first) + Len(s) :
            (first \o s)[i] = IF i <= Len(first) THEN first[i] ELSE s[i - Len(first)]
      BY ConcatProperties
<1>4. Len(s) \in Nat  BY LenProperties
<1>5. (first \o s)[1] = x /\ Len(first \o s) = Len(s) + 1  BY <1>2, <1>3, <1>4
<1>6. ASSUME NEW i \in 1 .. Len(s)
      PROVE  s[i] = (first \o s)[i + 1]
  <2>1. i + 1 \in 1 .. Len(first) + Len(s) /\ ~(i + 1 <= Len(first))
        /\ (i + 1) - Len(first) = i
        BY <1>2, <1>4
  <2>2. QED  BY <1>3, <2>1
<1>7. QED  BY <1>2, <1>3, <1>5, <1>6

LEMMA HeadJoinsTail ==
    ASSUME NEW S, NEW s \in Seq(S), s # << >>
    PROVE  <<Head(s)>> \o Tail(s) = s
<1>1. /\ Head(s) \in S /\ Tail(s) \in Seq(S) /\ Len(Tail(s)) = Len(s) - 1
      /\ \A i \in 1 .. Len(Tail(s)) : Tail(s)[i] = s[i + 1]
      BY HeadTailProperties
<1>2. PICK x \in S, t \in Seq(S) : x = Head(s) /\ t = Tail(s)  BY <1>1
<1>3. PICK u \in Seq(S) : u = <<x>> \o t /\ Len(u) = Len(t) + 1 /\ u[1] = x
                          /\ \A i \in 1 .. Len(t) : t[i] = u[i + 1]
  <2>1. /\ <<x>> \o t \in Seq(S) /\ Len(<<x>> \o t) = Len(t) + 1
        /\ (<<x>> \o t)[1] = x
        /\ \A i \in 1 .. Len(t) : t[i] = (<<x>> \o t)[i + 1]
        BY FirstThen
  <2>2. QED  BY <2>1, Zenon
<1>4. Len(s) \in Nat /\ Len(s) > 0 /\ s[1] = x  BY <1>2, LenProperties, EmptySeq
<1>5. Len(u) = Len(s)  BY <1>1, <1>2, <1>3, <1>4
<1>6. ASSUME NEW i \in 1 .. Len(s)
      PROVE  u[i] = s[i]
  <2>1. CASE i = 1  BY <1>3, <1>4, <2>1
  <2>2. CASE i # 1
    <3>1. i - 1 \in 1 .. Len(t) /\ (i - 1) + 1 = i  BY <1>1, <1>2, <1>4, <2>2
    <3>2. QED  BY <1>1, <1>2, <1>3, <3>1
  <2>3. QED  BY <2>1, <2>2
<1>7. u = s  BY <1>5, <1>6, SeqEqual
<1>8. QED  BY <1>2, <1>3, <1>7
-----------------------------------------------------------------------------
(* session_cleanup, on every path that calls it.                             *)

LEMMA CleanupStep ==
    ASSUME IInv, NEW state \in {"CLOSED", "LISTENING"}, SessionCleanup(state),
           call.at = "none", call' = call,
           core' \in Cores, core'.doing \in {"waiting", "closing"}
    PROVE  IInv'
<1>1. /\ core \in Cores /\ chan \in Channels /\ call \in Calls /\ chip \in Chips
      /\ hist \in Histories
      BY Typed DEF IInv, TypedFacts
<1>2. ResetRuntime(chan) \in Channels /\ ResetRuntime(chan).ctrl = chan.ctrl
      /\ ResetRuntime(chan).staged = NoOctet /\ ResetRuntime(chan).pending = FALSE
      /\ ResetRuntime(chan).queued = 0 /\ ResetRuntime(chan).driving = FALSE
      BY <1>1, Bounds DEF ResetRuntime, Channels
<1>3. /\ chan' \in Channels /\ chan'.state = state /\ chan'.staged = NoOctet
      /\ chan'.pending = FALSE /\ chan'.queued = 0 /\ chan'.driving = FALSE
      /\ chan'.ctrl = chan.ctrl
      BY <1>2 DEF SessionCleanup, Channels
<1>4. << >> \in Seq(Octets) /\ << >> \in Seq(1 .. FrameOctets)  BY EmptySeq
<1>5. /\ Flushed(chip) \in Chips /\ Flushed(chip).rx = << >> /\ Flushed(chip).tx = << >>
      /\ Flushed(chip).shifter = NoOctet /\ Flushed(chip).pin = chip.pin
      BY <1>1, <1>4, Bounds DEF Flushed, Chips
<1>6. /\ chip' \in Chips /\ chip'.rx = << >> /\ chip'.tx = << >> /\ chip'.shifter = NoOctet
      /\ HasCtrl(chan) => chip'.pin = RxLevel(chan)
      BY <1>5, Levels, WrittenFields DEF SessionCleanup
<1>7. hist' \in Histories /\ hist'.whole = TRUE /\ hist'.given = hist'.heard
      /\ hist'.heard \in 0 .. MaxOctets
      BY <1>1, Bounds DEF SessionCleanup, Histories
<1>8. Len(chip'.rx) = 0 /\ Len(chip'.tx) = 0  BY <1>6
<1>9. TypeOK'  BY <1>1, <1>3, <1>6, <1>7, <1>8, Bounds, Typed DEF TypedFacts
<1>10. call'.at = "none" /\ call'.toRead = 0 /\ call'.produces = 0 /\ call'.taken = << >>
       BY DEF IInv, Underway
<1>11. Len(Held)' = 0
  <2>1. Len(Gathered') = 0  BY <1>1, <1>3, <1>10, GatheredIs DEF GatheredFacts
  <2>2. QED  BY <1>1, <1>3, <1>6, <1>8, <2>1, HeldIs DEF HeldFacts
<1>12. Len(Leaving)' = 0  BY <1>6, <1>8, LeavingIs DEF LeavingFacts
<1>13. NeverReadsAhead'  BY <1>3, <1>8, <1>10 DEF NeverReadsAhead, Reading
<1>14. InOrder'  BY <1>1, <1>3, <1>6, <1>7, <1>11, <1>13, InOrderIs DEF InOrderFacts
<1>15. HasCtrl(chan)' = HasCtrl(chan) /\ RxLevel(chan)' = RxLevel(chan)
       BY <1>3 DEF HasCtrl, RxLevel
<1>16. LineDriven'  BY <1>3, <1>6, <1>15 DEF LineDriven, Consistent, Drained
<1>17. QueuedOnce'  BY <1>3, <1>6, <1>12, QueuedOnceIs DEF QueuedOnceFacts
<1>18. Underway'  BY <1>10 DEF Underway
<1>19. QED  BY <1>3, <1>9, <1>14, <1>16, <1>17, <1>18 DEF IInv, Settled

\* A step that moves the Core, the state of the channel or the place in a call, but no
\* octet and no pin.
LEMMA StateStep ==
    ASSUME IInv, UNCHANGED <<chip, hist>>,
           NEW state \in {"CLOSED", "OPEN", "LISTENING", "CONNECTED"},
           chan' = [chan EXCEPT !.state = state], core' \in Cores,
           call' \in Calls, call'.taken = call.taken, call'.at # "none" => hist.whole,
           NeverReadsAhead', Consistent', Underway', state = "CLOSED" => chan.state = "CLOSED"
    PROVE  IInv'
<1>1. /\ core \in Cores /\ chan \in Channels /\ call \in Calls /\ chip \in Chips
      /\ hist \in Histories /\ Len(chip.rx) <= Depth /\ Len(chip.tx) <= Depth
      BY Typed DEF IInv, TypedFacts
<1>2. /\ chan' \in Channels /\ chan'.state = state /\ chan'.staged = chan.staged
      /\ chan'.pending = chan.pending /\ chan'.queued = chan.queued
      /\ chan'.driving = chan.driving /\ chan'.ctrl = chan.ctrl
      BY <1>1 DEF Channels
<1>3. TypeOK'  BY <1>1, <1>2, Typed DEF TypedFacts
<1>4. Held' = Held /\ Leaving' = Leaving
  <2>1. Held' = Held  BY <1>2, HeldKept
  <2>2. Leaving' = Leaving  BY Zenon DEF Leaving
  <2>3. QED  BY <2>1, <2>2
<1>5. InOrder'  BY <1>1, <1>2, <1>4, InOrderIs DEF InOrderFacts, IInv
<1>6. HasCtrl(chan)' = HasCtrl(chan) /\ RxLevel(chan)' = RxLevel(chan)
      /\ TxLevel(chan)' = TxLevel(chan) /\ Drained' = Drained
      BY <1>2 DEF HasCtrl, RxLevel, TxLevel, Drained
<1>7. LineDriven'  BY <1>2, <1>6 DEF LineDriven, IInv
<1>8. QueuedOnce'  BY <1>1, <1>2, <1>4, QueuedOnceIs DEF QueuedOnceFacts, IInv
<1>9. Settled'  BY <1>2 DEF IInv, Settled
<1>10. QED  BY <1>3, <1>5, <1>7, <1>8, <1>9 DEF IInv

LEMMA IdleTyped == Idle \in Calls
BY DEF Idle, Calls

LEMMA WaitingStep ==
    ASSUME IInv, Open \/ Listen \/ ListeningFails \/ Accept \/ KeepListening
    PROVE  IInv'
<1>1. /\ core \in Cores /\ core.doing = "waiting" /\ chan \in Channels /\ call \in Calls
      /\ chip \in Chips
      BY Typed DEF IInv, TypedFacts, Open, Listen, ListeningFails, Accept, KeepListening,
                   Listening, Waiting
<1>2. chan.staged = NoOctet /\ chan.pending = FALSE /\ chan.driving = FALSE
      /\ Len(chip.rx) \in Nat
      BY <1>1, LenProperties
      DEF IInv, InOrder, NeverReadsAhead, LineDriven, Consistent, Channels, Chips
<1>3. ASSUME NEW state \in {"OPEN", "LISTENING"}, chan' = [chan EXCEPT !.state = state],
             UNCHANGED <<core, chip, hist>>, call'.taken = call.taken,
             call' \in Calls, call'.at = "none", call'.toRead = 0, Underway'
      PROVE  IInv'
  <2>1. chan'.staged = NoOctet /\ chan'.pending = FALSE /\ chan'.driving = FALSE
        BY <1>1, <1>2, <1>3 DEF Channels
  <2>2. NeverReadsAhead'  BY <1>1, <1>2, <1>3, <2>1 DEF NeverReadsAhead, Reading
  <2>3. Consistent'  BY <1>1, <1>3, <2>1 DEF Consistent
  <2>4. QED  BY <1>1, <1>3, <2>2, <2>3, StateStep
<1>4. ASSUME chan.state = "OPEN" \/ chan.state = "CLOSED", call' = call
      PROVE  call.at = "none" /\ call.toRead = 0 /\ Underway'
  <2>1. call.at = "none" /\ Underway'
        BY <1>1, <1>4, BetweenCalls DEF IInv, Listening, Reading
  <2>2. QED  BY <2>1 DEF IInv, Underway
<1>5. CASE Open
  <2>1. /\ chan.state = "CLOSED" /\ chan' = [chan EXCEPT !.state = "OPEN"]
        /\ core' = core /\ call' = call /\ chip' = chip /\ hist' = hist
        BY <1>5 DEF Open
  <2>2. call.at = "none" /\ call.toRead = 0 /\ Underway'  BY <1>4, <2>1
  <2>3. QED  BY <1>1, <1>3, <2>1, <2>2
<1>6. CASE Listen
  <2>1. chan.state = "OPEN" /\ core' = core /\ call' = call  BY <1>6 DEF Listen
  <2>2. call.at = "none" /\ call.toRead = 0 /\ Underway'  BY <1>4, <2>1
  <2>3. CASE chan.clean
    <3>1. chan' = [chan EXCEPT !.state = "LISTENING"] /\ chip' = chip /\ hist' = hist
          BY <1>6, <2>3 DEF Listen
    <3>2. QED  BY <1>1, <1>3, <2>1, <2>2, <3>1
  <2>4. CASE ~chan.clean
    <3>1. SessionCleanup("LISTENING")  BY <1>6, <2>4 DEF Listen
    <3>2. QED  BY <1>1, <2>1, <2>2, <3>1, CleanupStep
  <2>5. QED  BY <2>3, <2>4
<1>7. CASE ListeningFails
  <2>1. SessionCleanup("CLOSED") /\ call.at = "none" /\ core' = core /\ call' = call
        BY <1>7 DEF ListeningFails, CloseAfterError
  <2>2. QED  BY <1>1, <2>1, CleanupStep
<1>8. ASSUME call.at = "checked", call' = Idle
      PROVE  /\ call' \in Calls /\ call'.taken = call.taken /\ call'.at = "none"
             /\ call'.toRead = 0 /\ Underway'
  <2>1. call'.at = "none" /\ call'.toRead = 0 /\ call'.produces = 0 /\ call'.taken = << >>
        BY <1>8 DEF Idle
  <2>2. call.taken = << >>  BY <1>8 DEF IInv, Underway
  <2>3. Underway'  BY <2>1 DEF Underway
  <2>4. QED  BY <1>8, <2>1, <2>2, <2>3, IdleTyped
<1>9. CASE Accept
  <2>1. core' = [doing |-> "header", left |-> HeaderOctets] /\ core' \in Cores
        BY <1>9, OctetsAssumption DEF Accept, Cores
  <2>2. /\ chan' = [chan EXCEPT !.state = "CONNECTED"] /\ chip' = chip /\ hist' = hist
        /\ call.at = "checked" /\ call' = Idle
        BY <1>9 DEF Accept
  <2>3. chan'.staged = NoOctet /\ chan'.pending = FALSE /\ chan'.driving = FALSE
        /\ chan'.state = "CONNECTED"
        BY <1>1, <1>2, <2>2 DEF Channels
  <2>4. HeaderOctets > 0 /\ Even(HeaderOctets)  BY OctetsAssumption
  <2>5. /\ call' \in Calls /\ call'.taken = call.taken /\ call'.at = "none"
        /\ call'.toRead = 0 /\ Underway'
        BY <1>8, <2>2
  <2>6. NeverReadsAhead'
        BY <1>2, <2>1, <2>2, <2>3, <2>4, <2>5 DEF NeverReadsAhead, Reading, Even
  <2>7. Consistent'  BY <2>1, <2>3 DEF Consistent
  <2>8. QED  BY <2>1, <2>2, <2>5, <2>6, <2>7, StateStep
<1>10. CASE KeepListening
  <2>1. /\ chan' = chan /\ chan.state = "LISTENING" /\ call.at = "checked" /\ call' = Idle
        /\ core' = core /\ chip' = chip /\ hist' = hist
        BY <1>10 DEF KeepListening, Listening
  <2>2. chan' = [chan EXCEPT !.state = "LISTENING"]  BY <1>1, <2>1 DEF Channels
  <2>3. QED  BY <1>3, <1>8, <2>1, <2>2
<1>11. QED  BY <1>5, <1>6, <1>7, <1>9, <1>10

LEMMA CloseStep ==
    ASSUME IInv, Close
    PROVE  IInv'
<1>1. core' = [doing |-> "waiting", left |-> 0] /\ core' \in Cores  BY DEF Close, Cores
<1>2. chan \in Channels /\ call \in Calls /\ chip \in Chips  BY Typed DEF IInv, TypedFacts
<1>3. call' = call /\ call.at = "none" /\ call.toRead = 0 /\ Underway'
  <2>1. call' = call /\ ~Listening /\ ~Reading  BY DEF Close, Listening, Waiting, Reading
  <2>2. call.at = "none" /\ Underway'  BY <2>1, BetweenCalls DEF IInv
  <2>3. QED  BY <2>1, <2>2 DEF IInv, Underway
<1>4. CASE chan.clean /\ chan.state = "CLOSED" /\ UNCHANGED <<chan, chip, hist>>
  <2>1. chan' = [chan EXCEPT !.state = "CLOSED"]  BY <1>2, <1>4 DEF Channels
  <2>2. chan.staged = NoOctet /\ ~chan.pending  BY <1>4 DEF IInv, Settled
  <2>3. Len(chip.rx) \in Nat  BY <1>2, LenProperties DEF Chips
  <2>4. NeverReadsAhead'  BY <1>1, <1>3, <1>4, <2>2, <2>3 DEF NeverReadsAhead, Reading
  <2>5. Consistent'  BY <1>1, <1>4, <2>2 DEF IInv, LineDriven, Consistent, HasCtrl
  <2>6. QED  BY <1>1, <1>2, <1>3, <1>4, <2>1, <2>4, <2>5, StateStep
<1>5. CASE SessionCleanup("CLOSED")  BY <1>1, <1>3, <1>5, CleanupStep
<1>6. QED  BY <1>4, <1>5 DEF Close
-----------------------------------------------------------------------------
(* receive: octets by pairs, the odd one staged.                             *)

LEMMA ReceiveFailsStep ==
    ASSUME IInv, ReceiveFails
    PROVE  IInv'
<1>1. SessionCleanup("CLOSED") /\ call.at = "none" /\ call' = call
      BY DEF ReceiveFails, CloseAfterError
<1>2. core' \in Cores /\ core'.doing = "closing"  BY DEF ReceiveFails, Cores
<1>3. QED  BY <1>1, <1>2, CleanupStep

\* No error seen means none latched, and then the session has no gap.
LEMMA CheckStep ==
    ASSUME IInv, ListeningChecks \/ ReceiveChecks
    PROVE  IInv'
<1>1. /\ core \in Cores /\ chan \in Channels /\ call \in Calls /\ chip \in Chips
      BY Typed DEF IInv, TypedFacts
<1>2. /\ call.at = "none" /\ ~chip.error /\ call' = [call EXCEPT !.at = "checked"]
      /\ core' = core /\ chan' = chan /\ chip' = chip /\ hist' = hist
      /\ Listening \/ Reading
      BY DEF ListeningChecks, ReceiveChecks, NoErrorSeen, HasRxError
<1>3. /\ call' \in Calls /\ call'.at = "checked" /\ call'.toRead = call.toRead
      /\ call'.produces = call.produces /\ call'.taken = call.taken
      BY <1>1, <1>2 DEF Calls
<1>4. hist.whole  BY <1>2 DEF IInv, InOrder
<1>5. chan.state \in {"LISTENING", "CONNECTED"}  BY <1>2 DEF Listening, Reading
<1>6. chan' = [chan EXCEPT !.state = chan.state]  BY <1>1, <1>2 DEF Channels
<1>7. NeverReadsAhead'  BY <1>2, <1>3 DEF IInv, InOrder, NeverReadsAhead, Reading
<1>8. Consistent'  BY <1>2 DEF IInv, LineDriven, Consistent, HasCtrl
<1>9. Underway'
  <2>1. call.toRead = 0 /\ call.produces = 0 /\ call.taken = << >>
        BY <1>2 DEF IInv, Underway
  <2>2. Listening' \/ Reading'  BY <1>2 DEF Listening, Waiting, Reading
  <2>3. QED  BY <1>3, <2>1, <2>2 DEF Underway
<1>10. QED  BY <1>1, <1>2, <1>3, <1>4, <1>5, <1>6, <1>7, <1>8, <1>9, StateStep

\* How many octets are handed over and how many leave the FIFO.
LEMMA ProducedIs ==
    ASSUME chan \in Channels, chip \in Chips, core \in Cores, core.left > 0, Even(core.left)
    PROVE  /\ Available \in Nat /\ Produced \in Nat /\ Taken \in Nat
           /\ StagedCount \in 0 .. 1 /\ Available = Len(chip.rx) + StagedCount
           /\ Produced <= Available /\ Produced <= core.left /\ Even(Produced)
           /\ Taken <= Available /\ Produced <= Taken
           /\ StagedCount <= Taken
           /\ Stages => Taken = Produced + 1 /\ Produced < Available /\ Produced < core.left
           /\ ~Stages => Taken = Produced
<1> DEFINE pairs == Available \div 2
<1>1. /\ Available \in Nat /\ core.left \in Nat /\ StagedCount \in 0 .. 1
      /\ Available = Len(chip.rx) + StagedCount
  <2>1. Len(chip.rx) \in Nat  BY LenProperties DEF Chips
  <2>2. StagedCount = 0 \/ StagedCount = 1  BY DEF StagedCount
  <2>3. Available = Len(chip.rx) + StagedCount  BY DEF Available
  <2>4. QED  BY <2>1, <2>2, <2>3 DEF Cores
<1>2. pairs \in Nat /\ 2 * pairs <= Available /\ Available <= 2 * pairs + 1
  <2>1. \A m \in Nat : /\ m \div 2 \in Nat /\ 2 * (m \div 2) <= m
                       /\ m <= 2 * (m \div 2) + 1
        OBVIOUS
  <2>2. QED  BY <1>1, <2>1, Zenon
<1>3. core.left \div 2 \in Nat /\ 2 * (core.left \div 2) = core.left  BY <1>1 DEF Even
<1>4. Produced = 2 * (IF 2 * pairs <= core.left THEN pairs ELSE core.left \div 2)
      BY DEF Produced
<1>5. StagedCount <= Available
  <2>1. Len(chip.rx) \in Nat  BY LenProperties DEF Chips
  <2>2. QED  BY <1>1, <2>1
<1> HIDE DEF pairs
<1>6. CASE 2 * pairs <= core.left
  <2>1. Produced = 2 * pairs  BY <1>4, <1>6
  <2>2. Even(Produced)  BY <1>2, <2>1 DEF Even
  <2>3. Produced \in Nat /\ Produced <= Available /\ Produced <= core.left
        BY <1>1, <1>2, <1>6, <2>1
  <2>4. Taken = Produced + 1 \/ Taken = Produced  BY <2>3 DEF Taken
  <2>5. StagedCount <= Taken
        BY <1>1, <1>5, <2>3 DEF Taken, Stages
  <2>6. QED  BY <1>1, <2>2, <2>3, <2>4, <2>5 DEF Taken, Stages
<1>7. CASE 2 * pairs > core.left
  <2>1. Produced = core.left  BY <1>2, <1>3, <1>4, <1>7
  <2>2. ~Stages  BY <1>1, <2>1 DEF Stages
  <2>3. Produced \in Nat /\ Produced <= Available
        BY <1>1, <1>2, <1>7, <2>1
  <2>4. Taken = Produced  BY <2>2, <2>3 DEF Taken
  <2>5. StagedCount <= Taken  BY <1>1, <2>1, <2>4
  <2>6. QED  BY <1>1, <2>1, <2>2, <2>3, <2>4, <2>5
<1>8. QED  BY <1>1, <1>2, <1>6, <1>7

\* The level of the FIFO fixes what the call will read and return.
LEMMA CountStep ==
    ASSUME IInv, ReceiveCounts
    PROVE  IInv'
<1>1. /\ core \in Cores /\ chan \in Channels /\ call \in Calls /\ chip \in Chips
      BY Typed DEF IInv, TypedFacts
<1>2. /\ Reading /\ call.at = "checked"
      /\ call' = [call EXCEPT !.at = "reading", !.toRead = Taken - StagedCount,
                              !.produces = Produced]
      /\ core' = core /\ chan' = chan /\ chip' = chip /\ hist' = hist
      BY DEF ReceiveCounts
<1>3. core.left > 0 /\ Even(core.left) /\ hist.whole
      BY <1>2 DEF IInv, InOrder, NeverReadsAhead
<1>4. /\ Available \in Nat /\ Produced \in Nat /\ Taken \in Nat
      /\ StagedCount \in 0 .. 1 /\ Available = Len(chip.rx) + StagedCount
      /\ Produced <= Available /\ Produced <= core.left /\ Even(Produced)
      /\ Taken <= Available /\ Produced <= Taken /\ StagedCount <= Taken
      /\ Stages => Taken = Produced + 1 /\ Produced < Available /\ Produced < core.left
      /\ ~Stages => Taken = Produced
      BY <1>1, <1>3, ProducedIs
<1>5. /\ call' \in Calls /\ call'.at = "reading" /\ call'.toRead = Taken - StagedCount
      /\ call'.produces = Produced /\ call'.taken = call.taken /\ call.taken = << >>
  <2>1. Taken - StagedCount \in Nat  BY <1>4
  <2>2. call.taken = << >>  BY <1>2 DEF IInv, Underway
  <2>3. QED  BY <1>1, <1>2, <1>4, <2>1, <2>2 DEF Calls
<1>6. Len(chip.rx) \in Nat  BY <1>1, LenProperties DEF Chips
<1>7. NeverReadsAhead'
  <2>1. Taken - StagedCount <= Len(chip.rx)  BY <1>4, <1>6
  <2>2. QED  BY <1>2, <1>5, <2>1 DEF IInv, InOrder, NeverReadsAhead, Reading
<1>8. Consistent'  BY <1>2 DEF IInv, LineDriven, Consistent, HasCtrl
<1>9. Underway'
  <2>1. Gathered' = Gathered  BY <1>2, <1>5, HeldKept
  <2>2. Len(Gathered) = StagedCount  BY <1>1, <1>4, <1>5, GatheredIs DEF GatheredFacts
  <2>3. Len(Gathered') + call'.toRead = Taken  BY <1>4, <1>5, <2>1, <2>2
  <2>4. Reading'  BY <1>2 DEF Reading
  <2>5. \/ Len(Gathered') + call'.toRead = call'.produces
        \/ /\ Len(Gathered') + call'.toRead = call'.produces + 1
           /\ call'.produces < core'.left
        BY <1>2, <1>4, <1>5, <2>3
  <2>6. Even(call'.produces) /\ call'.produces <= core'.left  BY <1>2, <1>4, <1>5
  <2>7. QED  BY <1>5, <2>4, <2>5, <2>6 DEF Underway
<1>10. chan' = [chan EXCEPT !.state = "CONNECTED"]  BY <1>1, <1>2 DEF Reading, Channels
<1>11. QED  BY <1>1, <1>2, <1>3, <1>5, <1>7, <1>8, <1>9, <1>10, StateStep

\* Two sequences and a third.
LEMMA Associated ==
    \A r, s, t \in Seq(Octets) : (r \o s) \o t = r \o (s \o t)
BY ConcatAssociative

\* An octet moves from the FIFO to the call: what is on its way stays as it is.
LEMMA ReadStep ==
    ASSUME IInv, ReadOctet
    PROVE  IInv'
<1>1. /\ core \in Cores /\ chan \in Channels /\ call \in Calls /\ chip \in Chips
      /\ hist \in Histories /\ Len(chip.rx) <= Depth /\ Len(chip.tx) <= Depth
      BY Typed DEF IInv, TypedFacts
<1>2. /\ call.at = "reading" /\ call.toRead > 0
      /\ call' = [call EXCEPT !.toRead = @ - 1, !.taken = Append(@, Head(chip.rx))]
      /\ chip' = [chip EXCEPT !.rx = Tail(@)]
      /\ core' = core /\ chan' = chan /\ hist' = hist
      BY DEF ReadOctet
<1>3. call.toRead \in Nat /\ call.taken \in Seq(Octets) /\ chip.rx \in Seq(Octets)
      /\ call.toRead <= Len(chip.rx) /\ Len(chip.rx) \in Nat
      BY <1>1, LenProperties DEF Calls, Chips, IInv, InOrder, NeverReadsAhead
<1>4. chip.rx # << >>
  <2>1. Len(chip.rx) # 0  BY <1>2, <1>3
  <2>2. QED  BY <1>3, <2>1, EmptySeq
<1>5. PICK first \in Octets, rest \in Seq(Octets) :
          /\ first = Head(chip.rx) /\ rest = Tail(chip.rx)
          /\ Len(rest) = Len(chip.rx) - 1 /\ <<first>> \o rest = chip.rx
  <2>1. \A s \in Seq(Octets) :
            s # << >> => /\ Head(s) \in Octets /\ Tail(s) \in Seq(Octets)
                         /\ Len(Tail(s)) = Len(s) - 1 /\ <<Head(s)>> \o Tail(s) = s
        BY HeadTailProperties, HeadJoinsTail
  <2>2. QED  BY <1>3, <1>4, <2>1
<1>6. PICK one \in Seq(Octets) : one = <<first>> /\ Len(one) = 1
  <2>1. <<first>> \in Seq(Octets) /\ Len(<<first>>) = 1  OBVIOUS
  <2>2. QED  BY <2>1
<1>7. Append(call.taken, first) = call.taken \o one /\ call.taken \o one \in Seq(Octets)
      BY <1>3, <1>6, AppendIsConcat, ConcatProperties
<1>8. /\ call' \in Calls /\ call'.at = "reading" /\ call'.toRead = call.toRead - 1
      /\ call'.produces = call.produces /\ call'.taken = call.taken \o one
  <2>1. call.toRead - 1 \in Nat  BY <1>2, <1>3
  <2>2. call' = [call EXCEPT !.toRead = call.toRead - 1, !.taken = call.taken \o one]
        BY <1>2, <1>5, <1>7
  <2>3. QED  BY <1>1, <1>2, <1>7, <2>1, <2>2 DEF Calls
<1>9. /\ chip' \in Chips /\ chip'.rx = rest /\ chip'.tx = chip.tx /\ chip'.error = chip.error
      /\ chip'.shifter = chip.shifter /\ chip'.pin = chip.pin
      BY <1>1, <1>2, <1>5 DEF Chips
<1>10. Gathered \in Seq(Octets) /\ Len(Gathered) \in Nat
       BY <1>1, GatheredIs DEF GatheredFacts
<1>11. Gathered' = Gathered \o one
  <2>1. CASE chan.staged = NoOctet
        BY <1>1, <1>2, <1>8, <2>1, GatheredIs DEF GatheredFacts
  <2>2. CASE chan.staged # NoOctet
    <3>1. Gathered = <<chan.staged>> \o call.taken /\ chan.staged \in Octets
          BY <1>1, <2>2, GatheredIs DEF GatheredFacts
    <3>2. Gathered' = <<chan.staged>> \o (call.taken \o one)
          BY <1>1, <1>2, <1>8, <2>2, GatheredIs DEF GatheredFacts
    <3>3. \A x \in Octets : \A s, t \in Seq(Octets) : (<<x>> \o s) \o t = <<x>> \o (s \o t)
          BY FirstJoined
    <3>4. QED  BY <1>3, <1>6, <3>1, <3>2, <3>3, Zenon
  <2>3. QED  BY <2>1, <2>2
<1>12. Len(Gathered') = Len(Gathered) + 1
  <2>1. \A s, t \in Seq(Octets) : Len(s \o t) = Len(s) + Len(t)  BY ConcatProperties
  <2>2. Len(Gathered \o one) = Len(Gathered) + Len(one)  BY <1>6, <1>10, <2>1
  <2>3. QED  BY <1>6, <1>11, <2>2
<1>13. Held' = Held
  <2>1. Held = Gathered \o chip.rx  BY <1>1, HeldIs DEF HeldFacts
  <2>2. Held' = (Gathered \o one) \o rest
        BY <1>1, <1>2, <1>8, <1>9, <1>11, HeldIs DEF HeldFacts
  <2>3. (Gathered \o one) \o rest = Gathered \o (one \o rest)
        BY <1>6, <1>10, Associated
  <2>4. one \o rest = chip.rx  BY <1>5, <1>6
  <2>5. QED  BY <2>1, <2>2, <2>3, <2>4
<1>14. TypeOK'
  <2>1. Len(chip'.rx) <= Depth  BY <1>1, <1>3, <1>5, <1>9, Bounds
  <2>2. QED  BY <1>1, <1>2, <1>8, <1>9, <2>1, Typed DEF TypedFacts
<1>15. NeverReadsAhead'
  <2>1. call'.toRead <= Len(chip'.rx)  BY <1>3, <1>5, <1>8, <1>9
  <2>2. QED  BY <1>2, <2>1 DEF IInv, InOrder, NeverReadsAhead, Reading
<1>16. InOrder'
       BY <1>1, <1>2, <1>8, <1>9, <1>13, <1>15, InOrderIs DEF InOrderFacts, IInv
<1>17. LineDriven'
  <2>1. HasCtrl(chan)' = HasCtrl(chan) /\ RxLevel(chan)' = RxLevel(chan)
        /\ TxLevel(chan)' = TxLevel(chan) /\ Drained' = Drained /\ Consistent' = Consistent
        BY <1>2, <1>9 DEF HasCtrl, RxLevel, TxLevel, Drained, Consistent
  <2>2. QED  BY <1>2, <1>9, <2>1 DEF LineDriven, IInv
<1>18. QueuedOnce'
  <2>1. Leaving' = Leaving  BY <1>9 DEF Leaving
  <2>2. QED  BY <1>1, <1>2, <1>9, <2>1, QueuedOnceIs DEF QueuedOnceFacts, IInv
<1>19. Underway'
  <2>1. /\ Reading /\ Even(call.produces) /\ call.produces <= core.left
        /\ \/ Len(Gathered) + call.toRead = call.produces
           \/ /\ Len(Gathered) + call.toRead = call.produces + 1
              /\ call.produces < core.left
        BY <1>2 DEF IInv, Underway
  <2>2. Len(Gathered') + call'.toRead = Len(Gathered) + call.toRead
    <3>1. \A m, k \in Nat : (m + 1) + (k - 1) = m + k  OBVIOUS
    <3>2. QED  BY <1>3, <1>8, <1>10, <1>12, <3>1, Zenon
  <2>3. Reading'  BY <1>2, <2>1 DEF Reading
  <2>4. /\ Even(call'.produces) /\ call'.produces <= core'.left
        /\ \/ Len(Gathered') + call'.toRead = call'.produces
           \/ /\ Len(Gathered') + call'.toRead = call'.produces + 1
              /\ call'.produces < core'.left
        BY <1>2, <1>8, <2>1, <2>2
  <2>5. QED  BY <1>8, <2>3, <2>4 DEF Underway
<1>20. Settled'  BY <1>2 DEF Settled, IInv
<1>21. QED  BY <1>14, <1>16, <1>17, <1>18, <1>19, <1>20 DEF IInv

\* The Core goes on as far as the octets it was given carry it.
LEMMA CoreGoesOn ==
    ASSUME core \in Cores, NEW n \in Nat, core.doing \in {"header", "payload"},
           core.left > 0, Even(core.left), Even(n), n <= core.left,
           IF n = 0 THEN NoProgress ELSE core' \in CoreAfter(n)
    PROVE  /\ core' \in Cores
           /\ core'.doing \in {"header", "payload", "sending", "closing"}
           /\ core'.doing \in {"header", "payload"} => core'.left > 0 /\ Even(core'.left)
           /\ n < core.left => core'.doing \in {"header", "payload", "closing"}
<1>1. CASE core' = core  BY <1>1
<1>2. CASE core' = [doing |-> "closing", left |-> 0]  BY <1>2 DEF Cores
<1>3. CASE n < core.left /\ core' = [core EXCEPT !.left = @ - n]
  <2>1. core.left \in Nat  BY DEF Cores
  <2>2. core.left - n \in Nat /\ core.left - n > 0  BY <1>3, <2>1
  <2>3. Even(core.left - n)  BY <2>1, <2>2 DEF Even
  <2>4. core' \in Cores /\ core'.doing = core.doing /\ core'.left = core.left - n
        BY <1>3, <2>2 DEF Cores
  <2>5. QED  BY <2>2, <2>3, <2>4
<1>4. CASE ~(n < core.left) /\ core' = [doing |-> "sending", left |-> 0]
      BY <1>4 DEF Cores
<1>5. CASE ~(n < core.left)
           /\ \E p \in Payloads \ {0} : core' = [doing |-> "payload", left |-> p]
  <2>1. PICK p \in Payloads \ {0} : core' = [doing |-> "payload", left |-> p]  BY <1>5
  <2>2. p \in Nat /\ p > 0 /\ Even(p)  BY OctetsAssumption
  <2>3. core' \in Cores /\ core'.doing = "payload" /\ core'.left = p  BY <2>1, <2>2 DEF Cores
  <2>4. QED  BY <2>2, <2>3
<1>6. n = 0 => core' \in {core, [doing |-> "closing", left |-> 0]}  BY DEF NoProgress
<1>7. n # 0 => core' \in CoreAfter(n)  OBVIOUS
<1>8. CASE n < core.left  BY <1>1, <1>2, <1>3, <1>6, <1>7, <1>8 DEF CoreAfter
<1>9. CASE ~(n < core.left)
      BY <1>1, <1>2, <1>4, <1>5, <1>6, <1>7, <1>9 DEF CoreAfter
<1>10. QED  BY <1>8, <1>9

\* The call ends: of what it gathered the Core gets the first octets, the one that may
\* be left over is staged.
LEMMA ReturnStep ==
    ASSUME IInv, ReceiveReturns
    PROVE  IInv'
<1> DEFINE n == call.produces
           over == Len(Gathered) > n
<1>1. /\ core \in Cores /\ chan \in Channels /\ call \in Calls /\ chip \in Chips
      /\ hist \in Histories /\ Len(chip.rx) <= Depth /\ Len(chip.tx) <= Depth
      BY Typed DEF IInv, TypedFacts
<1>2. /\ call.at = "reading" /\ call.toRead = 0 /\ chip' = chip /\ call' = Idle
      /\ IF n = 0 THEN NoProgress ELSE core' \in CoreAfter(n)
      /\ chan' = [chan EXCEPT !.staged = IF over THEN Gathered[n + 1] ELSE NoOctet]
      /\ hist' = [hist EXCEPT !.given = @ + n,
                              !.whole = @ /\ \A i \in 1 .. n : Gathered[i] = hist.given + i]
      BY DEF ReceiveReturns, AfterReceive
<1>3. n \in Nat /\ Gathered \in Seq(Octets) /\ Len(Gathered) \in Nat
      /\ hist.given \in Nat /\ hist.heard \in 0 .. MaxOctets
      BY <1>1, Bounds, GatheredIs DEF Calls, GatheredFacts, Histories
<1>4. /\ core.doing \in {"header", "payload"} /\ chan.state = "CONNECTED"
      /\ Even(n) /\ n <= core.left
      /\ Len(Gathered) = n \/ (Len(Gathered) = n + 1 /\ n < core.left)
  <2>1. /\ Reading /\ Even(n) /\ n <= core.left
        /\ \/ Len(Gathered) + call.toRead = n
           \/ Len(Gathered) + call.toRead = n + 1 /\ n < core.left
        BY <1>2 DEF IInv, Underway
  <2>2. QED  BY <1>2, <1>3, <2>1 DEF Reading
<1>5. core.left > 0 /\ Even(core.left) /\ hist.whole
      BY <1>2, <1>4 DEF IInv, InOrder, NeverReadsAhead, Reading
<1>6. /\ core' \in Cores /\ core'.doing \in {"header", "payload", "sending", "closing"}
      /\ core'.doing \in {"header", "payload"} => core'.left > 0 /\ Even(core'.left)
      /\ over => core'.doing \in {"header", "payload", "closing"}
  <2>1. over => n < core.left  BY <1>3, <1>4
  <2>2. /\ core' \in Cores /\ core'.doing \in {"header", "payload", "sending", "closing"}
        /\ core'.doing \in {"header", "payload"} => core'.left > 0 /\ Even(core'.left)
        /\ n < core.left => core'.doing \in {"header", "payload", "closing"}
        BY <1>1, <1>2, <1>3, <1>4, <1>5, CoreGoesOn
  <2>3. QED  BY <2>1, <2>2
<1>7. over => Gathered[n + 1] \in Octets
  <2>1. SUFFICES ASSUME over PROVE Gathered[n + 1] \in Octets  OBVIOUS
  <2>2. n + 1 \in 1 .. Len(Gathered)  BY <1>3, <2>1
  <2>3. QED  BY <1>3, <2>2, ElementOfSeq
<1>8. /\ chan' \in Channels /\ chan'.state = chan.state /\ chan'.ctrl = chan.ctrl
      /\ chan'.pending = chan.pending /\ chan'.queued = chan.queued
      /\ chan'.driving = chan.driving
      /\ chan'.staged = IF over THEN Gathered[n + 1] ELSE NoOctet
  <2> DEFINE left == IF over THEN Gathered[n + 1] ELSE NoOctet
  <2>1. left \in 0 .. Garbled  BY <1>7, Bounds
  <2>2. chan' = [chan EXCEPT !.staged = left]  BY <1>2
  <2> HIDE DEF left
  <2>3. chan' \in Channels /\ chan'.staged = left  BY <1>1, <2>1, <2>2 DEF Channels
  <2>4. /\ chan'.state = chan.state /\ chan'.ctrl = chan.ctrl
        /\ chan'.pending = chan.pending /\ chan'.queued = chan.queued
        /\ chan'.driving = chan.driving
        BY <1>1, <2>2 DEF Channels
  <2>5. QED  BY <2>3, <2>4 DEF left
<1>9. /\ call' \in Calls /\ call'.at = "none" /\ call'.toRead = 0 /\ call'.produces = 0
      /\ call'.taken = << >>
      BY <1>2, IdleTyped DEF Idle
<1>10. /\ Held \in Seq(Octets) /\ Len(Held) = Len(Gathered) + Len(chip.rx)
       /\ Len(chip.rx) \in Nat
       /\ \A i \in 1 .. Len(Held) :
             Held[i] = IF i <= Len(Gathered) THEN Gathered[i] ELSE chip.rx[i - Len(Gathered)]
       BY <1>1, HeldIs DEF HeldFacts
\* What is left is what there was without its first n.
<1>11. /\ Len(Held') = Len(Held) - n
       /\ \A i \in 1 .. Len(Held') : Held'[i] = Held[n + i]
  <2>1. /\ Len(Held') = Len(Gathered') + Len(chip.rx)
        /\ \A i \in 1 .. Len(Held') :
              Held'[i] = IF i <= Len(Gathered') THEN Gathered'[i]
                         ELSE chip.rx[i - Len(Gathered')]
        BY <1>1, <1>2, <1>8, <1>9, HeldIs DEF HeldFacts
  <2>2. CASE over
    <3>1. chan'.staged = Gathered[n + 1] /\ chan'.staged \in Octets  BY <1>7, <1>8, <2>2
    <3>2. chan'.staged # NoOctet  BY <3>1, Bounds
    <3>3. Gathered' = <<chan'.staged>> \o << >>
          BY <1>8, <1>9, <3>2, GatheredIs DEF GatheredFacts
    <3>4. Gathered' = <<chan'.staged>>
      <4>1. <<chan'.staged>> \in Seq(Octets)  BY <3>1
      <4>2. QED  BY <3>3, <4>1, ConcatEmptySeq
    <3>5. Len(Gathered') = 1 /\ Gathered'[1] = Gathered[n + 1] /\ Len(Gathered) = n + 1
          BY <1>3, <1>4, <2>2, <3>1, <3>4
    <3>6. Len(Held') = Len(Held) - n  BY <1>3, <1>10, <2>1, <3>5
    <3>7. ASSUME NEW i \in 1 .. Len(Held')
          PROVE  Held'[i] = Held[n + i]
      <4>1. n + i \in 1 .. Len(Held)  BY <1>3, <1>10, <3>6, <3>7
      <4>2. Held[n + i] = IF n + i <= n + 1 THEN Gathered[n + i]
                          ELSE chip.rx[(n + i) - (n + 1)]
            BY <1>10, <3>5, <4>1
      <4>3. Held'[i] = IF i <= 1 THEN Gathered'[i] ELSE chip.rx[i - 1]  BY <2>1, <3>5, <3>7
      <4>4. CASE i = 1  BY <1>3, <3>5, <4>2, <4>3, <4>4
      <4>5. CASE i # 1
        <5>1. ~(i <= 1) /\ ~(n + i <= n + 1) /\ (n + i) - (n + 1) = i - 1
              BY <1>3, <3>7, <4>5
        <5>2. QED  BY <4>2, <4>3, <5>1
      <4>6. QED  BY <4>4, <4>5
    <3>8. QED  BY <3>6, <3>7
  <2>3. CASE ~over
    <3>1. chan'.staged = NoOctet  BY <1>8, <2>3
    <3>2. Gathered' = << >> /\ Len(Gathered') = 0
          BY <1>8, <1>9, <3>1, GatheredIs DEF GatheredFacts
    <3>3. Len(Gathered) = n  BY <1>3, <1>4, <2>3
    <3>4. Len(Held') = Len(Held) - n  BY <1>3, <1>10, <2>1, <3>2, <3>3
    <3>5. ASSUME NEW i \in 1 .. Len(Held')
          PROVE  Held'[i] = Held[n + i]
      <4>1. n + i \in 1 .. Len(Held)  BY <1>3, <1>10, <3>4, <3>5
      <4>2. Held[n + i] = IF n + i <= n THEN Gathered[n + i] ELSE chip.rx[(n + i) - n]
            BY <1>10, <3>3, <4>1
      <4>3. ~(n + i <= n) /\ (n + i) - n = i /\ ~(i <= 0) /\ i - 0 = i  BY <1>3, <3>5
      <4>4. Held'[i] = chip.rx[i]  BY <2>1, <3>2, <3>5, <4>3
      <4>5. QED  BY <4>2, <4>3, <4>4
    <3>6. QED  BY <3>4, <3>5
  <2>4. QED  BY <2>2, <2>3
<1>12. hist.given + Len(Held) <= hist.heard  BY DEF IInv, InOrder
<1>13. /\ hist' \in Histories /\ hist'.given = hist.given + n /\ hist'.heard = hist.heard
       /\ hist'.out = hist.out
       /\ hist'.whole = \A i \in 1 .. n : Gathered[i] = hist.given + i
  <2> DEFINE fits == \A i \in 1 .. n : Gathered[i] = hist.given + i
  <2>1. hist.given + n \in 0 .. MaxOctets
        BY <1>3, <1>4, <1>10, <1>12, Bounds
  <2>2. (hist.whole /\ fits) = fits /\ fits \in BOOLEAN  BY <1>5, Zenon
  <2>3. hist' = [hist EXCEPT !.given = hist.given + n, !.whole = (hist.whole /\ fits)]
        BY <1>2
  <2>4. hist' = [hist EXCEPT !.given = hist.given + n, !.whole = fits]  BY <2>2, <2>3
  <2> HIDE DEF fits
  <2>5. QED
    <3>1. /\ hist' \in Histories /\ hist'.given = hist.given + n /\ hist'.heard = hist.heard
          /\ hist'.out = hist.out /\ hist'.whole = fits
          BY <1>1, <2>1, <2>2, <2>4 DEF Histories
    <3>2. QED  BY <3>1 DEF fits
<1> HIDE DEF n
<1>14. TypeOK'  BY <1>1, <1>2, <1>6, <1>8, <1>9, <1>13, Typed DEF TypedFacts
<1>15. NeverReadsAhead'
  <2>1. chan'.staged # NoOctet => core'.doing \in {"header", "payload", "closing"}
        BY <1>6, <1>8
  <2>2. call'.toRead <= Len(chip'.rx)  BY <1>2, <1>9, <1>10
  <2>3. QED  BY <1>6, <2>1, <2>2 DEF NeverReadsAhead, Reading
<1>16. InOrder'
  <2>1. hist'.given + Len(Held') = hist.given + Len(Held)
    <3>1. Len(Held) \in Nat  BY <1>3, <1>10
    <3>2. QED  BY <1>3, <1>11, <1>13, <3>1
  <2>2. hist'.given + Len(Held') <= hist'.heard  BY <1>12, <1>13, <2>1
  <2>3. ASSUME ~chip'.error
        PROVE  /\ hist'.whole
               /\ \A i \in 1 .. Len(Held') : Held'[i] = hist'.given + i
               /\ hist'.given + Len(Held') = hist'.heard
    <3>1. /\ \A i \in 1 .. Len(Held) : Held[i] = hist.given + i
          /\ hist.given + Len(Held) = hist.heard
          BY <1>1, <1>2, <2>3, InOrderIs DEF InOrderFacts, IInv
    <3>2. ASSUME NEW i \in 1 .. n
          PROVE  Gathered[i] = hist.given + i
      <4>1. i \in 1 .. Len(Held) /\ i <= Len(Gathered)  BY <1>3, <1>4, <1>10, <3>2
      <4>2. Held[i] = Gathered[i]  BY <1>10, <4>1
      <4>3. QED  BY <3>1, <4>1, <4>2
    <3>3. hist'.whole  BY <1>13, <3>2
    <3>4. ASSUME NEW i \in 1 .. Len(Held')
          PROVE  Held'[i] = hist'.given + i
      <4>1. n + i \in 1 .. Len(Held) /\ i \in Nat  BY <1>3, <1>4, <1>10, <1>11, <3>4
      <4>2. Held'[i] = hist.given + (n + i)  BY <1>11, <3>1, <3>4, <4>1
      <4>3. hist.given + (n + i) = (hist.given + n) + i  BY <1>3, <4>1
      <4>4. QED  BY <1>13, <4>2, <4>3
    <3>5. QED  BY <1>13, <2>1, <3>1, <3>3, <3>4
  <2>4. QED  BY <1>1, <1>2, <1>8, <1>9, <1>15, <2>2, <2>3, InOrderIs DEF InOrderFacts
<1>17. chan.pending = FALSE /\ chan.driving = FALSE
       BY <1>1, <1>4 DEF IInv, LineDriven, Consistent, Channels
<1>18. LineDriven'
  <2>1. HasCtrl(chan)' = HasCtrl(chan) /\ RxLevel(chan)' = RxLevel(chan)
        /\ TxLevel(chan)' = TxLevel(chan) /\ Drained' = Drained
        BY <1>2, <1>8 DEF HasCtrl, RxLevel, TxLevel, Drained
  <2>2. Consistent'  BY <1>4, <1>6, <1>8, <1>17 DEF Consistent
  <2>3. QED  BY <1>2, <1>8, <1>17, <2>1, <2>2 DEF LineDriven, IInv
<1>19. QueuedOnce'
  <2>1. Leaving' = Leaving  BY <1>2 DEF Leaving
  <2>2. QED  BY <1>1, <1>2, <1>8, <1>13, <2>1, QueuedOnceIs DEF QueuedOnceFacts, IInv
<1>20. Underway'  BY <1>9 DEF Underway
<1>21. Settled'  BY <1>4, <1>8 DEF IInv, Settled
<1>22. QED  BY <1>14, <1>16, <1>18, <1>19, <1>20, <1>21 DEF IInv
-----------------------------------------------------------------------------
(* send: the answer goes out once.                                           *)

\* A step that leaves the receiver alone keeps what it holds in order.
LEMMA InOrderKept ==
    ASSUME TypeOK, InOrder, chan' \in Channels, chip' \in Chips, call' = call,
           chan'.staged = chan.staged, chip'.rx = chip.rx, chip'.error = chip.error,
           hist'.given = hist.given, hist'.heard = hist.heard, hist'.whole = hist.whole,
           NeverReadsAhead'
    PROVE  InOrder'
<1>1. chan \in Channels /\ call \in Calls /\ chip \in Chips  BY Typed DEF TypedFacts
<1>2. Held' = Held  BY HeldKept
<1>3. QED  BY <1>1, <1>2, InOrderIs DEF InOrderFacts

\* The Core is still sending or has given up, and nothing is staged.
LEMMA SendingIs ==
    ASSUME IInv, Sending
    PROVE  /\ core \in Cores /\ chan \in Channels /\ chip \in Chips /\ hist \in Histories
           /\ call \in Calls /\ call.toRead = 0 /\ Len(chip.rx) \in Nat
           /\ call' = call => Underway' /\ call'.at = "none"
           /\ Len(chip.rx) <= Depth /\ Len(chip.tx) <= Depth
           /\ chan.staged = NoOctet /\ core.doing = "sending" /\ chan.state = "CONNECTED"
           /\ chan.driving = (chan.pending /\ HasCtrl(chan))
           /\ NoProgress => core' \in Cores /\ core'.doing \in {"sending", "closing"}
<1>1. core \in Cores /\ chan \in Channels /\ chip \in Chips /\ hist \in Histories
      /\ Len(chip.rx) <= Depth /\ Len(chip.tx) <= Depth
      BY Typed DEF IInv, TypedFacts
<1>2. core.doing = "sending" /\ chan.state = "CONNECTED"  BY DEF Sending
<1>3. chan.staged = NoOctet  BY <1>2 DEF IInv, InOrder, NeverReadsAhead
<1>4. chan.driving = (chan.pending /\ HasCtrl(chan))  BY DEF IInv, LineDriven, Consistent
<1>5. NoProgress => core' \in Cores /\ core'.doing \in {"sending", "closing"}
      BY <1>1, <1>2 DEF NoProgress, Cores
<1>6. call \in Calls /\ call.toRead = 0 /\ (call' = call => Underway' /\ call'.at = "none")
  <2>1. ~Listening /\ ~Reading  BY <1>2 DEF Listening, Waiting, Reading
  <2>2. call.at = "none"  BY <2>1 DEF IInv, Underway
  <2>3. call' = call => Underway'  BY <2>1, BetweenCalls DEF IInv
  <2>4. QED  BY <2>2, <2>3, Typed DEF IInv, TypedFacts, Underway
<1>7. Len(chip.rx) \in Nat  BY <1>1, LenProperties DEF Chips
<1>8. QED  BY <1>1, <1>2, <1>3, <1>4, <1>5, <1>6, <1>7

\* send appends the next octets of the answer, as many as there is room for.
LEMMA QueuedFields ==
    ASSUME chan \in Channels, chip \in Chips, Len(chip.tx) <= Depth,
           chan' = Queued(chan).chan, chip' = Queued(chan).chip
    PROVE  \E n \in Nat, more \in Seq(1 .. FrameOctets) :
           /\ Len(more) = n /\ \A i \in 1 .. n : more[i] = chan.queued + i
           /\ n <= Depth - Len(chip.tx)
           /\ chan' \in Channels /\ chan'.queued = chan.queued + n /\ chan'.pending = TRUE
           /\ chan'.state = chan.state /\ chan'.ctrl = chan.ctrl
           /\ chan'.staged = chan.staged /\ chan'.driving = chan.driving
           /\ chip' \in Chips /\ chip'.tx = chip.tx \o more
           /\ chip'.rx = chip.rx /\ chip'.error = chip.error
           /\ chip'.shifter = chip.shifter /\ chip'.pin = chip.pin
<1> DEFINE n == Lesser(Depth - Len(chip.tx), FrameOctets - chan.queued)
           more == [i \in 1 .. n |-> chan.queued + i]
<1>1. chan.queued \in Nat /\ chan.queued <= FrameOctets /\ FrameOctets \in Nat /\ Depth \in Nat
      BY Bounds DEF Channels
<1>2. chip.tx \in Seq(1 .. FrameOctets) /\ Len(chip.tx) \in Nat  BY LenProperties DEF Chips
<1>3. n \in Nat /\ n <= Depth - Len(chip.tx) /\ n <= FrameOctets - chan.queued
      BY <1>1, <1>2 DEF Lesser
<1>4. /\ chan' = [chan EXCEPT !.pending = TRUE, !.queued = @ + n]
      /\ chip' = [chip EXCEPT !.tx = @ \o more]
      BY DEF Queued
<1> HIDE DEF n
<1>5. more \in Seq(1 .. FrameOctets)
      /\ Len(more) = n /\ \A i \in 1 .. n : more[i] = chan.queued + i
  <2>1. \A i \in 1 .. n : chan.queued + i \in 1 .. FrameOctets  BY <1>1, <1>3
  <2>2. QED  BY <1>3, <2>1, IsASeq
<1> HIDE DEF more
<1>6. chip.tx \o more \in Seq(1 .. FrameOctets)  BY <1>2, <1>5, ConcatProperties
<1>7. /\ chip' \in Chips /\ chip'.tx = chip.tx \o more /\ chip'.rx = chip.rx
      /\ chip'.error = chip.error /\ chip'.shifter = chip.shifter /\ chip'.pin = chip.pin
      BY <1>4, <1>6 DEF Chips
<1>8. chan.queued + n \in 0 .. FrameOctets  BY <1>1, <1>3
<1>9. /\ chan' \in Channels /\ chan'.queued = chan.queued + n /\ chan'.pending = TRUE
      /\ chan'.state = chan.state /\ chan'.ctrl = chan.ctrl
      /\ chan'.staged = chan.staged /\ chan'.driving = chan.driving
      BY <1>4, <1>8 DEF Channels
<1>10. QED  BY <1>3, <1>5, <1>7, <1>9

\* Whether it is the first call of a free line or a later one.
LEMMA QueueStep ==
    ASSUME IInv, Sending, NoProgress, call' = call,
           chan' = Queued(chan).chan, chip' = Queued(chan).chip,
           hist' \in Histories, hist'.given = hist.given, hist'.heard = hist.heard,
           hist'.whole = hist.whole,
           \A i \in 1 .. Len(Leaving) : Leaving[i] = hist'.out + i,
           hist'.out + Len(Leaving) = chan.queued,
           HasCtrl(chan) => chan.pending
    PROVE  IInv'
<1>1. /\ core \in Cores /\ chan \in Channels /\ chip \in Chips /\ hist \in Histories
      /\ Len(chip.rx) <= Depth /\ Len(chip.tx) <= Depth
      /\ call \in Calls /\ call.toRead = 0 /\ Len(chip.rx) \in Nat /\ Underway'
      /\ chan.staged = NoOctet /\ chan.state = "CONNECTED"
      /\ chan.driving = (chan.pending /\ HasCtrl(chan))
      /\ core' \in Cores /\ core'.doing \in {"sending", "closing"}
      BY SendingIs
<1>2. PICK n \in Nat, more \in Seq(1 .. FrameOctets) :
           /\ Len(more) = n /\ \A i \in 1 .. n : more[i] = chan.queued + i
           /\ n <= Depth - Len(chip.tx)
           /\ chan' \in Channels /\ chan'.queued = chan.queued + n /\ chan'.pending = TRUE
           /\ chan'.state = chan.state /\ chan'.ctrl = chan.ctrl
           /\ chan'.staged = chan.staged /\ chan'.driving = chan.driving
           /\ chip' \in Chips /\ chip'.tx = chip.tx \o more
           /\ chip'.rx = chip.rx /\ chip'.error = chip.error
           /\ chip'.shifter = chip.shifter /\ chip'.pin = chip.pin
      BY <1>1, QueuedFields
<1>3. more \in Seq(1 .. FrameOctets) /\ Len(more) = n
      /\ \A i \in 1 .. n : more[i] = chan.queued + i
      BY <1>2
<1>4. chip'.tx = chip.tx \o more /\ chip.tx \in Seq(1 .. FrameOctets)
      BY <1>1, <1>2 DEF Chips
<1>5. Leaving' = Leaving \o more
  <2>1. CASE chip.shifter = NoOctet
        BY <1>1, <1>2, <1>4, <2>1, LeavingIs DEF LeavingFacts
  <2>2. CASE chip.shifter # NoOctet
    <3>1. chip.shifter \in 1 .. FrameOctets  BY <1>1, <2>2, Bounds DEF Chips
    <3>2. Leaving = <<chip.shifter>> \o chip.tx  BY <1>1, <2>2, LeavingIs DEF LeavingFacts
    <3>3. Leaving' = <<chip.shifter>> \o (chip.tx \o more)
          BY <1>2, <1>4, <2>2, LeavingIs DEF LeavingFacts
    <3>4. \A x \in 1 .. FrameOctets : \A s, t \in Seq(1 .. FrameOctets) :
              (<<x>> \o s) \o t = <<x>> \o (s \o t)
          BY FirstJoined
    <3>5. QED  BY <1>3, <1>4, <3>1, <3>2, <3>3, <3>4, Zenon
  <2>3. QED  BY <2>1, <2>2
<1>6. Leaving \in Seq(1 .. FrameOctets) /\ Len(Leaving) \in Nat
      BY <1>1, LeavingIs, LenProperties DEF LeavingFacts
<1>7. hist'.out \in Nat /\ chan.queued \in Nat  BY <1>1, Bounds DEF Histories, Channels
<1>8. QueuedOnce'
  <2>1. \A i \in 1 .. Len(more) : more[i] = hist'.out + Len(Leaving) + i  BY <1>3
  <2>2. Len(Leaving \o more) = Len(Leaving) + Len(more)
        /\ \A i \in 1 .. Len(Leaving \o more) : (Leaving \o more)[i] = hist'.out + i
    <3>1. \A s, t \in Seq(1 .. FrameOctets) : \A from \in Nat :
              (\A i \in 1 .. Len(s) : s[i] = from + i)
              /\ (\A i \in 1 .. Len(t) : t[i] = from + Len(s) + i)
              => /\ Len(s \o t) = Len(s) + Len(t)
                 /\ \A i \in 1 .. Len(s \o t) : (s \o t)[i] = from + i
          BY Joined
    <3>2. QED  BY <1>3, <1>6, <1>7, <2>1, <3>1, Zenon
  <2>3. /\ \A i \in 1 .. Len(Leaving') : Leaving'[i] = hist'.out + i
        /\ Len(Leaving') = Len(Leaving) + n
        BY <1>3, <1>5, <2>2, Zenon
  <2>4. hist'.out + Len(Leaving') = chan'.queued  BY <1>2, <1>6, <1>7, <2>3
  <2>5. QED  BY <1>2, <2>3, <2>4, QueuedOnceIs DEF QueuedOnceFacts
<1>9. TypeOK'
  <2>1. Len(chip.tx) \in Nat /\ Len(chip'.tx) = Len(chip.tx) + n
    <3>1. \A s, t \in Seq(1 .. FrameOctets) :
              Len(s) \in Nat /\ Len(s \o t) = Len(s) + Len(t)
          BY ConcatProperties, LenProperties
    <3>2. QED  BY <1>3, <1>4, <3>1, Zenon
  <2>2. Len(chip'.tx) <= Depth  BY <1>2, <2>1, Bounds
  <2>3. QED  BY <1>1, <1>2, <2>2, Typed DEF TypedFacts
<1>10. NeverReadsAhead'  BY <1>1, <1>2 DEF NeverReadsAhead, Reading
<1>11. InOrder'  BY <1>2, <1>10, InOrderKept DEF IInv
<1>12. LineDriven'
  <2>1. HasCtrl(chan)' = HasCtrl(chan) /\ RxLevel(chan)' = RxLevel(chan)
        /\ TxLevel(chan)' = TxLevel(chan)
        BY <1>2 DEF HasCtrl, RxLevel, TxLevel
  <2>2. chan'.driving = HasCtrl(chan)
    <3>1. CASE HasCtrl(chan)
      <4>1. chan.driving = TRUE  BY <1>1, <3>1, Zenon
      <4>2. HasCtrl(chan) \in BOOLEAN  BY DEF HasCtrl
      <4>3. QED  BY <1>2, <3>1, <4>1, <4>2
    <3>2. CASE ~HasCtrl(chan)
      <4>1. chan.driving = FALSE  BY <1>1, <3>2, Zenon
      <4>2. HasCtrl(chan) \in BOOLEAN  BY DEF HasCtrl
      <4>3. QED  BY <1>2, <3>2, <4>1, <4>2
    <3>3. QED  BY <3>1, <3>2
  <2>3. Consistent'  BY <1>1, <1>2, <2>1, <2>2 DEF Consistent
  <2>4. HasCtrl(chan) => chip.pin = IF chan.driving THEN TxLevel(chan) ELSE RxLevel(chan)
        BY DEF IInv, LineDriven
  <2>5. QED  BY <1>2, <2>1, <2>2, <2>3, <2>4 DEF LineDriven
<1>13. Settled'  BY <1>1, <1>2 DEF Settled
<1>14. QED  BY <1>1, <1>8, <1>9, <1>11, <1>12, <1>13 DEF IInv

\* Before the answer starts nothing is on its way out.
LEMMA IdleIs ==
    ASSUME IInv, ~chan.pending
    PROVE  Len(Leaving) = 0 /\ chan.queued = 0
<1>1. chip \in Chips  BY Typed DEF IInv, TypedFacts
<1>2. QED  BY <1>1, QueuedOnceIs DEF QueuedOnceFacts, IInv, Settled

LEMMA FillStep ==
    ASSUME IInv, StartFree \/ Fill
    PROVE  IInv'
<1>1. /\ Sending /\ NoProgress /\ call' = call
      /\ chan' = Queued(chan).chan /\ chip' = Queued(chan).chip
      BY DEF StartFree, Fill
<1>2. hist \in Histories /\ chip \in Chips  BY <1>1, SendingIs
<1>3. CASE StartFree
  <2>1. Len(Leaving) = 0 /\ chan.queued = 0 /\ ~HasCtrl(chan)  BY <1>3, IdleIs DEF StartFree
  <2>2. /\ hist' \in Histories /\ hist'.given = hist.given /\ hist'.heard = hist.heard
        /\ hist'.whole = hist.whole /\ hist'.out = 0
        BY <1>2, <1>3, Bounds DEF StartFree, Histories
  <2>3. QED  BY <1>1, <2>1, <2>2, QueueStep
<1>4. CASE Fill
  <2>1. hist' = hist /\ chan.pending  BY <1>4 DEF Fill
  <2>2. (\A i \in 1 .. Len(Leaving) : Leaving[i] = hist.out + i)
        /\ hist.out + Len(Leaving) = chan.queued
        BY <1>2, <2>1, QueuedOnceIs DEF QueuedOnceFacts, IInv
  <2>3. QED  BY <1>1, <1>2, <2>1, <2>2, QueueStep
<1>5. QED  BY <1>3, <1>4

\* A step of send that moves the pin and what is pending, but no octet.
LEMMA PinStep ==
    ASSUME IInv, Sending, NEW pending \in BOOLEAN, NEW driving \in BOOLEAN,
           NEW level \in 0 .. 1,
           chan' = [chan EXCEPT !.pending = pending, !.queued = 0, !.driving = driving],
           chip' = Written(chan, chip, level), Len(Leaving) = 0, call' = call,
           hist' \in Histories, hist'.given = hist.given, hist'.heard = hist.heard,
           hist'.whole = hist.whole, pending => hist'.out = 0,
           HasCtrl(chan) => driving = pending
               /\ level = IF driving THEN TxLevel(chan) ELSE RxLevel(chan),
           ~HasCtrl(chan) => ~driving,
           core' \in Cores, pending => core'.doing \in {"sending", "closing"},
           Reading' => core'.left > 0 /\ Even(core'.left)
    PROVE  IInv'
<1>1. /\ core \in Cores /\ chan \in Channels /\ chip \in Chips /\ hist \in Histories
      /\ Len(chip.rx) <= Depth /\ Len(chip.tx) <= Depth
      /\ call \in Calls /\ call.toRead = 0 /\ Len(chip.rx) \in Nat /\ Underway'
      /\ chan.staged = NoOctet /\ chan.state = "CONNECTED"
      BY SendingIs
<1>2. /\ chan' \in Channels /\ chan'.pending = pending /\ chan'.queued = 0
      /\ chan'.driving = driving /\ chan'.state = chan.state /\ chan'.ctrl = chan.ctrl
      /\ chan'.staged = chan.staged
      BY <1>1, Bounds DEF Channels
<1>3. /\ chip' \in Chips /\ chip'.rx = chip.rx /\ chip'.tx = chip.tx
      /\ chip'.error = chip.error /\ chip'.shifter = chip.shifter
      /\ chip'.pin = IF HasCtrl(chan) THEN level ELSE chip.pin
      BY <1>1, WrittenFields
<1>4. TypeOK'  BY <1>1, <1>2, <1>3, Typed DEF TypedFacts
<1>5. NeverReadsAhead'  BY <1>1, <1>2, <1>3 DEF NeverReadsAhead
<1>6. InOrder'  BY <1>2, <1>3, <1>5, InOrderKept DEF IInv
<1>7. Leaving' = Leaving  BY <1>3 DEF Leaving
<1>8. QueuedOnce'
  <2>1. Len(Leaving') = 0  BY <1>7
  <2>2. hist'.out \in Nat  BY Bounds DEF Histories
  <2>3. QED  BY <1>2, <1>3, <2>1, <2>2, QueuedOnceIs DEF QueuedOnceFacts
<1>9. LineDriven'
  <2>1. HasCtrl(chan)' = HasCtrl(chan) /\ RxLevel(chan)' = RxLevel(chan)
        /\ TxLevel(chan)' = TxLevel(chan)
        BY <1>2 DEF HasCtrl, RxLevel, TxLevel
  <2>2. chan'.driving = (chan'.pending /\ HasCtrl(chan))
    <3>1. CASE HasCtrl(chan)  BY <1>2, <3>1
    <3>2. CASE ~HasCtrl(chan)  BY <1>2, <3>2
    <3>3. QED  BY <3>1, <3>2
  <2>3. Consistent'  BY <1>1, <1>2, <2>1, <2>2 DEF Consistent
  <2>4. Drained'  BY <1>3, <1>7, DrainedIs DEF DrainedFacts
  <2>5. QED  BY <1>2, <1>3, <2>1, <2>3, <2>4 DEF LineDriven
<1>10. Settled'  BY <1>1, <1>2 DEF Settled
<1>11. QED  BY <1>1, <1>4, <1>6, <1>8, <1>9, <1>10 DEF IInv

LEMMA SendStep ==
    ASSUME IInv, StartDriven \/ StartFree \/ Fill \/ AwaitDrained \/ Confirm
    PROVE  IInv'
<1>1. Sending /\ call' = call  BY DEF StartDriven, StartFree, Fill, AwaitDrained, Confirm
<1>2. /\ core \in Cores /\ chan \in Channels /\ chip \in Chips /\ hist \in Histories
      /\ call \in Calls /\ call.toRead = 0 /\ Len(chip.rx) \in Nat
      /\ call'.at = "none" /\ Underway'
      /\ chan.staged = NoOctet /\ core.doing = "sending" /\ chan.state = "CONNECTED"
      /\ NoProgress => core' \in Cores /\ core'.doing \in {"sending", "closing"}
      BY <1>1, SendingIs
<1>3. CASE StartDriven
  <2>1. Len(Leaving) = 0  BY <1>3, IdleIs DEF StartDriven
  <2>2. /\ chan' = [chan EXCEPT !.pending = TRUE, !.queued = 0, !.driving = TRUE]
        /\ chip' = Written(chan, chip, TxLevel(chan)) /\ HasCtrl(chan) /\ NoProgress
        BY <1>3 DEF StartDriven
  <2>3. /\ hist' \in Histories /\ hist'.given = hist.given /\ hist'.heard = hist.heard
        /\ hist'.whole = hist.whole /\ hist'.out = 0
        BY <1>2, <1>3, Bounds DEF StartDriven, Histories
  <2>4. ~Reading'  BY <1>2, <2>2 DEF Reading
  <2>5. TxLevel(chan) \in 0 .. 1  BY Levels
  <2>6. QED  BY <1>1, <1>2, <2>1, <2>2, <2>3, <2>4, <2>5, PinStep
<1>4. CASE StartFree \/ Fill  BY <1>4, FillStep
<1>5. CASE AwaitDrained
  <2>1. UNCHANGED <<chan, chip, hist>> /\ NoProgress  BY <1>5 DEF AwaitDrained
  <2>2. chan' = [chan EXCEPT !.state = "CONNECTED"]  BY <1>2, <2>1 DEF Channels
  <2>3. NeverReadsAhead'  BY <1>1, <1>2, <2>1 DEF NeverReadsAhead, Reading
  <2>4. HasCtrl(chan)' = HasCtrl(chan)  BY <2>1 DEF HasCtrl
  <2>5. Consistent'
        BY <1>2, <2>1, <2>4 DEF IInv, LineDriven, Consistent
  <2>6. QED  BY <1>1, <1>2, <2>1, <2>2, <2>3, <2>5, StateStep
<1>6. CASE Confirm
  <2>1. /\ chan' = [chan EXCEPT !.pending = FALSE, !.queued = 0, !.driving = FALSE]
        /\ chip' = Written(chan, chip, RxLevel(chan)) /\ hist' = hist /\ Drained
        /\ core' \in {[doing |-> "header", left |-> HeaderOctets],
                      [doing |-> "closing", left |-> 0]}
        BY <1>6 DEF Confirm
  <2>2. Len(Leaving) = 0  BY <1>2, <2>1, DrainedIs DEF DrainedFacts
  <2>3. HeaderOctets \in Nat /\ HeaderOctets > 0 /\ Even(HeaderOctets)  BY OctetsAssumption
  <2>4. core' \in Cores /\ (Reading' => core'.left > 0 /\ Even(core'.left))
        BY <2>1, <2>3 DEF Cores, Reading
  <2>5. RxLevel(chan) \in 0 .. 1  BY Levels
  <2>6. QED  BY <1>1, <1>2, <2>1, <2>2, <2>4, <2>5, PinStep
<1>7. QED  BY <1>3, <1>4, <1>5, <1>6
-----------------------------------------------------------------------------
(* The line and the transmitter.                                             *)

\* What comes over the line changes the receiver and nothing else.
LEMMA ReceiverStep ==
    ASSUME IInv, UNCHANGED <<core, chan, call>>, chip' \in Chips, Len(chip'.rx) <= Depth,
           chip'.tx = chip.tx, chip'.shifter = chip.shifter, chip'.pin = chip.pin,
           hist' \in Histories, hist'.out = hist.out, InOrder'
    PROVE  IInv'
<1>1. core \in Cores /\ chan \in Channels /\ call \in Calls /\ chip \in Chips
      /\ Len(chip.tx) <= Depth
      BY Typed DEF IInv, TypedFacts
<1>2. core' = core /\ chan' = chan /\ call' = call  OBVIOUS
<1>3. TypeOK'  BY <1>1, <1>2, Typed DEF TypedFacts
<1>4. LineDriven'
  <2>1. HasCtrl(chan)' = HasCtrl(chan) /\ RxLevel(chan)' = RxLevel(chan)
        /\ TxLevel(chan)' = TxLevel(chan) /\ Drained' = Drained /\ Consistent' = Consistent
        BY <1>2 DEF HasCtrl, RxLevel, TxLevel, Drained, Consistent
  <2>2. QED  BY <1>2, <2>1 DEF LineDriven, IInv
<1>5. QueuedOnce'
  <2>1. Leaving' = Leaving  BY DEF Leaving
  <2>2. QED  BY <1>1, <1>2, <2>1, QueuedOnceIs DEF QueuedOnceFacts, IInv
<1>6. Settled'  BY <1>2 DEF Settled, IInv
<1>7. Underway'  BY <1>2, UnderwayKept DEF IInv
<1>8. QED  BY <1>3, <1>4, <1>5, <1>6, <1>7 DEF IInv

LEMMA LineStep ==
    ASSUME IInv, Line
    PROVE  IInv'
<1>1. /\ core \in Cores /\ chan \in Channels /\ call \in Calls /\ chip \in Chips
      /\ hist \in Histories
      /\ Len(chip.rx) <= Depth /\ chip.rx \in Seq(Octets) /\ Len(chip.rx) \in Nat
  <2>1. /\ core \in Cores /\ chan \in Channels /\ call \in Calls /\ chip \in Chips
        /\ hist \in Histories /\ Len(chip.rx) <= Depth
        BY Typed DEF IInv, TypedFacts
  <2>2. QED  BY <2>1, LenProperties DEF Chips
<1>2. core' = core /\ chan' = chan /\ call' = call
      BY DEF Line, OctetArrives, Overrun, LineError
<1>3. /\ hist.heard \in Nat /\ hist.given \in Nat /\ hist.heard + 1 \in 1 .. MaxOctets
      /\ hist.heard + 1 \in Octets /\ Garbled \in Octets
  <2>1. hist.heard < MaxOctets  BY Zenon DEF Line, OctetArrives, Overrun, LineError
  <2>2. hist.heard \in Nat /\ hist.given \in Nat  BY <1>1, Bounds DEF Histories
  <2>3. QED  BY <2>1, <2>2, Bounds
<1>4. /\ hist' \in Histories /\ hist'.heard = hist.heard + 1 /\ hist'.given = hist.given
      /\ hist'.whole = hist.whole /\ hist'.out = hist.out
  <2>1. hist' = [hist EXCEPT !.heard = @ + 1]
        BY Zenon DEF Line, OctetArrives, Overrun, LineError
  <2>2. hist.heard + 1 \in 0 .. MaxOctets  BY <1>3, Bounds
  <2>3. QED  BY <1>1, <2>1, <2>2 DEF Histories
<1>5. /\ Gathered' = Gathered /\ Len(Gathered) \in Nat
      /\ Len(Held) = Len(Gathered) + Len(chip.rx) /\ hist.given + Len(Held) <= hist.heard
      /\ call.at # "none" => hist.whole
  <2>1. Gathered' = Gathered  BY <1>2, HeldKept
  <2>2. Len(Gathered) \in Nat  BY <1>1, GatheredIs DEF GatheredFacts
  <2>3. Len(Held) = Len(Gathered) + Len(chip.rx)  BY <1>1, HeldIs DEF HeldFacts
  <2>4. QED  BY <2>1, <2>2, <2>3 DEF IInv, InOrder
\* The FIFO never holds less than before, which is what a call has counted on.
<1>6. ASSUME Len(chip'.rx) \in Nat, Len(chip.rx) <= Len(chip'.rx)
      PROVE  NeverReadsAhead'
  <2>1. call.toRead \in Nat /\ call.toRead <= Len(chip.rx)
        BY <1>1 DEF Calls, IInv, InOrder, NeverReadsAhead
  <2>2. call'.toRead <= Len(chip'.rx)  BY <1>1, <1>2, <1>6, <2>1
  <2>3. QED  BY <1>2, <2>2 DEF IInv, InOrder, NeverReadsAhead, Reading
<1>7. ASSUME NEW kept \in Seq(Octets), Len(kept) <= Depth, Len(chip.rx) <= Len(kept),
             Len(kept) <= Len(chip.rx) + 1, chip' = [chip EXCEPT !.rx = kept, !.error = TRUE]
      PROVE  IInv'
  <2>1. /\ chip' \in Chips /\ chip'.rx = kept /\ chip'.error = TRUE /\ chip'.tx = chip.tx
        /\ chip'.shifter = chip.shifter /\ chip'.pin = chip.pin
        BY <1>1, <1>7 DEF Chips
  <2>2. Len(kept) \in Nat  BY LenProperties
  <2>3. NeverReadsAhead'  BY <1>6, <1>7, <2>1, <2>2
  <2>4. hist'.given + Len(Held') <= hist'.heard
    <3>1. Len(Held') = Len(Gathered) + Len(kept)
          BY <1>1, <1>2, <1>5, <2>1, HeldIs DEF HeldFacts
    <3>2. QED  BY <1>1, <1>3, <1>4, <1>5, <1>7, <2>2, <3>1
  <2>5. InOrder'
        BY <1>1, <1>2, <1>4, <1>5, <2>1, <2>3, <2>4, InOrderIs DEF InOrderFacts
  <2>6. QED  BY <1>2, <1>4, <1>7, <2>1, <2>5, ReceiverStep
<1>8. ASSUME NEW x \in Octets
      PROVE  /\ Append(chip.rx, x) \in Seq(Octets)
             /\ Len(Append(chip.rx, x)) = Len(chip.rx) + 1
      BY <1>1, AppendProperties
<1>9. CASE Overrun
  <2>1. PICK kept \in {chip.rx, Append(Tail(chip.rx), hist.heard + 1)} :
            chip' = [chip EXCEPT !.rx = kept, !.error = TRUE]
        BY <1>9 DEF Overrun
  <2>2. chip.rx # << >>  BY <1>9, Bounds DEF Overrun
  <2>3. Tail(chip.rx) \in Seq(Octets) /\ Len(Tail(chip.rx)) = Len(chip.rx) - 1
        BY <1>1, <2>2, HeadTailProperties
  <2>4. Append(Tail(chip.rx), hist.heard + 1) \in Seq(Octets)
        /\ Len(Append(Tail(chip.rx), hist.heard + 1)) = Len(Tail(chip.rx)) + 1
        BY <1>3, <2>3, AppendProperties
  <2>5. kept \in Seq(Octets) /\ Len(kept) = Len(chip.rx)
    <3>1. CASE kept = chip.rx  BY <1>1, <3>1
    <3>2. CASE kept = Append(Tail(chip.rx), hist.heard + 1)  BY <1>1, <2>3, <2>4, <3>2
    <3>3. QED  BY <2>1, <3>1, <3>2
  <2>6. Len(kept) <= Depth /\ Len(chip.rx) <= Len(kept) /\ Len(kept) <= Len(chip.rx) + 1
        BY <1>1, <2>5
  <2>7. QED  BY <1>7, <2>1, <2>5, <2>6
<1>10. CASE LineError
  <2>1. PICK kept \in {chip.rx} \union
                      (IF Len(chip.rx) < Depth THEN {Append(chip.rx, Garbled)} ELSE {}) :
            chip' = [chip EXCEPT !.rx = kept, !.error = TRUE]
        BY <1>10 DEF LineError
  <2>2. kept = chip.rx \/ (Len(chip.rx) < Depth /\ kept = Append(chip.rx, Garbled))
        BY <2>1
  <2>3. kept \in Seq(Octets) /\ Len(kept) <= Depth /\ Len(chip.rx) <= Len(kept)
        /\ Len(kept) <= Len(chip.rx) + 1
    <3>1. CASE kept = chip.rx  BY <1>1, <3>1
    <3>2. CASE Len(chip.rx) < Depth /\ kept = Append(chip.rx, Garbled)
      <4>1. kept \in Seq(Octets) /\ Len(kept) = Len(chip.rx) + 1  BY <1>3, <1>8, <3>2
      <4>2. QED  BY <1>1, <3>2, <4>1, Bounds
    <3>3. QED  BY <2>2, <3>1, <3>2
  <2>4. QED  BY <1>7, <2>1, <2>3
<1>11. CASE OctetArrives
  <2> DEFINE last == hist.heard + 1
  <2>1. chip' = [chip EXCEPT !.rx = Append(@, last)] /\ Len(chip.rx) < Depth
        BY <1>11 DEF OctetArrives
  <2>2. Append(chip.rx, last) \in Seq(Octets) /\ Len(Append(chip.rx, last)) = Len(chip.rx) + 1
        BY <1>3, <1>8
  <2>3. PICK new \in Seq(Octets) : new = <<last>> /\ Len(new) = 1 /\ new[1] = last
    <3>1. <<last>> \in Seq(Octets)  BY <1>3
    <3>2. QED  BY <3>1
  <2>4. Append(chip.rx, last) = chip.rx \o new  BY <1>1, <1>3, <2>3, AppendIsConcat
  <2> HIDE DEF last
  <2>5. /\ chip' \in Chips /\ chip'.rx = chip.rx \o new /\ chip'.tx = chip.tx
        /\ chip'.error = chip.error /\ chip'.shifter = chip.shifter /\ chip'.pin = chip.pin
        /\ Len(chip'.rx) = Len(chip.rx) + 1
        BY <1>1, <2>1, <2>2, <2>4 DEF Chips
  <2>6. NeverReadsAhead'
    <3>1. Len(chip'.rx) \in Nat /\ Len(chip.rx) <= Len(chip'.rx)  BY <1>1, <2>5
    <3>2. QED  BY <1>6, <3>1
  <2>7. Held' = Held \o new
    <3>1. Held = Gathered \o chip.rx /\ Gathered \in Seq(Octets)
          BY <1>1, HeldIs, GatheredIs DEF HeldFacts, GatheredFacts
    <3>2. Held' = Gathered \o (chip.rx \o new)
          BY <1>1, <1>2, <1>5, <2>5, HeldIs DEF HeldFacts
    <3>3. QED  BY <1>1, <2>3, <3>1, <3>2, Associated
  <2>8. Held \in Seq(Octets) /\ Len(Held) \in Nat  BY <1>1, HeldIs DEF HeldFacts
  <2>9. Len(Held') = Len(Held) + 1
    <3>1. \A s, t \in Seq(Octets) : Len(s \o t) = Len(s) + Len(t)  BY ConcatProperties
    <3>2. Len(Held \o new) = Len(Held) + Len(new)  BY <2>3, <2>8, <3>1
    <3>3. QED  BY <2>3, <2>7, <3>2
  <2>10. hist'.given + Len(Held') <= hist'.heard
         BY <1>3, <1>4, <1>5, <2>8, <2>9
  <2>11. ASSUME ~chip.error
         PROVE  /\ hist.whole
                /\ \A i \in 1 .. Len(Held') : Held'[i] = hist.given + i
                /\ hist.given + Len(Held') = hist.heard + 1
    <3>1. /\ hist.whole
          /\ \A i \in 1 .. Len(Held) : Held[i] = hist.given + i
          /\ hist.given + Len(Held) = hist.heard
          BY <1>1, <2>11, InOrderIs DEF InOrderFacts, IInv
    <3>2. \A i \in 1 .. Len(new) : new[i] = hist.given + Len(Held) + i
          BY <1>3, <2>3, <2>8, <3>1 DEF last
    <3>3. \A s, t \in Seq(Octets) : \A from \in Nat :
              (\A i \in 1 .. Len(s) : s[i] = from + i)
              /\ (\A i \in 1 .. Len(t) : t[i] = from + Len(s) + i)
              => \A i \in 1 .. Len(s \o t) : (s \o t)[i] = from + i
          BY Joined
    <3>4. \A i \in 1 .. Len(Held') : Held'[i] = hist.given + i
      <4>1. \A i \in 1 .. Len(Held \o new) : (Held \o new)[i] = hist.given + i
            BY <1>3, <2>3, <2>8, <3>1, <3>2, <3>3, Zenon
      <4>2. QED  BY <2>7, <4>1, Zenon
    <3>5. hist.given + Len(Held') = hist.heard + 1
      <4>1. \A m \in Nat : hist.given + m = hist.heard => hist.given + (m + 1) = hist.heard + 1
            BY <1>3
      <4>2. QED  BY <2>8, <2>9, <3>1, <4>1, Zenon
    <3>6. QED  BY <3>1, <3>4, <3>5
  <2>12. InOrder'
         BY <1>1, <1>2, <1>4, <1>5, <2>5, <2>6, <2>10, <2>11, InOrderIs DEF InOrderFacts
  <2>13. Len(chip'.rx) <= Depth  BY <1>1, <2>1, <2>5, Bounds
  <2>14. QED  BY <1>2, <1>4, <2>5, <2>12, <2>13, ReceiverStep
<1>12. QED  BY <1>9, <1>10, <1>11 DEF Line

LEMMA TransmitterStep ==
    ASSUME IInv, Transmitter
    PROVE  IInv'
<1>1. /\ core \in Cores /\ chan \in Channels /\ chip \in Chips /\ hist \in Histories
      /\ Len(chip.rx) <= Depth /\ Len(chip.tx) <= Depth
      BY Typed DEF IInv, TypedFacts
<1>2. /\ chip.tx \in Seq(1 .. FrameOctets) /\ chip.shifter \in 0 .. FrameOctets
      /\ Len(chip.tx) \in Nat
      BY <1>1, LenProperties DEF Chips
<1>3. core' = core /\ chan' = chan /\ call' = call
      BY DEF Transmitter, ShifterLoads, OctetLeaves
<1>4. /\ hist'.heard = hist.heard /\ hist'.given = hist.given /\ hist'.whole = hist.whole
  <2>1. CASE hist' = hist  BY <2>1
  <2>2. CASE hist' = [hist EXCEPT !.out = chip.shifter]  BY <1>1, <2>2 DEF Histories
  <2>3. QED  BY <2>1, <2>2 DEF Transmitter, ShifterLoads, OctetLeaves
<1>5. ~Drained  BY DEF Transmitter, ShifterLoads, OctetLeaves, Drained
\* What is left to show is about the octets on their way out.
<1>6. ASSUME chip' \in Chips, Len(chip'.tx) <= Depth, chip'.rx = chip.rx,
             chip'.error = chip.error, chip'.pin = chip.pin, hist' \in Histories,
             QueuedOnce'
      PROVE  IInv'
  <2>1. TypeOK'  BY <1>1, <1>3, <1>6, Typed DEF IInv, TypedFacts
  <2>2. NeverReadsAhead'
        BY <1>3, <1>6 DEF IInv, InOrder, NeverReadsAhead, Reading
  <2>3. InOrder'  BY <1>1, <1>3, <1>4, <1>6, <2>2, InOrderKept DEF IInv
  <2>4. HasCtrl(chan)' = HasCtrl(chan) /\ RxLevel(chan)' = RxLevel(chan)
        /\ TxLevel(chan)' = TxLevel(chan) /\ Consistent' = Consistent
        BY <1>3 DEF HasCtrl, RxLevel, TxLevel, Consistent
  <2>5. LineDriven'  BY <1>3, <1>5, <1>6, <2>4 DEF LineDriven, IInv
  <2>6. Settled'  BY <1>3 DEF Settled, IInv
  <2>7. Underway'  BY <1>3, UnderwayKept DEF IInv
  <2>8. QED  BY <1>6, <2>1, <2>3, <2>5, <2>6, <2>7 DEF IInv
<1>7. CASE ShifterLoads
  <2>1. chip.shifter = NoOctet /\ chip.tx # << >> /\ hist' = hist
        /\ chip' = [chip EXCEPT !.shifter = Head(chip.tx), !.tx = Tail(chip.tx)]
        BY <1>7 DEF ShifterLoads
  <2>2. PICK first \in 1 .. FrameOctets, rest \in Seq(1 .. FrameOctets) :
            /\ first = Head(chip.tx) /\ rest = Tail(chip.tx) /\ Len(rest) = Len(chip.tx) - 1
            /\ <<first>> \o rest = chip.tx
    <3>1. \A s \in Seq(1 .. FrameOctets) :
              s # << >> => /\ Head(s) \in 1 .. FrameOctets /\ Tail(s) \in Seq(1 .. FrameOctets)
                           /\ Len(Tail(s)) = Len(s) - 1 /\ <<Head(s)>> \o Tail(s) = s
          BY HeadTailProperties, HeadJoinsTail
    <3>2. QED  BY <1>2, <2>1, <3>1
  <2>3. first # NoOctet /\ first \in 0 .. FrameOctets  BY Bounds
  <2>4. /\ chip' \in Chips /\ chip'.shifter = first /\ chip'.tx = rest /\ chip'.rx = chip.rx
        /\ chip'.error = chip.error /\ chip'.pin = chip.pin
        BY <1>1, <2>1, <2>2, <2>3 DEF Chips
  <2>5. Leaving = chip.tx  BY <1>1, <2>1, LeavingIs DEF LeavingFacts
  <2>6. Leaving' = <<first>> \o rest  BY <2>3, <2>4, LeavingIs DEF LeavingFacts
  <2>7. Leaving' = Leaving  BY <2>2, <2>5, <2>6, Zenon
  <2>8. QueuedOnce'
        BY <1>1, <1>3, <2>1, <2>4, <2>7, QueuedOnceIs DEF QueuedOnceFacts, IInv
  <2>9. Len(chip'.tx) <= Depth  BY <1>1, <1>2, <2>2, <2>4, Bounds
  <2>10. QED  BY <1>1, <1>6, <2>1, <2>4, <2>8, <2>9
<1>8. CASE OctetLeaves
  <2>1. chip.shifter # NoOctet /\ chip' = [chip EXCEPT !.shifter = NoOctet]
        /\ hist' = [hist EXCEPT !.out = chip.shifter]
        BY <1>8 DEF OctetLeaves
  <2>2. /\ chip' \in Chips /\ chip'.shifter = NoOctet /\ chip'.tx = chip.tx
        /\ chip'.rx = chip.rx /\ chip'.error = chip.error /\ chip'.pin = chip.pin
        /\ hist' \in Histories /\ hist'.out = chip.shifter
        BY <1>1, <1>2, <2>1, Bounds DEF Chips, Histories
  <2>3. Leaving = <<chip.shifter>> \o chip.tx /\ Len(Leaving) = 1 + Len(chip.tx)
        /\ Leaving' = chip.tx
        BY <1>1, <2>1, <2>2, LeavingIs DEF LeavingFacts
  <2>4. Leaving[1] = chip.shifter
        /\ \A i \in 1 .. Len(chip.tx) : chip.tx[i] = Leaving[i + 1]
    <3>1. \A x \in 1 .. FrameOctets : \A s \in Seq(1 .. FrameOctets) :
              (<<x>> \o s)[1] = x /\ \A i \in 1 .. Len(s) : s[i] = (<<x>> \o s)[i + 1]
          BY FirstThen
    <3>2. chip.shifter \in 1 .. FrameOctets  BY <1>2, <2>1, Bounds
    <3>3. QED  BY <1>2, <2>3, <3>1, <3>2, Zenon
  <2>5. chan.pending
    <3>1. Len(Leaving) # 0  BY <1>2, <2>3
    <3>2. QED  BY <1>1, <3>1, QueuedOnceIs DEF QueuedOnceFacts, IInv
  <2>6. /\ \A i \in 1 .. Len(Leaving) : Leaving[i] = hist.out + i
        /\ hist.out + Len(Leaving) = chan.queued
        BY <1>1, <2>5, QueuedOnceIs DEF QueuedOnceFacts, IInv
  <2>7. hist.out \in Nat  BY <1>1, Bounds DEF Histories
  <2>8. hist'.out = hist.out + 1
    <3>1. 1 \in 1 .. Len(Leaving)  BY <1>2, <2>3
    <3>2. QED  BY <2>2, <2>4, <2>6, <3>1
  <2>9. ASSUME NEW i \in 1 .. Len(Leaving')
        PROVE  Leaving'[i] = hist'.out + i
    <3>1. i \in 1 .. Len(chip.tx) /\ i + 1 \in 1 .. Len(Leaving)  BY <1>2, <2>3
    <3>2. Leaving'[i] = Leaving[i + 1]  BY <2>3, <2>4, <3>1
    <3>3. Leaving[i + 1] = hist.out + (i + 1)  BY <2>6, <3>1
    <3>4. QED  BY <2>7, <2>8, <3>1, <3>2, <3>3
  <2>10. hist'.out + Len(Leaving') = chan.queued
    <3>1. \A m \in Nat : hist.out + 1 + m = hist.out + (1 + m)  BY <2>7
    <3>2. QED  BY <1>2, <2>3, <2>6, <2>8, <3>1, Zenon
  <2>11. QueuedOnce'  BY <1>3, <2>2, <2>5, <2>9, <2>10, QueuedOnceIs DEF QueuedOnceFacts
  <2>12. QED  BY <1>1, <1>6, <2>2, <2>11
<1>9. QED  BY <1>7, <1>8 DEF Transmitter
-----------------------------------------------------------------------------
LEMMA StutterStep ==
    ASSUME IInv, UNCHANGED vars
    PROVE  IInv'
<1>1. core' = core /\ chan' = chan /\ call' = call /\ chip' = chip /\ hist' = hist
      BY DEF vars
<1>2. TypeOK' = TypeOK /\ Settled' = Settled /\ Drained' = Drained
      BY <1>1 DEF TypeOK, Settled, Drained
<1>3. InOrder' = InOrder
  <2>1. NeverReadsAhead' = NeverReadsAhead  BY <1>1 DEF NeverReadsAhead, Reading
  <2>2. Held' = Held  BY <1>1, HeldKept
  <2>3. QED  BY <1>1, <2>1, <2>2 DEF InOrder
<1>4. LineDriven' = LineDriven
      BY <1>1, <1>2 DEF LineDriven, Consistent, HasCtrl, RxLevel, TxLevel
<1>5. QueuedOnce' = QueuedOnce  BY <1>1, Zenon DEF QueuedOnce
<1>6. Underway'  BY <1>1, UnderwayKept DEF IInv
<1>7. QED  BY <1>2, <1>3, <1>4, <1>5, <1>6 DEF IInv

LEMMA StepKeepsIInv == IInv /\ [Next]_vars => IInv'
<1> SUFFICES ASSUME IInv, [Next]_vars PROVE IInv'  OBVIOUS
<1>1. CASE Open \/ Listen \/ ListeningFails \/ Accept \/ KeepListening  BY <1>1, WaitingStep
<1>2. CASE ReceiveFails  BY <1>2, ReceiveFailsStep
<1>3. CASE ListeningChecks \/ ReceiveChecks \/ ReceiveCounts \/ ReadOctet \/ ReceiveReturns
      BY <1>3, CheckStep, CountStep, ReadStep, ReturnStep
<1>4. CASE StartDriven \/ StartFree \/ Fill \/ AwaitDrained \/ Confirm  BY <1>4, SendStep
<1>5. CASE Close  BY <1>5, CloseStep
<1>6. CASE Line  BY <1>6, LineStep
<1>7. CASE Transmitter  BY <1>7, TransmitterStep
<1>8. CASE UNCHANGED vars  BY <1>8, StutterStep
<1>9. QED  BY <1>1, <1>2, <1>3, <1>4, <1>5, <1>6, <1>7, <1>8 DEF Next, Run

LEMMA Invariance == Spec => []IInv
<1>1. QED  BY InitHolds, StepKeepsIInv, PTL DEF Spec

\* Every field keeps its range and neither FIFO exceeds its depth, whatever the
\* channel is asked and whatever comes over the line.
THEOREM SciTypeCorrect == Spec => []TypeOK
<1>1. IInv => TypeOK  BY DEF IInv
<1>2. QED  BY <1>1, Invariance, PTL

\* While no error is latched, receive has handed the Core the octets of the line in
\* order, none skipped and none read ahead of the frame, over any split into calls;
\* no call begins to read behind a gap, so that the one an error overtakes is the last
\* to hand octets over.
THEOREM InOrderCorrect == Spec => []InOrder
<1>1. IInv => InOrder  BY DEF IInv
<1>2. QED  BY <1>1, Invariance, PTL

\* The CTRL pin follows ctrl_tx_active, and no octet leaves a half-duplex module
\* whose transceiver does not drive the line.
THEOREM LineDrivenCorrect == Spec => []LineDriven
<1>1. IInv => LineDriven  BY DEF IInv
<1>2. QED  BY <1>1, Invariance, PTL

\* send queues every octet of an answer once and in order, and confirms only what
\* has left with its last stop bit, the line turned back.
THEOREM SentOnceCorrect == Spec => SentOnce
<1>1. IInv => QueuedOnce  BY DEF IInv
<1>2. ASSUME IInv, [Next]_vars
      PROVE  [core.doing = "sending" /\ core'.doing = "header" =>
                 /\ hist.out = FrameOctets /\ chip.shifter = NoOctet /\ chip.tx = << >>
                 /\ HasCtrl(chan) => chip'.pin = RxLevel(chan)]_vars
  <2> SUFFICES ASSUME Next, core.doing = "sending", core'.doing = "header"
               PROVE  /\ hist.out = FrameOctets /\ chip.shifter = NoOctet /\ chip.tx = << >>
                      /\ HasCtrl(chan) => chip'.pin = RxLevel(chan)
        BY <1>2
  <2>1. /\ core \in Cores /\ chan \in Channels /\ chip \in Chips /\ hist \in Histories
        BY <1>2, Typed DEF IInv, TypedFacts
  <2>2. Confirm
    <3>1. ~Line /\ ~Transmitter
          BY DEF Line, OctetArrives, Overrun, LineError, Transmitter, ShifterLoads, OctetLeaves
    <3>2. ~Open /\ ~Listen /\ ~ListeningFails /\ ~ListeningChecks /\ ~Accept /\ ~KeepListening
          BY DEF Open, Listen, ListeningFails, ListeningChecks, Accept, KeepListening,
                 Listening, Waiting
    <3>3. ~ReceiveFails /\ ~ReceiveChecks /\ ~ReceiveCounts /\ ~ReceiveReturns /\ ~Close
      <4>1. core.doing # "closing" /\ ~Reading  BY <2>1 DEF Reading
      <4>2. call.at # "reading"  BY <1>2, <4>1 DEF IInv, Underway
      <4>3. QED  BY <4>1, <4>2
                 DEF ReceiveFails, ReceiveChecks, ReceiveCounts, ReceiveReturns, Close
    <3>7. ~ReadOctet  BY DEF ReadOctet
    <3>4. ~NoProgress  BY DEF NoProgress
    <3>5. ~StartDriven /\ ~StartFree /\ ~Fill /\ ~AwaitDrained
          BY <3>4 DEF StartDriven, StartFree, Fill, AwaitDrained
    <3>6. QED  BY <3>1, <3>2, <3>3, <3>5, <3>7 DEF Next, Run
  <2>3. chan.pending /\ chan.queued = FrameOctets /\ Drained
        /\ chip' = Written(chan, chip, RxLevel(chan))
        BY <2>2 DEF Confirm
  <2>4. Len(Leaving) = 0  BY <2>1, <2>3, DrainedIs DEF DrainedFacts
  <2>5. hist.out + Len(Leaving) = chan.queued
        BY <1>2, <2>1, <2>3, QueuedOnceIs DEF QueuedOnceFacts, IInv
  <2>6. hist.out \in Nat  BY <2>1, Bounds DEF Histories
  <2>7. hist.out = FrameOctets  BY <2>3, <2>4, <2>5, <2>6
  <2>8. HasCtrl(chan) => chip'.pin = RxLevel(chan)
        BY <2>1, <2>3, Levels, WrittenFields
  <2>9. QED  BY <2>3, <2>7, <2>8 DEF Drained
<1>3. QED  BY <1>1, <1>2, Invariance, PTL DEF SentOnce, SendConfirmed, Spec
====
