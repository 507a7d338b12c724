---- MODULE BridgeProofs ----
(***************************************************************************)
(* Proofs of what Bridge says of every wire, whatever the bounds, the       *)
(* faults and the width of the step index.                                  *)
(*                                                                          *)
(* LockStep speaks of the PC's outputs, OneSimulation of the block's        *)
(* inputs; between them are the frames on the wire and the answer that is   *)
(* owed, of which neither says anything.  The invariant says where every    *)
(* one of them comes from.  Two mechanisms keep simulations apart: over TCP *)
(* and on a serial line the order of the frames (InOrder, OneStep), over    *)
(* UDP the port and the step index in each datagram (Fed, Labelled).        *)
(***************************************************************************)
EXTENDS Bridge, TLAPS

\* ---- The inductive invariant, in parts ----

FrameTypes == {"SIM_START", "INPUT_DATA", "SIM_STOP", "GARBAGE",
               "RESPONSE_OK", "RESPONSE_ERROR", "OUTPUT_DATA"}
Named == Nat \X Nat
Frames == [type : FrameTypes, port : Nat, step : Nat, of : Seq(Named)]
PcStates == {"idle", "starting", "running", "stepping", "failed"}

\* Every variable has its type; what TypeOK says beyond that, that the block computes
\* no more steps than the S-function has, follows with Fed.
Typed ==
    /\ wire \in {"tcp", "udp", "serial"} /\ wire \in Wires /\ faults \in FaultSets
    /\ pc \in [state : PcStates, sim : 0 .. MaxSims, step : 0 .. MaxSteps]
    /\ toDsp \in Seq(Frames) /\ Len(toDsp) <= MaxFlight
    /\ toPc \in Seq(Frames) /\ Len(toPc) <= MaxFlight
    /\ mode \in Dsp!Modes /\ running \in BOOLEAN /\ steps \in Nat /\ delivered \in Nat
    /\ peer \in 0 .. MaxSims /\ answer \in Frames /\ stale \in BOOLEAN
    /\ fed \in Seq(Named) /\ Len(fed) = steps
    /\ got \in Seq(Seq(Named)) /\ Len(got) = pc.step

\* What the block owes, and that it computes in a session only.
Owed ==
    /\ mode \in {"idle", "ending"} => ~running
    /\ ~running => fed = << >> /\ delivered = 0
    /\ mode = "owing" => running /\ steps = delivered + 1 /\ answer.type = "OUTPUT_DATA"
    /\ mode # "owing" => steps = delivered
    /\ mode = "accepting" => answer.type = "RESPONSE_OK"
    /\ mode = "rejecting" => answer.type = "RESPONSE_ERROR"
    /\ mode \in {"accepting", "owing", "rejecting"} => answer.port # NoPort

\* In state p of the S-function over wire w, it has sent the inputs of step k of
\* simulation s.
Asked(p, w, s, k) ==
    /\ s \in 1 .. p.sim /\ k \in Nat /\ k < MaxSteps
    /\ w = "udp" => k + 1 < StepMod
    /\ s = p.sim => \/ k < p.step
                    \/ k = p.step /\ p.state \notin {"starting", "running"}
Sim(f) == f.of[1][1]
Nr(f) == f.of[1][2]
OnlyAsked ==
    /\ \A i \in DOMAIN toDsp :
         /\ toDsp[i].port \in 1 .. pc.sim
         /\ toDsp[i].type = "INPUT_DATA" =>
              /\ Asked(pc, wire, Sim(toDsp[i]), Nr(toDsp[i]))
              /\ toDsp[i].port = Port(Sim(toDsp[i]))
              /\ toDsp[i].step = Nr(toDsp[i]) % StepMod
              /\ toDsp[i].of = <<<<Sim(toDsp[i]), Nr(toDsp[i])>>>>
    /\ PcOn => pc.sim > 0
    /\ wire = "udp" => pc.step < StepMod
    /\ pc.state = "stepping" => /\ pc.step < MaxSteps
                                /\ wire = "udp" => pc.step + 1 < StepMod

\* The inputs of a session of the block were asked for, in order, by one simulation;
\* over UDP by the peer of the session.
Fed ==
    fed # << >> => /\ fed = Steps(fed[1][1], Len(fed))
                   /\ Asked(pc, wire, fed[1][1], Len(fed) - 1)
                   /\ wire = "udp" => fed[1][1] = peer

\* On a wire that keeps the order: the frame before the INPUT_DATA of step k, and what
\* the block has computed when that INPUT_DATA is the next frame.
Before(f, s, k) ==
    \/ f.type = "GARBAGE"
    \/ f.type = "SIM_START" /\ k = 0
    \/ f.type = "INPUT_DATA" /\ Sim(f) = s /\ Nr(f) + 1 = k
Ready(s, k) == mode \in {"open", "accepting", "owing"} /\ running => fed = Steps(s, k)
NextStep == pc.step + (IF pc.state = "stepping" THEN 1 ELSE 0)
InOrder ==
    wire # "udp" =>
      /\ \A i \in DOMAIN toDsp : toDsp[i].type = "INPUT_DATA" =>
           IF i = 1 THEN Ready(Sim(toDsp[1]), Nr(toDsp[1]))
           ELSE Before(toDsp[i - 1], Sim(toDsp[i]), Nr(toDsp[i]))
      /\ PcOn => IF toDsp = << >> THEN Ready(pc.sim, NextStep)
                 ELSE Before(toDsp[Len(toDsp)], pc.sim, NextStep)

\* A socket belongs to one simulation.
Apart ==
    /\ wire = "tcp" => /\ peer \in {NoPort, pc.sim}
                       /\ peer = NoPort => mode = "idle" /\ toDsp = << >>
    /\ wire # "serial" => /\ ~PcOn => toPc = << >>
                          /\ \A i \in DOMAIN toPc : toPc[i].port = pc.sim

\* Over UDP an output says which step it answers.
Made(f) == f.type = "OUTPUT_DATA" => f.of = Steps(f.port, f.step + 1) /\ f.step + 1 < StepMod
Labelled ==
    wire = "udp" => /\ mode = "owing" => Made(answer)
                    /\ \A i \in DOMAIN toPc : Made(toPc[i])

\* Over a connection, or a line that was clean, at most one step is under way: the
\* one the S-function waits for, or gave up waiting for.
Single(q, type) ==
    \A i, j \in DOMAIN q : q[i].type = type /\ q[j].type = type => i = j
Asking == Carries(toDsp, "INPUT_DATA")
Owing == mode = "owing"
Answering == Carries(toPc, "OUTPUT_DATA")
OneStep ==
    wire # "udp" /\ ~stale =>
      /\ \A i \in DOMAIN toDsp : toDsp[i].type = "INPUT_DATA" =>
           Sim(toDsp[i]) = pc.sim /\ Nr(toDsp[i]) = pc.step
      /\ Owing => answer.of = Steps(pc.sim, pc.step + 1)
      /\ \A i \in DOMAIN toPc : toPc[i].type = "OUTPUT_DATA" =>
           toPc[i].of = Steps(pc.sim, pc.step + 1)
      /\ Single(toDsp, "INPUT_DATA") /\ Single(toPc, "OUTPUT_DATA")
      /\ ~(Asking /\ Owing) /\ ~(Asking /\ Answering) /\ ~(Owing /\ Answering)
      /\ pc.state \in {"starting", "running"} => ~Asking /\ ~Owing /\ ~Answering

Committed == ~stale => \A i \in DOMAIN got : got[i] = Steps(pc.sim, i)

IInv == /\ Typed /\ Owed /\ OnlyAsked /\ Fed /\ InOrder /\ Apart
        /\ Labelled /\ OneStep /\ Committed

\* ---- Sequences of frames ----

LEMMA Bounds == /\ StepMod \in Nat /\ StepMod > 0 /\ MaxSims \in Nat /\ MaxSteps \in Nat
                /\ MaxFlight \in Nat /\ MaxFlight > 0
BY StepModAssumption, BoundsAssumption

LEMMA StepsAre ==
    ASSUME NEW s \in Nat, NEW n \in Nat
    PROVE  /\ Steps(s, n) \in Seq(Named) /\ Len(Steps(s, n)) = n
           /\ Steps(s, 0) = << >>
           /\ n > 0 => Steps(s, n) # << >> /\ Steps(s, n)[1][1] = s
<1>1. \A i \in 1 .. n : <<s, i - 1>> \in Named BY DEF Named
<1>2. Steps(s, n) \in [1 .. n -> Named] BY <1>1 DEF Steps
<1>3. Steps(s, n) \in Seq(Named) /\ Len(Steps(s, n)) = n BY <1>2
<1>4. Steps(s, 0) = << >> BY DEF Steps
<1>5. ASSUME n > 0 PROVE Steps(s, n) # << >> /\ Steps(s, n)[1][1] = s
  <2>1. Len(<< >>) = 0 OBVIOUS
  <2>2. Steps(s, n) # << >> BY <1>3, <1>5, <2>1
  <2>3. 1 \in 1 .. n BY <1>5
  <2>4. Steps(s, n)[1] = <<s, 1 - 1>> BY <2>3 DEF Steps
  <2>5. <<s, 1 - 1>>[1] = s OBVIOUS
  <2> QED BY <2>2, <2>4, <2>5
<1> QED BY <1>3, <1>4, <1>5

LEMMA StepsGrow ==
    ASSUME NEW s \in Nat, NEW n \in Nat
    PROVE  Steps(s, n) \o <<<<s, n>>>> = Steps(s, n + 1)
<1> DEFINE a == Steps(s, n) \o <<<<s, n>>>>
           b == Steps(s, n + 1)
<1>1. <<s, n>> \in Named BY DEF Named
<1>2. <<<<s, n>>>> \in Seq(Named) /\ Len(<<<<s, n>>>>) = 1 BY <1>1
<1>3. Steps(s, n) \in Seq(Named) /\ Len(Steps(s, n)) = n BY StepsAre
<1>4. a \in Seq(Named) /\ Len(a) = n + 1 BY <1>2, <1>3
<1>5. b \in Seq(Named) /\ Len(b) = n + 1 BY StepsAre
<1>6. ASSUME NEW i \in 1 .. n + 1 PROVE a[i] = b[i]
  <2>1. CASE i = n + 1
    <3>1. a[i] = <<<<s, n>>>>[1] BY <1>2, <1>3, <2>1
    <3>2. b[i] = <<s, i - 1>> BY DEF Steps
    <3>3. i - 1 = n BY <2>1
    <3>4. <<<<s, n>>>>[1] = <<s, n>> OBVIOUS
    <3>5. b[i] = <<s, n>> BY <3>2, <3>3
    <3> HIDE DEF a, b
    <3> QED BY <3>1, <3>4, <3>5
  <2>2. CASE i \in 1 .. n
    <3>1. a[i] = Steps(s, n)[i] BY <1>2, <1>3, <2>2
    <3>2. Steps(s, n)[i] = <<s, i - 1>> BY <2>2 DEF Steps
    <3>3. b[i] = <<s, i - 1>> BY DEF Steps
    <3> HIDE DEF a, b
    <3> QED BY <3>1, <3>2, <3>3
  <2>3. i = n + 1 \/ i \in 1 .. n OBVIOUS
  <2> HIDE DEF a, b
  <2> QED BY <2>1, <2>2, <2>3
<1> HIDE DEF a, b
<1>7. a = b BY <1>4, <1>5, <1>6
<1> QED BY <1>7 DEF a, b

LEMMA Joined ==
    ASSUME NEW S, NEW a \in Seq(S), NEW b \in Seq(S), NEW j \in Nat,
           j > Len(a), j <= Len(a) + Len(b)
    PROVE  (a \o b)[j] = b[j - Len(a)]
OBVIOUS

\* Taking the i-th frame away.
LEMMA Removed ==
    ASSUME NEW q \in Seq(Frames), NEW i \in DOMAIN q, NEW r, r = RemoveAt(q, i)
    PROVE  /\ r \in Seq(Frames) /\ Len(r) = Len(q) - 1
           /\ \A j \in DOMAIN r : r[j] = q[IF j < i THEN j ELSE j + 1]
<1>1. i \in 1 .. Len(q) OBVIOUS
<1> DEFINE a == SubSeq(q, 1, i - 1)
           b == SubSeq(q, i + 1, Len(q))
<1>2. a \in Seq(Frames) /\ Len(a) = i - 1 /\ \A j \in 1 .. i - 1 : a[j] = q[j]
  BY <1>1
<1>3. b \in Seq(Frames) /\ Len(b) = Len(q) - i /\ \A j \in 1 .. Len(q) - i : b[j] = q[j + i]
  BY <1>1
<1>4. r = a \o b BY DEF RemoveAt
<1> HIDE DEF a, b
<1>5. r \in Seq(Frames) /\ Len(r) = Len(q) - 1 BY <1>1, <1>2, <1>3, <1>4
<1>6. ASSUME NEW j \in DOMAIN r PROVE r[j] = q[IF j < i THEN j ELSE j + 1]
  <2>1. j \in 1 .. Len(q) - 1 BY <1>5
  <2>2. CASE j < i BY <1>1, <1>2, <1>3, <1>4, <2>1, <2>2
  <2>3. CASE j >= i
    <3>1. r[j] = b[j - (i - 1)] BY <1>1, <1>2, <1>3, <1>4, <2>1, <2>3
    <3>2. j - (i - 1) \in 1 .. Len(q) - i BY <1>1, <2>1, <2>3
    <3>3. (j - (i - 1)) + i = j + 1 BY <1>1, <2>1
    <3> QED BY <1>3, <3>1, <3>2, <3>3, <2>1, <1>1, <2>3
  <2> QED BY <2>2, <2>3, <1>1, <2>1
<1> QED BY <1>5, <1>6

\* What may be left of a wire's frames comes from them; where order is kept, the first
\* n frames are gone and the one behind them may have lost its beginning.
LEMMA GarbageFrame == Garbage \in Frames /\ Garbage.type = "GARBAGE" /\ Garbage.port = 1
<1>1. << >> \in Seq(Named) OBVIOUS
<1> QED BY <1>1 DEF Garbage, Frame, Frames, FrameTypes

LEMMA CutKeepsOrder ==
    ASSUME NEW q \in Seq(Frames), NEW r \in Cut(q), wire \in {"tcp", "serial"}
    PROVE  \E n \in 0 .. Len(q) :
             /\ r \in Seq(Frames) /\ Len(r) = Len(q) - n
             /\ \A j \in DOMAIN r : r[j] = q[j + n] \/ (j = 1 /\ r[j] = Garbage)
<1>1. CASE wire = "tcp"
  <2>1. r = << >> BY <1>1 DEF Cut
  <2> QED BY <2>1
<1>2. CASE wire = "serial"
  <2>1. CASE \E n \in 1 .. Len(q) + 1 : r = SubSeq(q, n, Len(q))
    <3> PICK n \in 1 .. Len(q) + 1 : r = SubSeq(q, n, Len(q)) BY <2>1
    <3>1. r \in Seq(Frames) /\ Len(r) = Len(q) - (n - 1) OBVIOUS
    <3>2. \A j \in DOMAIN r : r[j] = q[j + (n - 1)] BY <3>1
    <3>3. n - 1 \in 0 .. Len(q) OBVIOUS
    <3> QED BY <3>1, <3>2, <3>3
  <2>2. CASE \E n \in 1 .. Len(q) : r = <<Garbage>> \o SubSeq(q, n + 1, Len(q))
    <3> PICK n \in 1 .. Len(q) : r = <<Garbage>> \o SubSeq(q, n + 1, Len(q)) BY <2>2
    <3> DEFINE b == SubSeq(q, n + 1, Len(q))
    <3>1. b \in Seq(Frames) /\ Len(b) = Len(q) - n /\ \A j \in 1 .. Len(q) - n : b[j] = q[j + n]
      OBVIOUS
    <3> DEFINE g == <<Garbage>>
    <3>2. g \in Seq(Frames) /\ Len(g) = 1 /\ g[1] = Garbage BY GarbageFrame
    <3>3. r = g \o b OBVIOUS
    <3> HIDE DEF b, g
    <3>4. r \in Seq(Frames) /\ Len(r) = Len(q) - (n - 1) BY <3>1, <3>2, <3>3
    <3>5. ASSUME NEW j \in DOMAIN r
          PROVE  r[j] = q[j + (n - 1)] \/ (j = 1 /\ r[j] = Garbage)
      <4>1. CASE j = 1 BY <3>1, <3>2, <3>3, <4>1
      <4>2. CASE j # 1
        <5>0. Len(q) \in Nat OBVIOUS
        <5>1. j \in 2 .. Len(q) - (n - 1) BY <3>4, <4>2
        <5>2. j - 1 \in 1 .. Len(b) BY <5>0, <3>1, <5>1
        <5>6. j \in Nat /\ j > Len(g) /\ j <= Len(g) + Len(b) BY <5>1, <3>1, <3>2
        <5>7. (g \o b)[j] = b[j - Len(g)] BY <3>1, <3>2, <5>6, Joined
        <5>3. r[j] = b[j - 1] BY <3>2, <3>3, <5>7
        <5>4. b[j - 1] = q[(j - 1) + n] BY <3>1, <5>2
        <5>5. (j - 1) + n = j + (n - 1) BY <5>1
        <5> QED BY <5>3, <5>4, <5>5
      <4> QED BY <4>1, <4>2
    <3>6. n - 1 \in 0 .. Len(q) OBVIOUS
    <3> QED BY <3>4, <3>5, <3>6
  <2> QED BY <1>2, <2>1, <2>2 DEF Cut
<1> QED BY <1>1, <1>2

LEMMA CutOfUdp ==
    ASSUME NEW q \in Seq(Frames), NEW r \in Cut(q), wire = "udp"
    PROVE  /\ r \in Seq(Frames) /\ Len(r) <= Len(q)
           /\ \A j \in DOMAIN r : \E i \in DOMAIN q : r[j] = q[i]
<1>1. r \in Parts(q) BY DEF Cut
<1>2. PICK n \in 0 .. Len(q) :
        r \in {[i \in 1 .. n |-> q[at[i]]] :
                 at \in {f \in [1 .. n -> DOMAIN q] : Increasing(f)}}
  BY <1>1 DEF Parts
<1>3. PICK at \in [1 .. n -> DOMAIN q] : r = [i \in 1 .. n |-> q[at[i]]] BY <1>2
<1>4. \A i \in 1 .. n : q[at[i]] \in Frames OBVIOUS
<1>5. r \in [1 .. n -> Frames] BY <1>3, <1>4
<1> QED BY <1>3, <1>5

LEMMA Afterwards ==
    ASSUME NEW q, NEW i, NEW r \in After(q, i)
    PROVE  r = RemoveAt(q, i) \/ (wire = "udp" /\ r = q)
BY DEF After

\* Kinds of frames on a wire when one is taken away or one is added.
LEMMA RemovedKinds ==
    ASSUME NEW q \in Seq(Frames), NEW i \in DOMAIN q, NEW r, r = RemoveAt(q, i), NEW type
    PROVE  /\ Carries(r, type) => Carries(q, type)
           /\ Single(q, type) => Single(r, type)
           /\ Single(q, type) /\ q[i].type = type => ~Carries(r, type)
<1>1. /\ r \in Seq(Frames) /\ Len(r) = Len(q) - 1
      /\ \A j \in DOMAIN r : r[j] = q[IF j < i THEN j ELSE j + 1]
  BY Removed
<1>2. i \in 1 .. Len(q) /\ DOMAIN r = 1 .. Len(q) - 1 /\ DOMAIN q = 1 .. Len(q) BY <1>1
<1>3. \A j \in DOMAIN r : (IF j < i THEN j ELSE j + 1) \in DOMAIN q BY <1>2
<1>4. Carries(r, type) => Carries(q, type) BY <1>1, <1>3 DEF Carries
<1>5. Single(q, type) => Single(r, type)
  <2> SUFFICES ASSUME Single(q, type), NEW j \in DOMAIN r, NEW k \in DOMAIN r,
                      r[j].type = type, r[k].type = type
               PROVE  j = k
    BY DEF Single
  <2>1. (IF j < i THEN j ELSE j + 1) = (IF k < i THEN k ELSE k + 1)
    BY <1>1, <1>3 DEF Single
  <2> QED BY <2>1, <1>2
<1>6. ASSUME Single(q, type), q[i].type = type PROVE ~Carries(r, type)
  <2> SUFFICES ASSUME NEW j \in DOMAIN r, r[j].type = type PROVE FALSE BY DEF Carries
  <2>1. (IF j < i THEN j ELSE j + 1) = i BY <1>1, <1>3, <1>6 DEF Single
  <2> QED BY <2>1, <1>2
<1> QED BY <1>4, <1>5, <1>6

LEMMA Appended ==
    ASSUME NEW q \in Seq(Frames), NEW f \in Frames, NEW r, r = Append(q, f)
    PROVE  /\ r \in Seq(Frames) /\ Len(r) = Len(q) + 1 /\ r # << >>
           /\ \A j \in DOMAIN q : r[j] = q[j]
           /\ r[Len(r)] = f
           /\ DOMAIN q = 1 .. Len(q) /\ DOMAIN r = 1 .. Len(q) + 1
           /\ \A j \in DOMAIN r :
                (j \in DOMAIN q /\ r[j] = q[j]) \/ (j = Len(q) + 1 /\ r[j] = f)
<1>1. r \in Seq(Frames) /\ Len(r) = Len(q) + 1 OBVIOUS
<1>2. \A j \in DOMAIN q : r[j] = q[j] OBVIOUS
<1>3. r[Len(r)] = f OBVIOUS
<1>4. DOMAIN q = 1 .. Len(q) /\ DOMAIN r = 1 .. Len(q) + 1 BY <1>1
<1>5. r # << >> BY <1>1
<1>6. \A j \in DOMAIN r : j \in DOMAIN q \/ j = Len(r) BY <1>4, <1>1
<1>7. ASSUME NEW j \in DOMAIN r
      PROVE  (j \in DOMAIN q /\ r[j] = q[j]) \/ (j = Len(q) + 1 /\ r[j] = f)
  <2>1. CASE j \in DOMAIN q BY <1>2, <2>1
  <2>2. CASE j = Len(r) BY <1>1, <1>3, <2>2
  <2> QED BY <1>6, <2>1, <2>2
<1> QED BY <1>1, <1>2, <1>3, <1>4, <1>5, <1>7

LEMMA AppendedKinds ==
    ASSUME NEW q \in Seq(Frames), NEW f \in Frames, NEW r, r = Append(q, f), NEW type
    PROVE  /\ Carries(r, type) <=> (Carries(q, type) \/ f.type = type)
           /\ Single(q, type) /\ (f.type # type \/ ~Carries(q, type)) => Single(r, type)
<1>1. /\ r \in Seq(Frames) /\ Len(r) = Len(q) + 1
      /\ \A j \in DOMAIN q : r[j] = q[j]
      /\ r[Len(r)] = f
      /\ DOMAIN q = 1 .. Len(q) /\ DOMAIN r = 1 .. Len(q) + 1
  BY Appended
<1>2. \A j \in DOMAIN r : j \in DOMAIN q \/ j = Len(r) BY <1>1
<1>3. Len(r) \in DOMAIN r /\ \A j \in DOMAIN q : j \in DOMAIN r BY <1>1
<1>4. Carries(r, type) <=> (Carries(q, type) \/ f.type = type) BY <1>1, <1>2, <1>3 DEF Carries
<1>5. Single(q, type) /\ (f.type # type \/ ~Carries(q, type)) => Single(r, type)
  BY <1>1, <1>2 DEF Single, Carries
<1> QED BY <1>4, <1>5

\* ---- The PC ----

\* The S-function has a frame, or gives up: all but PcStart, PcStep, PcCommit and the
\* sending of SIM_STOP.
Turns(st) ==
    /\ pc' = [pc EXCEPT !.state = st]
    /\ \/ st = "running" /\ pc.state = "starting"
       \/ st \in {"idle", "failed"} /\ toPc' = IF wire = "serial" THEN toPc ELSE << >>
    /\ \/ toPc' = toPc \/ toPc' = << >> \/ \E i \in DOMAIN toPc : toPc' = RemoveAt(toPc, i)

LEMMA Fewer ==
    ASSUME NEW q \in Seq(Frames), NEW r,
           r = q \/ r = << >> \/ \E i \in DOMAIN q : r = RemoveAt(q, i)
    PROVE  /\ r \in Seq(Frames) /\ Len(r) <= Len(q)
           /\ \A j \in DOMAIN r : \E i \in DOMAIN q : r[j] = q[i]
           /\ \A type : Carries(r, type) => Carries(q, type)
           /\ \A type : Single(q, type) => Single(r, type)
<1>1. CASE r = q BY <1>1
<1>2. CASE r = << >> BY <1>2 DEF Carries, Single
<1>3. ASSUME NEW i \in DOMAIN q, r = RemoveAt(q, i)
      PROVE  /\ r \in Seq(Frames) /\ Len(r) <= Len(q)
             /\ \A j \in DOMAIN r : \E k \in DOMAIN q : r[j] = q[k]
             /\ \A type : Carries(r, type) => Carries(q, type)
             /\ \A type : Single(q, type) => Single(r, type)
  <2>1. /\ r \in Seq(Frames) /\ Len(r) = Len(q) - 1
        /\ \A j \in DOMAIN r : r[j] = q[IF j < i THEN j ELSE j + 1]
    BY <1>3, Removed
  <2>2. \A j \in DOMAIN r : (IF j < i THEN j ELSE j + 1) \in DOMAIN q BY <2>1
  <2>3. /\ \A type : Carries(r, type) => Carries(q, type)
        /\ \A type : Single(q, type) => Single(r, type)
    BY <1>3, RemovedKinds
  <2> QED BY <2>1, <2>2, <2>3
<1> QED BY <1>1, <1>2, <1>3

LEMMA TurnsStep ==
    ASSUME IInv, NEW st \in PcStates, Turns(st),
           UNCHANGED <<world, toDsp, dsp, peer, answer, fed, stale, got>>
    PROVE  IInv'
<1> USE Bounds
<1>0. /\ UNCHANGED wire /\ UNCHANGED faults /\ UNCHANGED toDsp /\ UNCHANGED mode
      /\ UNCHANGED running /\ UNCHANGED steps /\ UNCHANGED delivered /\ UNCHANGED peer
      /\ UNCHANGED answer /\ UNCHANGED fed /\ UNCHANGED stale /\ UNCHANGED got
  BY DEF world, dsp
<1>1. /\ pc'.state = st /\ pc'.sim = pc.sim /\ pc'.step = pc.step
      /\ pc.sim \in Nat /\ pc.step \in Nat
      /\ pc' \in [state : PcStates, sim : 0 .. MaxSims, step : 0 .. MaxSteps]
  <2>1. pc \in [state : PcStates, sim : 0 .. MaxSims, step : 0 .. MaxSteps]
    BY DEF IInv, Typed
  <2>2. pc' = [pc EXCEPT !.state = st] BY DEF Turns
  <2> QED BY <2>1, <2>2
<1>2. /\ toPc' \in Seq(Frames) /\ Len(toPc') <= Len(toPc)
      /\ \A j \in DOMAIN toPc' : \E i \in DOMAIN toPc : toPc'[j] = toPc[i]
      /\ Answering' => Answering
      /\ Single(toPc, "OUTPUT_DATA") => Single(toPc', "OUTPUT_DATA")
  <2>1. toPc \in Seq(Frames) BY DEF IInv, Typed
  <2> QED BY <2>1, Fewer DEF Turns, Answering
<1>3. ASSUME NEW s, NEW k, Asked(pc, wire, s, k) PROVE Asked(pc', wire', s, k)
  BY <1>0, <1>1, <1>3 DEF Asked, Turns
<1>4. Typed'
  <2>1. Len(toPc') <= MaxFlight BY <1>2 DEF IInv, Typed
  <2> QED BY <1>0, <1>1, <1>2, <2>1 DEF IInv, Typed
<1>5. Owed' BY <1>0 DEF IInv, Owed
<1>6. OnlyAsked'
  <2>1. pc'.state # "stepping" /\ (PcOn' => PcOn) BY <1>1 DEF Turns, PcOn
  <2> QED BY <1>0, <1>1, <1>3, <2>1 DEF IInv, OnlyAsked, Sim, Nr, Port
<1>7. Fed' BY <1>0, <1>3 DEF IInv, Fed, Steps
<1>8. InOrder'
  <2>1. PcOn' => PcOn /\ NextStep' = NextStep BY <1>1 DEF PcOn, NextStep, Turns
  <2> QED BY <1>0, <1>1, <2>1 DEF IInv, InOrder, Ready, Before, Sim, Nr, Steps
<1>9. Apart'
  <2>1. wire # "serial" /\ ~PcOn' => toPc' = << >>
    BY <1>1 DEF Turns, PcOn
  <2> QED BY <1>0, <1>1, <1>2, <2>1 DEF IInv, Apart
<1>10. Labelled'
  <2>1. ASSUME wire = "udp", NEW j \in DOMAIN toPc' PROVE Made(toPc'[j])
    BY <1>2, <2>1 DEF IInv, Labelled
  <2>2. ASSUME wire = "udp", mode = "owing" PROVE Made(answer)
    BY <2>2 DEF IInv, Labelled
  <2> QED BY <1>0, <2>1, <2>2 DEF Labelled
<1>11. OneStep'
  <2>1. ASSUME wire # "udp", ~stale
        PROVE  /\ \A i \in DOMAIN toDsp' : toDsp'[i].type = "INPUT_DATA" =>
                     Sim(toDsp'[i]) = pc'.sim /\ Nr(toDsp'[i]) = pc'.step
               /\ Owing' => answer'.of = Steps(pc'.sim, pc'.step + 1)
               /\ \A i \in DOMAIN toPc' : toPc'[i].type = "OUTPUT_DATA" =>
                    toPc'[i].of = Steps(pc'.sim, pc'.step + 1)
               /\ Single(toDsp', "INPUT_DATA")
    BY <1>0, <1>1, <1>2, <2>1 DEF IInv, OneStep, Owing
  <2>2. ASSUME wire # "udp", ~stale
        PROVE  /\ Single(toPc', "OUTPUT_DATA")
               /\ (Asking' => Asking) /\ (Owing' => Owing)
               /\ pc'.state \in {"starting", "running"} => pc.state \in {"starting", "running"}
    BY <1>0, <1>1, <1>2, <2>2 DEF IInv, OneStep, Asking, Owing, Turns
  <2>3. ASSUME wire # "udp", ~stale
        PROVE  /\ ~(Asking' /\ Owing') /\ ~(Asking' /\ Answering') /\ ~(Owing' /\ Answering')
               /\ pc'.state \in {"starting", "running"} => ~Asking' /\ ~Owing' /\ ~Answering'
    <3>1. /\ ~(Asking /\ Owing) /\ ~(Asking /\ Answering) /\ ~(Owing /\ Answering)
          /\ pc.state \in {"starting", "running"} => ~Asking /\ ~Owing /\ ~Answering
      BY <2>3 DEF IInv, OneStep
    <3>2. /\ (Asking' => Asking) /\ (Owing' => Owing)
          /\ pc'.state \in {"starting", "running"} => pc.state \in {"starting", "running"}
      BY <2>2, <2>3
    <3>3. Answering' => Answering BY <1>2
    <3> QED BY <3>1, <3>2, <3>3
  <2> QED BY <1>0, <2>1, <2>2, <2>3 DEF OneStep, Sim, Nr, Steps
<1>12. Committed' BY <1>0, <1>1 DEF IInv, Committed, Steps
<1> QED BY <1>4, <1>5, <1>6, <1>7, <1>8, <1>9, <1>10, <1>11, <1>12 DEF IInv

\* The facts every step of the PC leaves alone.
PcKeeps == UNCHANGED <<world, dsp, peer, answer, fed, stale>>

\* A frame that is no INPUT_DATA joins the queue, and the S-function goes idle.
LEMMA TerminateStep ==
    ASSUME IInv, PcTerminate
    PROVE  IInv'
<1> USE Bounds
<1>1. CASE pc.state = "failed" /\ UNCHANGED toDsp
  <2>1. Turns("idle")
    BY <1>1 DEF PcTerminate, Turns, PcCloses, Enters
  <2>2. UNCHANGED <<world, toDsp, dsp, peer, answer, fed, stale, got>>
    BY <1>1 DEF PcTerminate, world, dsp
  <2> QED BY <2>1, <2>2, TurnsStep DEF PcStates
<1>2. CASE pc.state = "running" /\ PcSends(Frame("SIM_STOP", PcPort))
  <2> DEFINE f == Frame("SIM_STOP", PcPort)
  <2>1. /\ UNCHANGED wire /\ UNCHANGED faults /\ UNCHANGED mode
        /\ UNCHANGED running /\ UNCHANGED steps /\ UNCHANGED delivered /\ UNCHANGED peer
        /\ UNCHANGED answer /\ UNCHANGED fed /\ UNCHANGED stale /\ UNCHANGED got
    BY DEF PcTerminate, world, dsp
  <2>2. /\ pc' = [pc EXCEPT !.state = "idle"]
        /\ toPc' = IF wire = "serial" THEN toPc ELSE << >>
    BY DEF PcTerminate, PcCloses, Enters
  <2>3. pc \in [state : PcStates, sim : 0 .. MaxSims, step : 0 .. MaxSteps]
    BY DEF IInv, Typed
  <2>4. /\ pc'.state = "idle" /\ pc'.sim = pc.sim /\ pc'.step = pc.step
        /\ pc.sim \in Nat /\ pc.step \in Nat /\ pc.sim > 0
        /\ pc' \in [state : PcStates, sim : 0 .. MaxSims, step : 0 .. MaxSteps]
    BY <1>2, <2>2, <2>3 DEF PcStates, IInv, OnlyAsked, PcOn
  <2>5. f \in Frames /\ f.type = "SIM_STOP" /\ f.port \in 1 .. pc.sim
    <3>1. << >> \in Seq(Named) OBVIOUS
    <3>2. PcPort \in 1 .. pc.sim BY <1>2, <2>4 DEF PcPort, PcOn, Port
    <3> QED BY <3>1, <3>2, <2>4 DEF Frame, Frames, FrameTypes
  <2> HIDE DEF f
  <2>6. toDsp \in Seq(Frames) /\ toPc \in Seq(Frames) BY DEF IInv, Typed
  <2>7. \/ toDsp' = toDsp
        \/ /\ toDsp' = Append(toDsp, f) /\ Len(toDsp) < MaxFlight
           /\ wire = "tcp" => peer = f.port
    BY <1>2 DEF PcSends, f
  <2>8. /\ toDsp' \in Seq(Frames) /\ Len(toDsp') <= MaxFlight
        /\ \A j \in DOMAIN toDsp' :
                (j \in DOMAIN toDsp /\ toDsp'[j] = toDsp[j])
                \/ (toDsp'[j] = f /\ toDsp'[j].type # "INPUT_DATA")
        /\ Asking' => Asking
        /\ Single(toDsp, "INPUT_DATA") => Single(toDsp', "INPUT_DATA")
    <3>1. CASE toDsp' = toDsp
      <4>1. Len(toDsp) <= MaxFlight BY DEF IInv, Typed
      <4>2. Asking' => Asking BY <3>1 DEF Asking, Carries
      <4>3. Single(toDsp, "INPUT_DATA") => Single(toDsp', "INPUT_DATA") BY <3>1
      <4> QED BY <3>1, <2>6, <4>1, <4>2, <4>3
    <3>2. CASE toDsp' = Append(toDsp, f) /\ Len(toDsp) < MaxFlight
      <4>1. /\ toDsp' \in Seq(Frames) /\ Len(toDsp') = Len(toDsp) + 1
            /\ \A j \in DOMAIN toDsp : toDsp'[j] = toDsp[j]
            /\ \A j \in DOMAIN toDsp' :
                (j \in DOMAIN toDsp /\ toDsp'[j] = toDsp[j])
                \/ (j = Len(toDsp) + 1 /\ toDsp'[j] = f)
        BY <2>5, <2>6, <3>2, Appended
      <4>2. (Asking' => Asking) /\ (Single(toDsp, "INPUT_DATA") => Single(toDsp', "INPUT_DATA"))
        BY <2>5, <2>6, <3>2, AppendedKinds DEF Asking
      <4>3. Len(toDsp') <= MaxFlight BY <2>6, <3>2, <4>1
      <4> QED BY <4>1, <4>2, <4>3, <2>5
    <3> QED BY <2>7, <3>1, <3>2
  <2>9. ASSUME NEW s, NEW k, Asked(pc, wire, s, k) PROVE Asked(pc', wire', s, k)
    BY <1>2, <2>1, <2>4, <2>9 DEF Asked
  <2>10. Typed'
    <3>1. toPc' \in Seq(Frames) /\ Len(toPc') <= MaxFlight
      BY <2>2, <2>6 DEF IInv, Typed
    <3> QED BY <2>1, <2>4, <2>8, <3>1 DEF IInv, Typed
  <2>11. Owed' BY <2>1 DEF IInv, Owed
  <2>12. OnlyAsked'
    <3>1. ~PcOn' /\ pc'.state # "stepping" BY <2>4 DEF PcOn
    <3>2. ASSUME NEW j \in DOMAIN toDsp'
          PROVE  /\ toDsp'[j].port \in 1 .. pc'.sim
                 /\ toDsp'[j].type = "INPUT_DATA" =>
                      /\ Asked(pc', wire', Sim(toDsp'[j]), Nr(toDsp'[j]))
                      /\ toDsp'[j].port = Port(Sim(toDsp'[j]))
                      /\ toDsp'[j].step = Nr(toDsp'[j]) % StepMod
                      /\ toDsp'[j].of = <<<<Sim(toDsp'[j]), Nr(toDsp'[j])>>>>
      BY <2>4, <2>5, <2>8, <2>9 DEF IInv, OnlyAsked
    <3> QED BY <2>1, <2>4, <3>1, <3>2 DEF IInv, OnlyAsked, Sim, Nr, Port
  <2>13. Fed' BY <2>1, <2>9 DEF IInv, Fed, Steps
  <2>14. InOrder'
    <3>1. ~PcOn' BY <2>4 DEF PcOn
    <3>2. ASSUME wire # "udp", NEW j \in DOMAIN toDsp', toDsp'[j].type = "INPUT_DATA"
          PROVE  IF j = 1 THEN Ready(Sim(toDsp'[1]), Nr(toDsp'[1]))
                 ELSE Before(toDsp'[j - 1], Sim(toDsp'[j]), Nr(toDsp'[j]))
      <4>1. j \in DOMAIN toDsp /\ toDsp'[j] = toDsp[j] BY <2>8, <3>2
      <4>2. j # 1 => toDsp'[j - 1] = toDsp[j - 1]
        <5>1. CASE toDsp' = toDsp BY <5>1
        <5>2. CASE toDsp' = Append(toDsp, f)
          <6>1. j # 1 => j - 1 \in DOMAIN toDsp BY <4>1, <2>6
          <6> QED BY <5>2, <6>1, <2>5, <2>6, Appended
        <5> QED BY <5>1, <5>2, <2>7
      <4> QED BY <3>2, <4>1, <4>2 DEF IInv, InOrder
    <3> QED BY <2>1, <3>1, <3>2 DEF InOrder, Ready, Before, Sim, Nr, Steps
  <2>15. Apart'
    <3>1. wire = "tcp" /\ peer = NoPort => toDsp' = toDsp
      BY <2>5, <2>7 DEF NoPort
    <3> QED BY <2>1, <2>2, <2>4, <3>1 DEF IInv, Apart, NoPort
  <2>16. Labelled'
    <3>1. wire = "udp" => toPc' = << >> BY <2>2
    <3>2. wire = "udp" /\ mode = "owing" => Made(answer) BY DEF IInv, Labelled
    <3> QED BY <2>1, <3>1, <3>2 DEF Labelled
  <2>17. OneStep'
    <3>1. ASSUME wire # "udp", ~stale
          PROVE  /\ ~Asking' /\ ~Owing' /\ ~Answering'
      <4>1. ~Asking /\ ~Owing /\ ~Answering BY <1>2, <3>1 DEF IInv, OneStep
      <4>2. (Owing' => Owing) /\ (Answering' => Answering)
        BY <2>1, <2>2 DEF Owing, Answering, Carries
      <4> QED BY <4>1, <4>2, <2>8
    <3>2. ASSUME wire # "udp", ~stale
          PROVE  Single(toDsp', "INPUT_DATA") /\ Single(toPc', "OUTPUT_DATA")
      BY <3>1, <3>2 DEF Asking, Answering, Carries, Single
    <3> QED BY <2>1, <3>1, <3>2 DEF OneStep, Asking, Answering, Owing, Carries
  <2>18. Committed' BY <2>1, <2>4 DEF IInv, Committed, Steps
  <2> QED BY <2>10, <2>11, <2>12, <2>13, <2>14, <2>15, <2>16, <2>17, <2>18 DEF IInv
<1> QED BY <1>1, <1>2 DEF PcTerminate

\* mdlStart begins a simulation whose step 0 comes next, whatever is on the line.
LEMMA StartStep ==
    ASSUME IInv, PcStart
    PROVE  IInv'
<1> USE Bounds
<1> DEFINE f == Frame("SIM_START", Port(pc.sim + 1))
<1>1. /\ UNCHANGED wire /\ UNCHANGED faults /\ UNCHANGED mode
      /\ UNCHANGED running /\ UNCHANGED steps /\ UNCHANGED delivered
      /\ UNCHANGED answer /\ UNCHANGED fed
      /\ wire # "tcp" => UNCHANGED peer
      /\ wire = "tcp" => mode = "idle" /\ peer = NoPort /\ peer' = pc.sim + 1
  BY DEF PcStart, world, dsp
<1>2. /\ pc.state = "idle" /\ pc.sim < MaxSims /\ got' = << >>
      /\ pc' = [state |-> "starting", sim |-> pc.sim + 1, step |-> 0]
      /\ toDsp' = Append(toDsp, f) /\ Len(toDsp) < MaxFlight
      /\ toPc' \in IF wire = "serial" THEN Cut(toPc) ELSE {toPc}
      /\ stale' = (wire = "serial" /\ (Owing \/ Asking \/ Answering'))
  BY DEF PcStart, FirstStep, Owing, Asking, Answering
<1>3. pc \in [state : PcStates, sim : 0 .. MaxSims, step : 0 .. MaxSteps]
  BY DEF IInv, Typed
<1>4. /\ pc'.state = "starting" /\ pc'.sim = pc.sim + 1 /\ pc'.step = 0
      /\ pc.sim \in Nat /\ pc'.sim \in 1 .. MaxSims
      /\ pc' \in [state : PcStates, sim : 0 .. MaxSims, step : 0 .. MaxSteps]
  BY <1>2, <1>3 DEF PcStates
<1>5. f \in Frames /\ f.type = "SIM_START" /\ f.port \in 1 .. pc'.sim
  <2>1. << >> \in Seq(Named) OBVIOUS
  <2>2. Port(pc.sim + 1) \in 1 .. pc'.sim BY <1>4 DEF Port
  <2> QED BY <2>1, <2>2, <1>4 DEF Frame, Frames, FrameTypes
<1> HIDE DEF f
<1>6. toDsp \in Seq(Frames) /\ toPc \in Seq(Frames) /\ Len(toPc) <= MaxFlight
  BY DEF IInv, Typed
<1>7. /\ toDsp' \in Seq(Frames) /\ Len(toDsp') = Len(toDsp) + 1 /\ toDsp' # << >>
      /\ \A j \in DOMAIN toDsp : toDsp'[j] = toDsp[j]
      /\ toDsp'[Len(toDsp')] = f
      /\ DOMAIN toDsp = 1 .. Len(toDsp)
      /\ \A j \in DOMAIN toDsp' :
           (j \in DOMAIN toDsp /\ toDsp'[j] = toDsp[j]) \/ (j = Len(toDsp) + 1 /\ toDsp'[j] = f)
  BY <1>2, <1>5, <1>6, Appended
<1>8. /\ Asking' => Asking
      /\ Single(toDsp, "INPUT_DATA") => Single(toDsp', "INPUT_DATA")
  BY <1>2, <1>5, <1>6, AppendedKinds DEF Asking
<1>9. toPc' \in Seq(Frames) /\ Len(toPc') <= MaxFlight
  <2>1. CASE wire = "serial" BY <1>2, <1>6, <2>1, CutKeepsOrder
  <2>2. CASE wire # "serial" BY <1>2, <1>6, <2>2
  <2> QED BY <2>1, <2>2
<1>10. ASSUME NEW s, NEW k, Asked(pc, wire, s, k) PROVE Asked(pc', wire', s, k)
  <2>1. s \in 1 .. pc'.sim /\ s # pc'.sim BY <1>4, <1>10 DEF Asked
  <2> QED BY <1>1, <1>10, <2>1 DEF Asked
<1>11. Typed'
  <2>1. Len(toDsp') <= MaxFlight BY <1>2, <1>6, <1>7
  <2>2. peer' \in 0 .. MaxSims BY <1>1, <1>4 DEF IInv, Typed
  <2>3. got' \in Seq(Seq(Named)) /\ Len(got') = pc'.step BY <1>2, <1>4
  <2>4. stale' \in BOOLEAN BY <1>2
  <2> QED BY <1>1, <1>4, <1>7, <1>9, <2>1, <2>2, <2>3, <2>4 DEF IInv, Typed
<1>12. Owed' BY <1>1 DEF IInv, Owed
<1>13. OnlyAsked'
  <2>1. PcOn' => pc'.sim > 0 BY <1>4
  <2>2. pc'.state # "stepping" /\ pc'.step < StepMod BY <1>4
  <2>3. ASSUME NEW j \in DOMAIN toDsp'
        PROVE  /\ toDsp'[j].port \in 1 .. pc'.sim
               /\ toDsp'[j].type = "INPUT_DATA" =>
                    /\ Asked(pc', wire', Sim(toDsp'[j]), Nr(toDsp'[j]))
                    /\ toDsp'[j].port = Port(Sim(toDsp'[j]))
                    /\ toDsp'[j].step = Nr(toDsp'[j]) % StepMod
                    /\ toDsp'[j].of = <<<<Sim(toDsp'[j]), Nr(toDsp'[j])>>>>
    BY <1>4, <1>5, <1>7, <1>10 DEF IInv, OnlyAsked
  <2> QED BY <1>1, <2>1, <2>2, <2>3 DEF OnlyAsked, Sim, Nr, Port
<1>14. Fed'
  <2>1. fed # << >> /\ wire = "udp" => fed[1][1] = peer' BY <1>1 DEF IInv, Fed
  <2> QED BY <1>1, <1>10, <2>1 DEF IInv, Fed, Steps
<1>15. InOrder'
  <2>1. ASSUME wire # "udp", NEW j \in DOMAIN toDsp', toDsp'[j].type = "INPUT_DATA"
        PROVE  IF j = 1 THEN Ready(Sim(toDsp'[1]), Nr(toDsp'[1]))
               ELSE Before(toDsp'[j - 1], Sim(toDsp'[j]), Nr(toDsp'[j]))
    <3>1. j \in DOMAIN toDsp /\ toDsp'[j] = toDsp[j] BY <1>5, <1>7, <2>1
    <3>2. j # 1 => j - 1 \in DOMAIN toDsp BY <3>1, <1>6
    <3>3. j # 1 => toDsp'[j - 1] = toDsp[j - 1] BY <3>2, <1>7
    <3> QED BY <2>1, <3>1, <3>3 DEF IInv, InOrder
  <2>2. NextStep' = 0 BY <1>4 DEF NextStep
  <2>3. Before(toDsp'[Len(toDsp')], pc'.sim, 0) BY <1>5, <1>7 DEF Before
  <2> QED BY <1>1, <1>7, <2>1, <2>2, <2>3 DEF InOrder, Ready, Before, Sim, Nr, Steps
<1>16. Apart'
  <2>1. ~PcOn BY <1>2 DEF PcOn
  <2>2. wire # "serial" => toPc' = << >> BY <1>2, <2>1 DEF IInv, Apart
  <2>3. wire = "tcp" => peer' = pc'.sim /\ peer' # NoPort BY <1>1, <1>4 DEF NoPort
  <2> QED BY <1>1, <2>2, <2>3 DEF Apart, NoPort
<1>17. Labelled'
  <2>1. ~PcOn BY <1>2 DEF PcOn
  <2>2. wire = "udp" => toPc' = << >> BY <1>2, <2>1 DEF IInv, Apart
  <2>3. wire = "udp" /\ mode = "owing" => Made(answer) BY DEF IInv, Labelled
  <2> QED BY <1>1, <2>2, <2>3 DEF Labelled
<1>18. OneStep'
  <2>1. ASSUME wire # "udp", ~stale'
        PROVE  /\ ~Asking' /\ ~Owing' /\ ~Answering'
    <3>1. CASE wire = "serial"
      <4>1. ~Owing /\ ~Asking /\ ~Answering' BY <1>2, <2>1, <3>1
      <4>2. Owing' => Owing BY <1>1 DEF Owing
      <4> QED BY <4>1, <4>2, <1>8
    <3>2. CASE wire = "tcp"
      <4>1. ~Owing /\ toDsp = << >> BY <1>1, <3>2 DEF IInv, Apart, Owing
      <4>2. ~Asking BY <4>1 DEF Asking, Carries
      <4>3. ~PcOn BY <1>2 DEF PcOn
      <4>4. toPc' = << >> BY <1>2, <3>2, <4>3 DEF IInv, Apart
      <4>5. ~Answering' BY <4>4 DEF Answering, Carries
      <4>6. Owing' => Owing BY <1>1 DEF Owing
      <4> QED BY <4>1, <4>2, <4>5, <4>6, <1>8
    <3> QED BY <2>1, <3>1, <3>2 DEF IInv, Typed
  <2>2. ASSUME wire # "udp", ~stale'
        PROVE  Single(toDsp', "INPUT_DATA") /\ Single(toPc', "OUTPUT_DATA")
    BY <2>1, <2>2 DEF Asking, Answering, Carries, Single
  <2> QED BY <1>1, <2>1, <2>2 DEF OneStep, Asking, Answering, Owing, Carries
<1>19. Committed' BY <1>2 DEF Committed
<1> QED BY <1>11, <1>12, <1>13, <1>14, <1>15, <1>16, <1>17, <1>18, <1>19 DEF IInv

\* mdlOutputs sends the inputs of the step that is due.
LEMMA StepStep ==
    ASSUME IInv, PcStep
    PROVE  IInv'
<1> USE Bounds
<1>1. /\ UNCHANGED wire /\ UNCHANGED faults /\ UNCHANGED mode /\ UNCHANGED toPc
      /\ UNCHANGED running /\ UNCHANGED steps /\ UNCHANGED delivered /\ UNCHANGED peer
      /\ UNCHANGED answer /\ UNCHANGED fed /\ UNCHANGED stale /\ UNCHANGED got
  BY DEF PcStep, world, dsp
<1>2. /\ pc.state = "running" /\ pc.step < MaxSteps
      /\ wire = "udp" => pc.step + 1 < StepMod
      /\ pc' = [pc EXCEPT !.state = "stepping"]
  BY DEF PcStep, Enters
<1>3. pc \in [state : PcStates, sim : 0 .. MaxSims, step : 0 .. MaxSteps]
  BY DEF IInv, Typed
<1>4. /\ pc'.state = "stepping" /\ pc'.sim = pc.sim /\ pc'.step = pc.step
      /\ pc.sim \in Nat /\ pc.step \in Nat /\ pc.sim > 0
      /\ pc' \in [state : PcStates, sim : 0 .. MaxSims, step : 0 .. MaxSteps]
  BY <1>2, <1>3 DEF PcStates, IInv, OnlyAsked, PcOn
<1>5. /\ Input \in Frames /\ Input.type = "INPUT_DATA" /\ Input.port = Port(pc.sim)
      /\ Input.port \in 1 .. pc.sim /\ Input.step = pc.step % StepMod
      /\ Sim(Input) = pc.sim /\ Nr(Input) = pc.step
      /\ Input.of = <<<<pc.sim, pc.step>>>>
  <2>1. <<pc.sim, pc.step>> \in Named BY <1>4 DEF Named
  <2>2. <<<<pc.sim, pc.step>>>> \in Seq(Named) BY <2>1
  <2>3. PcPort = Port(pc.sim) /\ PcPort \in 1 .. pc.sim BY <1>2, <1>4 DEF PcPort, PcOn, Port
  <2>4. pc.step % StepMod \in Nat BY <1>4
  <2>5. <<<<pc.sim, pc.step>>>>[1] = <<pc.sim, pc.step>> OBVIOUS
  <2>6. <<pc.sim, pc.step>>[1] = pc.sim /\ <<pc.sim, pc.step>>[2] = pc.step OBVIOUS
  <2>7. /\ Input.type = "INPUT_DATA" /\ Input.port = PcPort /\ Input.step = pc.step % StepMod
        /\ Input.of = <<<<pc.sim, pc.step>>>>
    BY DEF Input
  <2>8. Input \in Frames BY <2>2, <2>3, <2>4, <1>4 DEF Input, Frames, FrameTypes
  <2>9. Sim(Input) = pc.sim /\ Nr(Input) = pc.step BY <2>5, <2>6, <2>7 DEF Sim, Nr
  <2> QED BY <2>3, <2>7, <2>8, <2>9
<1>6. toDsp \in Seq(Frames) BY DEF IInv, Typed
<1>7. /\ Len(toDsp) < MaxFlight
      /\ \/ wire = "tcp" /\ peer # Input.port /\ toDsp' = toDsp
         \/ (wire = "tcp" => peer = Input.port) /\ toDsp' = Append(toDsp, Input)
  BY DEF PcStep, PcSends
<1>8. ASSUME NEW s, NEW k, Asked(pc, wire, s, k) PROVE Asked(pc', wire', s, k)
  BY <1>1, <1>2, <1>4, <1>8 DEF Asked
<1>9. Owed' BY <1>1 DEF IInv, Owed
<1>10. Fed' BY <1>1, <1>8 DEF IInv, Fed, Steps
<1>11. Labelled'
  <2>1. ASSUME wire = "udp", NEW j \in DOMAIN toPc PROVE Made(toPc[j])
    BY <2>1 DEF IInv, Labelled
  <2>2. ASSUME wire = "udp", mode = "owing" PROVE Made(answer)
    BY <2>2 DEF IInv, Labelled
  <2> QED BY <1>1, <2>1, <2>2 DEF Labelled
<1>12. Committed' BY <1>1, <1>4 DEF IInv, Committed, Steps
<1>13. ASSUME wire # "udp", ~stale PROVE ~Asking /\ ~Owing /\ ~Answering
  BY <1>2, <1>13 DEF IInv, OneStep
<1>14. NextStep = pc.step /\ NextStep' = pc.step + 1 BY <1>2, <1>4 DEF NextStep
<1>15. PcOn /\ PcOn' BY <1>2, <1>4 DEF PcOn
<1>16. CASE wire = "tcp" /\ peer # Input.port /\ toDsp' = toDsp
  <2>1. peer = NoPort /\ mode = "idle" /\ toDsp = << >>
    BY <1>5, <1>16 DEF IInv, Apart, Port
  <2>2. ~running BY <2>1 DEF IInv, Owed
  <2>3. Typed' BY <1>1, <1>4, <1>16 DEF IInv, Typed
  <2>4. OnlyAsked' BY <1>1, <1>2, <1>4, <1>16, <2>1 DEF IInv, OnlyAsked
  <2>5. InOrder' BY <1>1, <1>15, <1>16, <2>1, <2>2 DEF InOrder, Ready
  <2>6. Apart' BY <1>1, <1>4, <1>15, <1>16 DEF IInv, Apart
  <2>7. OneStep'
    <3>1. stale = FALSE => ~Asking /\ ~Owing /\ ~Answering BY <1>13, <1>16
    <3> QED BY <1>1, <1>4, <1>16, <2>1, <3>1
        DEF OneStep, Asking, Answering, Owing, Carries, Single
  <2> QED BY <1>9, <1>10, <1>11, <1>12, <2>3, <2>4, <2>5, <2>6, <2>7 DEF IInv
<1>17. CASE (wire = "tcp" => peer = Input.port) /\ toDsp' = Append(toDsp, Input)
  <2>1. /\ toDsp' \in Seq(Frames) /\ Len(toDsp') = Len(toDsp) + 1 /\ toDsp' # << >>
        /\ \A j \in DOMAIN toDsp : toDsp'[j] = toDsp[j]
        /\ toDsp'[Len(toDsp')] = Input
        /\ DOMAIN toDsp = 1 .. Len(toDsp)
        /\ \A j \in DOMAIN toDsp' :
             (j \in DOMAIN toDsp /\ toDsp'[j] = toDsp[j])
             \/ (j = Len(toDsp) + 1 /\ toDsp'[j] = Input)
    BY <1>5, <1>6, <1>17, Appended
  <2>2. Typed'
    <3>1. Len(toDsp') <= MaxFlight BY <1>6, <1>7, <2>1
    <3> QED BY <1>1, <1>4, <2>1, <3>1 DEF IInv, Typed
  <2>3. OnlyAsked'
    <3>1. Asked(pc', wire', pc.sim, pc.step) BY <1>1, <1>2, <1>4 DEF Asked
    <3>2. ASSUME NEW j \in DOMAIN toDsp'
          PROVE  /\ toDsp'[j].port \in 1 .. pc'.sim
                 /\ toDsp'[j].type = "INPUT_DATA" =>
                      /\ Asked(pc', wire', Sim(toDsp'[j]), Nr(toDsp'[j]))
                      /\ toDsp'[j].port = Port(Sim(toDsp'[j]))
                      /\ toDsp'[j].step = Nr(toDsp'[j]) % StepMod
                      /\ toDsp'[j].of = <<<<Sim(toDsp'[j]), Nr(toDsp'[j])>>>>
      <4>1. CASE j \in DOMAIN toDsp /\ toDsp'[j] = toDsp[j]
        BY <1>4, <1>8, <4>1 DEF IInv, OnlyAsked
      <4>2. CASE toDsp'[j] = Input
        <5>1. Sim(toDsp'[j]) = pc.sim /\ Nr(toDsp'[j]) = pc.step BY <4>2, <1>5
        <5> QED BY <1>4, <1>5, <3>1, <4>2, <5>1
      <4> QED BY <2>1, <4>1, <4>2
    <3>3. pc'.sim > 0 /\ pc'.step < MaxSteps /\ (wire = "udp" => pc'.step + 1 < StepMod)
      BY <1>2, <1>4
    <3>4. wire = "udp" => pc'.step < StepMod BY <3>3, <1>4
    <3> QED BY <1>1, <3>2, <3>3, <3>4 DEF OnlyAsked, Sim, Nr, Port
  <2>4. InOrder'
    <3>1. ASSUME wire # "udp", NEW j \in DOMAIN toDsp', toDsp'[j].type = "INPUT_DATA"
          PROVE  IF j = 1 THEN Ready(Sim(toDsp'[1]), Nr(toDsp'[1]))
                 ELSE Before(toDsp'[j - 1], Sim(toDsp'[j]), Nr(toDsp'[j]))
      <4>1. CASE j \in DOMAIN toDsp /\ toDsp'[j] = toDsp[j]
        <5>1. j # 1 => j - 1 \in DOMAIN toDsp BY <4>1, <1>6
        <5>2. j # 1 => toDsp'[j - 1] = toDsp[j - 1] BY <5>1, <2>1
        <5> QED BY <3>1, <4>1, <5>2 DEF IInv, InOrder
      <4>2. CASE j = Len(toDsp) + 1 /\ toDsp'[j] = Input
        <5>1. CASE toDsp = << >>
          <6>1. j = 1 BY <4>2, <5>1
          <6>2. Ready(pc.sim, pc.step) BY <1>14, <1>15, <3>1, <5>1 DEF IInv, InOrder
          <6> QED BY <1>5, <4>2, <6>1, <6>2
        <5>2. CASE toDsp # << >>
          <6>1. Len(toDsp) \in DOMAIN toDsp BY <1>6, <5>2
          <6>2. j # 1 /\ j - 1 = Len(toDsp) BY <4>2, <6>1, <1>6
          <6>3. toDsp'[j - 1] = toDsp[Len(toDsp)] BY <6>1, <6>2, <2>1
          <6>4. Before(toDsp[Len(toDsp)], pc.sim, pc.step)
            BY <1>14, <1>15, <3>1, <5>2 DEF IInv, InOrder
          <6> QED BY <1>5, <4>2, <6>2, <6>3, <6>4
        <5> QED BY <5>1, <5>2
      <4> QED BY <2>1, <4>1, <4>2
    <3>2. Before(toDsp'[Len(toDsp')], pc'.sim, NextStep')
      BY <1>4, <1>5, <1>14, <2>1 DEF Before
    <3> QED BY <1>1, <2>1, <3>1, <3>2 DEF InOrder, Ready, Before, Sim, Nr, Steps
  <2>5. Apart'
    <3>1. wire = "tcp" => peer # NoPort BY <1>5, <1>17 DEF NoPort
    <3> QED BY <1>1, <1>4, <1>15, <3>1 DEF IInv, Apart
  <2>6. OneStep'
    <3>1. ASSUME wire # "udp", ~stale PROVE ~Owing' /\ ~Answering'
      BY <1>1, <1>13, <3>1 DEF Owing, Answering
    <3>2. ASSUME wire # "udp", ~stale
          PROVE  /\ Single(toDsp', "INPUT_DATA") /\ Single(toPc', "OUTPUT_DATA")
      <4>1. Single(toDsp, "INPUT_DATA") /\ Single(toPc, "OUTPUT_DATA")
        BY <3>2 DEF IInv, OneStep
      <4>2. ~Carries(toDsp, "INPUT_DATA") BY <1>13, <3>2 DEF Asking
      <4>3. Single(toDsp', "INPUT_DATA") BY <1>5, <1>6, <1>17, <4>1, <4>2, AppendedKinds
      <4> QED BY <4>1, <4>3, <1>1
    <3>3. ASSUME wire # "udp", ~stale, NEW j \in DOMAIN toDsp', toDsp'[j].type = "INPUT_DATA"
          PROVE  Sim(toDsp'[j]) = pc'.sim /\ Nr(toDsp'[j]) = pc'.step
      <4>1. ~Carries(toDsp, "INPUT_DATA") BY <1>13, <3>3 DEF Asking
      <4>2. toDsp'[j] = Input BY <2>1, <3>3, <4>1 DEF Carries
      <4> QED BY <1>4, <1>5, <4>2
    <3> QED BY <1>1, <1>4, <3>1, <3>2, <3>3 DEF OneStep, Asking, Answering, Owing, Carries, Sim, Nr
  <2> QED BY <1>9, <1>10, <1>11, <1>12, <2>2, <2>3, <2>4, <2>5, <2>6 DEF IInv
<1> QED BY <1>7, <1>16, <1>17

\* What an OUTPUT_DATA that answers the step was computed from.
LEMMA AnswerIsOwn ==
    ASSUME IInv, pc.state = "stepping", ~stale,
           NEW i \in DOMAIN toPc, toPc[i].port = PcPort, Answers(toPc[i])
    PROVE  toPc[i].of = Steps(pc.sim, pc.step + 1)
<1> USE Bounds
<1>1. toPc[i].type = "OUTPUT_DATA" /\ toPc[i].step = pc.step % StepMod BY DEF Answers
<1>2. CASE wire = "udp"
  <2>1. pc.step \in Nat /\ pc.step < StepMod BY <1>2 DEF IInv, Typed, OnlyAsked
  <2>2. toPc[i].step = pc.step BY <1>1, <2>1
  <2>3. toPc[i].port = pc.sim BY <1>2 DEF IInv, Apart
  <2>4. Made(toPc[i]) BY <1>2 DEF IInv, Labelled
  <2> QED BY <1>1, <2>2, <2>3, <2>4 DEF Made
<1>3. CASE wire # "udp" BY <1>1, <1>3 DEF IInv, OneStep
<1> QED BY <1>2, <1>3

\* mdlOutputs commits the outputs of the step it waits for.
LEMMA CommitStep ==
    ASSUME IInv, PcCommit
    PROVE  IInv'
<1> USE Bounds
<1>1. /\ UNCHANGED wire /\ UNCHANGED faults /\ UNCHANGED mode /\ UNCHANGED toDsp
      /\ UNCHANGED running /\ UNCHANGED steps /\ UNCHANGED delivered /\ UNCHANGED peer
      /\ UNCHANGED answer /\ UNCHANGED fed /\ UNCHANGED stale
  BY DEF PcCommit, world, dsp
<1>2. /\ pc.state = "stepping"
      /\ pc' = [pc EXCEPT !.state = "running", !.step = pc.step + 1]
  BY DEF PcCommit
<1>3. PICK i \in For(toPc, PcPort) :
        /\ Answers(toPc[i]) /\ got' = Append(got, toPc[i].of) /\ toPc' \in After(toPc, i)
  BY DEF PcCommit
<1>4. i \in DOMAIN toPc /\ toPc[i].port = PcPort BY DEF For, Deliverable
<1>5. pc \in [state : PcStates, sim : 0 .. MaxSims, step : 0 .. MaxSteps]
  BY DEF IInv, Typed
<1>6. /\ pc'.state = "running" /\ pc'.sim = pc.sim /\ pc'.step = pc.step + 1
      /\ pc.sim \in Nat /\ pc.step \in Nat /\ pc.sim > 0 /\ pc.step < MaxSteps
      /\ wire = "udp" => pc.step + 1 < StepMod
  BY <1>2, <1>5 DEF PcStates, IInv, OnlyAsked, PcOn
<1>7. pc' \in [state : PcStates, sim : 0 .. MaxSims, step : 0 .. MaxSteps]
  <2>1. pc.step + 1 \in 0 .. MaxSteps BY <1>6
  <2> QED BY <1>2, <1>5, <2>1 DEF PcStates
<1>8. toDsp \in Seq(Frames) /\ toPc \in Seq(Frames) /\ Len(toPc) <= MaxFlight
  BY DEF IInv, Typed
<1>9. /\ toPc' \in Seq(Frames) /\ Len(toPc') <= Len(toPc)
      /\ \A j \in DOMAIN toPc' : \E k \in DOMAIN toPc : toPc'[j] = toPc[k]
      /\ Single(toPc, "OUTPUT_DATA") => Single(toPc', "OUTPUT_DATA")
  <2>1. toPc' = toPc \/ \E k \in DOMAIN toPc : toPc' = RemoveAt(toPc, k)
    BY <1>3, <1>4, Afterwards
  <2> QED BY <1>8, <2>1, Fewer
<1>10. ASSUME NEW s, NEW k, Asked(pc, wire, s, k) PROVE Asked(pc', wire', s, k)
  <2>1. s = pc'.sim => k < pc'.step BY <1>6, <1>10 DEF Asked
  <2> QED BY <1>1, <1>6, <1>10, <2>1 DEF Asked
<1>11. PcOn /\ PcOn' /\ NextStep = pc.step + 1 /\ NextStep' = pc.step + 1
  BY <1>2, <1>6 DEF PcOn, NextStep
<1>12. toPc[i] \in Frames BY <1>4, <1>8
<1>13. got \in Seq(Seq(Named)) /\ Len(got) = pc.step /\ toPc[i].of \in Seq(Named)
  BY <1>12 DEF IInv, Typed, Frames
<1>14. got' \in Seq(Seq(Named)) /\ Len(got') = pc'.step BY <1>3, <1>6, <1>13
<1>15. Typed'
  <2>1. Len(toPc') <= MaxFlight BY <1>8, <1>9
  <2> QED BY <1>1, <1>7, <1>9, <1>14, <2>1 DEF IInv, Typed
<1>16. Owed' BY <1>1 DEF IInv, Owed
<1>17. OnlyAsked'
  <2>1. ASSUME NEW j \in DOMAIN toDsp
        PROVE  /\ toDsp[j].port \in 1 .. pc'.sim
               /\ toDsp[j].type = "INPUT_DATA" =>
                    /\ Asked(pc', wire', Sim(toDsp[j]), Nr(toDsp[j]))
                    /\ toDsp[j].port = Port(Sim(toDsp[j]))
                    /\ toDsp[j].step = Nr(toDsp[j]) % StepMod
                    /\ toDsp[j].of = <<<<Sim(toDsp[j]), Nr(toDsp[j])>>>>
    BY <1>6, <1>10 DEF IInv, OnlyAsked
  <2> QED BY <1>1, <1>6, <1>11, <2>1 DEF OnlyAsked, Sim, Nr, Port
<1>18. Fed' BY <1>1, <1>10 DEF IInv, Fed, Steps
<1>19. InOrder' BY <1>1, <1>6, <1>11 DEF IInv, InOrder, Ready, Before, Sim, Nr, Steps
<1>20. Apart' BY <1>1, <1>6, <1>9, <1>11 DEF IInv, Apart
<1>21. Labelled'
  <2>1. ASSUME wire = "udp", NEW j \in DOMAIN toPc' PROVE Made(toPc'[j])
    BY <1>9, <2>1 DEF IInv, Labelled
  <2>2. ASSUME wire = "udp", mode = "owing" PROVE Made(answer)
    BY <2>2 DEF IInv, Labelled
  <2> QED BY <1>1, <2>1, <2>2 DEF Labelled
<1>22. OneStep'
  <2>1. ASSUME wire # "udp", ~stale PROVE ~Asking /\ ~Owing /\ ~Answering'
    <3>1. Answering BY <1>3, <1>4 DEF Answering, Carries, Answers
    <3>2. ~Asking /\ ~Owing /\ Single(toPc, "OUTPUT_DATA")
      BY <2>1, <3>1 DEF IInv, OneStep
    <3>3. toPc' = RemoveAt(toPc, i) BY <1>3, <2>1, Afterwards
    <3>4. toPc[i].type = "OUTPUT_DATA" BY <1>3 DEF Answers
    <3>5. ~Carries(toPc', "OUTPUT_DATA") BY <1>4, <1>8, <3>2, <3>3, <3>4, RemovedKinds
    <3> QED BY <3>2, <3>5 DEF Answering
  <2>2. ASSUME wire # "udp", ~stale
        PROVE  Single(toDsp, "INPUT_DATA") /\ Single(toPc', "OUTPUT_DATA")
    BY <1>9, <2>2 DEF IInv, OneStep
  <2> QED BY <1>1, <2>1, <2>2 DEF OneStep, Asking, Answering, Owing, Carries, Single
<1>23. Committed'
  <2>1. ASSUME ~stale, NEW j \in DOMAIN got' PROVE got'[j] = Steps(pc.sim, j)
    <3>1. CASE j \in DOMAIN got
      <4>1. got'[j] = got[j] BY <1>3, <1>13, <3>1
      <4> QED BY <2>1, <3>1, <4>1 DEF IInv, Committed
    <3>2. CASE j = pc.step + 1
      <4>1. got'[j] = toPc[i].of BY <1>3, <1>13, <3>2
      <4>2. toPc[i].of = Steps(pc.sim, pc.step + 1) BY <1>2, <1>3, <1>4, <2>1, AnswerIsOwn
      <4> QED BY <3>2, <4>1, <4>2
    <3>3. j \in DOMAIN got \/ j = pc.step + 1 BY <1>6, <1>13, <1>14
    <3> QED BY <3>1, <3>2, <3>3
  <2> QED BY <1>1, <1>6, <2>1 DEF Committed, Steps
<1> QED BY <1>15, <1>16, <1>17, <1>18, <1>19, <1>20, <1>21, <1>22, <1>23 DEF IInv

\* ---- The block ----

\* Frames that are still there were asked for; what is left of one is no INPUT_DATA.
LEMMA Remaining ==
    ASSUME IInv, UNCHANGED pc, UNCHANGED wire,
           \A j \in DOMAIN toDsp' : (\E i \in DOMAIN toDsp : toDsp'[j] = toDsp[i])
                                    \/ (toDsp'[j] = Garbage /\ toDsp # << >>)
    PROVE  OnlyAsked'
<1> USE Bounds
<1>1. ASSUME NEW j \in DOMAIN toDsp'
      PROVE  /\ toDsp'[j].port \in 1 .. pc.sim
             /\ toDsp'[j].type = "INPUT_DATA" =>
                  /\ Asked(pc, wire, Sim(toDsp'[j]), Nr(toDsp'[j]))
                  /\ toDsp'[j].port = Port(Sim(toDsp'[j]))
                  /\ toDsp'[j].step = Nr(toDsp'[j]) % StepMod
                  /\ toDsp'[j].of = <<<<Sim(toDsp'[j]), Nr(toDsp'[j])>>>>
  <2>1. CASE \E i \in DOMAIN toDsp : toDsp'[j] = toDsp[i] BY <2>1 DEF IInv, OnlyAsked
  <2>2. CASE toDsp'[j] = Garbage /\ toDsp # << >>
    <3>1. 1 \in DOMAIN toDsp BY <2>2 DEF IInv, Typed
    <3>2. pc.sim > 0 /\ pc.sim \in Nat BY <3>1 DEF IInv, OnlyAsked, Typed
    <3> QED BY <2>2, <3>2, GarbageFrame
  <2> QED BY <2>1, <2>2
<1> QED BY <1>1 DEF IInv, OnlyAsked, Sim, Nr, Port, PcOn

\* A session begins.
LEMMA ConnectStep ==
    ASSUME IInv, DspConnect
    PROVE  IInv'
<1> USE Bounds
<1>1. /\ UNCHANGED wire /\ UNCHANGED faults /\ UNCHANGED pc /\ UNCHANGED toDsp
      /\ UNCHANGED toPc /\ UNCHANGED answer /\ UNCHANGED fed /\ UNCHANGED stale
      /\ UNCHANGED got /\ UNCHANGED running /\ UNCHANGED steps /\ UNCHANGED delivered
      /\ mode = "idle" /\ mode' = "open"
  BY DEF DspConnect, Dsp!Connect, Dsp!Become, world
<1>2. /\ wire = "tcp" => peer # NoPort /\ peer' = peer
      /\ wire # "tcp" => \E i \in DOMAIN toDsp : peer' = toDsp[i].port
  BY DEF DspConnect, Deliverable
<1>3. running = FALSE /\ fed = << >> BY <1>1 DEF IInv, Owed, Typed
<1>4. Typed'
  <2>1. peer' \in 0 .. MaxSims
    <3>1. pc.sim \in 0 .. MaxSims /\ peer \in 0 .. MaxSims BY DEF IInv, Typed
    <3>2. \A i \in DOMAIN toDsp : toDsp[i].port \in 1 .. pc.sim BY DEF IInv, OnlyAsked
    <3> QED BY <1>2, <3>1, <3>2
  <2> QED BY <1>1, <2>1 DEF IInv, Typed, Dsp!Modes
<1>5. Owed' BY <1>1, <1>3 DEF IInv, Owed
<1>6. OnlyAsked' BY <1>1, Remaining
<1>7. Fed' BY <1>1, <1>3 DEF Fed
<1>8. InOrder'
  <2>1. ASSUME NEW s, NEW k
        PROVE  (mode' \in {"open", "accepting", "owing"} /\ running') => fed' = Steps(s, k)
    BY <1>1, <1>3
  <2> QED BY <1>1, <1>3, <2>1 DEF IInv, InOrder, Ready, Before, Sim, Nr, PcOn, NextStep
<1>9. Apart' BY <1>1, <1>2 DEF IInv, Apart, PcOn
<1>10. Labelled' BY <1>1 DEF IInv, Labelled, Made, Steps
<1>11. OneStep' BY <1>1 DEF IInv, OneStep, Asking, Answering, Owing, Carries, Single, Sim, Nr, Steps
<1>12. Committed' BY <1>1 DEF IInv, Committed, Steps
<1> QED BY <1>4, <1>5, <1>6, <1>7, <1>8, <1>9, <1>10, <1>11, <1>12 DEF IInv

\* While no step is taken up, what is under way can only become less.
LEMMA NoStepBegins ==
    ASSUME IInv, UNCHANGED pc, UNCHANGED wire, UNCHANGED stale, UNCHANGED toPc,
           mode' # "owing",
           \A j \in DOMAIN toDsp' : toDsp'[j].type = "INPUT_DATA" =>
               \E i \in DOMAIN toDsp : toDsp'[j] = toDsp[i],
           Single(toDsp, "INPUT_DATA") => Single(toDsp', "INPUT_DATA")
    PROVE  OneStep'
<1>1. (Asking' => Asking) /\ ~Owing' /\ (Answering' => Answering)
  BY DEF Asking, Owing, Answering, Carries
<1>2. ASSUME wire # "udp", ~stale
      PROVE  /\ \A j \in DOMAIN toDsp' : toDsp'[j].type = "INPUT_DATA" =>
                  Sim(toDsp'[j]) = pc.sim /\ Nr(toDsp'[j]) = pc.step
             /\ \A i \in DOMAIN toPc : toPc[i].type = "OUTPUT_DATA" =>
                  toPc[i].of = Steps(pc.sim, pc.step + 1)
             /\ Single(toDsp', "INPUT_DATA") /\ Single(toPc, "OUTPUT_DATA")
  BY <1>2 DEF IInv, OneStep
<1>3. ASSUME wire # "udp", ~stale
      PROVE  /\ ~(Asking' /\ Answering')
             /\ pc.state \in {"starting", "running"} => ~Asking' /\ ~Answering'
  <2>1. /\ ~(Asking /\ Answering)
        /\ pc.state \in {"starting", "running"} => ~Asking /\ ~Answering
    BY <1>3 DEF IInv, OneStep
  <2> QED BY <1>1, <2>1
<1> QED BY <1>1, <1>2, <1>3 DEF OneStep, Sim, Nr, Steps, Owing, Single

\* A connection that was never accepted.
LEMMA ForgetStep ==
    ASSUME IInv, DspForgets
    PROVE  IInv'
<1> USE Bounds
<1>1. /\ UNCHANGED wire /\ UNCHANGED faults /\ UNCHANGED pc /\ UNCHANGED mode
      /\ UNCHANGED toPc /\ UNCHANGED answer /\ UNCHANGED fed /\ UNCHANGED stale
      /\ UNCHANGED got /\ UNCHANGED running /\ UNCHANGED steps /\ UNCHANGED delivered
      /\ mode = "idle" /\ wire = "tcp" /\ peer' = NoPort /\ toDsp' = << >>
  BY DEF DspForgets, dsp, world
<1>2. running = FALSE /\ fed = << >> BY <1>1 DEF IInv, Owed, Typed
<1>3. Typed' BY <1>1 DEF IInv, Typed, NoPort
<1>4. Owed' BY <1>1 DEF IInv, Owed
<1>5. OnlyAsked' BY <1>1, Remaining
<1>6. Fed' BY <1>1, <1>2 DEF Fed
<1>7. InOrder' BY <1>1, <1>2 DEF InOrder, Ready
<1>8. Apart' BY <1>1 DEF IInv, Apart, PcOn
<1>9. Labelled' BY <1>1 DEF Labelled
<1>10. OneStep'
  <2>1. Single(toDsp', "INPUT_DATA") BY <1>1 DEF Single
  <2> QED BY <1>1, <2>1, NoStepBegins
<1>11. Committed' BY <1>1 DEF IInv, Committed, Steps
<1> QED BY <1>3, <1>4, <1>5, <1>6, <1>7, <1>8, <1>9, <1>10, <1>11 DEF IInv

\* A frame is taken from the wire.
LEMMA TakenFacts ==
    ASSUME IInv, NEW i \in DOMAIN toDsp, toDsp' = RemoveAt(toDsp, i) \/ toDsp' = toDsp,
           UNCHANGED pc, UNCHANGED wire
    PROVE  /\ toDsp' \in Seq(Frames) /\ Len(toDsp') <= MaxFlight
           /\ \A j \in DOMAIN toDsp' : \E k \in DOMAIN toDsp : toDsp'[j] = toDsp[k]
           /\ Single(toDsp, "INPUT_DATA") => Single(toDsp', "INPUT_DATA")
           /\ OnlyAsked'
<1> USE Bounds
<1>1. toDsp \in Seq(Frames) /\ Len(toDsp) <= MaxFlight BY DEF IInv, Typed
<1>2. toDsp' = toDsp \/ \E k \in DOMAIN toDsp : toDsp' = RemoveAt(toDsp, k) OBVIOUS
<1>3. /\ toDsp' \in Seq(Frames) /\ Len(toDsp') <= Len(toDsp)
      /\ \A j \in DOMAIN toDsp' : \E k \in DOMAIN toDsp : toDsp'[j] = toDsp[k]
      /\ Single(toDsp, "INPUT_DATA") => Single(toDsp', "INPUT_DATA")
  BY <1>1, <1>2, Fewer
<1>4. OnlyAsked' BY <1>3, Remaining
<1>5. Len(toDsp') <= MaxFlight BY <1>1, <1>3
<1> QED BY <1>3, <1>4, <1>5

\* Where order is kept, the frame behind the one taken finds the block ready if taking
\* it made it so.
LEMMA TakenOrder ==
    ASSUME IInv, wire # "udp", UNCHANGED pc, UNCHANGED wire,
           toDsp # << >>, toDsp' = RemoveAt(toDsp, 1),
           \A s, k \in Nat : Before(toDsp[1], s, k) =>
               (mode' \in {"open", "accepting", "owing"} /\ running' => fed' = Steps(s, k))
    PROVE  InOrder'
<1> USE Bounds
<1>1. toDsp \in Seq(Frames) /\ pc.sim \in Nat /\ pc.step \in Nat /\ NextStep \in Nat
  BY DEF IInv, Typed, NextStep
<1>2. Len(toDsp) \in Nat \ {0} /\ 1 \in DOMAIN toDsp BY <1>1
<1>3. /\ toDsp' \in Seq(Frames) /\ Len(toDsp') = Len(toDsp) - 1
      /\ \A j \in DOMAIN toDsp' : toDsp'[j] = toDsp[IF j < 1 THEN j ELSE j + 1]
  BY <1>1, <1>2, Removed
<1>4. ASSUME NEW j \in DOMAIN toDsp'
      PROVE  j \in Nat /\ j >= 1 /\ j + 1 \in DOMAIN toDsp /\ toDsp'[j] = toDsp[j + 1]
  <2>1. j \in 1 .. Len(toDsp) - 1 BY <1>3
  <2>2. j + 1 \in DOMAIN toDsp BY <1>1, <1>2, <2>1
  <2>3. toDsp'[j] = toDsp[j + 1] BY <1>3, <2>1
  <2> QED BY <2>1, <2>2, <2>3
<1>5. ASSUME NEW j \in DOMAIN toDsp', toDsp'[j].type = "INPUT_DATA"
      PROVE  /\ j # 1 => Before(toDsp'[j - 1], Sim(toDsp'[j]), Nr(toDsp'[j]))
             /\ j = 1 => (mode' \in {"open", "accepting", "owing"} /\ running'
                            => fed' = Steps(Sim(toDsp'[1]), Nr(toDsp'[1])))
  <2>1. j + 1 \in DOMAIN toDsp /\ toDsp'[j] = toDsp[j + 1] /\ j + 1 # 1 /\ (j + 1) - 1 = j
    BY <1>4
  <2>2. Before(toDsp[j], Sim(toDsp[j + 1]), Nr(toDsp[j + 1]))
    BY <1>5, <2>1 DEF IInv, InOrder
  <2>3. CASE j # 1
    <3>1. j - 1 \in DOMAIN toDsp' BY <1>3, <2>3
    <3>2. toDsp'[j - 1] = toDsp[j] BY <1>4, <3>1
    <3> QED BY <2>1, <2>2, <2>3, <3>2
  <2>4. CASE j = 1
    <3>1. Sim(toDsp'[1]) \in Nat /\ Nr(toDsp'[1]) \in Nat
      BY <1>1, <1>5, <2>1, <2>4 DEF IInv, OnlyAsked, Asked
    <3> QED BY <2>1, <2>2, <2>4, <3>1
  <2> QED BY <2>3, <2>4
<1>6. ASSUME PcOn
      PROVE  /\ toDsp' = << >> => (mode' \in {"open", "accepting", "owing"} /\ running'
                                     => fed' = Steps(pc.sim, NextStep))
             /\ toDsp' # << >> => Before(toDsp'[Len(toDsp')], pc.sim, NextStep)
  <2>1. Before(toDsp[Len(toDsp)], pc.sim, NextStep) BY <1>6 DEF IInv, InOrder
  <2>2. CASE toDsp' = << >>
    <3>1. Len(toDsp) = 1 BY <1>2, <1>3, <2>2
    <3> QED BY <1>1, <2>1, <2>2, <3>1
  <2>3. CASE toDsp' # << >>
    <3>1. Len(toDsp') \in DOMAIN toDsp' BY <1>3, <2>3
    <3>2. toDsp'[Len(toDsp')] = toDsp[Len(toDsp)] BY <1>2, <1>3, <1>4, <3>1
    <3> QED BY <2>1, <2>3, <3>2
  <2> QED BY <2>2, <2>3
<1> QED BY <1>5, <1>6 DEF InOrder, Ready, Before, Sim, Nr, PcOn, NextStep, Steps

\* The step the block is about to compute is the next one of the simulation that feeds
\* the session.
LEMMA ReadyToCompute ==
    ASSUME IInv, mode = "open", running = TRUE, NEW i \in For(toDsp, peer),
           toDsp[i].type = "INPUT_DATA", Acceptable(toDsp[i])
    PROVE  /\ Sim(toDsp[i]) \in Nat /\ Nr(toDsp[i]) \in Nat
           /\ fed = Steps(Sim(toDsp[i]), Nr(toDsp[i]))
<1> USE Bounds
<1> DEFINE S == Sim(toDsp[i])  N == Nr(toDsp[i])
<1>1. i \in DOMAIN toDsp /\ toDsp[i].port = peer BY DEF For, Deliverable
<1>2. /\ Asked(pc, wire, S, N) /\ toDsp[i].port = Port(S) /\ toDsp[i].step = N % StepMod
  BY <1>1 DEF IInv, OnlyAsked
<1>3. pc.sim \in Nat BY DEF IInv, Typed
<1>4. S \in Nat /\ N \in Nat /\ (wire = "udp" => N + 1 < StepMod) BY <1>2, <1>3 DEF Asked
<1>5. CASE wire # "udp"
  <2>1. i = 1 BY <1>5 DEF For, Deliverable
  <2>2. Ready(S, N) BY <1>1, <1>5, <2>1 DEF IInv, InOrder
  <2> QED BY <1>4, <2>2 DEF Ready
<1>6. CASE wire = "udp"
  <2>1. toDsp[i].step = delivered % StepMod BY DEF Acceptable
  <2>2. delivered = Len(fed) /\ delivered \in Nat /\ fed \in Seq(Named)
    BY DEF IInv, Owed, Typed
  <2>3. N = delivered % StepMod BY <1>2, <1>4, <1>6, <2>1
  <2>4. S = peer BY <1>1, <1>2, <1>6 DEF Port
  <2>5. CASE fed = << >>
    <3>1. delivered = 0 BY <2>2, <2>5
    <3>2. N = 0 BY <2>3, <3>1
    <3> QED BY <1>4, <2>5, <3>2, StepsAre
  <2>6. CASE fed # << >>
    <3>1. /\ fed = Steps(peer, delivered)
          /\ Asked(pc, wire, peer, delivered - 1)
      BY <1>6, <2>2, <2>6 DEF IInv, Fed
    <3>2. delivered < StepMod BY <1>6, <2>2, <3>1 DEF Asked
    <3>3. N = delivered BY <2>2, <2>3, <3>2
    <3> QED BY <1>4, <2>4, <3>1, <3>3
  <2> QED BY <2>5, <2>6
<1> QED BY <1>5, <1>6

\* What all ways to serve a frame have in common.
Receives(i) ==
    /\ mode = "open" /\ i \in For(toDsp, peer) /\ toDsp' \in After(toDsp, i)
    /\ UNCHANGED <<world, pc, toPc, peer, stale, got>>

LEMMA ReceivedFacts ==
    ASSUME IInv, NEW i, Receives(i)
    PROVE  /\ UNCHANGED wire /\ UNCHANGED faults /\ UNCHANGED pc /\ UNCHANGED toPc
           /\ UNCHANGED peer /\ UNCHANGED stale /\ UNCHANGED got
           /\ i \in DOMAIN toDsp /\ toDsp[i].port = peer /\ toDsp[i] \in Frames
           /\ peer # NoPort /\ toDsp # << >>
           /\ wire # "udp" => i = 1 /\ toDsp' = RemoveAt(toDsp, 1)
           /\ toDsp' \in Seq(Frames) /\ Len(toDsp') <= MaxFlight
           /\ \A j \in DOMAIN toDsp' : \E k \in DOMAIN toDsp : toDsp'[j] = toDsp[k]
           /\ Single(toDsp, "INPUT_DATA") => Single(toDsp', "INPUT_DATA")
           /\ OnlyAsked'
           /\ Apart'
           /\ Committed'
<1> USE Bounds
<1>1. /\ UNCHANGED wire /\ UNCHANGED faults /\ UNCHANGED pc /\ UNCHANGED toPc
      /\ UNCHANGED peer /\ UNCHANGED stale /\ UNCHANGED got
  BY DEF Receives, world
<1>2. /\ i \in DOMAIN toDsp /\ toDsp[i].port = peer
      /\ wire # "udp" => i = 1
  BY DEF Receives, For, Deliverable
<1>3. toDsp' = RemoveAt(toDsp, i) \/ (wire = "udp" /\ toDsp' = toDsp)
  BY Afterwards DEF Receives
<1>4. /\ toDsp' \in Seq(Frames) /\ Len(toDsp') <= MaxFlight
      /\ \A j \in DOMAIN toDsp' : \E k \in DOMAIN toDsp : toDsp'[j] = toDsp[k]
      /\ Single(toDsp, "INPUT_DATA") => Single(toDsp', "INPUT_DATA")
      /\ OnlyAsked'
  BY <1>1, <1>2, <1>3, TakenFacts
<1>5. toDsp[i] \in Frames /\ toDsp # << >> BY <1>2 DEF IInv, Typed
<1>6. peer # NoPort BY <1>2 DEF IInv, OnlyAsked, NoPort
<1>7. Apart' BY <1>1, <1>6 DEF IInv, Apart, PcOn
<1>8. Committed' BY <1>1 DEF IInv, Committed, Steps
<1> QED BY <1>1, <1>2, <1>3, <1>4, <1>5, <1>6, <1>7, <1>8

\* A session that is over has nothing left that could be out of order.
LEMMA ReceiveEnd ==
    ASSUME IInv, NEW i, Receives(i), Ended
    PROVE  IInv'
<1>1. /\ UNCHANGED wire /\ UNCHANGED faults /\ UNCHANGED pc /\ UNCHANGED toPc
      /\ UNCHANGED peer /\ UNCHANGED stale /\ UNCHANGED got
      /\ peer # NoPort /\ toDsp # << >>
      /\ wire # "udp" => i = 1 /\ toDsp' = RemoveAt(toDsp, 1)
      /\ toDsp' \in Seq(Frames) /\ Len(toDsp') <= MaxFlight
      /\ \A j \in DOMAIN toDsp' : \E k \in DOMAIN toDsp : toDsp'[j] = toDsp[k]
      /\ Single(toDsp, "INPUT_DATA") => Single(toDsp', "INPUT_DATA")
  BY ReceivedFacts
<1>2. OnlyAsked' /\ Apart' /\ Committed' BY ReceivedFacts
<1>3. /\ mode' = "ending" /\ running' = FALSE /\ steps' = 0 /\ delivered' = 0
      /\ fed' = << >> /\ UNCHANGED answer
  BY DEF Ended, Dsp!End
<1>4. Typed'
  <2>1. << >> \in Seq(Named) /\ Len(<< >>) = 0 OBVIOUS
  <2> QED BY <1>1, <1>3, <2>1 DEF IInv, Typed, Dsp!Modes
<1>5. Owed' BY <1>3 DEF Owed
<1>6. Fed' BY <1>3 DEF Fed
<1>7. InOrder'
  <2>1. CASE wire # "udp" BY <1>1, <1>3, <2>1, TakenOrder
  <2>2. CASE wire = "udp" BY <1>1, <2>2 DEF InOrder
  <2> QED BY <2>1, <2>2
<1>8. Labelled' BY <1>1, <1>3 DEF IInv, Labelled, Made, Steps
<1>9. OneStep' BY <1>1, <1>3, NoStepBegins
<1> QED BY <1>2, <1>4, <1>5, <1>6, <1>7, <1>8, <1>9 DEF IInv

\* handle_sim_start.
LEMMA ReceiveStart ==
    ASSUME IInv, NEW i, Receives(i), toDsp[i].type = "SIM_START",
           Dsp!Start, answer' = Frame("RESPONSE_OK", toDsp[i].port), UNCHANGED fed
    PROVE  IInv'
<1>1. /\ UNCHANGED wire /\ UNCHANGED faults /\ UNCHANGED pc /\ UNCHANGED toPc
      /\ UNCHANGED peer /\ UNCHANGED stale /\ UNCHANGED got
      /\ i \in DOMAIN toDsp /\ toDsp[i].port = peer /\ toDsp[i] \in Frames
      /\ peer # NoPort /\ toDsp # << >>
      /\ wire # "udp" => i = 1 /\ toDsp' = RemoveAt(toDsp, 1)
      /\ toDsp' \in Seq(Frames) /\ Len(toDsp') <= MaxFlight
      /\ \A j \in DOMAIN toDsp' : \E k \in DOMAIN toDsp : toDsp'[j] = toDsp[k]
      /\ Single(toDsp, "INPUT_DATA") => Single(toDsp', "INPUT_DATA")
  BY ReceivedFacts
<1>2. OnlyAsked' /\ Apart' /\ Committed' BY ReceivedFacts
<1>3. /\ mode' = "accepting" /\ running' = TRUE /\ UNCHANGED steps /\ UNCHANGED delivered
      /\ mode = "open" /\ running = FALSE
  BY DEF Dsp!Start, Dsp!Become, IInv, Typed
<1>4. fed = << >> BY <1>3 DEF IInv, Owed
<1>5. answer' \in Frames /\ answer'.type = "RESPONSE_OK" /\ answer'.port = peer
  <2>1. << >> \in Seq(Named) /\ toDsp[i].port \in Nat BY <1>1 DEF Frames
  <2> QED BY <1>1, <2>1 DEF Frame, Frames, FrameTypes
<1>6. Typed' BY <1>1, <1>3, <1>5 DEF IInv, Typed, Dsp!Modes
<1>7. Owed' BY <1>1, <1>3, <1>4, <1>5 DEF IInv, Owed
<1>8. Fed' BY <1>4 DEF Fed
<1>9. InOrder'
  <2>1. CASE wire # "udp"
    <3>1. ASSUME NEW s \in Nat, NEW k \in Nat, Before(toDsp[1], s, k) PROVE fed' = Steps(s, k)
      <4>1. k = 0 BY <1>1, <2>1, <3>1 DEF Before
      <4> QED BY <1>4, <4>1, StepsAre
    <3> QED BY <1>1, <2>1, <3>1, TakenOrder
  <2>2. CASE wire = "udp" BY <1>1, <2>2 DEF InOrder
  <2> QED BY <2>1, <2>2
<1>10. Labelled' BY <1>1, <1>3 DEF IInv, Labelled, Made, Steps
<1>11. OneStep' BY <1>1, <1>3, NoStepBegins
<1> QED BY <1>2, <1>6, <1>7, <1>8, <1>9, <1>10, <1>11 DEF IInv

\* A frame that is refused.
LEMMA ReceiveReject ==
    ASSUME IInv, NEW i, Receives(i),
           Dsp!Reject, answer' = Frame("RESPONSE_ERROR", peer), UNCHANGED fed
    PROVE  IInv'
<1>1. /\ UNCHANGED wire /\ UNCHANGED faults /\ UNCHANGED pc /\ UNCHANGED toPc
      /\ UNCHANGED peer /\ UNCHANGED stale /\ UNCHANGED got
      /\ peer # NoPort /\ toDsp # << >>
      /\ wire # "udp" => i = 1 /\ toDsp' = RemoveAt(toDsp, 1)
      /\ toDsp' \in Seq(Frames) /\ Len(toDsp') <= MaxFlight
      /\ \A j \in DOMAIN toDsp' : \E k \in DOMAIN toDsp : toDsp'[j] = toDsp[k]
      /\ Single(toDsp, "INPUT_DATA") => Single(toDsp', "INPUT_DATA")
  BY ReceivedFacts
<1>2. OnlyAsked' /\ Apart' /\ Committed' BY ReceivedFacts
<1>3. /\ mode' = "rejecting" /\ UNCHANGED running /\ UNCHANGED steps /\ UNCHANGED delivered
      /\ mode = "open"
  BY DEF Dsp!Reject, Dsp!Become
<1>4. answer' \in Frames /\ answer'.type = "RESPONSE_ERROR" /\ answer'.port = peer
  <2>1. << >> \in Seq(Named) /\ peer \in Nat BY Bounds DEF IInv, Typed
  <2> QED BY <2>1 DEF Frame, Frames, FrameTypes
<1>5. Typed' BY <1>1, <1>3, <1>4 DEF IInv, Typed, Dsp!Modes
<1>6. Owed' BY <1>1, <1>3, <1>4 DEF IInv, Owed
<1>7. Fed' BY <1>1 DEF IInv, Fed, Steps
<1>8. InOrder'
  <2>1. CASE wire # "udp" BY <1>1, <1>3, <2>1, TakenOrder
  <2>2. CASE wire = "udp" BY <1>1, <2>2 DEF InOrder
  <2> QED BY <2>1, <2>2
<1>9. Labelled' BY <1>1, <1>3 DEF IInv, Labelled, Made, Steps
<1>10. OneStep' BY <1>1, <1>3, NoStepBegins
<1> QED BY <1>2, <1>5, <1>6, <1>7, <1>8, <1>9, <1>10 DEF IInv

\* handle_input_data: the algorithm computes the step the session has come to.
LEMMA ReceiveInput ==
    ASSUME IInv, NEW i, Receives(i), toDsp[i].type = "INPUT_DATA", Acceptable(toDsp[i]),
           Dsp!Compute, answer' = Output(toDsp[i]), fed' = fed \o toDsp[i].of
    PROVE  IInv'
<1> USE Bounds
<1> DEFINE S == Sim(toDsp[i])  N == Nr(toDsp[i])
<1>1. /\ UNCHANGED wire /\ UNCHANGED faults /\ UNCHANGED pc /\ UNCHANGED toPc
      /\ UNCHANGED peer /\ UNCHANGED stale /\ UNCHANGED got
      /\ i \in DOMAIN toDsp /\ toDsp[i].port = peer /\ toDsp[i] \in Frames
      /\ peer # NoPort /\ toDsp # << >>
      /\ wire # "udp" => i = 1 /\ toDsp' = RemoveAt(toDsp, 1)
      /\ toDsp' \in Seq(Frames) /\ Len(toDsp') <= MaxFlight
      /\ \A j \in DOMAIN toDsp' : \E k \in DOMAIN toDsp : toDsp'[j] = toDsp[k]
      /\ Single(toDsp, "INPUT_DATA") => Single(toDsp', "INPUT_DATA")
  BY ReceivedFacts
<1>2. OnlyAsked' /\ Apart' /\ Committed' BY ReceivedFacts
<1>3. /\ mode' = "owing" /\ UNCHANGED running /\ steps' = steps + 1 /\ UNCHANGED delivered
      /\ mode = "open" /\ running = TRUE /\ steps = delivered /\ steps \in Nat
  BY DEF Dsp!Compute, Dsp!Become, IInv, Typed
<1>4. S \in Nat /\ N \in Nat /\ fed = Steps(S, N)
  <2>1. i \in For(toDsp, peer) BY DEF Receives
  <2> QED BY <1>3, <2>1, ReadyToCompute
<1>5. /\ Asked(pc, wire, S, N) /\ toDsp[i].port = Port(S) /\ toDsp[i].step = N % StepMod
      /\ toDsp[i].of = <<<<S, N>>>>
  BY <1>1 DEF IInv, OnlyAsked
<1>6. fed' = Steps(S, N + 1) BY <1>4, <1>5, StepsGrow
<1>7. /\ Steps(S, N + 1) \in Seq(Named) /\ Len(Steps(S, N + 1)) = N + 1
      /\ Steps(S, N + 1)[1][1] = S
  BY <1>4, StepsAre
<1>8. Len(fed) = N /\ steps = N BY <1>4, StepsAre DEF IInv, Typed
<1>9. /\ answer'.type = "OUTPUT_DATA" /\ answer'.port = peer /\ answer'.step = N % StepMod
      /\ answer'.of = Steps(S, N + 1) /\ answer' \in Frames
  <2>1. answer' = [toDsp[i] EXCEPT !.type = "OUTPUT_DATA", !.of = Steps(S, N + 1)]
    BY <1>4, <1>5, StepsGrow DEF Output
  <2> QED BY <1>1, <1>5, <1>7, <2>1 DEF Frames, FrameTypes
<1> HIDE DEF S, N
<1>10. Typed'
  <2>1. fed' \in Seq(Named) /\ Len(fed') = steps' BY <1>3, <1>6, <1>7, <1>8
  <2>2. steps' \in Nat BY <1>3
  <2> QED BY <1>1, <1>3, <1>9, <2>1, <2>2 DEF IInv, Typed, Dsp!Modes
<1>11. Owed' BY <1>1, <1>3, <1>9 DEF IInv, Owed
<1>12. Fed'
  <2>1. fed'[1][1] = S /\ Len(fed') = N + 1 BY <1>6, <1>7
  <2>2. (N + 1) - 1 = N BY <1>4
  <2>3. wire = "udp" => S = peer BY <1>1, <1>5 DEF Port
  <2>4. /\ fed' = Steps(fed'[1][1], Len(fed'))
        /\ Asked(pc', wire', fed'[1][1], Len(fed') - 1)
        /\ wire = "udp" => fed'[1][1] = peer
    BY <1>1, <1>5, <1>6, <2>1, <2>2, <2>3
  <2> QED BY <1>1, <2>4 DEF Fed, Steps
<1>13. InOrder'
  <2>1. CASE wire # "udp"
    <3>1. ASSUME NEW s \in Nat, NEW k \in Nat, Before(toDsp[1], s, k) PROVE fed' = Steps(s, k)
      <4>1. s = S /\ k = N + 1 BY <1>1, <2>1, <3>1 DEF Before, S, N
      <4> QED BY <1>6, <4>1
    <3> QED BY <1>1, <2>1, <3>1, TakenOrder
  <2>2. CASE wire = "udp" BY <1>1, <2>2 DEF InOrder
  <2> QED BY <2>1, <2>2
<1>14. Labelled'
  <2>1. wire = "udp" => Made(answer')
    <3> SUFFICES ASSUME wire = "udp" PROVE Made(answer') OBVIOUS
    <3>1. N + 1 < StepMod BY <1>5 DEF Asked
    <3>2. answer'.step = N
      <4>1. N \in Nat /\ StepMod \in Nat /\ StepMod > 0 BY <1>4
      <4>2. N % StepMod = N BY <3>1, <4>1
      <4> QED BY <1>9, <4>2
    <3>3. S = peer BY <1>1, <1>5 DEF Port
    <3> QED BY <1>9, <3>1, <3>2, <3>3 DEF Made
  <2>2. \A j \in DOMAIN toPc : wire = "udp" => Made(toPc[j]) BY DEF IInv, Labelled
  <2> QED BY <1>1, <2>1, <2>2 DEF Labelled
<1>15. OneStep'
  <2>1. ASSUME wire # "udp", ~stale
        PROVE  /\ ~Answering /\ pc.state \notin {"starting", "running"}
               /\ S = pc.sim /\ N = pc.step
               /\ Single(toDsp, "INPUT_DATA")
    <3>1. Asking BY <1>1 DEF Asking, Carries
    <3>2. S = pc.sim /\ N = pc.step BY <1>1, <2>1 DEF IInv, OneStep, S, N
    <3> QED BY <2>1, <3>1, <3>2 DEF IInv, OneStep
  <2>2. ASSUME wire # "udp", ~stale
        PROVE  ~Carries(toDsp', "INPUT_DATA")
    <3>1. toDsp \in Seq(Frames) BY DEF IInv, Typed
    <3> QED BY <1>1, <2>1, <2>2, <3>1, RemovedKinds
  <2>3. ASSUME wire # "udp", ~stale
        PROVE  /\ Single(toDsp', "INPUT_DATA") /\ Single(toPc, "OUTPUT_DATA")
    BY <1>1, <2>1, <2>3 DEF IInv, OneStep
  <2>4. ASSUME wire # "udp", ~stale
        PROVE  answer'.of = Steps(pc.sim, pc.step + 1)
    BY <1>9, <2>1, <2>4
  <2> QED BY <1>1, <1>3, <2>1, <2>2, <2>3, <2>4
      DEF OneStep, Asking, Answering, Owing, Carries, Single, Sim, Nr
<1> QED BY <1>2, <1>10, <1>11, <1>12, <1>13, <1>14, <1>15 DEF IInv

LEMMA ReceiveStep ==
    ASSUME IInv, DspReceive
    PROVE  IInv'
<1>1. PICK i \in For(toDsp, peer) :
        /\ \/ Acceptable(toDsp[i]) /\ Served(toDsp[i])
           \/ ~Acceptable(toDsp[i]) /\ Rejected(toDsp[i])
           \/ "refuse" \in faults /\ toDsp[i].type # "SIM_STOP" /\ Rejected(toDsp[i])
        /\ toDsp' \in After(toDsp, i)
  BY DEF DspReceive
<1>2. Receives(i) BY <1>1 DEF DspReceive, Receives
<1>3. CASE Acceptable(toDsp[i]) /\ Served(toDsp[i])
  <2>1. CASE toDsp[i].type = "SIM_START" BY <1>2, <1>3, <2>1, ReceiveStart DEF Served
  <2>2. CASE toDsp[i].type = "INPUT_DATA" BY <1>2, <1>3, <2>2, ReceiveInput DEF Served
  <2>3. CASE toDsp[i].type = "SIM_STOP" BY <1>2, <1>3, <2>3, ReceiveEnd DEF Served
  <2> QED BY <1>3, <2>1, <2>2, <2>3 DEF Acceptable
<1>4. CASE Rejected(toDsp[i])
  <2>1. CASE wire = "udp" /\ HeaderRejected(toDsp[i])
    BY <1>2, <1>4, <2>1, ReceiveEnd DEF Rejected
  <2>2. CASE ~(wire = "udp" /\ HeaderRejected(toDsp[i]))
    BY <1>2, <1>4, <2>2, ReceiveReject DEF Rejected
  <2> QED BY <2>1, <2>2
<1> QED BY <1>1, <1>3, <1>4

\* A timeout or a failure ends the session.
LEMMA FailStep ==
    ASSUME IInv, DspTimesOut \/ DspFails
    PROVE  IInv'
<1>1. /\ UNCHANGED wire /\ UNCHANGED faults /\ UNCHANGED pc /\ UNCHANGED toPc
      /\ UNCHANGED peer /\ UNCHANGED stale /\ UNCHANGED got /\ UNCHANGED toDsp
      /\ UNCHANGED answer /\ mode # "idle"
      /\ mode' = "ending" /\ running' = FALSE /\ steps' = 0 /\ delivered' = 0
      /\ fed' = << >>
  BY DEF DspTimesOut, DspFails, PeerSilent, InSession, Ended, Dsp!End, world
<1>2. Typed'
  <2>1. << >> \in Seq(Named) /\ Len(<< >>) = 0 OBVIOUS
  <2> QED BY <1>1, <2>1 DEF IInv, Typed, Dsp!Modes
<1>3. Owed' BY <1>1 DEF Owed
<1>4. OnlyAsked' BY <1>1, Remaining
<1>5. Fed' BY <1>1 DEF Fed
<1>6. InOrder' BY <1>1 DEF IInv, InOrder, Ready, Before, Sim, Nr, PcOn, NextStep
<1>7. Apart' BY <1>1 DEF IInv, Apart, PcOn
<1>8. Labelled' BY <1>1 DEF IInv, Labelled, Made, Steps
<1>9. OneStep' BY <1>1, NoStepBegins
<1>10. Committed' BY <1>1 DEF IInv, Committed, Steps
<1> QED BY <1>2, <1>3, <1>4, <1>5, <1>6, <1>7, <1>8, <1>9, <1>10 DEF IInv

\* A datagram that is dropped or lost.
LEMMA LostStep ==
    ASSUME IInv, DspDrops \/ Lose
    PROVE  IInv'
<1>1. /\ UNCHANGED wire /\ UNCHANGED faults /\ UNCHANGED pc /\ UNCHANGED mode
      /\ UNCHANGED running /\ UNCHANGED steps /\ UNCHANGED delivered /\ UNCHANGED peer
      /\ UNCHANGED answer /\ UNCHANGED fed /\ UNCHANGED stale /\ UNCHANGED got
      /\ wire = "udp"
      /\ toDsp' = toDsp \/ \E i \in DOMAIN toDsp : toDsp' = RemoveAt(toDsp, i)
      /\ toPc' = toPc \/ \E i \in DOMAIN toPc : toPc' = RemoveAt(toPc, i)
  BY DEF DspDrops, Lose, dsp, world
<1>2. /\ toDsp \in Seq(Frames) /\ Len(toDsp) <= MaxFlight
      /\ toPc \in Seq(Frames) /\ Len(toPc) <= MaxFlight
  BY DEF IInv, Typed
<1>3. /\ toDsp' \in Seq(Frames) /\ Len(toDsp') <= Len(toDsp)
      /\ \A j \in DOMAIN toDsp' : \E k \in DOMAIN toDsp : toDsp'[j] = toDsp[k]
  BY <1>1, <1>2, Fewer
<1>4. /\ toPc' \in Seq(Frames) /\ Len(toPc') <= Len(toPc)
      /\ \A j \in DOMAIN toPc' : \E k \in DOMAIN toPc : toPc'[j] = toPc[k]
  BY <1>1, <1>2, Fewer
<1>5. Typed'
  <2>1. Len(toDsp') <= MaxFlight /\ Len(toPc') <= MaxFlight BY <1>2, <1>3, <1>4, Bounds
  <2> QED BY <1>1, <1>3, <1>4, <2>1 DEF IInv, Typed
<1>6. Owed' BY <1>1 DEF IInv, Owed
<1>7. OnlyAsked' BY <1>1, <1>3, Remaining
<1>8. Fed' BY <1>1 DEF IInv, Fed, Steps, Asked
<1>9. InOrder' BY <1>1 DEF InOrder
<1>10. Apart'
  <2>1. ~PcOn => toPc' = << >>
    <3>1. ~PcOn => toPc = << >> BY <1>1 DEF IInv, Apart
    <3>2. toPc = << >> => toPc' = << >> BY <1>2, <1>4
    <3> QED BY <3>1, <3>2
  <2>2. \A j \in DOMAIN toPc' : toPc'[j].port = pc.sim BY <1>1, <1>4 DEF IInv, Apart
  <2> QED BY <1>1, <2>1, <2>2 DEF Apart, PcOn
<1>11. Labelled'
  <2>1. ASSUME NEW j \in DOMAIN toPc' PROVE Made(toPc'[j]) BY <1>1, <1>4 DEF IInv, Labelled
  <2>2. mode = "owing" => Made(answer) BY <1>1 DEF IInv, Labelled
  <2> QED BY <1>1, <2>1, <2>2 DEF Labelled
<1>12. OneStep' BY <1>1 DEF OneStep
<1>13. Committed' BY <1>1 DEF IInv, Committed, Steps
<1> QED BY <1>5, <1>6, <1>7, <1>8, <1>9, <1>10, <1>11, <1>12, <1>13 DEF IInv

\* The answer leaves the block; a PC that is there for it finds it on the wire.
LEMMA SendStep ==
    ASSUME IInv, DspSend
    PROVE  IInv'
<1> USE Bounds
<1>1. /\ UNCHANGED wire /\ UNCHANGED faults /\ UNCHANGED pc /\ UNCHANGED toDsp
      /\ UNCHANGED peer /\ UNCHANGED answer /\ UNCHANGED stale /\ UNCHANGED got
      /\ answer.port = PcPort => Len(toPc) < MaxFlight
      /\ toPc' = Arriving(answer)
  BY DEF DspSend, world
<1>2. \/ /\ mode = "rejecting" /\ mode' = "ending"
         /\ running' = FALSE /\ steps' = 0 /\ delivered' = 0 /\ fed' = << >>
      \/ /\ mode = "accepting" /\ mode' = "open"
         /\ UNCHANGED running /\ UNCHANGED steps /\ UNCHANGED delivered /\ UNCHANGED fed
      \/ /\ mode = "owing" /\ mode' = "open" /\ delivered' = delivered + 1
         /\ UNCHANGED running /\ UNCHANGED steps /\ UNCHANGED fed
  BY DEF DspSend, Dsp!Accept, Dsp!Deliver, Dsp!End, Dsp!Become
<1>3. /\ mode \in {"accepting", "owing", "rejecting"} /\ mode' \in {"open", "ending"}
      /\ mode' = "open" => mode \in {"accepting", "owing"} /\ fed' = fed /\ running' = running
  BY <1>2
<1>4. /\ answer \in Frames /\ answer.port # NoPort
      /\ answer.type = "OUTPUT_DATA" <=> Owing
  BY <1>3 DEF IInv, Typed, Owed, Owing
<1>5. toPc \in Seq(Frames) /\ Len(toPc) <= MaxFlight BY DEF IInv, Typed
<1>6. \/ toPc' = toPc
      \/ /\ toPc' = Append(toPc, answer) /\ Len(toPc) < MaxFlight
         /\ wire # "serial" => PcOn /\ answer.port = pc.sim
  <2>1. answer.port = PcPort => PcOn BY <1>4 DEF PcPort
  <2>2. answer.port = PcPort /\ wire # "serial" => answer.port = pc.sim
    BY <2>1 DEF PcPort, Port
  <2> QED BY <1>1, <2>1, <2>2 DEF Arriving, Heard
<1>7. /\ toPc' \in Seq(Frames) /\ Len(toPc') <= MaxFlight
      /\ \A j \in DOMAIN toPc' :
           (\E k \in DOMAIN toPc : toPc'[j] = toPc[k])
           \/ (toPc'[j] = answer /\ (wire # "serial" => PcOn /\ answer.port = pc.sim))
      /\ Answering' => Answering \/ Owing
      /\ Single(toPc, "OUTPUT_DATA") /\ ~(Owing /\ Answering) => Single(toPc', "OUTPUT_DATA")
  <2>1. CASE toPc' = toPc BY <1>5, <2>1 DEF Answering
  <2>2. CASE /\ toPc' = Append(toPc, answer) /\ Len(toPc) < MaxFlight
             /\ wire # "serial" => PcOn /\ answer.port = pc.sim
    <3>1. /\ toPc' \in Seq(Frames) /\ Len(toPc') = Len(toPc) + 1
          /\ \A j \in DOMAIN toPc' :
               (j \in DOMAIN toPc /\ toPc'[j] = toPc[j]) \/ (j = Len(toPc) + 1 /\ toPc'[j] = answer)
      BY <1>4, <1>5, <2>2, Appended
    <3>2. /\ Answering' => Answering \/ Owing
          /\ Single(toPc, "OUTPUT_DATA") /\ ~(Owing /\ Answering)
               => Single(toPc', "OUTPUT_DATA")
      BY <1>4, <1>5, <2>2, AppendedKinds DEF Answering
    <3>3. Len(toPc') <= MaxFlight BY <1>5, <2>2, <3>1
    <3>4. \A j \in DOMAIN toPc' : (\E k \in DOMAIN toPc : toPc'[j] = toPc[k]) \/ toPc'[j] = answer
      BY <3>1
    <3> QED BY <2>2, <3>1, <3>2, <3>3, <3>4
  <2> QED BY <1>6, <2>1, <2>2
<1>8. Typed'
  <2>1. fed' \in Seq(Named) /\ Len(fed') = steps' /\ steps' \in Nat /\ delivered' \in Nat
    <3>1. << >> \in Seq(Named) /\ Len(<< >>) = 0 OBVIOUS
    <3>2. fed \in Seq(Named) /\ Len(fed) = steps /\ steps \in Nat /\ delivered \in Nat
      BY DEF IInv, Typed
    <3>3. CASE fed' = << >> /\ steps' = 0 /\ delivered' = 0 BY <3>1, <3>3
    <3>4. CASE fed' = fed /\ steps' = steps /\ delivered' \in {delivered, delivered + 1}
      BY <3>2, <3>4
    <3> QED BY <1>2, <3>3, <3>4
  <2>2. running' \in BOOLEAN /\ mode' \in Dsp!Modes BY <1>2 DEF IInv, Typed, Dsp!Modes
  <2> QED BY <1>1, <1>7, <2>1, <2>2 DEF IInv, Typed
<1>9. Owed' BY <1>1, <1>2 DEF IInv, Owed
<1>10. OnlyAsked' BY <1>1, Remaining
<1>11. Fed'
  <2>1. CASE fed' = << >> BY <2>1 DEF Fed
  <2>2. CASE fed' = fed BY <1>1, <2>2 DEF IInv, Fed, Steps, Asked
  <2> QED BY <1>2, <2>1, <2>2
<1>12. InOrder'
  <2>1. ASSUME NEW s, NEW k, Ready(s, k)
        PROVE  mode' \in {"open", "accepting", "owing"} /\ running' => fed' = Steps(s, k)
    BY <1>3, <2>1 DEF Ready
  <2>2. ASSUME wire # "udp", NEW j \in DOMAIN toDsp, toDsp[j].type = "INPUT_DATA"
        PROVE  IF j = 1 THEN Ready(Sim(toDsp[1]), Nr(toDsp[1]))
               ELSE Before(toDsp[j - 1], Sim(toDsp[j]), Nr(toDsp[j]))
    BY <2>2 DEF IInv, InOrder
  <2>3. wire # "udp" /\ PcOn =>
          IF toDsp = << >> THEN Ready(pc.sim, NextStep)
          ELSE Before(toDsp[Len(toDsp)], pc.sim, NextStep)
    BY DEF IInv, InOrder
  <2>4. ASSUME wire # "udp", NEW j \in DOMAIN toDsp', toDsp'[j].type = "INPUT_DATA"
        PROVE  /\ j # 1 => Before(toDsp'[j - 1], Sim(toDsp'[j]), Nr(toDsp'[j]))
               /\ j = 1 => (mode' \in {"open", "accepting", "owing"} /\ running'
                              => fed' = Steps(Sim(toDsp'[1]), Nr(toDsp'[1])))
    BY <1>1, <2>1, <2>2, <2>4
  <2>5. ASSUME wire # "udp", PcOn
        PROVE  /\ toDsp' = << >> => (mode' \in {"open", "accepting", "owing"} /\ running'
                                       => fed' = Steps(pc.sim, NextStep))
               /\ toDsp' # << >> => Before(toDsp'[Len(toDsp')], pc.sim, NextStep)
    BY <1>1, <2>1, <2>3, <2>5
  <2> QED BY <1>1, <2>4, <2>5 DEF InOrder, Ready, Before, Sim, Nr, PcOn, NextStep, Steps
<1>13. Apart'
  <2>1. wire # "serial" /\ ~PcOn => toPc' = << >> BY <1>6 DEF IInv, Apart
  <2>2. ASSUME wire # "serial", NEW j \in DOMAIN toPc' PROVE toPc'[j].port = pc.sim
    BY <1>7, <2>2 DEF IInv, Apart
  <2>3. wire = "tcp" => peer # NoPort BY <1>3 DEF IInv, Apart
  <2> QED BY <1>1, <2>1, <2>2, <2>3 DEF IInv, Apart, PcOn
<1>14. Labelled'
  <2>1. wire = "udp" => Made(answer)
    BY <1>4 DEF IInv, Labelled, Made, Owing
  <2>2. ASSUME wire = "udp", NEW j \in DOMAIN toPc' PROVE Made(toPc'[j])
    <3>1. CASE \E k \in DOMAIN toPc : toPc'[j] = toPc[k] BY <2>2, <3>1 DEF IInv, Labelled
    <3>2. CASE toPc'[j] = answer BY <2>1, <2>2, <3>2
    <3> QED BY <1>7, <3>1, <3>2
  <2>3. mode' # "owing" BY <1>3
  <2> QED BY <1>1, <2>2, <2>3 DEF Labelled
<1>15. OneStep'
  <2>1. ASSUME wire # "udp", ~stale
        PROVE  /\ \A j \in DOMAIN toDsp : toDsp[j].type = "INPUT_DATA" =>
                    Sim(toDsp[j]) = pc.sim /\ Nr(toDsp[j]) = pc.step
               /\ Owing => answer.of = Steps(pc.sim, pc.step + 1)
               /\ \A j \in DOMAIN toPc : toPc[j].type = "OUTPUT_DATA" =>
                    toPc[j].of = Steps(pc.sim, pc.step + 1)
               /\ Single(toDsp, "INPUT_DATA") /\ Single(toPc, "OUTPUT_DATA")
               /\ ~(Asking /\ Owing) /\ ~(Asking /\ Answering) /\ ~(Owing /\ Answering)
               /\ pc.state \in {"starting", "running"} => ~Asking /\ ~Owing /\ ~Answering
    BY <2>1 DEF IInv, OneStep
  <2>2. ASSUME wire # "udp", ~stale, NEW j \in DOMAIN toPc', toPc'[j].type = "OUTPUT_DATA"
        PROVE  toPc'[j].of = Steps(pc.sim, pc.step + 1)
    <3>1. CASE \E k \in DOMAIN toPc : toPc'[j] = toPc[k] BY <2>1, <2>2, <3>1
    <3>2. CASE toPc'[j] = answer BY <1>4, <2>1, <2>2, <3>2
    <3> QED BY <1>7, <3>1, <3>2
  <2>3. (Asking' => Asking) /\ ~Owing' BY <1>1, <1>3 DEF Asking, Owing, Carries
  <2>4. ASSUME wire # "udp", ~stale
        PROVE  /\ ~(Asking' /\ Answering')
               /\ pc.state \in {"starting", "running"} => ~Asking' /\ ~Answering'
    <3>1. Answering' => Answering \/ Owing BY <1>7
    <3> QED BY <2>1, <2>3, <2>4, <3>1
  <2>5. ASSUME wire # "udp", ~stale
        PROVE  Single(toDsp, "INPUT_DATA") /\ Single(toPc', "OUTPUT_DATA")
    BY <1>7, <2>1, <2>5
  <2> QED BY <1>1, <2>1, <2>2, <2>3, <2>4, <2>5 DEF OneStep, Sim, Nr, Steps, Single
<1>16. Committed' BY <1>1 DEF IInv, Committed, Steps
<1> QED BY <1>8, <1>9, <1>10, <1>11, <1>12, <1>13, <1>14, <1>15, <1>16 DEF IInv

\* The channel has closed; what had arrived is gone, on a serial line perhaps up to
\* the middle of a frame.
LEMMA ClosedStep ==
    ASSUME IInv, DspClosed
    PROVE  IInv'
<1> USE Bounds
<1>1. /\ UNCHANGED wire /\ UNCHANGED faults /\ UNCHANGED pc /\ UNCHANGED toPc
      /\ UNCHANGED answer /\ UNCHANGED fed /\ UNCHANGED stale /\ UNCHANGED got
      /\ UNCHANGED running /\ UNCHANGED steps /\ UNCHANGED delivered
      /\ mode = "ending" /\ mode' = "idle" /\ peer' = NoPort /\ toDsp' \in Cut(toDsp)
  BY DEF DspClosed, Dsp!Closed, Dsp!Become, world
<1>2. running = FALSE /\ fed = << >> BY <1>1 DEF IInv, Owed, Typed
<1>3. toDsp \in Seq(Frames) /\ Len(toDsp) <= MaxFlight BY DEF IInv, Typed
<1>4. wire = "udp" \/ wire \in {"tcp", "serial"} BY DEF IInv, Typed
<1>5. ASSUME wire # "udp"
      PROVE  \E n \in 0 .. Len(toDsp) :
               /\ toDsp' \in Seq(Frames) /\ Len(toDsp') = Len(toDsp) - n
               /\ \A j \in DOMAIN toDsp' :
                    toDsp'[j] = toDsp[j + n] \/ (j = 1 /\ toDsp'[j] = Garbage)
  BY <1>1, <1>3, <1>4, <1>5, CutKeepsOrder
<1>6. /\ toDsp' \in Seq(Frames) /\ Len(toDsp') <= Len(toDsp)
      /\ \A j \in DOMAIN toDsp' : (\E i \in DOMAIN toDsp : toDsp'[j] = toDsp[i])
                                  \/ (toDsp'[j] = Garbage /\ toDsp # << >>)
  <2>1. CASE wire = "udp" BY <1>1, <1>3, <2>1, CutOfUdp
  <2>2. CASE wire # "udp"
    <3> PICK n \in 0 .. Len(toDsp) :
          /\ toDsp' \in Seq(Frames) /\ Len(toDsp') = Len(toDsp) - n
          /\ \A j \in DOMAIN toDsp' :
               toDsp'[j] = toDsp[j + n] \/ (j = 1 /\ toDsp'[j] = Garbage)
      BY <1>5, <2>2
    <3>1. \A j \in DOMAIN toDsp' : j + n \in DOMAIN toDsp BY <1>3
    <3>2. \A j \in DOMAIN toDsp' : toDsp # << >> BY <3>1
    <3>3. Len(toDsp') <= Len(toDsp) BY <1>3
    <3> QED BY <3>1, <3>2, <3>3
  <2> QED BY <2>1, <2>2
<1>7. Typed'
  <2>1. Len(toDsp') <= MaxFlight BY <1>3, <1>6
  <2> QED BY <1>1, <1>6, <2>1 DEF IInv, Typed, Dsp!Modes, NoPort
<1>8. Owed' BY <1>1, <1>2 DEF IInv, Owed
<1>9. OnlyAsked' BY <1>1, <1>6, Remaining
<1>10. Fed' BY <1>1, <1>2 DEF Fed
<1>11. InOrder'
  <2>1. ASSUME wire # "udp"
        PROVE  /\ \A j \in DOMAIN toDsp' : toDsp'[j].type = "INPUT_DATA" /\ j # 1 =>
                    Before(toDsp'[j - 1], Sim(toDsp'[j]), Nr(toDsp'[j]))
               /\ PcOn /\ toDsp' # << >> => Before(toDsp'[Len(toDsp')], pc.sim, NextStep)
    <3> PICK n \in 0 .. Len(toDsp) :
          /\ toDsp' \in Seq(Frames) /\ Len(toDsp') = Len(toDsp) - n
          /\ \A j \in DOMAIN toDsp' :
               toDsp'[j] = toDsp[j + n] \/ (j = 1 /\ toDsp'[j] = Garbage)
      BY <1>5, <2>1
    <3>1. \A s, k : Before(Garbage, s, k) BY GarbageFrame DEF Before
    <3>2. ASSUME NEW j \in DOMAIN toDsp', toDsp'[j].type = "INPUT_DATA", j # 1
          PROVE  Before(toDsp'[j - 1], Sim(toDsp'[j]), Nr(toDsp'[j]))
      <4>1. /\ j \in Nat /\ j - 1 \in DOMAIN toDsp' /\ j + n \in DOMAIN toDsp /\ j + n # 1
            /\ (j - 1) + n = (j + n) - 1
        BY <1>3, <3>2
      <4>2. toDsp'[j] = toDsp[j + n] BY <3>2
      <4>3. Before(toDsp[(j + n) - 1], Sim(toDsp[j + n]), Nr(toDsp[j + n]))
        BY <2>1, <3>2, <4>1, <4>2 DEF IInv, InOrder
      <4>4. toDsp'[j - 1] = toDsp[(j - 1) + n] \/ toDsp'[j - 1] = Garbage BY <4>1
      <4> QED BY <3>1, <4>1, <4>2, <4>3, <4>4
    <3>3. ASSUME PcOn, toDsp' # << >>
          PROVE  Before(toDsp'[Len(toDsp')], pc.sim, NextStep)
      <4>1. Len(toDsp') \in DOMAIN toDsp' /\ Len(toDsp') + n = Len(toDsp) BY <1>3, <3>3
      <4>2. toDsp # << >> BY <1>3, <4>1
      <4>3. Before(toDsp[Len(toDsp)], pc.sim, NextStep) BY <2>1, <3>3, <4>2 DEF IInv, InOrder
      <4> QED BY <3>1, <4>1, <4>3
    <3> QED BY <3>2, <3>3
  <2> QED BY <1>1, <2>1 DEF InOrder, Ready, Before, Sim, Nr, PcOn, NextStep
<1>12. Apart'
  <2>1. wire = "tcp" => toDsp' = << >> BY <1>1 DEF Cut
  <2> QED BY <1>1, <2>1 DEF IInv, Apart, PcOn
<1>13. Labelled' BY <1>1 DEF IInv, Labelled, Made, Steps
<1>14. OneStep'
  <2>1. CASE wire = "udp" BY <1>1, <2>1 DEF OneStep
  <2>2. CASE wire # "udp"
    <3> PICK n \in 0 .. Len(toDsp) :
          /\ toDsp' \in Seq(Frames) /\ Len(toDsp') = Len(toDsp) - n
          /\ \A j \in DOMAIN toDsp' :
               toDsp'[j] = toDsp[j + n] \/ (j = 1 /\ toDsp'[j] = Garbage)
      BY <1>5, <2>2
    <3>1. ASSUME NEW j \in DOMAIN toDsp', toDsp'[j].type = "INPUT_DATA"
          PROVE  j \in Nat /\ j + n \in DOMAIN toDsp /\ toDsp'[j] = toDsp[j + n]
      <4>1. j \in Nat /\ j + n \in DOMAIN toDsp BY <1>3
      <4>2. toDsp'[j] # Garbage BY <3>1, GarbageFrame
      <4> QED BY <4>1, <4>2
    <3>2. Single(toDsp, "INPUT_DATA") => Single(toDsp', "INPUT_DATA")
      <4> SUFFICES ASSUME Single(toDsp, "INPUT_DATA"), NEW j \in DOMAIN toDsp',
                          NEW k \in DOMAIN toDsp', toDsp'[j].type = "INPUT_DATA",
                          toDsp'[k].type = "INPUT_DATA"
                   PROVE  j = k
        BY DEF Single
      <4>1. j + n = k + n BY <3>1 DEF Single
      <4> QED BY <3>1, <4>1
    <3>3. \A j \in DOMAIN toDsp' : toDsp'[j].type = "INPUT_DATA" =>
            \E i \in DOMAIN toDsp : toDsp'[j] = toDsp[i]
      BY <3>1
    <3> QED BY <1>1, <3>2, <3>3, NoStepBegins
  <2> QED BY <2>1, <2>2
<1>15. Committed' BY <1>1 DEF IInv, Committed, Steps
<1> QED BY <1>7, <1>8, <1>9, <1>10, <1>11, <1>12, <1>13, <1>14, <1>15 DEF IInv

\* ---- The invariant, and what follows ----

\* The S-function has a frame, or gives up.
LEMMA TurnStep ==
    ASSUME IInv, PcStarted \/ PcRefused \/ PcRejects \/ PcFails \/ PcVanishes
    PROVE  IInv'
<1>1. UNCHANGED <<world, toDsp, dsp, peer, answer, fed, stale, got>>
  BY DEF PcStarted, PcRefused, PcRejects, PcFails, PcVanishes
<1>2. \/ toPc' = (IF wire = "serial" THEN toPc ELSE << >>)
      \/ toPc' = toPc \/ \E i \in DOMAIN toPc : toPc' = RemoveAt(toPc, i)
  <2>1. CASE PcStarted
    <3>1. PICK i \in For(toPc, PcPort) : toPc' \in After(toPc, i) BY <2>1 DEF PcStarted
    <3>2. i \in DOMAIN toPc BY DEF For, Deliverable
    <3> QED BY <3>1, <3>2, Afterwards
  <2> QED BY <2>1 DEF PcRefused, PcRejects, PcFails, PcVanishes, PcCloses
<1>3. \/ toPc' = toPc \/ toPc' = << >> \/ \E i \in DOMAIN toPc : toPc' = RemoveAt(toPc, i)
  BY <1>2
<1>4. CASE PcStarted
  <2>1. Turns("running") BY <1>3, <1>4 DEF PcStarted, Turns, Enters
  <2> QED BY <1>1, <2>1, TurnsStep DEF PcStates
<1>5. CASE PcRefused \/ PcRejects \/ PcFails \/ PcVanishes
  <2>1. Turns("idle") \/ Turns("failed")
    BY <1>3, <1>5 DEF PcRefused, PcRejects, PcFails, PcVanishes, Turns, PcCloses, Enters
  <2> QED BY <1>1, <2>1, TurnsStep DEF PcStates
<1> QED BY <1>4, <1>5

LEMMA InitHolds ==
    ASSUME Init
    PROVE  IInv
<1> USE Bounds
<1>1. /\ wire \in Wires /\ faults \in FaultSets
      /\ pc = [state |-> "idle", sim |-> 0, step |-> 0]
      /\ toDsp = << >> /\ toPc = << >>
      /\ mode = "idle" /\ running = FALSE /\ steps = 0 /\ delivered = 0
      /\ peer = NoPort /\ answer = Garbage /\ fed = << >>
      /\ stale = FALSE /\ got = << >>
  BY DEF Init, Dsp!Init
<1>2. pc.state = "idle" /\ pc.sim = 0 /\ pc.step = 0 /\ ~PcOn BY <1>1 DEF PcOn
<1>3. wire \in {"tcp", "udp", "serial"} BY <1>1, WiresAssumption
<1>4. pc \in [state : PcStates, sim : 0 .. MaxSims, step : 0 .. MaxSteps]
  BY <1>1 DEF PcStates
<1>5. Typed
  <2>1. toDsp \in Seq(Frames) /\ Len(toDsp) <= MaxFlight BY <1>1
  <2>2. toPc \in Seq(Frames) /\ Len(toPc) <= MaxFlight BY <1>1
  <2>3. fed \in Seq(Named) /\ Len(fed) = steps BY <1>1
  <2>4. got \in Seq(Seq(Named)) /\ Len(got) = pc.step BY <1>1, <1>2
  <2>5. peer \in 0 .. MaxSims /\ answer \in Frames BY <1>1, GarbageFrame DEF NoPort
  <2>6. /\ mode \in Dsp!Modes /\ running \in BOOLEAN /\ steps \in Nat /\ delivered \in Nat
        /\ stale \in BOOLEAN
    BY <1>1 DEF Dsp!Modes
  <2> QED BY <1>1, <1>3, <1>4, <2>1, <2>2, <2>3, <2>4, <2>5, <2>6 DEF Typed
<1>6. Owed BY <1>1 DEF Owed
<1>7. OnlyAsked BY <1>1, <1>2 DEF OnlyAsked
<1>8. Fed BY <1>1 DEF Fed
<1>9. InOrder BY <1>1, <1>2 DEF InOrder
<1>10. Apart BY <1>1 DEF Apart
<1>11. Labelled BY <1>1 DEF Labelled
<1>12. OneStep BY <1>1 DEF OneStep, Owing, Asking, Answering, Carries, Single
<1>13. Committed BY <1>1 DEF Committed
<1> QED BY <1>5, <1>6, <1>7, <1>8, <1>9, <1>10, <1>11, <1>12, <1>13 DEF IInv

LEMMA Stutters ==
    ASSUME IInv, UNCHANGED vars
    PROVE  IInv'
<1>1. /\ UNCHANGED wire /\ UNCHANGED faults /\ UNCHANGED pc /\ UNCHANGED toDsp
      /\ UNCHANGED toPc /\ UNCHANGED mode /\ UNCHANGED running /\ UNCHANGED steps
      /\ UNCHANGED delivered /\ UNCHANGED peer /\ UNCHANGED answer /\ UNCHANGED fed
      /\ UNCHANGED stale /\ UNCHANGED got
  BY DEF vars, world, dsp
<1>2. Typed' BY <1>1 DEF IInv, Typed
<1>3. Owed' BY <1>1 DEF IInv, Owed
<1>4. OnlyAsked' BY <1>1, Remaining
<1>5. Fed' BY <1>1 DEF IInv, Fed, Steps, Asked
<1>6. InOrder' BY <1>1 DEF IInv, InOrder, Ready, Before, Sim, Nr, PcOn, NextStep, Steps
<1>7. Apart' BY <1>1 DEF IInv, Apart, PcOn
<1>8. Labelled' BY <1>1 DEF IInv, Labelled, Made, Steps
<1>9. OneStep' BY <1>1 DEF IInv, OneStep, Asking, Answering, Owing, Carries, Single, Sim, Nr, Steps
<1>10. Committed' BY <1>1 DEF IInv, Committed, Steps
<1> QED BY <1>2, <1>3, <1>4, <1>5, <1>6, <1>7, <1>8, <1>9, <1>10 DEF IInv

LEMMA StepHolds ==
    ASSUME IInv, [Next]_vars
    PROVE  IInv'
<1>1. CASE PcStart BY <1>1, StartStep
<1>2. CASE PcStarted \/ PcRefused \/ PcRejects \/ PcFails \/ PcVanishes BY <1>2, TurnStep
<1>3. CASE PcStep BY <1>3, StepStep
<1>4. CASE PcCommit BY <1>4, CommitStep
<1>5. CASE PcTerminate BY <1>5, TerminateStep
<1>6. CASE DspConnect BY <1>6, ConnectStep
<1>7. CASE DspForgets BY <1>7, ForgetStep
<1>8. CASE DspReceive BY <1>8, ReceiveStep
<1>9. CASE DspDrops \/ Lose BY <1>9, LostStep
<1>10. CASE DspSend BY <1>10, SendStep
<1>11. CASE DspTimesOut \/ DspFails BY <1>11, FailStep
<1>12. CASE DspClosed BY <1>12, ClosedStep
<1>13. CASE UNCHANGED vars BY <1>13, Stutters
<1> QED
  BY <1>1, <1>2, <1>3, <1>4, <1>5, <1>6, <1>7, <1>8, <1>9, <1>10, <1>11, <1>12, <1>13
  DEF Next, Pc, Block

LEMMA Inductive == Spec => []IInv
<1>1. Init => IInv BY InitHolds
<1>2. IInv /\ [Next]_vars => IInv' BY StepHolds
<1> QED BY <1>1, <1>2, PTL DEF Spec

\* The block never computes more steps than the S-function may ask for.
LEMMA InvTypeOK ==
    ASSUME IInv
    PROVE  TypeOK
<1> USE Bounds
<1>1. steps \in 0 .. MaxSteps
  <2>1. fed \in Seq(Named) /\ Len(fed) = steps /\ steps \in Nat BY DEF IInv, Typed
  <2>2. CASE fed = << >> BY <2>1, <2>2
  <2>3. CASE fed # << >>
    <3>1. Len(fed) - 1 < MaxSteps BY <2>3 DEF IInv, Fed, Asked
    <3> QED BY <2>1, <3>1
  <2> QED BY <2>2, <2>3
<1>2. delivered \in 0 .. steps BY DEF IInv, Typed, Owed
<1>3. pc \in [state : {"idle", "starting", "running", "stepping", "failed"},
              sim : 0 .. MaxSims, step : 0 .. MaxSteps]
  BY DEF IInv, Typed, PcStates
<1> QED BY <1>1, <1>2, <1>3 DEF IInv, Typed, TypeOK

LEMMA InvLockStep ==
    ASSUME IInv
    PROVE  LockStep
<1>1. ~stale => \A i \in DOMAIN got : got[i] = Steps(pc.sim, i) BY DEF IInv, Committed
<1>2. ASSUME PcOn, fed # << >>, fed[1][1] = pc.sim
      PROVE  \/ Len(fed) <= Len(got)
             \/ pc.state = "stepping" /\ Len(fed) = Len(got) + 1
  <2>1. /\ fed \in Seq(Named) /\ Len(got) = pc.step /\ pc.step \in 0 .. MaxSteps
    BY DEF IInv, Typed
  <2>2. Asked(pc, wire, pc.sim, Len(fed) - 1) BY <1>2 DEF IInv, Fed
  <2>3. \/ Len(fed) - 1 < pc.step
        \/ Len(fed) - 1 = pc.step /\ pc.state \notin {"starting", "running"}
    BY <2>2 DEF Asked
  <2>4. pc.state \notin {"starting", "running"} => pc.state = "stepping" BY <1>2 DEF PcOn
  <2> QED BY <2>1, <2>3, <2>4, Bounds
<1> QED BY <1>1, <1>2 DEF LockStep

\* Whatever the wires, the bounds and the faults, every variable has its type; the
\* block computes no more steps than the S-function may ask for.
THEOREM BridgeTypeCorrect == Spec => []TypeOK
<1>1. IInv => TypeOK BY InvTypeOK
<1> QED BY <1>1, Inductive, PTL

\* A session of the block is fed by one simulation only, from its step 0 on, every step
\* once and in order, though datagrams are lost, duplicated and reordered and frames of
\* simulations that ended are still on the line.
THEOREM OneSimulationCorrect == Spec => []OneSimulation
<1>1. IInv => OneSimulation BY DEF IInv, Fed, OneSimulation
<1> QED BY <1>1, Inductive, PTL

\* The outputs of a step are what the algorithm made of this simulation's inputs up to
\* that step, and the block is never ahead of the step the S-function waits for.
THEOREM BridgeLockStepCorrect == Spec => []LockStep
<1>1. IInv => LockStep BY InvLockStep
<1> QED BY <1>1, Inductive, PTL
====
