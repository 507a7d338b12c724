---- MODULE PcTransportProofs ----
(***************************************************************************)
(* Machine-checked proofs about PcTransport, for every frame length, every  *)
(* clock and every timeout.                                                 *)
(***************************************************************************)
EXTENDS PcTransport, TLAPS

\* ---- The inductive invariant, in parts ----

\* What is left of a frame is what is due and has not been moved.
Balance ==
    /\ Idle => staged = NoDatagram /\ (valid => hist.out = hist.outdue /\ hist.in = hist.indue)
    /\ ~Idle => valid
    /\ call.op = "send" => /\ hist.out + call.left = hist.outdue
                           /\ hist.in = hist.indue /\ staged = NoDatagram
    /\ call.op = "header" => /\ hist.out = hist.outdue /\ staged = NoDatagram
                             /\ hist.in + call.left = HeaderOctets
    /\ call.op = "payload" =>
         /\ hist.out = hist.outdue
         /\ IF kind = "udp"
            THEN hist.in = staged.size /\ hist.indue = HeaderOctets + staged.length
            ELSE hist.in + call.left = hist.indue /\ staged = NoDatagram

\* The deadline stands for the whole frame; a wait is armed to end near it.
Early == TickUnits + (IF kind = "serial" THEN 0 ELSE MsUnits)
Paced ==
    /\ ~Idle => /\ call.ms \in Timeouts
                /\ call.expires = Clock(call.start) + Duration(call.ms)
    /\ Waits => /\ Bounded /\ now <= call.wakes
                /\ call.wakes < Due + Grain /\ Due < call.wakes + Early

IInv == TypeOK /\ Balance /\ Paced

\* ---- Arithmetic ----

\* Division with remainder, and multiples.
LEMMA DivMod ==
    ASSUME NEW d \in Nat \ {0}, NEW t \in Nat
    PROVE  /\ t % d \in 0 .. d - 1 /\ t \div d \in Int
           /\ t = d * (t \div d) + (t % d)
OBVIOUS

LEMMA Distrib ==
    ASSUME NEW d \in Int, NEW a \in Int, NEW b \in Int
    PROVE  d * a - d * b = d * (a - b)
OBVIOUS

LEMMA Below ==
    ASSUME NEW d \in Nat \ {0}, NEW a \in Int, a > 0 PROVE d * a >= d
OBVIOUS

LEMMA Above ==
    ASSUME NEW d \in Nat \ {0}, NEW a \in Int, a < 0 PROVE d * a <= -d
<1>1. d * (-a) >= d BY Below
<1>2. d * (-a) = -(d * a) OBVIOUS
<1> QED BY <1>1, <1>2

LEMMA ProductNat == ASSUME NEW a \in Nat, NEW b \in Nat PROVE a * b \in Nat
OBVIOUS

LEMMA Grows ==
    ASSUME NEW d \in Nat \ {0}, NEW a \in Int, NEW b \in Int, a >= b
    PROVE  d * a >= d * b
<1>1. CASE a = b BY <1>1
<1>2. CASE a > b
  <2>1. d * (a - b) >= d BY <1>2, Below
  <2> QED BY <2>1, Distrib
<1> QED BY <1>1, <1>2

LEMMA Sum ==
    ASSUME NEW d \in Int, NEW a \in Int, NEW b \in Int
    PROVE  d * (a + b) = d * a + d * b
OBVIOUS

\* Rounding down, and up.
LEMMA FloorBounds ==
    ASSUME NEW d \in Nat \ {0}, NEW t \in Nat
    PROVE  /\ t \div d \in Nat
           /\ d * (t \div d) <= t /\ t < d * (t \div d) + d
<1>1. /\ t % d \in 0 .. d - 1 /\ t \div d \in Int
      /\ t = d * (t \div d) + (t % d)
  BY DivMod
<1>2. t \div d >= 0
  <2> SUFFICES ASSUME t \div d < 0 PROVE FALSE BY <1>1
  <2>1. d * (t \div d) <= -d BY <1>1, Above
  <2> QED BY <1>1, <2>1
<1> QED BY <1>1, <1>2

LEMMA RoundedUpBounds ==
    ASSUME NEW d \in Nat \ {0}, NEW n \in Nat
    PROVE  /\ RoundedUp(n, d) \in Nat
           /\ d * RoundedUp(n, d) >= n /\ d * RoundedUp(n, d) < n + d
<1>1. n + d - 1 \in Nat OBVIOUS
<1> DEFINE t == n + d - 1
<1>2. /\ t \div d \in Nat
      /\ d * (t \div d) <= t /\ t < d * (t \div d) + d
  BY <1>1, FloorBounds
<1> QED BY <1>2 DEF RoundedUp

LEMMA RoundedUpPositive ==
    ASSUME NEW d \in Nat \ {0}, NEW n \in Nat, n > 0 PROVE RoundedUp(n, d) >= 1
<1>1. /\ RoundedUp(n, d) \in Nat /\ d * RoundedUp(n, d) >= n
  BY RoundedUpBounds
<1>2. RoundedUp(n, d) # 0
  <2> SUFFICES ASSUME RoundedUp(n, d) = 0 PROVE FALSE OBVIOUS
  <2> QED BY <1>1
<1> QED BY <1>1, <1>2

\* A duration of n units kept in steps of d behind the step in which it starts: how it
\* relates to the step of another moment.
LEMMA Elapsed ==
    ASSUME NEW d \in Nat \ {0}, NEW s \in Nat, NEW t \in Nat, NEW n \in Nat
    PROVE  LET e == s \div d + RoundedUp(n, d)
           IN  /\ e \in Nat
               /\ t \div d >= e => s + n < t + d
               /\ d * (e - t \div d) < s + n - t + 2 * d
               /\ s + n - t - d < d * (e - t \div d)
<1> DEFINE f == s \div d  g == t \div d  c == RoundedUp(n, d)  e == f + c
<1>1. f \in Nat /\ d * f <= s /\ s < d * f + d BY FloorBounds
<1>2. g \in Nat /\ d * g <= t /\ t < d * g + d BY FloorBounds
<1>3. c \in Nat /\ d * c >= n /\ d * c < n + d BY RoundedUpBounds
<1> HIDE DEF f, g, c
<1>4. e \in Nat BY <1>1, <1>3
<1>5. d * e = d * f + d * c BY <1>1, <1>3, Sum
<1> HIDE DEF e
<1>6. d * (e - g) = d * e - d * g BY <1>2, <1>4, Distrib
<1>7. g >= e => d * g >= d * e BY <1>2, <1>4, Grows
<1>8. d * f \in Int /\ d * g \in Int /\ d * c \in Int /\ d * e \in Int
  BY <1>1, <1>2, <1>3, <1>4
<1>9. /\ g >= e => s + n < t + d
      /\ d * (e - g) < s + n - t + 2 * d
      /\ s + n - t - d < d * (e - g)
  BY <1>1, <1>2, <1>3, <1>5, <1>6, <1>7, <1>8
<1> QED BY <1>4, <1>9 DEF e, f, g, c

\* The millisecond clock of the sockets, cut to a tick and then to a millisecond.
LEMMA MsClockBounds ==
    ASSUME NEW t \in Nat
    PROVE  LET c == ((t \div TickUnits) * TickUnits) \div MsUnits
           IN  c \in Nat /\ MsUnits * c <= t /\ t < MsUnits * c + MsUnits + TickUnits
<1> USE TimeAssumption
<1> DEFINE g == t \div TickUnits  w == g * TickUnits  c == w \div MsUnits
<1>1. g \in Nat /\ TickUnits * g <= t /\ t < TickUnits * g + TickUnits BY FloorBounds
<1> HIDE DEF g
<1>2. w \in Nat /\ w = TickUnits * g BY <1>1
<1> HIDE DEF w
<1>3. c \in Nat /\ MsUnits * c <= w /\ w < MsUnits * c + MsUnits BY <1>2, FloorBounds
<1> HIDE DEF c
<1>4. MsUnits * c \in Nat BY <1>3, ProductNat
<1>5. c \in Nat /\ MsUnits * c <= t /\ t < MsUnits * c + MsUnits + TickUnits
  BY <1>1, <1>2, <1>3, <1>4
<1> QED BY <1>5 DEF c, w, g

LEMMA DeadlineTypes ==
    ASSUME NEW t \in Nat, NEW ms \in Timeouts
    PROVE  Clock(t) \in Nat /\ Duration(ms) \in Nat /\ ms * MsUnits \in Nat
<1> USE TimeAssumption
<1>1. ms \in Nat /\ ms * MsUnits \in Nat BY ProductNat
<1>2. t \div TickUnits \in Nat BY FloorBounds
<1>3. RoundedUp(ms * MsUnits, TickUnits) \in Nat BY <1>1, RoundedUpBounds
<1>4. ((t \div TickUnits) * TickUnits) \div MsUnits \in Nat BY MsClockBounds
<1> QED BY <1>1, <1>2, <1>3, <1>4 DEF Clock, Duration

\* ---- A deadline that has passed, and one that has not ----

LEMMA Overdue ==
    ASSUME TypeOK, Paced, ~Idle, Expired PROVE Due < now + Early
<1> USE TimeAssumption
<1> DEFINE s == call.start  ms == call.ms  n == ms * MsUnits
<1>1. s \in Nat /\ ms \in Timeouts /\ now \in Nat BY DEF TypeOK, Paced
<1>2. n \in Nat BY <1>1, ProductNat
<1>3. CASE kind = "serial"
  <2>1. now \div TickUnits >= s \div TickUnits + RoundedUp(n, TickUnits)
    BY <1>3 DEF Expired, Paced, Clock, Duration
  <2> HIDE DEF s, n
  <2>2. s + n < now + TickUnits BY <1>1, <1>2, <2>1, Elapsed
  <2> QED BY <1>3, <2>2 DEF Due, Early, s, n
<1>4. CASE kind # "serial"
  <2> DEFINE a == ((s \div TickUnits) * TickUnits) \div MsUnits
             b == ((now \div TickUnits) * TickUnits) \div MsUnits
  <2>1. b >= a + ms BY <1>4 DEF Expired, Paced, Clock, Duration
  <2> HIDE DEF s, ms
  <2>2. a \in Nat /\ s < MsUnits * a + MsUnits + TickUnits BY <1>1, MsClockBounds
  <2>3. b \in Nat /\ MsUnits * b <= now BY <1>1, MsClockBounds
  <2> HIDE DEF a, b
  <2>4. MsUnits * b >= MsUnits * (a + ms) BY <2>1, <2>2, <2>3, <1>1, Grows
  <2>5. MsUnits * (a + ms) = MsUnits * a + n BY <2>2, <1>1, Sum
  <2>6. MsUnits * a \in Nat /\ MsUnits * b \in Nat BY <2>2, <2>3, ProductNat
  <2> HIDE DEF n
  <2>7. s + n < now + TickUnits + MsUnits BY <1>1, <1>2, <2>2, <2>3, <2>4, <2>5, <2>6
  <2>8. Due = s + n BY DEF Due, s, n, ms
  <2>9. Early = TickUnits + MsUnits BY <1>4 DEF Early
  <2>10. MsUnits \in Nat OBVIOUS
  <2> QED BY <1>1, <2>7, <2>8, <2>9, <2>10
<1> QED BY <1>3, <1>4

LEMMA Arming ==
    ASSUME TypeOK, Paced, ~Idle, ~Expired
    PROVE  /\ RemainingMs \in Nat /\ RemainingMs >= 1
           /\ RemainingMs * MsUnits \in Nat
           /\ now + RemainingMs * MsUnits < Due + Grain
           /\ Due < now + RemainingMs * MsUnits + Early
<1> USE TimeAssumption
<1> DEFINE s == call.start  ms == call.ms  n == ms * MsUnits
<1>1. s \in Nat /\ ms \in Timeouts /\ now \in Nat BY DEF TypeOK, Paced
<1>2. n \in Nat BY <1>1, ProductNat
<1>3. CASE kind = "serial"
  <2> DEFINE g == now \div TickUnits
             e == s \div TickUnits + RoundedUp(n, TickUnits)
             x == (e - g) * TickUnits  r == RoundedUp(x, MsUnits)
  <2>1. ~(g >= e) /\ RemainingMs = r
    BY <1>3 DEF Expired, Paced, Clock, Duration, RemainingMs
  <2> HIDE DEF s, n
  <2>2. /\ e \in Nat
        /\ TickUnits * (e - g) < s + n - now + 2 * TickUnits
        /\ s + n - now - TickUnits < TickUnits * (e - g)
    BY <1>1, <1>2, Elapsed
  <2>3. g \in Nat BY <1>1, FloorBounds
  <2> HIDE DEF e, g
  <2>4. e - g \in Nat /\ e - g > 0 BY <2>1, <2>2, <2>3
  <2>5. x = TickUnits * (e - g) /\ x \in Nat BY <2>4, ProductNat
  <2>6. x > 0
    <3>1. TickUnits * (e - g) >= TickUnits BY <2>4, Below
    <3> QED BY <3>1, <2>5
  <2> HIDE DEF x
  <2>7. r \in Nat /\ MsUnits * r >= x /\ MsUnits * r < x + MsUnits BY <2>5, RoundedUpBounds
  <2>8. r >= 1 BY <2>5, <2>6, RoundedUpPositive
  <2> HIDE DEF r
  <2>9. r * MsUnits = MsUnits * r /\ r * MsUnits \in Nat BY <2>7
  <2>10. /\ now + r * MsUnits < s + n + (MsUnits + 2 * TickUnits)
         /\ s + n < now + r * MsUnits + TickUnits
    BY <1>1, <1>2, <2>2, <2>5, <2>7, <2>9
  <2> QED BY <1>3, <2>1, <2>7, <2>8, <2>9, <2>10 DEF Due, Early, Grain, s, n
<1>4. CASE kind # "serial"
  <2> DEFINE a == ((s \div TickUnits) * TickUnits) \div MsUnits
             b == ((now \div TickUnits) * TickUnits) \div MsUnits
             r == (a + ms) - b
  <2>1. ~(b >= a + ms) /\ RemainingMs = r
    BY <1>4 DEF Expired, Paced, Clock, Duration, RemainingMs
  <2> HIDE DEF s, ms
  <2>2. a \in Nat /\ MsUnits * a <= s /\ s < MsUnits * a + MsUnits + TickUnits
    BY <1>1, MsClockBounds
  <2>3. b \in Nat /\ MsUnits * b <= now /\ now < MsUnits * b + MsUnits + TickUnits
    BY <1>1, MsClockBounds
  <2> HIDE DEF a, b
  <2>4. r \in Nat /\ r >= 1 BY <2>1, <2>2, <2>3, <1>1
  <2>5. MsUnits * (a + ms) = MsUnits * a + n BY <2>2, <1>1, Sum
  <2>6. MsUnits * r = MsUnits * (a + ms) - MsUnits * b BY <2>2, <2>3, <1>1, Distrib
  <2>7. MsUnits * a \in Nat /\ MsUnits * b \in Nat BY <2>2, <2>3, ProductNat
  <2> HIDE DEF r, n
  <2>8. r * MsUnits = MsUnits * r /\ r * MsUnits \in Nat BY <2>4
  <2>9. /\ now + r * MsUnits < s + n + (MsUnits + 2 * TickUnits)
        /\ s + n < now + r * MsUnits + TickUnits + MsUnits
    BY <1>1, <1>2, <2>2, <2>3, <2>5, <2>6, <2>7, <2>8
  <2>10. Due = s + n BY DEF Due, s, n, ms
  <2>11. Early = TickUnits + MsUnits BY <1>4 DEF Early
  <2>12. RemainingMs = r BY <2>1
  <2> QED BY <1>1, <2>4, <2>8, <2>9, <2>10, <2>11, <2>12 DEF Grain
<1> QED BY <1>3, <1>4

\* ---- Types ----

CallType == [op : {"none", "send", "header", "payload"},
             at : {"check", "wait", "ready"},
             left : Nat, ms : Timeouts \union {0}, start : Nat,
             expires : Nat, armed : Nat, wakes : Nat]
HistType == [out : Nat, outdue : Nat, in : Nat, indue : Nat]
Datagrams == [size : Nat, length : Nat]

LEMMA NoCallType == NoCall \in CallType /\ NoDatagram \in Datagrams
BY DEF NoCall, CallType, NoDatagram, Datagrams

LEMMA BeginType ==
    ASSUME NEW op \in {"send", "header"}, NEW octets \in Nat, Begin(op, octets)
    PROVE  call' \in CallType /\ now' \in Nat
<1>1. PICK ms \in Timeouts, phase \in 0 .. TickUnits * MsUnits - 1 :
        /\ now' = phase
        /\ call' = [op |-> op, at |-> "check", left |-> octets, ms |-> ms,
                    start |-> phase, expires |-> Clock(phase) + Duration(ms),
                    armed |-> 0, wakes |-> 0]
  BY DEF Begin
<1>2. phase \in Nat BY ProductNat, TimeAssumption
<1>3. Clock(phase) + Duration(ms) \in Nat
  <2>1. Clock(phase) \in Nat /\ Duration(ms) \in Nat BY <1>2, DeadlineTypes
  <2> QED BY <2>1
<1> QED BY <1>1, <1>2, <1>3 DEF CallType

\* What one call moves is at most what is left, and at most what is there.
LEMMA MovedBounds ==
    ASSUME TypeOK, NEW n \in Nat, NEW available \in Nat, Moved(n, available)
    PROVE  n <= call.left /\ n <= available
BY DEF TypeOK, Moved, Lesser

LEMMA AnnouncedType ==
    ASSUME TypeOK, NEW n \in Nat, Announced(n)
    PROVE  /\ call' \in CallType /\ now' \in Nat
           /\ valid' \in BOOLEAN /\ outcome' \in {"none", "whole", "TIMEOUT", "ERROR"}
<1>1. call \in CallType /\ NoCall \in CallType BY NoCallType DEF TypeOK, CallType
<1>2. [call EXCEPT !.op = "payload", !.at = "check", !.left = n] \in CallType
  BY <1>1 DEF CallType
<1>3. valid \in BOOLEAN /\ now \in Nat /\ outcome \in {"none", "whole", "TIMEOUT", "ERROR"}
  BY DEF TypeOK
<1>4. CASE ~Acceptable(n)
  <2>1. call' = NoCall /\ now' = 0 /\ outcome' = "ERROR" /\ valid' = FALSE
    BY <1>4 DEF Announced
  <2> QED BY <1>1, <2>1
<1>5. CASE Acceptable(n) /\ n = 0
  BY <1>1, <1>3, <1>5 DEF Announced, Complete
<1>6. CASE Acceptable(n) /\ n # 0
  BY <1>2, <1>3, <1>6 DEF Announced
<1> QED BY <1>4, <1>5, <1>6

LEMMA TypeStep == TypeOK /\ Paced /\ [Next]_vars => TypeOK'
<1> SUFFICES ASSUME TypeOK, Paced, [Next]_vars PROVE TypeOK' OBVIOUS
<1> USE LengthsAssumption
<1>1. call \in CallType /\ hist \in HistType /\ staged \in Datagrams
  BY DEF TypeOK, CallType, HistType, Datagrams
<1>2. NoCall \in CallType /\ NoDatagram \in Datagrams BY NoCallType
<1>3. ASSUME NEW cause \in {"TIMEOUT", "ERROR"}, Fail(cause) PROVE TypeOK'
  BY <1>2, <1>3 DEF Fail, TypeOK, CallType, Datagrams
<1>4. CASE Open
  BY <1>4 DEF Open, TypeOK
<1>5. CASE SendFrame
  <2>1. call' \in CallType /\ now' \in Nat BY <1>5, BeginType DEF SendFrame
  <2>2. hist' \in HistType BY <1>1, <1>5 DEF SendFrame, HistType
  <2> QED BY <1>5, <2>1, <2>2 DEF SendFrame, TypeOK, CallType, HistType
<1>6. CASE ReceiveFrame
  <2>1. call' \in CallType /\ now' \in Nat BY <1>6, BeginType DEF ReceiveFrame
  <2>2. hist' \in HistType BY <1>1, <1>6 DEF ReceiveFrame, HistType
  <2> QED BY <1>6, <2>1, <2>2 DEF ReceiveFrame, TypeOK, CallType, HistType
<1>7. CASE Close BY <1>7 DEF Close, TypeOK
<1>8. CASE Wait
  <2>1. now \in Nat /\ RemainingMs \in Nat /\ RemainingMs * MsUnits \in Nat
    BY <1>8, Arming DEF Wait, Checks, TypeOK
  <2>2. now + RemainingMs * MsUnits \in Nat BY <2>1
  <2>3. call' = [call EXCEPT !.at = "wait", !.armed = RemainingMs,
                             !.wakes = now + RemainingMs * MsUnits]
    BY <1>8 DEF Wait
  <2>4. call' \in CallType BY <1>1, <2>1, <2>2, <2>3 DEF CallType
  <2> QED BY <1>8, <2>4 DEF Wait, TypeOK, CallType
<1>9. CASE SocketReady \/ TryAgain
  <2>1. call' \in CallType BY <1>1, <1>9 DEF SocketReady, TryAgain, Goto, CallType
  <2> QED BY <1>9, <2>1 DEF SocketReady, TryAgain, TypeOK, CallType
<1>10. CASE SendOctets
  <2>1. PICK space \in 0 .. call.left, n \in 0 .. call.left :
          /\ Moved(n, space)
          /\ hist' = [hist EXCEPT !.out = @ + n]
          /\ IF n = call.left THEN Complete
             ELSE /\ call' = [call EXCEPT !.at = "check", !.left = @ - n]
                  /\ UNCHANGED <<now, outcome>>
    BY <1>10 DEF SendOctets
  <2>2. n \in Nat /\ call.left \in Nat /\ call.left - n \in Nat /\ hist.out + n \in Nat
    BY <1>1 DEF CallType, HistType
  <2>3. hist' \in HistType BY <1>1, <2>1, <2>2 DEF HistType
  <2>4. call' \in CallType BY <1>1, <1>2, <2>1, <2>2 DEF Complete, CallType
  <2>5. now' \in Nat /\ outcome' \in {"none", "whole", "TIMEOUT", "ERROR"}
    <3>1. CASE n = call.left BY <2>1, <3>1 DEF Complete
    <3>2. CASE n # call.left BY <2>1, <3>2 DEF TypeOK
    <3> QED BY <3>1, <3>2
  <2>6. UNCHANGED <<kind, valid, staged, line>> BY <1>10 DEF SendOctets
  <2> QED BY <2>3, <2>4, <2>5, <2>6 DEF TypeOK, CallType, HistType
<1>11. CASE SendDatagram
  <2>1. hist.out + call.left \in Nat BY <1>1 DEF CallType, HistType
  <2>2. hist' \in HistType BY <1>1, <1>11, <2>1 DEF SendDatagram, HistType
  <2> QED BY <1>2, <1>11, <2>2 DEF SendDatagram, Complete, TypeOK, CallType, HistType
<1>12. CASE ReceiveOctets
  <2>1. PICK n \in 0 .. call.left :
          /\ Moved(n, line.rx)
          /\ line' = [line EXCEPT !.rx = @ - n]
          /\ IF n < call.left
             THEN /\ call' = [call EXCEPT !.at = "check", !.left = @ - n]
                  /\ hist' = [hist EXCEPT !.in = @ + n]
                  /\ UNCHANGED <<valid, now, outcome>>
             ELSE IF call.op = "payload"
             THEN /\ Complete
                  /\ hist' = [hist EXCEPT !.in = @ + n]
                  /\ UNCHANGED valid
             ELSE \E length \in Lengths :
                    /\ hist' = [hist EXCEPT !.in = @ + n, !.indue = HeaderOctets + length]
                    /\ Announced(length)
    BY <1>12 DEF ReceiveOctets, Taken
  <2>2. n \in Nat /\ call.left - n \in Nat /\ hist.in + n \in Nat
    BY <1>1 DEF CallType, HistType
  <2>3. line.rx - n \in Nat
    <3>1. line.rx \in Nat BY DEF TypeOK
    <3>2. n <= line.rx
      <4>1. Moved(n, line.rx) BY <2>1
      <4> QED BY <2>2, <3>1, <4>1, MovedBounds
    <3> QED BY <2>2, <3>1, <3>2
  <2>4. line' \in [rx : Nat, up : BOOLEAN, queue : Seq(Datagrams)]
    BY <2>1, <2>3 DEF TypeOK, Datagrams
  <2>5. \A length \in Lengths : HeaderOctets + length \in Nat OBVIOUS
  <2>6. hist' \in HistType BY <1>1, <2>1, <2>2, <2>5 DEF HistType
  <2>7. /\ call' \in CallType /\ now' \in Nat /\ valid' \in BOOLEAN
        /\ outcome' \in {"none", "whole", "TIMEOUT", "ERROR"}
    <3>1. CASE n < call.left
      <4>1. call' = [call EXCEPT !.at = "check", !.left = @ - n] /\ UNCHANGED <<valid, now, outcome>>
        BY <2>1, <3>1
      <4>2. call' \in CallType BY <1>1, <2>2, <4>1 DEF CallType
      <4> QED BY <4>1, <4>2 DEF TypeOK
    <3>2. CASE ~(n < call.left) /\ call.op = "payload"
      BY <1>2, <2>1, <3>2 DEF Complete, TypeOK
    <3>3. CASE ~(n < call.left) /\ call.op # "payload"
      BY <2>1, <3>3, AnnouncedType
    <3> QED BY <3>1, <3>2, <3>3
  <2> QED BY <1>1, <1>12, <2>4, <2>6, <2>7
          DEF ReceiveOctets, TypeOK, CallType, HistType, Datagrams
<1>13. CASE ReceiveHeader
  <2> DEFINE d == Head(line.queue)
  <2>1. d \in Datagrams /\ Tail(line.queue) \in Seq(Datagrams)
    <3>1. line.queue \in Seq(Datagrams) BY DEF TypeOK, Datagrams
    <3>2. line.queue # << >> BY <1>13 DEF ReceiveHeader, TakesDatagram
    <3> QED BY <3>1, <3>2
  <2>2. /\ hist' = [hist EXCEPT !.in = d.size, !.indue = HeaderOctets + d.length]
        /\ staged' = IF d.length = 0 \/ ~Acceptable(d.length) THEN NoDatagram ELSE d
        /\ Announced(d.length)
        /\ line' = [line EXCEPT !.queue = Tail(@)] /\ kind' = kind
    BY <1>13 DEF ReceiveHeader
  <2> HIDE DEF d
  <2>3. d.size \in Nat /\ d.length \in Nat /\ HeaderOctets + d.length \in Nat
    BY <2>1 DEF Datagrams
  <2>4. hist' \in HistType BY <1>1, <2>2, <2>3 DEF HistType
  <2>5. staged' \in Datagrams BY <1>2, <2>1, <2>2
  <2>6. line' \in [rx : Nat, up : BOOLEAN, queue : Seq(Datagrams)]
    BY <2>1, <2>2 DEF TypeOK, Datagrams
  <2>7. /\ call' \in CallType /\ now' \in Nat /\ valid' \in BOOLEAN
        /\ outcome' \in {"none", "whole", "TIMEOUT", "ERROR"}
    BY <2>2, <2>3, AnnouncedType
  <2> QED BY <2>2, <2>4, <2>5, <2>6, <2>7 DEF TypeOK, CallType, HistType, Datagrams
<1>14. CASE ReceivePayload
  BY <1>2, <1>14 DEF ReceivePayload, Complete, TypeOK, CallType, Datagrams
<1>15. CASE OctetArrives
  <2>1. line.rx + 1 \in Nat BY DEF TypeOK
  <2>2. line' = [line EXCEPT !.rx = line.rx + 1] BY <1>15 DEF OctetArrives
  <2>3. line' \in [rx : Nat, up : BOOLEAN, queue : Seq([size : Nat, length : Nat])]
    BY <2>1, <2>2 DEF TypeOK
  <2> QED BY <1>15, <2>3 DEF OctetArrives, TypeOK
<1>16. CASE PeerCloses
  <2>1. line' \in [rx : Nat, up : BOOLEAN, queue : Seq([size : Nat, length : Nat])]
    BY <1>16 DEF PeerCloses, TypeOK
  <2> QED BY <1>16, <2>1 DEF PeerCloses, TypeOK
<1>17. CASE DatagramArrives
  <2>1. PICK size \in Sizes, length \in Lengths :
          line' = [line EXCEPT !.queue = Append(@, [size |-> size, length |-> length])]
    BY <1>17 DEF DatagramArrives
  <2>2. [size |-> size, length |-> length] \in Datagrams BY DEF Datagrams
  <2>3. Append(line.queue, [size |-> size, length |-> length]) \in Seq(Datagrams)
    BY <2>2 DEF TypeOK, Datagrams
  <2>4. line' \in [rx : Nat, up : BOOLEAN, queue : Seq(Datagrams)]
    BY <2>1, <2>3 DEF TypeOK, Datagrams
  <2> QED BY <1>17, <2>4 DEF DatagramArrives, TypeOK, Datagrams
<1>18. CASE Tick
  <2>1. now + 1 \in Nat BY DEF TypeOK
  <2> QED BY <1>18, <2>1 DEF Tick, TypeOK
<1>19. CASE UNCHANGED vars BY <1>19 DEF vars, TypeOK
<1> QED
  BY <1>3, <1>4, <1>5, <1>6, <1>7, <1>8, <1>9, <1>10, <1>11, <1>12, <1>13, <1>14, <1>15,
     <1>16, <1>17, <1>18, <1>19
     DEF Next, Transfer, DeadlineFails, CheckExpired, SocketTimeout, Disconnected,
         ReceiveBadDatagram, ReceiveBadPayload, SystemFails

\* ---- The balance of a frame ----

LEMMA BalanceStep == TypeOK /\ Balance /\ [Next]_vars => Balance'
<1> SUFFICES ASSUME TypeOK, Balance, [Next]_vars PROVE Balance' OBVIOUS
<1> USE LengthsAssumption
<1>1. call \in CallType /\ hist \in HistType BY DEF TypeOK, CallType, HistType
<1>2. NoCall.op = "none" BY DEF NoCall
<1>3. ASSUME NEW cause, Fail(cause) PROVE Balance'
  BY <1>2, <1>3 DEF Fail, Balance, Idle
<1>4. CASE Open BY <1>4 DEF Open, Balance, Idle
<1>5. CASE SendFrame
  <2>1. call'.op = "send" /\ call'.left = FrameOctets BY <1>5 DEF SendFrame, Begin
  <2>2. /\ hist'.out = 0 /\ hist'.outdue = FrameOctets
        /\ hist'.in = hist.in /\ hist'.indue = hist.indue
    BY <1>1, <1>5 DEF SendFrame, HistType
  <2> QED BY <1>5, <2>1, <2>2 DEF SendFrame, Balance, Idle
<1>6. CASE ReceiveFrame
  <2>1. call'.op = "header" /\ call'.left = HeaderOctets BY <1>6 DEF ReceiveFrame, Begin
  <2>2. /\ hist'.out = hist.out /\ hist'.outdue = hist.outdue
        /\ hist'.in = 0 /\ hist'.indue = HeaderOctets
    BY <1>1, <1>6 DEF ReceiveFrame, HistType
  <2> QED BY <1>6, <2>1, <2>2 DEF ReceiveFrame, Balance, Idle
<1>7. CASE Close BY <1>7 DEF Close, Balance, Idle
<1>8. CASE Wait \/ SocketReady \/ TryAgain
  <2>1. call'.op = call.op /\ call'.left = call.left
    BY <1>1, <1>8 DEF Wait, SocketReady, TryAgain, Goto, CallType
  <2> QED BY <1>8, <2>1 DEF Wait, SocketReady, TryAgain, Balance, Idle
<1>9. CASE SendOctets
  <2>1. PICK space \in 0 .. call.left, n \in 0 .. call.left :
          /\ Moved(n, space)
          /\ hist' = [hist EXCEPT !.out = @ + n]
          /\ IF n = call.left THEN Complete
             ELSE /\ call' = [call EXCEPT !.at = "check", !.left = @ - n]
                  /\ UNCHANGED <<now, outcome>>
    BY <1>9 DEF SendOctets
  <2>2. call.op = "send" /\ UNCHANGED <<kind, valid, staged, line>> BY <1>9 DEF SendOctets
  <2>3. /\ hist.out + call.left = hist.outdue /\ hist.in = hist.indue
        /\ staged = NoDatagram /\ valid
    BY <2>2 DEF Balance, Idle
  <2>4. /\ hist'.out = hist.out + n /\ hist'.outdue = hist.outdue
        /\ hist'.in = hist.in /\ hist'.indue = hist.indue
    BY <1>1, <2>1 DEF HistType
  <2>5. CASE n = call.left
    BY <1>2, <2>1, <2>2, <2>3, <2>4, <2>5 DEF Complete, Balance, Idle
  <2>6. CASE n # call.left
    <3>1. call'.op = "send" /\ call'.left = call.left - n
      BY <1>1, <2>1, <2>2, <2>6 DEF CallType
    <3>2. n \in Nat /\ call.left \in Nat /\ hist.out \in Nat BY <1>1 DEF CallType, HistType
    <3> QED BY <2>2, <2>3, <2>4, <3>1, <3>2 DEF Balance, Idle
  <2> QED BY <2>5, <2>6
<1>10. CASE SendDatagram
  <2>1. /\ hist'.out = hist.out + call.left /\ hist'.outdue = hist.outdue
        /\ hist'.in = hist.in /\ hist'.indue = hist.indue
    BY <1>1, <1>10 DEF SendDatagram, HistType
  <2> QED BY <1>2, <1>10, <2>1 DEF SendDatagram, Complete, Balance, Idle
<1>11. CASE ReceiveOctets
  <2>1. PICK n \in 0 .. call.left :
          IF n < call.left
          THEN /\ call' = [call EXCEPT !.at = "check", !.left = @ - n]
               /\ hist' = [hist EXCEPT !.in = @ + n]
               /\ UNCHANGED <<valid, now, outcome>>
          ELSE IF call.op = "payload"
          THEN /\ Complete
               /\ hist' = [hist EXCEPT !.in = @ + n]
               /\ UNCHANGED valid
          ELSE \E length \in Lengths :
                 /\ hist' = [hist EXCEPT !.in = @ + n, !.indue = HeaderOctets + length]
                 /\ Announced(length)
    BY <1>11 DEF ReceiveOctets, Taken
  <2>2. /\ call.op \in {"header", "payload"} /\ kind # "udp" /\ kind' = kind
        /\ staged' = staged /\ staged = NoDatagram /\ valid /\ hist.out = hist.outdue
    BY <1>11 DEF ReceiveOctets, Balance, Idle
  <2>3. n \in Nat /\ call.left \in Nat /\ hist.in \in Nat /\ hist.indue \in Nat
    BY <1>1 DEF CallType, HistType
  <2>4. CASE n < call.left
    <3>1. call'.op = call.op /\ call'.left = call.left - n
      BY <1>1, <2>1, <2>4 DEF CallType
    <3>2. /\ hist'.out = hist.out /\ hist'.outdue = hist.outdue
          /\ hist'.in = hist.in + n /\ hist'.indue = hist.indue /\ valid' = valid
      BY <1>1, <2>1, <2>4 DEF HistType
    <3> QED BY <2>2, <2>3, <3>1, <3>2 DEF Balance, Idle
  <2>5. CASE ~(n < call.left) /\ call.op = "payload"
    <3>1. /\ hist'.out = hist.out /\ hist'.outdue = hist.outdue
          /\ hist'.in = hist.in + n /\ hist'.indue = hist.indue /\ call' = NoCall
      BY <1>1, <2>1, <2>5 DEF HistType, Complete
    <3> QED BY <1>2, <2>2, <2>3, <2>5, <3>1 DEF Balance, Idle
  <2>6. CASE ~(n < call.left) /\ call.op = "header"
    <3>1. PICK length \in Lengths :
            /\ hist' = [hist EXCEPT !.in = @ + n, !.indue = HeaderOctets + length]
            /\ Announced(length)
      BY <2>1, <2>6
    <3>2. n = call.left BY <2>3, <2>6
    <3>3. /\ hist'.out = hist.out /\ hist'.outdue = hist.outdue
          /\ hist'.in = HeaderOctets /\ hist'.indue = HeaderOctets + length
      BY <1>1, <2>3, <2>6, <3>1, <3>2 DEF HistType, Balance
    <3>4. length \in Nat OBVIOUS
    <3>5. CASE ~Acceptable(length)
      <4>1. call' = NoCall /\ valid' = FALSE BY <3>1, <3>5 DEF Announced
      <4> QED BY <1>2, <2>2, <4>1 DEF Balance, Idle
    <3>6. CASE Acceptable(length) /\ length = 0
      <4>1. call' = NoCall BY <3>1, <3>6 DEF Announced, Complete
      <4> QED BY <1>2, <2>2, <3>3, <3>6, <4>1 DEF Balance, Idle
    <3>7. CASE Acceptable(length) /\ length # 0
      <4>1. call'.op = "payload" /\ call'.left = length /\ valid' = valid
        BY <1>1, <3>1, <3>7 DEF Announced, CallType
      <4> QED BY <2>2, <3>3, <3>4, <4>1 DEF Balance, Idle
    <3> QED BY <3>5, <3>6, <3>7
  <2> QED BY <2>2, <2>4, <2>5, <2>6
<1>12. CASE ReceiveHeader
  <2> DEFINE d == Head(line.queue)
  <2>1. /\ hist' = [hist EXCEPT !.in = d.size, !.indue = HeaderOctets + d.length]
        /\ staged' = IF d.length = 0 \/ ~Acceptable(d.length) THEN NoDatagram ELSE d
        /\ Announced(d.length) /\ Fits(d) /\ kind' = kind
        /\ kind = "udp" /\ call.op = "header"
    BY <1>12 DEF ReceiveHeader, TakesDatagram
  <2> HIDE DEF d
  <2>2. valid /\ hist.out = hist.outdue BY <2>1 DEF Balance, Idle
  <2>3. /\ hist'.out = hist.out /\ hist'.outdue = hist.outdue
        /\ hist'.in = d.size /\ hist'.indue = HeaderOctets + d.length
    BY <1>1, <2>1 DEF HistType
  <2>4. CASE ~Acceptable(d.length)
    <3>1. call' = NoCall /\ valid' = FALSE BY <2>1, <2>4 DEF Announced
    <3> QED BY <1>2, <2>1, <2>4, <3>1 DEF Balance, Idle
  <2>5. CASE Acceptable(d.length) /\ d.length = 0
    <3>1. call' = NoCall BY <2>1, <2>5 DEF Announced, Complete
    <3>2. d.size = HeaderOctets /\ HeaderOctets + d.length = HeaderOctets
      BY <2>1, <2>5 DEF Fits
    <3> QED BY <1>2, <2>1, <2>2, <2>3, <2>5, <3>1, <3>2 DEF Balance, Idle
  <2>6. CASE Acceptable(d.length) /\ d.length # 0
    <3>1. call'.op = "payload" /\ valid' = valid /\ staged' = d
      BY <1>1, <2>1, <2>6 DEF Announced, CallType
    <3> QED BY <2>1, <2>2, <2>3, <3>1 DEF Balance, Idle
  <2> QED BY <2>4, <2>5, <2>6
<1>13. CASE ReceivePayload
  BY <1>2, <1>13 DEF ReceivePayload, UdpPayload, AllThere, Complete, Balance, Idle
<1>14. CASE OctetArrives \/ PeerCloses \/ DatagramArrives \/ Tick \/ UNCHANGED vars
  BY <1>14 DEF OctetArrives, PeerCloses, DatagramArrives, Tick, vars, Balance, Idle
<1> QED
  BY <1>3, <1>4, <1>5, <1>6, <1>7, <1>8, <1>9, <1>10, <1>11, <1>12, <1>13, <1>14
     DEF Next, Transfer, DeadlineFails, CheckExpired, SocketTimeout, Disconnected,
         ReceiveBadDatagram, ReceiveBadPayload, SystemFails

\* ---- Deadlines ----

\* A step that keeps the deadline of the frame and waits for nothing keeps the pace.
LEMMA PaceKept ==
    ASSUME TypeOK, Paced, kind' = kind,
           ~Idle, call'.ms = call.ms, call'.start = call.start,
           call'.expires = call.expires, call'.at # "wait"
    PROVE  Paced'
BY DEF Paced, Idle, Waits, Clock, Duration, RoundedUp

LEMMA PacedStep == TypeOK /\ Paced /\ [Next]_vars => Paced'
<1> SUFFICES ASSUME TypeOK, Paced, [Next]_vars PROVE Paced' OBVIOUS
<1>1. call \in CallType BY DEF TypeOK, CallType
<1>2. NoCall.op = "none" BY DEF NoCall
<1>3. ASSUME call' = NoCall PROVE Paced' BY <1>2, <1>3 DEF Paced, Idle, Waits
<1>4. ASSUME NEW op \in {"send", "header"}, NEW octets, Begin(op, octets), kind' = kind
      PROVE  Paced'
  <2>1. PICK ms \in Timeouts, phase \in 0 .. TickUnits * MsUnits - 1 :
          call' = [op |-> op, at |-> "check", left |-> octets, ms |-> ms,
                   start |-> phase, expires |-> Clock(phase) + Duration(ms),
                   armed |-> 0, wakes |-> 0]
    BY <1>4 DEF Begin
  <2>2. call'.expires = Clock(phase) + Duration(ms) /\ call'.start = phase /\ call'.ms = ms
        /\ call'.at = "check"
    BY <2>1
  <2> QED BY <1>4, <2>2 DEF Paced, Waits, Clock, Duration, RoundedUp
<1>5. CASE Wait
  <2>1. ~Idle /\ ~Expired /\ kind' = kind /\ now' = now BY <1>5 DEF Wait, Checks
  <2>2. /\ RemainingMs \in Nat /\ RemainingMs >= 1
        /\ RemainingMs * MsUnits \in Nat
        /\ now + RemainingMs * MsUnits < Due + Grain
        /\ Due < now + RemainingMs * MsUnits + Early
    BY <2>1, Arming
  <2>3. /\ call'.ms = call.ms /\ call'.start = call.start /\ call'.expires = call.expires
        /\ call'.armed = RemainingMs /\ call'.wakes = now + RemainingMs * MsUnits
    BY <1>1, <1>5 DEF Wait, CallType
  <2>4. Due' = Due /\ Early' = Early BY <2>1, <2>3 DEF Due, Early
  <2>5. /\ call'.ms \in Timeouts
        /\ call'.expires = (Clock(call.start) + Duration(call.ms))'
    BY <2>1, <2>3 DEF Paced, Clock, Duration, RoundedUp
  <2>6. Bounded' BY <2>2, <2>3 DEF Bounded
  <2>7. now' <= call'.wakes BY <2>1, <2>2, <2>3 DEF TypeOK
  <2>8. call'.wakes < Due' + Grain /\ Due' < call'.wakes + Early'
    BY <2>2, <2>3, <2>4
  <2> QED BY <2>3, <2>5, <2>6, <2>7, <2>8 DEF Paced, Grain
<1>6. CASE SocketReady \/ TryAgain
  <2>1. /\ ~Idle /\ kind' = kind /\ call'.ms = call.ms /\ call'.start = call.start
        /\ call'.expires = call.expires /\ call'.at # "wait"
    BY <1>1, <1>6 DEF SocketReady, TryAgain, Reported, Waits, Goto, CallType
  <2> QED BY <2>1, PaceKept
<1>7. CASE SendOctets
  <2>1. PICK n \in 0 .. call.left :
          IF n = call.left THEN Complete
          ELSE call' = [call EXCEPT !.at = "check", !.left = @ - n]
    BY <1>7 DEF SendOctets
  <2>2. CASE n = call.left BY <1>3, <2>1, <2>2 DEF Complete
  <2>3. CASE n # call.left
    <3>1. /\ ~Idle /\ kind' = kind /\ call'.ms = call.ms /\ call'.start = call.start
          /\ call'.expires = call.expires /\ call'.at # "wait"
      BY <1>1, <1>7, <2>1, <2>3 DEF SendOctets, Idle, CallType
    <3> QED BY <3>1, PaceKept
  <2> QED BY <2>2, <2>3
<1>8. ASSUME NEW n, Announced(n), ~Idle, kind' = kind PROVE Paced'
  <2>1. CASE call' = NoCall BY <1>3, <2>1
  <2>2. CASE call' # NoCall
    <3>1. call' = [call EXCEPT !.op = "payload", !.at = "check", !.left = n]
      BY <1>8, <2>2 DEF Announced, Complete
    <3>2. /\ call'.ms = call.ms /\ call'.start = call.start
          /\ call'.expires = call.expires /\ call'.at # "wait"
      BY <1>1, <3>1 DEF CallType
    <3> QED BY <1>8, <3>2, PaceKept
  <2> QED BY <2>1, <2>2
<1>9. CASE ReceiveOctets
  <2>1. PICK n \in 0 .. call.left :
          \/ call' = [call EXCEPT !.at = "check", !.left = @ - n]
          \/ Complete
          \/ \E length \in Lengths : Announced(length)
    BY <1>9 DEF ReceiveOctets
  <2>2. ~Idle /\ kind' = kind BY <1>9 DEF ReceiveOctets, Idle
  <2>3. CASE call' = [call EXCEPT !.at = "check", !.left = @ - n]
    <3>1. /\ call'.ms = call.ms /\ call'.start = call.start
          /\ call'.expires = call.expires /\ call'.at # "wait"
      BY <1>1, <2>3 DEF CallType
    <3> QED BY <2>2, <3>1, PaceKept
  <2>4. CASE Complete BY <1>3, <2>4 DEF Complete
  <2>5. CASE \E length \in Lengths : Announced(length) BY <1>8, <2>2, <2>5
  <2> QED BY <2>1, <2>3, <2>4, <2>5
<1>10. CASE ReceiveHeader
  <2>1. ~Idle /\ kind' = kind /\ Announced(Head(line.queue).length)
    BY <1>10 DEF ReceiveHeader, TakesDatagram, Idle
  <2> QED BY <1>8, <2>1
<1>11. CASE Open \/ Close
  BY <1>11 DEF Open, Close, Paced, Waits, Idle, Bounded, Due, Early, Grain, Clock,
               Duration, RoundedUp
<1>12. CASE OctetArrives \/ PeerCloses \/ DatagramArrives \/ UNCHANGED vars
  BY <1>12 DEF OctetArrives, PeerCloses, DatagramArrives, vars, Paced, Waits, Idle,
               Bounded, Due, Early, Grain, Clock, Duration, RoundedUp
<1>13. CASE Tick
  <2>1. kind' = kind /\ call' = call /\ now' = now + 1 /\ ~TimerFires BY <1>13 DEF Tick
  <2>2. Waits => now' <= call.wakes
    <3>1. now \in Nat /\ call.wakes \in Nat BY <1>1 DEF TypeOK, CallType
    <3> QED BY <2>1, <3>1 DEF Waits, TimerFires, Paced
  <2> QED BY <2>1, <2>2 DEF Paced, Waits, Idle, Bounded, Due, Early, Grain, Clock,
                            Duration, RoundedUp
<1> QED
  BY <1>3, <1>4, <1>5, <1>6, <1>7, <1>9, <1>10, <1>11, <1>12, <1>13
     DEF Next, Transfer, SendFrame, ReceiveFrame, DeadlineFails, CheckExpired,
         SocketTimeout, Disconnected, ReceiveBadDatagram, ReceiveBadPayload, SystemFails,
         SendDatagram, ReceivePayload, Complete, Fail

\* ---- Theorems ----

LEMMA InitHolds == Init => IInv
<1> SUFFICES ASSUME Init PROVE IInv OBVIOUS
<1>1. call.op = "none" /\ call \in CallType /\ NoDatagram \in Datagrams
  BY NoCallType DEF Init, NoCall
<1>2. line \in [rx : Nat, up : BOOLEAN, queue : Seq([size : Nat, length : Nat])]
  BY DEF Init
<1>3. TypeOK BY <1>1, <1>2 DEF Init, TypeOK, CallType, Datagrams
<1> QED BY <1>1, <1>3 DEF Init, IInv, Balance, Paced, Idle, Waits

LEMMA Invariance == Spec => []IInv
<1>1. IInv /\ [Next]_vars => IInv' BY TypeStep, BalanceStep, PacedStep DEF IInv
<1> QED BY <1>1, InitHolds, PTL DEF Spec

\* Every field keeps its range, whatever moves how many octets when.
THEOREM TransportTypeCorrect == Spec => []TypeOK
BY Invariance, PTL DEF IInv

\* An open handle that is not in use stands between two frames.
THEOREM FrameBoundaryCorrect == Spec => []FrameBoundary
<1>1. IInv => FrameBoundary BY DEF IInv, Balance, FrameBoundary
<1> QED BY <1>1, Invariance, PTL

LEMMA TimeTypes ==
    ASSUME TypeOK
    PROVE  /\ now \in Nat /\ call.wakes \in Nat
           /\ Due \in Nat /\ Grain \in Nat /\ Early \in Nat
<1>1. call \in CallType /\ now \in Nat BY DEF TypeOK, CallType
<1>2. call.start \in Nat /\ call.ms \in Timeouts \union {0} /\ call.wakes \in Nat
  BY <1>1 DEF CallType
<1>3. call.ms \in Nat
  <2>1. \A ms \in Timeouts : ms \in Nat BY TimeAssumption
  <2>2. call.ms \in Timeouts \/ call.ms = 0 BY <1>2
  <2> QED BY <2>1, <2>2
<1>4. call.ms * MsUnits \in Nat BY <1>3, ProductNat, TimeAssumption
<1> QED BY <1>1, <1>2, <1>4, TimeAssumption DEF Due, Grain, Early

\* A frame is given up as too late only when it is due.
LEMMA TimeoutStep ==
    ASSUME IInv, [Next]_vars, ~Idle, call'.op = "none", outcome' = "TIMEOUT"
    PROVE  Due < now + Early
<1>1. CASE CheckExpired
  BY <1>1, Overdue DEF CheckExpired, IInv
<1>2. CASE SocketTimeout
  <2>1. CASE TimerFires
    <3>1. now >= call.wakes /\ Waits BY <2>1 DEF TimerFires, Waits
    <3>2. Due < call.wakes + Early BY <3>1 DEF IInv, Paced
    <3>3. now \in Nat /\ call.wakes \in Nat /\ Due \in Nat /\ Early \in Nat
      BY TimeTypes DEF IInv
    <3> QED BY <3>1, <3>2, <3>3
  <2>2. CASE Reported /\ Expired BY <2>2, Overdue DEF IInv
  <2> QED BY <1>2, <2>1, <2>2 DEF SocketTimeout
<1>3. CASE \/ Open \/ SendFrame \/ ReceiveFrame \/ DeadlineFails \/ Close
  BY <1>3 DEF Open, SendFrame, ReceiveFrame, DeadlineFails, Close, Idle
<1>4. call \in CallType BY DEF IInv, TypeOK, CallType
<1>5. CASE Fail("ERROR") \/ Complete BY <1>5 DEF Fail, Complete
<1>6. ASSUME call'.op = call.op PROVE FALSE BY <1>6 DEF Idle
<1>7. CASE \/ Wait \/ SocketReady \/ TryAgain
           \/ OctetArrives \/ PeerCloses \/ DatagramArrives \/ Tick \/ UNCHANGED vars
  BY <1>4, <1>6, <1>7 DEF Wait, SocketReady, TryAgain, Goto, OctetArrives, PeerCloses,
                          DatagramArrives, Tick, vars, CallType
<1>8. ASSUME NEW n, Announced(n) PROVE FALSE
  <2>1. outcome' = "ERROR" \/ Complete
        \/ call' = [call EXCEPT !.op = "payload", !.at = "check", !.left = n]
    BY <1>8 DEF Announced
  <2>2. ~(call' = [call EXCEPT !.op = "payload", !.at = "check", !.left = n])
    BY <1>4 DEF CallType
  <2> QED BY <2>1, <2>2 DEF Complete
<1>9. CASE SendOctets \/ ReceiveOctets
  <2>1. PICK n \in 0 .. call.left :
          \/ call' = [call EXCEPT !.at = "check", !.left = @ - n]
          \/ Complete
          \/ \E length \in Lengths : Announced(length)
    BY <1>9 DEF SendOctets, ReceiveOctets
  <2>2. CASE call' = [call EXCEPT !.at = "check", !.left = @ - n]
    BY <1>4, <1>6, <2>2 DEF CallType
  <2> QED BY <1>5, <1>8, <2>1, <2>2
<1>10. CASE ReceiveHeader BY <1>8, <1>10 DEF ReceiveHeader
<1> QED
  BY <1>1, <1>2, <1>3, <1>5, <1>7, <1>9, <1>10
     DEF Next, Transfer, SendDatagram, Disconnected, ReceiveBadDatagram, ReceivePayload,
         ReceiveBadPayload, SystemFails

\* No wait of the operating system reaches beyond the deadline of its frame by more
\* than the grain of the clocks, and no frame is given up before its deadline.
THEOREM DeadlineCorrect == Spec => DeadlineExact
<1>1. IInv => (Waits => now < Due + Grain)
  <2> SUFFICES ASSUME IInv, Waits PROVE now < Due + Grain OBVIOUS
  <2>1. now <= call.wakes /\ call.wakes < Due + Grain BY DEF IInv, Paced
  <2>2. now \in Nat /\ call.wakes \in Nat /\ Due \in Nat /\ Grain \in Nat
    BY TimeTypes DEF IInv
  <2> QED BY <2>1, <2>2
<1>2. IInv /\ [Next]_vars =>
        [~Idle /\ call'.op = "none" /\ outcome' = "TIMEOUT" =>
           Due < now + TickUnits + (IF kind = "serial" THEN 0 ELSE MsUnits)]_vars
  <2> SUFFICES ASSUME IInv, [Next]_vars, ~Idle, call'.op = "none", outcome' = "TIMEOUT"
               PROVE  Due < now + TickUnits + (IF kind = "serial" THEN 0 ELSE MsUnits)
    OBVIOUS
  <2>1. Due < now + Early BY TimeoutStep
  <2>2. now \in Nat BY DEF IInv, TypeOK
  <2> QED BY <2>1, <2>2, TimeAssumption DEF Early
<1> QED BY <1>1, <1>2, Invariance, PTL DEF Spec, DeadlineExact
====
