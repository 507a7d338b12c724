---- MODULE BlockCoreProofs ----
(***************************************************************************)
(* Machine-checked proofs about BlockCore, for every config, device, clock  *)
(* width, step width and session length that its assumptions allow.         *)
(***************************************************************************)
EXTENDS BlockCore, TLAPS

\* ---- Counting modulo a width: the step index and the clock wrap ----

\* Division with remainder.
LEMMA DivMod ==
    ASSUME NEW m \in Nat \ {0}, NEW n \in Nat
    PROVE  /\ n % m \in 0 .. m-1
           /\ n \div m \in Int
           /\ n = m * (n \div m) + (n % m)
OBVIOUS

\* A positive multiple of m is at least m, a negative one at most -m.
LEMMA Below ==
    ASSUME NEW m \in Nat \ {0}, NEW k \in Int, k > 0 PROVE m * k >= m
OBVIOUS

LEMMA Above ==
    ASSUME NEW m \in Nat \ {0}, NEW k \in Int, k < 0 PROVE m * k <= -m
<1>1. m * (-k) >= m BY Below
<1>2. m * (-k) = -(m*k) OBVIOUS
<1> QED BY <1>1, <1>2

LEMMA Distrib ==
    ASSUME NEW m \in Int, NEW q \in Int, NEW p \in Int
    PROVE  m * q - m * p = m * (q - p)
OBVIOUS

\* A number has one remainder below m.
LEMMA Unique ==
    ASSUME NEW m \in Nat \ {0}, NEW q \in Int, NEW r \in 0 .. m-1,
           NEW p \in Int, NEW s \in 0 .. m-1, m*q + r = m*p + s
    PROVE  r = s
<1>1. m*(q-p) = s - r BY Distrib
<1>2. CASE q - p > 0 BY <1>1, <1>2, Below
<1>3. CASE q - p < 0 BY <1>1, <1>3, Above
<1>4. CASE q = p BY <1>4
<1> QED BY <1>2, <1>3, <1>4

\* Counting on after the wrap is wrapping after counting on.
LEMMA NextStep ==
    ASSUME NEW m \in Nat \ {0}, NEW n \in Nat
    PROVE  ((n % m) + 1) % m = (n + 1) % m
<1> DEFINE q == n \div m  r == n % m
<1>1. n = m * q + r /\ q \in Int /\ r \in 0 .. m-1 BY DivMod
<1>2. n + 1 = m * ((n+1) \div m) + ((n+1) % m) /\ (n+1) % m \in 0 .. m-1 /\ (n+1) \div m \in Int BY DivMod
<1>3. CASE r + 1 < m
  <2>1. (r + 1) % m = r + 1 BY <1>1, <1>3
  <2>2. n + 1 = m * q + (r+1) BY <1>1
  <2>3. r + 1 \in 0 .. m-1 BY <1>1, <1>3
  <2> HIDE DEF q, r
  <2>4. m * ((n+1) \div m) + ((n+1) % m) = m * q + (r+1) BY <1>2, <2>2
  <2>5. (n+1) % m = r + 1 BY <1>1, <1>2, <2>4, <2>3, Unique
  <2> QED BY <2>1, <2>5 DEF r
<1>4. CASE r + 1 = m
  <2>1. (r + 1) % m = 0 BY <1>1, <1>4
  <2>2. n + 1 = m * (q+1) + 0 BY <1>1, <1>4
  <2>3. 0 \in 0..m-1 /\ q + 1 \in Int BY <1>1
  <2> HIDE DEF q, r
  <2>4. m * ((n+1) \div m) + ((n+1) % m) = m * (q+1) + 0 BY <1>2, <2>2
  <2> QED BY <1>2, <2>1, <2>4, <2>3, Unique DEF r
<1> QED BY <1>1, <1>3, <1>4

\* ---- The inductive invariant, in parts ----

\* A session runs on a config that Init accepted.
ConfigAccepted == rt.state # "INERT" => ConfigIsValid(config)

\* A config that Init has not accepted yet, or refused, left everything alone.
InertIsBlank ==
    rt.state = "INERT" =>
        ~rt.started /\ ~rt.close_pending /\ ~rt.latched /\ ~rt.normal_end

\* close_pending and normal_end belong to the wait for the close.
ClosePhase ==
    /\ rt.close_pending => rt.state = "WAIT_CONNECTION"
    /\ rt.normal_end => rt.close_pending

\* Inside a session an error is latched exactly while its answer is sent.
LatchPhase ==
    /\ rt.state \in {"RECEIVING", "FRAME_READY"} => ~rt.latched
    /\ rt.state = "SENDING" => (rt.latched <=> tx.done = "CLOSE")

\* The algorithm is started by the time the session waits for INPUT_DATA.
StartedPhase ==
    /\ rt.state \in {"RECEIVING", "FRAME_READY"} =>
         /\ rt.started <=> rt.phase = "SIM_RUNNING"
         /\ rx.type = "INPUT_DATA" => rt.phase = "SIM_RUNNING"
    /\ rt.state = "SENDING" =>
         CASE tx.done = "ENTER_SIM_RUNNING" -> rt.started /\ rt.phase = "WAIT_SIM_START"
           [] tx.done = "ADVANCE_STEP" -> rt.started /\ rt.phase = "SIM_RUNNING"
           [] tx.done = "CLOSE" -> TRUE

\* What remains to be received or sent, and that it fits.
Even(n) == n % 2 = 0
RxProgress ==
    rt.state = "RECEIVING" =>
        \/ rx.part = "HEADER" /\ rx.header \in {0, 2} /\ rx.payload = 0
        \/ /\ rx.part = "PAYLOAD" /\ rx.payload < rx.length
           /\ Even(rx.length) /\ Even(rx.payload)
           /\ HeaderOctets + rx.length <= config.rx_capacity
TxProgress ==
    rt.state = "SENDING" =>
        /\ tx.total \in {HeaderOctets + ResponseOctets,
                         HeaderOctets + config.output_octets}
        /\ Even(tx.sent) /\ tx.sent < tx.total

\* The history of the clock agrees with what the code computes from it.
Waiting ==
    Timed => idle = ClockSub(clock, progress_start) /\ idle < CurrentLimit

\* Outside a running simulation nothing has been computed, and the objects the
\* algorithm works on are clean once Init has accepted the config.
Unused ==
    ~(InSession /\ rt.phase = "SIM_RUNNING") =>
        /\ alg.steps = 0 /\ alg.delivered = 0
        /\ rt.state # "INERT" => ~alg.dirty
-----------------------------------------------------------------------------
\* The wrapping clock stays in range.
LEMMA ClockRange ==
    ASSUME NEW a \in 0 .. ClockMod - 1, NEW d \in 0 .. RunPeriod
    PROVE  ClockAdd(a, d) \in 0 .. ClockMod - 1
BY ClockAssumption DEF ClockAdd

\* A wait younger than half the clock range is measured right after one more
\* call of Run, wherever the clock wraps.
LEMMA AgeIsExact ==
    ASSUME NEW start \in 0 .. ClockMod - 1, NEW now \in 0 .. ClockMod - 1,
           NEW d \in 0 .. RunPeriod, ClockSub(now, start) < HalfClock
    PROVE  LET later == ClockAdd(now, d)
           IN  ClockSub(now, start) + ClockSub(later, now) = ClockSub(later, start)
BY ClockAssumption DEF ClockAdd, ClockSub

LEMMA AgeRange ==
    ASSUME NEW a \in 0 .. ClockMod - 1, NEW b \in 0 .. ClockMod - 1
    PROVE  ClockSub(a, b) \in 0 .. ClockMod - 1
BY ClockAssumption DEF ClockSub

LEMMA NoAge ==
    ASSUME NEW a \in 0 .. ClockMod - 1
    PROVE  ClockSub(a, a) = 0
BY ClockAssumption DEF ClockSub

LEMMA StepRange ==
    ASSUME NEW n \in Nat
    PROVE  n % StepMod \in Steps
BY ClockAssumption DEF Steps

\* Every wire error validate_header can name is one.
LEMMA VerdictType == ASSUME NEW h PROVE HeaderVerdict(h) \in WireErrors
BY DEF HeaderVerdict, WireErrors
-----------------------------------------------------------------------------
\* ---- Types ----

LEMMA TypeInit == Init => TypeOK
BY ConfigsAssumption, ClockAssumption
   DEF Init, TypeOK, RtType, RxType, TxType, AlgType, RxReset, Steps, TxFrames,
       Errors, WireErrors

LEMMA LatchType ==
    ASSUME NEW r \in RtType, NEW e \in Errors
    PROVE  Latch(r, e) \in RtType
BY DEF Latch, RtType

LEMMA TerminateType ==
    ASSUME TypeOK, NEW r \in RtType, NEW normal \in BOOLEAN,
           Terminate(r, normal)
    PROVE  /\ rt' \in RtType /\ rx' \in RxType /\ tx' \in TxType
           /\ alg' \in AlgType /\ idle' \in Nat /\ progress_start' = progress_start
<1>1. rt' \in RtType
  <2>1. 0 \in Steps BY ClockAssumption DEF Steps
  <2>2. rt' = [r EXCEPT !.started = FALSE, !.phase = "WAIT_SIM_START",
                        !.expected = 0, !.close_pending = TRUE,
                        !.normal_end = normal, !.state = "WAIT_CONNECTION"]
    BY DEF Terminate
  <2> QED BY <2>1, <2>2 DEF RtType
<1>2. rx' \in RxType BY DEF Terminate, RxType, RxReset
<1>3. tx' \in TxType BY DEF Terminate, TypeOK, TxType, TxReset, WireErrors
<1>4. alg' \in AlgType
  <2>1. AlgReset \in AlgType BY DEF TypeOK, AlgType, AlgReset
  <2>2. AlgStop \in AlgType BY <2>1 DEF AlgStop, AlgType
  <2> QED BY <2>2 DEF Terminate
<1>5. idle' \in Nat /\ progress_start' = progress_start
  BY DEF Terminate, ProgressUnused
<1> QED BY <1>1, <1>2, <1>3, <1>4, <1>5

LEMMA SendingType ==
    ASSUME NEW r \in RtType, NEW total \in Nat, NEW error \in WireErrors,
           NEW done \in {"CLOSE", "ENTER_SIM_RUNNING", "ADVANCE_STEP"},
           NEW frame \in TxFrames,
           StartSending(r, total, done, error, frame)
    PROVE  /\ rt' \in RtType /\ tx' \in TxType
           /\ idle' \in Nat /\ progress_start' = clock'
BY DEF StartSending, RtType, TxType, ProgressRestarts

LEMMA ErrorResponseType ==
    ASSUME TypeOK, NEW primary \in Errors, NEW wire \in WireErrors,
           StartErrorResponse(primary, wire)
    PROVE  /\ rt' \in RtType /\ tx' \in TxType /\ rx' = rx
           /\ idle' \in Nat /\ progress_start' = clock'
<1>1. Latch(rt, primary) \in RtType BY LatchType DEF TypeOK
<1>2. [kind |-> "RESPONSE", error |-> wire] \in TxFrames BY DEF TxFrames
<1> QED BY <1>1, <1>2, SendingType
        DEF StartErrorResponse, HeaderOctets, ResponseOctets

LEMMA TypeStep == TypeOK /\ [Next]_vars => TypeOK'
<1> SUFFICES ASSUME TypeOK, [Next]_vars PROVE TypeOK'
  OBVIOUS
<1>1. CASE UNCHANGED vars BY <1>1 DEF TypeOK, vars
<1>2. CASE Next
  <2>1. PICK d \in 0 .. RunPeriod :
          /\ Elapse(d)
          /\ \/ BlockInit \/ RunInert \/ WaitConnection \/ Receiving
             \/ FrameReady \/ Sending
    BY <1>2 DEF Next
  <2> USE DEF TypeOK
  <2>2. clock' \in 0 .. ClockMod - 1 /\ config' \in Configs
    BY <2>1, ClockRange DEF Elapse
  <2>3. idle + ClockSub(clock', clock) \in Nat
    <3>1. clock \in 0 .. ClockMod - 1 OBVIOUS
    <3>2. ClockSub(clock', clock) \in 0 .. ClockMod - 1 BY <2>2, <3>1, AgeRange
    <3>3. ClockSub(clock', clock) \in Nat BY <3>2, ClockAssumption
    <3> QED BY <3>3
  <2>4. WaitLimit \in Nat /\ config \in ConfigType
    BY ConfigsAssumption DEF WaitLimit, ConfigType
  <2>11. HeaderOctets + ResponseOctets \in Nat BY DEF HeaderOctets, ResponseOctets
  <2>5. CASE BlockInit
    <3>1. rt' \in RtType BY <2>5 DEF BlockInit, RtType, Errors
    <3> QED BY <2>2, <2>5, <3>1 DEF BlockInit, ProgressUnused, AlgType
  <2>6. CASE RunInert BY <2>2, <2>6 DEF RunInert, ProgressUnused
  <2>7. CASE WaitConnection
    <3>1. CASE \E result \in {-1, 0, 1} : CloseChannel(result)
      <4>1. rt' \in RtType
        <5>1. PICK result \in {-1, 0, 1} : CloseChannel(result) BY <3>1
        <5>2. [rt EXCEPT !.close_pending = FALSE, !.normal_end = FALSE] \in RtType
          BY DEF RtType
        <5>3. CASE result = 0 BY <5>1, <5>3 DEF CloseChannel
        <5>4. CASE result = -1
          BY <5>1, <5>2, <5>4, LatchType DEF CloseChannel, Errors
        <5>5. CASE result = 1
          <6>1. (IF rt.normal_end THEN "NONE" ELSE rt.last_error) \in Errors
            BY DEF RtType, Errors
          <6>2. rt' = [rt EXCEPT !.close_pending = FALSE, !.normal_end = FALSE,
                                 !.latched = FALSE,
                                 !.last_error = IF rt.normal_end THEN "NONE" ELSE @]
            BY <5>1, <5>5 DEF CloseChannel
          <6> QED BY <6>1, <6>2 DEF RtType
        <5> QED BY <5>1, <5>3, <5>4, <5>5
      <4> QED BY <2>2, <3>1, <4>1 DEF CloseChannel, ProgressUnused
    <3>2. CASE (\E ok \in BOOLEAN : PollConnection(ok)) \/ ConnectionError
      <4>1. rt' \in RtType
        BY <3>2, LatchType DEF PollConnection, ConnectionError, Errors
      <4> QED BY <2>2, <3>2, <4>1 DEF PollConnection, ConnectionError, ProgressUnused
    <3>3. CASE PeerClosed
      <4>1. Latch(rt, "DISCONNECTED") \in RtType BY LatchType DEF Errors
      <4> QED BY <2>2, <3>3, <4>1, TerminateType DEF PeerClosed
    <3>4. CASE AcceptConnection
      <4>1. 0 \in Steps BY ClockAssumption DEF Steps
      <4>2. rt' \in RtType BY <3>4, <4>1 DEF AcceptConnection, StartReceiving, RtType
      <4>3. tx' \in TxType BY <3>4 DEF AcceptConnection, TxReset, TxType, WireErrors
      <4>4. rx' \in RxType BY <3>4 DEF AcceptConnection, StartReceiving, RxReset, RxType
      <4>5. alg' \in AlgType BY <3>4 DEF AcceptConnection, AlgReset, AlgType
      <4> QED BY <2>2, <3>4, <4>2, <4>3, <4>4, <4>5
              DEF AcceptConnection, StartReceiving, ProgressRestarts
    <3> QED BY <2>7, <3>1, <3>2, <3>3, <3>4 DEF WaitConnection
  <2>8. CASE Receiving
    <3>1. PICK r \in DeviceResults :
            \/ ReceiveFails(r) \/ ReceiveIdles(r) \/ ReceiveTimesOut(r)
            \/ ReceiveHeaderPart(r) \/ ReceivePayload(r)
            \/ \E h \in Arriving : ReceiveHeader(r, h) \/ RejectHeader(r, h)
      BY <2>8 DEF Receiving
    <3>2. r \in Int BY DeviceAssumption
    <3>3. Transferring \in RtType BY DEF Transferring, RtType
    <3>4. Latch(rt, "IODEVICE") \in RtType /\ Latch(rt, "TIMEOUT") \in RtType
      BY LatchType DEF Errors
    <3>5. CASE ReceiveFails(r) \/ ReceiveTimesOut(r)
      BY <2>2, <3>4, <3>5, TerminateType DEF ReceiveFails, ReceiveTimesOut
    <3>6. CASE ReceiveIdles(r)
      BY <2>2, <2>3, <3>6 DEF ReceiveIdles, ProgressAges
    <3>7. CASE ReceiveHeaderPart(r)
      <4>1. rx' \in RxType BY <3>2, <3>7 DEF ReceiveHeaderPart, RxType, GoodCount
      <4> QED BY <2>2, <3>3, <3>7, <4>1 DEF ReceiveHeaderPart, ProgressRestarts
    <3>8. CASE ReceivePayload(r)
      <4>1. rx' \in RxType BY <3>2, <3>8 DEF ReceivePayload, RxType, GoodCount
      <4>2. rt' \in RtType BY <3>3, <3>8 DEF ReceivePayload, RtType
      <4> QED BY <2>2, <3>8, <4>1, <4>2 DEF ReceivePayload, ProgressRestarts
    <3>9. ASSUME NEW h \in Arriving, ReceiveHeader(r, h) PROVE TypeOK'
      <4>1. h.type \in MsgTypes /\ h.length \in Nat
        BY <3>9, DeviceAssumption
           DEF Arriving, Headers, ReceiveHeader, HeaderVerdict
      <4>2. rx' \in RxType
        <5>1. rx.header + r \in Nat BY <3>2, <3>9 DEF ReceiveHeader, RxType, GoodCount
        <5>2. (IF h.length = 0 THEN rx.part ELSE "PAYLOAD") \in {"HEADER", "PAYLOAD"}
          BY DEF RxType
        <5> QED BY <3>9, <4>1, <5>1, <5>2 DEF ReceiveHeader, RxType
      <4>3. rt' \in RtType BY <3>3, <3>9 DEF ReceiveHeader, RtType
      <4> QED BY <2>2, <3>9, <4>2, <4>3 DEF ReceiveHeader, ProgressRestarts
    <3>10. ASSUME NEW h \in Arriving, RejectHeader(r, h) PROVE TypeOK'
      <4>1. rx' \in RxType BY <3>2, <3>10 DEF RejectHeader, RxType, GoodCount
      <4>2. Latch(Transferring, "PROTOCOL") \in RtType BY <3>3, LatchType DEF Errors
      <4>3. HeaderVerdict(h) \in WireErrors BY VerdictType
      <4>4. [kind |-> "RESPONSE", error |-> HeaderVerdict(h)] \in TxFrames
        BY <4>3 DEF TxFrames
      <4>5. /\ rt' \in RtType /\ tx' \in TxType /\ idle' \in Nat
            /\ progress_start' = clock'
        BY <2>11, <3>10, <4>2, <4>3, <4>4, SendingType DEF RejectHeader
      <4> QED BY <2>2, <3>10, <4>1, <4>5 DEF RejectHeader
    <3> QED BY <3>1, <3>5, <3>6, <3>7, <3>8, <3>9, <3>10
  <2>9. CASE FrameReady
    <3>1. ASSUME NEW p \in StartPayloads, RejectStart(p) PROVE TypeOK'
      <4>1. StartVerdict(p) \in WireErrors BY DEF StartVerdict, WireErrors
      <4> QED BY <2>2, <3>1, <4>1, ErrorResponseType DEF RejectStart, Errors
    <3>2. ASSUME NEW step, RejectStep(step) PROVE TypeOK'
      BY <2>2, <3>2, ErrorResponseType DEF RejectStep, Errors, WireErrors
    <3>3. ASSUME NEW p \in StartPayloads, NEW ok \in BOOLEAN, StartAlgorithm(p, ok)
          PROVE  TypeOK'
      <4>1. CASE ok
        <5>1. [rt EXCEPT !.started = TRUE] \in RtType BY DEF RtType
        <5>2. [kind |-> "RESPONSE", error |-> "OK"] \in TxFrames
          BY DEF TxFrames, WireErrors
        <5>3. alg' \in AlgType BY <3>3, <4>1 DEF StartAlgorithm, AlgType
        <5>4. tx.error \in WireErrors BY DEF TxType
        <5>5. /\ rt' \in RtType /\ tx' \in TxType /\ idle' \in Nat
              /\ progress_start' = clock'
          BY <2>11, <3>3, <4>1, <5>1, <5>2, <5>4, SendingType DEF StartAlgorithm
        <5> QED BY <2>2, <3>3, <4>1, <5>3, <5>5 DEF StartAlgorithm
      <4>2. CASE ~ok
        BY <2>2, <3>3, <4>2, ErrorResponseType
           DEF StartAlgorithm, Errors, WireErrors
      <4> QED BY <4>1, <4>2
    <3>4. ASSUME NEW step \in Steps, NEW ok \in BOOLEAN, StepAlgorithm(step, ok)
          PROVE  TypeOK'
      <4>1. alg' \in AlgType
        <5>1. CASE ok
          <6>1. alg' = [alg EXCEPT !.dirty = TRUE, !.steps = @ + 1]
            BY <3>4, <5>1 DEF StepAlgorithm
          <6>2. alg.steps + 1 \in Nat BY DEF AlgType
          <6> QED BY <6>1, <6>2 DEF AlgType
        <5>2. CASE ~ok BY <3>4, <5>2 DEF StepAlgorithm, AlgType
        <5> QED BY <5>1, <5>2
      <4>2. CASE ok
        <5>1. [kind |-> "OUTPUT_DATA", step |-> step] \in TxFrames BY DEF TxFrames
        <5>2. tx.error \in WireErrors BY DEF TxType
        <5>3. HeaderOctets + config.output_octets \in Nat
          BY <2>4 DEF ConfigType, HeaderOctets
        <5>4. /\ rt' \in RtType /\ tx' \in TxType /\ idle' \in Nat
              /\ progress_start' = clock'
          BY <3>4, <4>2, <5>1, <5>2, <5>3, SendingType DEF StepAlgorithm
        <5> QED BY <2>2, <3>4, <4>1, <4>2, <5>4 DEF StepAlgorithm
      <4>3. CASE ~ok
        BY <2>2, <3>4, <4>1, <4>3, ErrorResponseType
           DEF StepAlgorithm, Errors, WireErrors
      <4> QED BY <4>2, <4>3
    <3>5. CASE StopSession
      BY <2>2, <3>5, TerminateType DEF StopSession
    <3> QED BY <2>9, <3>1, <3>2, <3>3, <3>4, <3>5 DEF FrameReady
  <2>10. CASE Sending
    <3>1. PICK r \in DeviceResults :
            \/ SendFails(r) \/ SendIdles(r) \/ SendTimesOut(r)
            \/ SendPart(r) \/ FinishFrame(r) \/ FinishAndClose(r)
      BY <2>10 DEF Sending
    <3>2. r \in Int BY DeviceAssumption
    <3>3. Latch(rt, "IODEVICE") \in RtType /\ Latch(rt, "TIMEOUT") \in RtType
      BY LatchType DEF Errors
    <3>4. CASE SendFails(r) \/ SendTimesOut(r) \/ FinishAndClose(r)
      BY <2>2, <3>3, <3>4, TerminateType DEF SendFails, SendTimesOut, FinishAndClose
    <3>5. CASE SendIdles(r)
      BY <2>2, <2>3, <3>5 DEF SendIdles, ProgressAges
    <3>6. CASE SendPart(r)
      <4>1. tx' \in TxType BY <3>2, <3>6 DEF SendPart, TxType, GoodCount
      <4> QED BY <2>2, <3>6, <4>1 DEF SendPart, ProgressRestarts
    <3>7. CASE FinishFrame(r)
      <4>1. tx' \in TxType
        <5>1. tx.sent + r \in Nat BY <3>2, <3>7 DEF FinishFrame, TxType, GoodCount
        <5> QED BY <3>7, <5>1 DEF FinishFrame, TxType
      <4>2. 0 \in Steps /\ (rt.expected + 1) % StepMod \in Steps
        BY ClockAssumption, StepRange DEF Steps, RtType
      <4>3. AfterFrame \in RtType BY <4>2 DEF AfterFrame, RtType
      <4>4. rt' \in RtType BY <3>7, <4>3 DEF FinishFrame, StartReceiving, RtType
      <4>5. rx' \in RxType
        BY <3>7 DEF FinishFrame, StartReceiving, RxReset, RxType
      <4>6. alg' \in AlgType BY <3>7 DEF FinishFrame, AlgType
      <4> QED BY <2>2, <3>7, <4>1, <4>4, <4>5, <4>6
              DEF FinishFrame, StartReceiving, ProgressRestarts
    <3> QED BY <3>1, <3>4, <3>5, <3>6, <3>7
  <2> QED BY <2>1, <2>5, <2>6, <2>7, <2>8, <2>9, <2>10
<1> QED BY <1>1, <1>2

\* Every reachable state is well typed: in particular the clocks and the step
\* index never leave the width of their C types.
THEOREM TypeCorrect == Spec => []TypeOK
<1> QED BY TypeInit, TypeStep, PTL DEF Spec
-----------------------------------------------------------------------------
\* ---- Control: which flags can be set in which state ----

ControlInv ==
    /\ ConfigAccepted /\ InertIsBlank /\ ClosePhase /\ LatchPhase
    /\ StartedPhase /\ AlgorithmPaired /\ CloseHasCause

LEMMA ControlInit == Init => ControlInv
BY DEF Init, ControlInv, ConfigAccepted, InertIsBlank, ClosePhase, LatchPhase,
       StartedPhase, AlgorithmPaired, CloseHasCause, InSession

\* Ending a session for a latched error, or by SIM_STOP without one.
LEMMA TerminateControl ==
    ASSUME TypeOK, ControlInv, rt.state # "INERT", config' = config,
           NEW r \in RtType, NEW normal \in BOOLEAN,
           r.latched = ~normal, Terminate(r, normal)
    PROVE  ControlInv'
<1>1. /\ rt'.state = "WAIT_CONNECTION" /\ rt'.close_pending /\ rt'.started = FALSE
      /\ rt'.normal_end = normal /\ rt'.latched = ~normal
  BY DEF Terminate, RtType
<1>2. alg'.running = FALSE
  BY DEF Terminate, AlgStop, AlgReset, ControlInv, AlgorithmPaired, TypeOK, AlgType, RtType
<1> QED BY <1>1, <1>2
        DEF ControlInv, ConfigAccepted, InertIsBlank, ClosePhase, LatchPhase,
            StartedPhase, AlgorithmPaired, CloseHasCause, InSession

\* Latching keeps every other field, and leaves the error latched.
LEMMA LatchFields ==
    ASSUME NEW r \in RtType, NEW e \in Errors
    PROVE  /\ Latch(r, e).latched
           /\ \A f \in DOMAIN r \ {"last_error", "latched"} : Latch(r, e)[f] = r[f]
           /\ r.latched => Latch(r, e).last_error = r.last_error
           /\ ~r.latched => Latch(r, e).last_error = e
BY DEF Latch, RtType

\* Starting an answer from inside a session.
LEMMA SendingControl ==
    ASSUME TypeOK, ControlInv, rt.state \in {"RECEIVING", "FRAME_READY"},
           config' = config, NEW r \in RtType,
           r.close_pending = rt.close_pending, r.normal_end = rt.normal_end,
           r.phase = rt.phase,
           NEW total, NEW done \in {"CLOSE", "ENTER_SIM_RUNNING", "ADVANCE_STEP"},
           NEW error, NEW frame,
           StartSending(r, total, done, error, frame),
           r.latched <=> done = "CLOSE",
           done = "CLOSE" => r.started = rt.started,
           done = "ENTER_SIM_RUNNING" => r.started /\ r.phase = "WAIT_SIM_START",
           done = "ADVANCE_STEP" => r.started /\ r.phase = "SIM_RUNNING",
           alg'.running = r.started
    PROVE  ControlInv'
<1>1. /\ rt'.state = "SENDING" /\ rt'.close_pending = rt.close_pending
      /\ rt'.normal_end = rt.normal_end /\ rt'.phase = r.phase
      /\ rt'.latched = r.latched /\ rt'.started = r.started /\ tx'.done = done
  BY DEF StartSending, RtType
<1> QED BY <1>1
        DEF ControlInv, ConfigAccepted, InertIsBlank, ClosePhase, LatchPhase,
            StartedPhase, AlgorithmPaired, CloseHasCause, InSession

LEMMA ErrorResponseControl ==
    ASSUME TypeOK, ControlInv, rt.state \in {"RECEIVING", "FRAME_READY"},
           config' = config, NEW primary \in Errors, NEW wire \in WireErrors,
           StartErrorResponse(primary, wire), alg'.running = alg.running
    PROVE  ControlInv'
<1> DEFINE r == Latch(rt, primary)
<1>1. r \in RtType BY LatchType DEF TypeOK
<1>2. /\ r.latched /\ r.close_pending = rt.close_pending
      /\ r.normal_end = rt.normal_end /\ r.phase = rt.phase /\ r.started = rt.started
  BY DEF TypeOK, Latch, RtType
<1>3. StartSending(r, HeaderOctets + ResponseOctets, "CLOSE", wire,
                   [kind |-> "RESPONSE", error |-> wire])
  BY DEF StartErrorResponse
<1>4. alg'.running = r.started BY <1>2 DEF ControlInv, AlgorithmPaired
<1> HIDE DEF r
<1> QED BY <1>1, <1>2, <1>3, <1>4, SendingControl

LEMMA ControlStep == TypeOK /\ ControlInv /\ [Next]_vars => ControlInv'
<1> SUFFICES ASSUME TypeOK, ControlInv, [Next]_vars PROVE ControlInv'
  OBVIOUS
<1>1. CASE UNCHANGED vars
  BY <1>1 DEF vars, ControlInv, ConfigAccepted, InertIsBlank, ClosePhase,
              LatchPhase, StartedPhase, AlgorithmPaired, CloseHasCause, InSession
<1>2. CASE Next
  <2>1. PICK d \in 0 .. RunPeriod :
          /\ Elapse(d)
          /\ \/ BlockInit \/ RunInert \/ WaitConnection \/ Receiving
             \/ FrameReady \/ Sending
    BY <1>2 DEF Next
  <2>2. config' = config BY <2>1 DEF Elapse
  <2>3. rt \in RtType /\ tx \in TxType /\ alg \in AlgType BY DEF TypeOK
  <2>4. Latch(rt, "IODEVICE") \in RtType /\ Latch(rt, "TIMEOUT") \in RtType
        /\ Latch(rt, "DISCONNECTED") \in RtType
    BY <2>3, LatchType DEF Errors
  <2>5. /\ Latch(rt, "IODEVICE").latched = TRUE /\ Latch(rt, "TIMEOUT").latched = TRUE
        /\ Latch(rt, "DISCONNECTED").latched = TRUE
    BY <2>3 DEF Latch, RtType
  <2>6. CASE BlockInit \/ RunInert
    BY <2>2, <2>3, <2>6
       DEF BlockInit, RunInert, RtType, AlgType, ControlInv, ConfigAccepted,
           InertIsBlank, ClosePhase, LatchPhase, StartedPhase, AlgorithmPaired,
           CloseHasCause, InSession
  <2>7. CASE WaitConnection
    <3>1. ASSUME NEW result \in {-1, 0, 1}, CloseChannel(result) PROVE ControlInv'
      <4>1. /\ rt'.state = rt.state /\ rt'.started = rt.started /\ alg' = alg
            /\ rt.state = "WAIT_CONNECTION"
            /\ \/ rt' = rt
               \/ rt'.close_pending = FALSE /\ rt'.normal_end = FALSE
        <5>1. CASE result = 0 BY <3>1, <5>1 DEF CloseChannel, AwaitingClose
        <5>2. CASE result = -1
          BY <2>3, <3>1, <5>2 DEF CloseChannel, AwaitingClose, Latch, RtType
        <5>3. CASE result = 1
          <6>1. rt' = [rt EXCEPT !.close_pending = FALSE, !.normal_end = FALSE,
                                 !.latched = FALSE,
                                 !.last_error = IF rt.normal_end THEN "NONE" ELSE @]
            BY <3>1, <5>3 DEF CloseChannel
          <6> QED BY <2>3, <3>1, <6>1 DEF CloseChannel, AwaitingClose, RtType
        <5> QED BY <5>1, <5>2, <5>3
      <4> QED
        BY <2>2, <2>3, <4>1
           DEF ControlInv, ConfigAccepted, InertIsBlank, ClosePhase, LatchPhase,
               StartedPhase, AlgorithmPaired, CloseHasCause, InSession
    <3>2. CASE (\E ok \in BOOLEAN : PollConnection(ok)) \/ ConnectionError
      <4>1. /\ rt' \in {rt, Latch(rt, "IODEVICE")} /\ alg' = alg /\ AwaitingPeer
        BY <3>2 DEF PollConnection, ConnectionError
      <4> QED
        BY <2>2, <2>3, <4>1
           DEF AwaitingPeer, Latch, RtType, ControlInv,
               ConfigAccepted, InertIsBlank, ClosePhase, LatchPhase, StartedPhase,
               AlgorithmPaired, CloseHasCause, InSession
    <3>3. CASE PeerClosed
      BY <2>2, <2>4, <2>5, <3>3, TerminateControl DEF PeerClosed, AwaitingPeer
    <3>4. CASE AcceptConnection
      <4>1. /\ rt' = [rt EXCEPT !.phase = "WAIT_SIM_START", !.expected = 0,
                                !.started = FALSE, !.close_pending = FALSE,
                                !.normal_end = FALSE, !.latched = FALSE,
                                !.wait_kind = "TRANSFER", !.state = "RECEIVING"]
            /\ alg'.running = alg.running /\ rt.state = "WAIT_CONNECTION"
            /\ rx' = RxReset
        BY <2>3, <3>4 DEF AcceptConnection, StartReceiving, AwaitingPeer,
                          AlgReset, AlgType, RtType
      <4> QED
        BY <2>2, <2>3, <4>1
           DEF RtType, ControlInv, ConfigAccepted, InertIsBlank, ClosePhase, RxReset,
               LatchPhase, StartedPhase, AlgorithmPaired, CloseHasCause, InSession
    <3> QED BY <2>7, <3>1, <3>2, <3>3, <3>4 DEF WaitConnection
  <2>8. CASE Receiving
    <3>1. PICK r \in DeviceResults :
            \/ ReceiveFails(r) \/ ReceiveIdles(r) \/ ReceiveTimesOut(r)
            \/ ReceiveHeaderPart(r) \/ ReceivePayload(r)
            \/ \E h \in Arriving : ReceiveHeader(r, h) \/ RejectHeader(r, h)
      BY <2>8 DEF Receiving
    <3>2. CASE ReceiveFails(r) \/ ReceiveTimesOut(r)
      BY <2>2, <2>4, <2>5, <3>2, TerminateControl DEF ReceiveFails, ReceiveTimesOut
    <3>3. CASE \/ ReceiveIdles(r) \/ ReceiveHeaderPart(r) \/ ReceivePayload(r)
               \/ \E h \in Arriving : ReceiveHeader(r, h)
      <4>1. /\ rt.state = "RECEIVING" /\ rt'.state \in {"RECEIVING", "FRAME_READY"}
            /\ \A f \in DOMAIN rt \ {"wait_kind", "state"} : rt'[f] = rt[f]
            /\ alg' = alg /\ tx' = tx
        BY <2>3, <3>3
           DEF ReceiveIdles, ReceiveHeaderPart, ReceivePayload, ReceiveHeader,
               Transferring, RtType
      <4>2. /\ rt'.close_pending = rt.close_pending /\ rt'.normal_end = rt.normal_end
            /\ rt'.latched = rt.latched /\ rt'.started = rt.started
            /\ rt'.phase = rt.phase
        BY <2>3, <4>1 DEF RtType
      <4>3. rx'.type = "INPUT_DATA" => rx.type = "INPUT_DATA" \/ rt.phase = "SIM_RUNNING"
        BY <3>3
           DEF ReceiveIdles, ReceiveHeaderPart, ReceivePayload, ReceiveHeader,
               HeaderVerdict, AllowedIn, TypeOK, RxType
      <4> QED
        BY <2>2, <4>1, <4>2, <4>3
           DEF ControlInv, ConfigAccepted, InertIsBlank, ClosePhase,
               LatchPhase, StartedPhase, AlgorithmPaired, CloseHasCause, InSession
    <3>4. ASSUME NEW h \in Arriving, RejectHeader(r, h) PROVE ControlInv'
      <4> DEFINE s == Latch(Transferring, "PROTOCOL")
      <4>1. s \in RtType
        BY <2>3, LatchType DEF Transferring, RtType, Errors
      <4>2. /\ s.latched = TRUE /\ s.close_pending = rt.close_pending
            /\ s.normal_end = rt.normal_end /\ s.phase = rt.phase
            /\ s.started = rt.started
        BY <2>3 DEF Latch, Transferring, RtType
      <4>3. StartSending(s, HeaderOctets + ResponseOctets, "CLOSE", HeaderVerdict(h),
                         [kind |-> "RESPONSE", error |-> HeaderVerdict(h)])
            /\ rt.state = "RECEIVING" /\ alg' = alg
        BY <3>4 DEF RejectHeader
      <4>4. alg'.running = s.started BY <4>2, <4>3 DEF ControlInv, AlgorithmPaired
      <4> HIDE DEF s
      <4> QED BY <2>2, <4>1, <4>2, <4>3, <4>4, SendingControl
    <3> QED BY <3>1, <3>2, <3>3, <3>4
  <2>9. CASE FrameReady
    <3>1. ASSUME NEW p \in StartPayloads, RejectStart(p) PROVE ControlInv'
      <4>1. StartVerdict(p) \in WireErrors BY DEF StartVerdict, WireErrors
      <4> QED BY <2>2, <3>1, <4>1, ErrorResponseControl DEF RejectStart, FrameIs, Errors
    <3>2. ASSUME NEW step, RejectStep(step) PROVE ControlInv'
      BY <2>2, <3>2, ErrorResponseControl DEF RejectStep, FrameIs, Errors, WireErrors
    <3>3. ASSUME NEW p \in StartPayloads, NEW ok \in BOOLEAN, StartAlgorithm(p, ok)
          PROVE  ControlInv'
      <4>1. rt.state = "FRAME_READY" /\ rt.phase = "WAIT_SIM_START"
        BY <3>3 DEF StartAlgorithm, FrameIs, StartVerdict
      <4>2. CASE ok
        <5> DEFINE s == [rt EXCEPT !.started = TRUE]
        <5>1. /\ s \in RtType /\ s.started /\ s.phase = rt.phase
              /\ s.close_pending = rt.close_pending /\ s.normal_end = rt.normal_end
              /\ s.latched = FALSE
          BY <2>3, <4>1 DEF RtType, ControlInv, LatchPhase
        <5>2. alg' = [alg EXCEPT !.running = TRUE] BY <3>3, <4>2 DEF StartAlgorithm
        <5>3. StartSending(s, HeaderOctets + ResponseOctets, "ENTER_SIM_RUNNING",
                           tx.error, [kind |-> "RESPONSE", error |-> "OK"])
          BY <3>3, <4>2 DEF StartAlgorithm
        <5>4. alg'.running = s.started BY <2>3, <5>2 DEF AlgType, RtType
        <5> HIDE DEF s
        <5> QED BY <2>2, <4>1, <5>1, <5>3, <5>4, SendingControl
      <4>3. CASE ~ok
        BY <2>2, <3>3, <4>1, <4>3, ErrorResponseControl
           DEF StartAlgorithm, Errors, WireErrors
      <4> QED BY <4>2, <4>3
    <3>4. ASSUME NEW step \in Steps, NEW ok \in BOOLEAN, StepAlgorithm(step, ok)
          PROVE  ControlInv'
      <4>1. rt.state = "FRAME_READY" /\ rx.type = "INPUT_DATA"
        BY <3>4 DEF StepAlgorithm, FrameIs
      <4>2. CASE ok
        <5>1. alg' = [alg EXCEPT !.dirty = TRUE, !.steps = @ + 1]
          BY <3>4, <4>2 DEF StepAlgorithm
        <5>2. alg'.running = rt.started
          BY <2>3, <5>1 DEF AlgType, ControlInv, AlgorithmPaired
        <5>3. StartSending(rt, HeaderOctets + config.output_octets, "ADVANCE_STEP",
                           tx.error, [kind |-> "OUTPUT_DATA", step |-> step])
          BY <3>4, <4>2 DEF StepAlgorithm
        <5>4. rt.latched = FALSE BY <2>3, <4>1 DEF RtType, ControlInv, LatchPhase
        <5>5. rt.started /\ rt.phase = "SIM_RUNNING"
          BY <4>1 DEF ControlInv, StartedPhase
        <5> QED BY <2>2, <2>3, <4>1, <5>2, <5>3, <5>4, <5>5, SendingControl
      <4>3. CASE ~ok
        <5>1. alg' = [alg EXCEPT !.dirty = TRUE] /\ StartErrorResponse("ALGORITHM_STEP", "INTERNAL")
          BY <3>4, <4>3 DEF StepAlgorithm
        <5>2. alg'.running = alg.running BY <2>3, <5>1 DEF AlgType
        <5> QED BY <2>2, <4>1, <5>1, <5>2, ErrorResponseControl DEF Errors, WireErrors
      <4> QED BY <4>2, <4>3
    <3>5. CASE StopSession
      BY <2>2, <2>3, <3>5, TerminateControl DEF StopSession, FrameIs, ControlInv,
         LatchPhase, RtType
    <3> QED BY <2>9, <3>1, <3>2, <3>3, <3>4, <3>5 DEF FrameReady
  <2>10. CASE Sending
    <3>1. PICK r \in DeviceResults :
            \/ SendFails(r) \/ SendIdles(r) \/ SendTimesOut(r)
            \/ SendPart(r) \/ FinishFrame(r) \/ FinishAndClose(r)
      BY <2>10 DEF Sending
    <3>2. CASE SendFails(r) \/ SendTimesOut(r)
      BY <2>2, <2>4, <2>5, <3>2, TerminateControl DEF SendFails, SendTimesOut
    <3>3. CASE FinishAndClose(r)
      <4>1. rt.latched = TRUE
        BY <2>3, <3>3 DEF FinishAndClose, ControlInv, LatchPhase, RtType
      <4> QED BY <2>2, <2>3, <3>3, <4>1, TerminateControl DEF FinishAndClose
    <3>4. CASE SendIdles(r) \/ SendPart(r)
      <4>1. rt' = rt /\ rt.state = "SENDING" /\ alg' = alg /\ tx'.done = tx.done
        BY <2>3, <3>4 DEF SendIdles, SendPart, TxType
      <4> QED
        BY <2>2, <4>1
           DEF ControlInv, ConfigAccepted, InertIsBlank, ClosePhase,
               LatchPhase, StartedPhase, AlgorithmPaired, CloseHasCause, InSession
    <3>5. CASE FinishFrame(r)
      <4>1. /\ rt.state = "SENDING" /\ tx.done # "CLOSE"
            /\ rt' = [AfterFrame EXCEPT !.wait_kind = "INTERACTION",
                                        !.state = "RECEIVING"]
            /\ alg'.running = alg.running
        BY <2>3, <3>5 DEF FinishFrame, StartReceiving, AlgType
      <4>2. /\ rt'.state = "RECEIVING" /\ rt'.phase = "SIM_RUNNING"
            /\ rt'.close_pending = rt.close_pending /\ rt'.normal_end = rt.normal_end
            /\ rt'.latched = rt.latched /\ rt'.started = rt.started
        BY <2>3, <4>1 DEF AfterFrame, RtType, TxType, ControlInv, StartedPhase
      <4> QED
        BY <2>2, <2>3, <4>1, <4>2
           DEF RtType, TxType, ControlInv, ConfigAccepted, InertIsBlank, ClosePhase,
               LatchPhase, StartedPhase, AlgorithmPaired, CloseHasCause, InSession
    <3> QED BY <3>1, <3>2, <3>3, <3>4, <3>5
  <2> QED BY <2>1, <2>6, <2>7, <2>8, <2>9, <2>10
<1> QED BY <1>1, <1>2
-----------------------------------------------------------------------------
\* ---- Progress: how much of a frame has passed, and that it fits ----

ProgressInv == RxProgress /\ TxProgress

LEMMA ProgressInit == Init => ProgressInv
BY DEF Init, ProgressInv, RxProgress, TxProgress

\* The frame a session is about to send is one of the two the Core builds.
LEMMA SendingProgress ==
    ASSUME TypeOK, config' = config, NEW r \in RtType, NEW done, NEW error, NEW frame,
           NEW total \in {HeaderOctets + ResponseOctets,
                          HeaderOctets + config.output_octets},
           StartSending(r, total, done, error, frame)
    PROVE  ProgressInv'
<1>1. rt'.state = "SENDING" /\ tx'.total = total /\ tx'.sent = 0
  BY DEF StartSending, RtType
<1>2. 0 < total
  BY ConfigsAssumption DEF TypeOK, ConfigType, HeaderOctets, ResponseOctets
<1> QED BY <1>1, <1>2 DEF ProgressInv, RxProgress, TxProgress, Even

LEMMA ReceivingProgress ==
    ASSUME NEW r \in RtType, NEW kind, StartReceiving(r, kind)
    PROVE  ProgressInv'
BY DEF StartReceiving, RtType, RxReset, ProgressInv, RxProgress, TxProgress

LEMMA TerminateProgress ==
    ASSUME NEW r \in RtType, NEW normal, Terminate(r, normal)
    PROVE  ProgressInv'
BY DEF Terminate, RtType, ProgressInv, RxProgress, TxProgress

LEMMA ProgressStep == TypeOK /\ ProgressInv /\ [Next]_vars => ProgressInv'
<1> SUFFICES ASSUME TypeOK, ProgressInv, [Next]_vars PROVE ProgressInv'
  OBVIOUS
<1>1. CASE UNCHANGED vars
  BY <1>1 DEF vars, ProgressInv, RxProgress, TxProgress
<1>2. CASE Next
  <2>1. PICK d \in 0 .. RunPeriod :
          /\ Elapse(d)
          /\ \/ BlockInit \/ RunInert \/ WaitConnection \/ Receiving
             \/ FrameReady \/ Sending
    BY <1>2 DEF Next
  <2>2. config' = config BY <2>1 DEF Elapse
  <2>3. rt \in RtType /\ rx \in RxType /\ tx \in TxType BY DEF TypeOK
  <2>4. Latch(rt, "IODEVICE") \in RtType /\ Latch(rt, "TIMEOUT") \in RtType
        /\ Latch(rt, "DISCONNECTED") \in RtType
    BY <2>3, LatchType DEF Errors
  <2>5. \A primary \in Errors : \A wire :
          StartErrorResponse(primary, wire) => ProgressInv'
    <3> TAKE primary \in Errors
    <3> TAKE wire
    <3>1. Latch(rt, primary) \in RtType BY <2>3, LatchType
    <3> QED BY <2>2, <3>1, SendingProgress DEF StartErrorResponse
  <2>6. CASE BlockInit \/ RunInert
    BY <2>3, <2>6 DEF BlockInit, RunInert, RtType, ProgressInv, RxProgress, TxProgress
  <2>7. CASE WaitConnection
    <3>1. CASE \/ \E result \in {-1, 0, 1} : CloseChannel(result)
               \/ \E ok \in BOOLEAN : PollConnection(ok)
               \/ ConnectionError
      <4>1. rt'.state = "WAIT_CONNECTION"
        <5>1. ASSUME NEW result \in {-1, 0, 1}, CloseChannel(result)
              PROVE  rt'.state = "WAIT_CONNECTION"
          <6>1. CASE result = 0 BY <5>1, <6>1 DEF CloseChannel, AwaitingClose
          <6>2. CASE result = -1
            BY <2>3, <5>1, <6>2 DEF CloseChannel, AwaitingClose, Latch, RtType
          <6>3. CASE result = 1
            <7>1. rt' = [rt EXCEPT !.close_pending = FALSE, !.normal_end = FALSE,
                                   !.latched = FALSE,
                                   !.last_error = IF rt.normal_end THEN "NONE" ELSE @]
              BY <5>1, <6>3 DEF CloseChannel
            <7> QED BY <2>3, <5>1, <7>1 DEF CloseChannel, AwaitingClose, RtType
          <6> QED BY <6>1, <6>2, <6>3
        <5>2. CASE (\E ok \in BOOLEAN : PollConnection(ok)) \/ ConnectionError
          BY <2>3, <5>2 DEF PollConnection, ConnectionError, AwaitingPeer, Latch, RtType
        <5> QED BY <3>1, <5>1, <5>2
      <4> QED BY <4>1 DEF ProgressInv, RxProgress, TxProgress
    <3>2. CASE PeerClosed BY <2>4, <3>2, TerminateProgress DEF PeerClosed
    <3>3. CASE AcceptConnection
      <4>1. 0 \in Steps BY ClockAssumption DEF Steps
      <4>2. [rt EXCEPT !.phase = "WAIT_SIM_START", !.expected = 0,
                       !.started = FALSE, !.close_pending = FALSE,
                       !.normal_end = FALSE, !.latched = FALSE] \in RtType
        BY <2>3, <4>1 DEF RtType
      <4> QED BY <3>3, <4>2, ReceivingProgress DEF AcceptConnection
    <3> QED BY <2>7, <3>1, <3>2, <3>3 DEF WaitConnection
  <2>8. CASE Receiving
    <3>1. PICK r \in DeviceResults :
            \/ ReceiveFails(r) \/ ReceiveIdles(r) \/ ReceiveTimesOut(r)
            \/ ReceiveHeaderPart(r) \/ ReceivePayload(r)
            \/ \E h \in Arriving : ReceiveHeader(r, h) \/ RejectHeader(r, h)
      BY <2>8 DEF Receiving
    <3>2. r \in Int BY DeviceAssumption
    <3>3. CASE ReceiveFails(r) \/ ReceiveTimesOut(r)
      BY <2>4, <3>3, TerminateProgress DEF ReceiveFails, ReceiveTimesOut
    <3>4. CASE ReceiveIdles(r)
      BY <2>2, <3>4 DEF ReceiveIdles, ProgressInv, RxProgress, TxProgress
    <3>5. CASE ReceiveHeaderPart(r)
      <4>1. /\ rt.state = "RECEIVING" /\ rx.part = "HEADER" /\ rx.header \in {0, 2}
            /\ r > 0 /\ r % 2 = 0 /\ r < HeaderOctets - rx.header
        BY <3>5 DEF ReceiveHeaderPart, GoodCount, Remaining, ProgressInv, RxProgress
      <4>2. rx.header + r \in {0, 2} BY <3>2, <4>1 DEF HeaderOctets
      <4>3. /\ rx'.header = rx.header + r /\ rx'.part = "HEADER" /\ rx'.payload = 0
            /\ rt'.state = "RECEIVING"
        BY <2>3, <3>5, <4>1
           DEF ReceiveHeaderPart, Transferring, RxType, RtType, ProgressInv, RxProgress
      <4> QED BY <4>2, <4>3 DEF ProgressInv, RxProgress, TxProgress
    <3>6. CASE ReceivePayload(r)
      <4>1. /\ rt.state = "RECEIVING" /\ rx.part = "PAYLOAD"
            /\ r > 0 /\ r % 2 = 0 /\ r <= rx.length - rx.payload
        BY <3>6 DEF ReceivePayload, GoodCount, Remaining
      <4>2. /\ rx' = [rx EXCEPT !.payload = @ + r]
            /\ rt'.state = IF r = rx.length - rx.payload THEN "FRAME_READY" ELSE "RECEIVING"
        BY <2>3, <3>6, <4>1 DEF ReceivePayload, Transferring, Remaining, RtType
      <4>3. /\ rx'.part = "PAYLOAD" /\ rx'.payload = rx.payload + r
            /\ rx'.length = rx.length
        BY <2>3, <4>1, <4>2 DEF RxType
      <4>4. CASE r = rx.length - rx.payload
        BY <4>2, <4>4 DEF ProgressInv, RxProgress, TxProgress
      <4>5. CASE r # rx.length - rx.payload
        <5>1. /\ Even(rx.length) /\ Even(rx.payload)
              /\ HeaderOctets + rx.length <= config.rx_capacity
          BY <4>1 DEF ProgressInv, RxProgress
        <5>2. Even(rx.payload + r) /\ rx.payload + r < rx.length
          BY <2>3, <3>2, <4>1, <4>5, <5>1 DEF RxType, Even
        <5> QED BY <2>2, <4>2, <4>3, <4>5, <5>1, <5>2 DEF ProgressInv, RxProgress, TxProgress
      <4> QED BY <4>4, <4>5
    <3>7. ASSUME NEW h \in Arriving, ReceiveHeader(r, h) PROVE ProgressInv'
      <4>1. h.length \in Nat
        BY DeviceAssumption DEF Arriving, Headers
      <4>2. h.length % 2 = 0 /\ HeaderOctets + h.length <= config.rx_capacity
        <5>1. /\ ~(h.length % 2 = 1) /\ ~(HeaderOctets + h.length > config.rx_capacity)
          BY <3>7 DEF ReceiveHeader, HeaderVerdict
        <5>2. config.rx_capacity \in Nat BY ConfigsAssumption DEF TypeOK, ConfigType
        <5> QED BY <4>1, <5>1, <5>2 DEF HeaderOctets
      <4>3. /\ rt'.state = IF h.length = 0 THEN "FRAME_READY" ELSE "RECEIVING"
            /\ h.length # 0 => rx'.part = "PAYLOAD"
            /\ rx'.length = h.length /\ rx'.payload = rx.payload
        BY <2>3, <3>7 DEF ReceiveHeader, Transferring, RtType, RxType
      <4>4. rx.payload = 0
        BY <3>7 DEF ReceiveHeader, ProgressInv, RxProgress
      <4> QED BY <2>2, <4>1, <4>2, <4>3, <4>4 DEF ProgressInv, RxProgress, TxProgress, Even
    <3>8. ASSUME NEW h \in Arriving, RejectHeader(r, h) PROVE ProgressInv'
      <4>1. Latch(Transferring, "PROTOCOL") \in RtType
        BY <2>3, LatchType DEF Transferring, RtType, Errors
      <4> QED BY <2>2, <3>8, <4>1, SendingProgress DEF RejectHeader
    <3> QED BY <3>1, <3>3, <3>4, <3>5, <3>6, <3>7, <3>8
  <2>9. CASE FrameReady
    <3>1. ASSUME NEW p \in StartPayloads, RejectStart(p) PROVE ProgressInv'
      BY <2>5, <3>1 DEF RejectStart, Errors
    <3>2. ASSUME NEW step, RejectStep(step) PROVE ProgressInv'
      BY <2>5, <3>2 DEF RejectStep, Errors
    <3>3. ASSUME NEW p \in StartPayloads, NEW ok \in BOOLEAN, StartAlgorithm(p, ok)
          PROVE  ProgressInv'
      <4>1. [rt EXCEPT !.started = TRUE] \in RtType BY <2>3 DEF RtType
      <4> QED BY <2>2, <2>5, <3>3, <4>1, SendingProgress DEF StartAlgorithm, Errors
    <3>4. ASSUME NEW step \in Steps, NEW ok \in BOOLEAN, StepAlgorithm(step, ok)
          PROVE  ProgressInv'
      BY <2>2, <2>3, <2>5, <3>4, SendingProgress DEF StepAlgorithm, Errors
    <3>5. CASE StopSession
      BY <2>3, <3>5, TerminateProgress DEF StopSession
    <3> QED BY <2>9, <3>1, <3>2, <3>3, <3>4, <3>5 DEF FrameReady
  <2>10. CASE Sending
    <3>1. PICK r \in DeviceResults :
            \/ SendFails(r) \/ SendIdles(r) \/ SendTimesOut(r)
            \/ SendPart(r) \/ FinishFrame(r) \/ FinishAndClose(r)
      BY <2>10 DEF Sending
    <3>2. r \in Int BY DeviceAssumption
    <3>3. CASE SendFails(r) \/ SendTimesOut(r) \/ FinishAndClose(r)
      BY <2>3, <2>4, <3>3, TerminateProgress DEF SendFails, SendTimesOut, FinishAndClose
    <3>4. CASE SendIdles(r)
      BY <2>2, <3>4 DEF SendIdles, ProgressInv, RxProgress, TxProgress
    <3>5. CASE SendPart(r)
      <4>1. /\ rt.state = "SENDING" /\ rt' = rt
            /\ r > 0 /\ r % 2 = 0 /\ r < tx.total - tx.sent
            /\ tx'.sent = tx.sent + r /\ tx'.total = tx.total
        BY <2>3, <3>5 DEF SendPart, GoodCount, Unsent, TxType
      <4>2. Even(tx.sent) /\ tx.total \in {HeaderOctets + ResponseOctets,
                                           HeaderOctets + config.output_octets}
        BY <4>1 DEF ProgressInv, TxProgress
      <4>3. Even(tx.sent + r) /\ tx.sent + r < tx.total
        BY <2>3, <3>2, <4>1, <4>2 DEF TxType, Even
      <4> QED BY <2>2, <4>1, <4>2, <4>3 DEF ProgressInv, RxProgress, TxProgress
    <3>6. CASE FinishFrame(r)
      <4>1. 0 \in Steps /\ (rt.expected + 1) % StepMod \in Steps
        BY <2>3, ClockAssumption, StepRange DEF Steps, RtType
      <4>2. AfterFrame \in RtType BY <2>3, <4>1 DEF AfterFrame, RtType
      <4> QED BY <3>6, <4>2, ReceivingProgress DEF FinishFrame
    <3> QED BY <3>1, <3>3, <3>4, <3>5, <3>6
  <2> QED BY <2>1, <2>6, <2>7, <2>8, <2>9, <2>10
<1> QED BY <1>1, <1>2

\* receive and send are never asked to go past the frame buffers of the config
\* Init accepted, at any wire length, device result and config.
LEMMA FramesFitHolds == TypeOK /\ ControlInv /\ ProgressInv => FramesFit
<1> SUFFICES ASSUME TypeOK, ControlInv, ProgressInv PROVE FramesFit
  OBVIOUS
<1>1. config \in ConfigType BY ConfigsAssumption DEF TypeOK
<1>2. ASSUME rt.state = "RECEIVING"
      PROVE  LET at == IF rx.part = "HEADER" THEN rx.header ELSE HeaderOctets + rx.payload
             IN  at % 2 = 0 /\ Remaining > 0 /\ at + Remaining <= config.rx_capacity
  <2>1. rx \in RxType /\ config.rx_capacity \in Nat BY <1>1 DEF TypeOK, ConfigType
  <2>2. CASE rx.part = "HEADER"
    <3>1. ConfigIsValid(config) BY <1>2 DEF ControlInv, ConfigAccepted
    <3>2. config.rx_capacity >= HeaderOctets
      BY <1>1, <3>1
         DEF ConfigIsValid, BuffersHoldFrames, Larger, ConfigType, HeaderOctets,
             SimStartOctets
    <3> QED BY <1>2, <2>1, <2>2, <3>2
            DEF ProgressInv, RxProgress, Remaining, HeaderOctets
  <2>3. CASE rx.part = "PAYLOAD"
    BY <1>2, <2>1, <2>3
       DEF ProgressInv, RxProgress, Remaining, HeaderOctets, Even, RxType
  <2> QED BY <2>1, <2>2, <2>3 DEF RxType
<1>3. ASSUME rt.state = "SENDING"
      PROVE  tx.sent % 2 = 0 /\ Unsent > 0 /\ tx.total <= config.tx_capacity
  <2>1. tx \in TxType BY DEF TypeOK
  <2>2. ConfigIsValid(config) BY <1>3 DEF ControlInv, ConfigAccepted
  <2>3. /\ config.tx_capacity >= HeaderOctets + config.output_octets
        /\ config.tx_capacity >= HeaderOctets + ResponseOctets
    BY <1>1, <2>2
       DEF ConfigIsValid, BuffersHoldFrames, Larger, ConfigType, HeaderOctets,
           ResponseOctets
  <2>4. config.tx_capacity \in Nat /\ config.output_octets \in Nat
    BY <1>1 DEF ConfigType
  <2> QED BY <1>3, <2>1, <2>3, <2>4
          DEF ProgressInv, TxProgress, Unsent, Even, TxType, HeaderOctets, ResponseOctets
<1> QED BY <1>2, <1>3 DEF FramesFit
-----------------------------------------------------------------------------
\* ---- Waiting: the age of a wait ----

LEMMA WaitingInit == Init => Waiting
BY DEF Init, Waiting, Timed

\* The two limits of an accepted config lie inside half the clock range.
LEMMA LimitRange ==
    ASSUME config \in Configs, ConfigIsValid(config)
    PROVE  CurrentLimit \in 1 .. HalfClock - 1
BY DEF ConfigIsValid, CurrentLimit, WaitLimit

\* Every call of Run restarts the wait, leaves the timed states, or has looked at
\* the age of the wait and found it below the limit.
LEMMA WaitKinds ==
    ASSUME TypeOK, NEW d \in 0 .. RunPeriod, Elapse(d),
           \/ BlockInit \/ RunInert \/ WaitConnection \/ Receiving
           \/ FrameReady \/ Sending
    PROVE  \/ ~Timed'
           \/ ProgressRestarts /\ rt.state # "INERT"
           \/ ProgressAges /\ rt' = rt /\ Timed /\ ~Expired(CurrentLimit)
<1> DEFINE Goal == \/ ~Timed'
                   \/ ProgressRestarts /\ rt.state # "INERT"
                   \/ ProgressAges /\ rt' = rt /\ Timed /\ ~Expired(CurrentLimit)
<1>1. rt \in RtType BY DEF TypeOK
<1>2. \A e \in Errors : Latch(rt, e) \in RtType BY <1>1, LatchType
<1>3. \A r \in RtType : \A normal : Terminate(r, normal) => ~Timed'
  BY DEF Terminate, RtType, Timed
<1>4. \A e \in Errors : \A normal : Terminate(Latch(rt, e), normal) => Goal
  BY <1>2, <1>3
<1>5. \A e, w : StartErrorResponse(e, w) => ProgressRestarts
  BY DEF StartErrorResponse, StartSending
<1>6. CASE BlockInit \/ RunInert
  BY <1>1, <1>6 DEF BlockInit, RunInert, RtType, Timed
<1>7. CASE WaitConnection
  <2>1. CASE \E result \in {-1, 0, 1} : CloseChannel(result)
    <3>1. PICK result \in {-1, 0, 1} : CloseChannel(result) BY <2>1
    <3>2. CASE result = 0
      BY <3>1, <3>2 DEF CloseChannel, AwaitingClose, Timed
    <3>3. CASE result = -1
      BY <1>1, <3>1, <3>3 DEF CloseChannel, AwaitingClose, Latch, RtType, Timed
    <3>4. CASE result = 1
      <4>1. rt' = [rt EXCEPT !.close_pending = FALSE, !.normal_end = FALSE,
                             !.latched = FALSE,
                             !.last_error = IF rt.normal_end THEN "NONE" ELSE @]
        BY <3>1, <3>4 DEF CloseChannel
      <4> QED BY <1>1, <3>1, <4>1 DEF CloseChannel, AwaitingClose, RtType, Timed
    <3> QED BY <3>1, <3>2, <3>3, <3>4
  <2>2. CASE (\E ok \in BOOLEAN : PollConnection(ok)) \/ ConnectionError
    BY <1>1, <2>2
       DEF PollConnection, ConnectionError, AwaitingPeer, Latch, RtType, Timed
  <2>3. CASE PeerClosed BY <1>4, <2>3 DEF PeerClosed, Errors
  <2>4. CASE AcceptConnection
    BY <2>4 DEF AcceptConnection, StartReceiving, AwaitingPeer
  <2> QED BY <1>7, <2>1, <2>2, <2>3, <2>4 DEF WaitConnection
<1>8. CASE Receiving
  <2>1. PICK r \in DeviceResults :
          \/ ReceiveFails(r) \/ ReceiveIdles(r) \/ ReceiveTimesOut(r)
          \/ ReceiveHeaderPart(r) \/ ReceivePayload(r)
          \/ \E h \in Arriving : ReceiveHeader(r, h) \/ RejectHeader(r, h)
    BY <1>8 DEF Receiving
  <2>2. CASE ReceiveFails(r) \/ ReceiveTimesOut(r)
    BY <1>4, <2>2 DEF ReceiveFails, ReceiveTimesOut, Errors
  <2>3. CASE ReceiveIdles(r)
    BY <2>3 DEF ReceiveIdles, Timed, CurrentLimit
  <2>4. CASE \/ ReceiveHeaderPart(r) \/ ReceivePayload(r)
             \/ \E h \in Arriving : ReceiveHeader(r, h) \/ RejectHeader(r, h)
    BY <2>4 DEF ReceiveHeaderPart, ReceivePayload, ReceiveHeader, RejectHeader,
                StartSending
  <2> QED BY <2>1, <2>2, <2>3, <2>4
<1>9. CASE FrameReady
  <2>1. rt.state = "FRAME_READY"
    BY <1>9 DEF FrameReady, RejectStart, StartAlgorithm, RejectStep, StepAlgorithm,
                StopSession, FrameIs
  <2>2. ProgressRestarts \/ Terminate(rt, TRUE)
    BY <1>5, <1>9 DEF FrameReady, RejectStart, StartAlgorithm, RejectStep,
                      StepAlgorithm, StopSession, StartSending
  <2> QED BY <1>1, <1>3, <2>1, <2>2
<1>10. CASE Sending
  <2>1. PICK r \in DeviceResults :
          \/ SendFails(r) \/ SendIdles(r) \/ SendTimesOut(r)
          \/ SendPart(r) \/ FinishFrame(r) \/ FinishAndClose(r)
    BY <1>10 DEF Sending
  <2>2. CASE SendFails(r) \/ SendTimesOut(r) \/ FinishAndClose(r)
    BY <1>1, <1>3, <1>4, <2>2 DEF SendFails, SendTimesOut, FinishAndClose, Errors
  <2>3. CASE SendIdles(r) BY <2>3 DEF SendIdles, Timed, CurrentLimit
  <2>4. CASE SendPart(r) \/ FinishFrame(r)
    BY <2>4 DEF SendPart, FinishFrame, StartReceiving
  <2> QED BY <2>1, <2>2, <2>3, <2>4
<1> QED BY <1>6, <1>7, <1>8, <1>9, <1>10

LEMMA WaitingStep ==
    TypeOK /\ ControlInv /\ ControlInv' /\ Waiting /\ [Next]_vars => Waiting'
<1> SUFFICES ASSUME TypeOK, ControlInv, ControlInv', Waiting, [Next]_vars PROVE Waiting'
  OBVIOUS
<1>1. CASE UNCHANGED vars
  BY <1>1 DEF vars, Waiting, Timed, CurrentLimit, WaitLimit
<1>2. CASE Next
  <2>1. PICK d \in 0 .. RunPeriod :
          /\ Elapse(d)
          /\ \/ BlockInit \/ RunInert \/ WaitConnection \/ Receiving
             \/ FrameReady \/ Sending
    BY <1>2 DEF Next
  <2>2. /\ clock' = ClockAdd(clock, d) /\ config' = config
        /\ clock \in 0 .. ClockMod - 1 /\ progress_start \in 0 .. ClockMod - 1
        /\ config \in Configs
    BY <2>1 DEF Elapse, TypeOK
  <2>3. clock' \in 0 .. ClockMod - 1 BY <2>1, <2>2, ClockRange
  <2>4. CASE ~Timed' BY <2>4 DEF Waiting
  <2>5. CASE ProgressRestarts /\ Timed'
    <3>1. ConfigIsValid(config)' /\ (config \in Configs)'
      BY <2>2, <2>5 DEF ControlInv, ConfigAccepted, Timed
    <3>2. CurrentLimit' \in 1 .. HalfClock - 1
      BY <3>1 DEF ConfigIsValid, CurrentLimit, WaitLimit
    <3>3. ClockSub(clock', clock') = 0 BY <2>3, NoAge
    <3> QED BY <2>5, <3>2, <3>3, ClockAssumption DEF Waiting, ProgressRestarts
  <2>6. CASE ProgressAges /\ rt' = rt /\ Timed /\ ~Expired(CurrentLimit)
    <3>1. ConfigIsValid(config)
      BY <2>6 DEF ControlInv, ConfigAccepted, Timed
    <3>2. CurrentLimit \in 1 .. HalfClock - 1 BY <2>2, <3>1, LimitRange
    <3>3. idle = ClockSub(clock, progress_start) /\ idle < CurrentLimit
      BY <2>6 DEF Waiting
    <3>4. ClockSub(clock, progress_start) < HalfClock
      BY <2>2, <3>2, <3>3, AgeRange, ClockAssumption
    <3>5. idle' = ClockSub(clock', progress_start)
      BY <2>1, <2>2, <2>6, <3>3, <3>4, AgeIsExact DEF ProgressAges
    <3>6. ClockSub(clock', progress_start) \in 0 .. ClockMod - 1
      BY <2>2, <2>3, AgeRange
    <3>7. idle' < CurrentLimit
      BY <2>6, <3>2, <3>5, <3>6, ClockAssumption DEF Expired
    <3>8. CurrentLimit' = CurrentLimit
      BY <2>2, <2>6 DEF CurrentLimit, WaitLimit
    <3> QED BY <2>6, <3>5, <3>7, <3>8 DEF Waiting, ProgressAges
  <2> QED BY <2>1, <2>4, <2>5, <2>6, WaitKinds
<1> QED BY <1>1, <1>2
-----------------------------------------------------------------------------
\* ---- Counting: computed steps, delivered outputs and the expected index ----

CountInv == LockStep /\ Unused

LEMMA CountInit == Init => CountInv
BY DEF Init, CountInv, LockStep, Unused, InSession

\* A step that leaves the session's counters and phase alone.
LEMMA SameCount ==
    ASSUME CountInv, alg' = alg, rt'.expected = rt.expected, rt'.phase = rt.phase,
           InSession' = InSession, rt'.state = "INERT" <=> rt.state = "INERT",
           (rt'.state = "SENDING" /\ tx'.done = "ADVANCE_STEP")
             <=> (rt.state = "SENDING" /\ tx.done = "ADVANCE_STEP")
    PROVE  CountInv'
BY DEF CountInv, LockStep, Unused

LEMMA TerminateCount ==
    ASSUME TypeOK, NEW r \in RtType, NEW normal, Terminate(r, normal)
    PROVE  CountInv'
<1>1. rt'.state = "WAIT_CONNECTION" BY DEF Terminate, RtType
<1>2. alg'.steps = 0 /\ alg'.delivered = 0 /\ ~alg'.dirty
  BY DEF Terminate, AlgStop, AlgReset, TypeOK, AlgType
<1> QED BY <1>1, <1>2 DEF CountInv, LockStep, Unused, InSession

\* An answer that is not an output.
LEMMA AnswerCount ==
    ASSUME TypeOK, CountInv, rt.state \in {"RECEIVING", "FRAME_READY"},
           NEW r \in RtType, NEW total, NEW done, NEW error, NEW frame,
           StartSending(r, total, done, error, frame), done # "ADVANCE_STEP",
           r.expected = rt.expected, r.phase = rt.phase,
           alg'.steps = alg.steps, alg'.delivered = alg.delivered,
           alg'.dirty => alg.dirty \/ rt.phase = "SIM_RUNNING"
    PROVE  CountInv'
<1>1. /\ rt'.state = "SENDING" /\ rt'.expected = rt.expected
      /\ rt'.phase = rt.phase /\ tx'.done = done
  BY DEF StartSending, RtType
<1>2. InSession /\ InSession' BY <1>1 DEF InSession
<1> QED BY <1>1, <1>2 DEF CountInv, LockStep, Unused

LEMMA CountStep ==
    TypeOK /\ ControlInv /\ CountInv /\ [Next]_vars => CountInv'
<1> SUFFICES ASSUME TypeOK, ControlInv, CountInv, [Next]_vars PROVE CountInv'
  OBVIOUS
<1>1. CASE UNCHANGED vars
  BY <1>1, SameCount DEF vars, InSession
<1>2. CASE Next
  <2>1. PICK d \in 0 .. RunPeriod :
          /\ Elapse(d)
          /\ \/ BlockInit \/ RunInert \/ WaitConnection \/ Receiving
             \/ FrameReady \/ Sending
    BY <1>2 DEF Next
  <2>2. rt \in RtType /\ rx \in RxType /\ tx \in TxType /\ alg \in AlgType BY DEF TypeOK
  <2>3. \A e \in Errors : Latch(rt, e) \in RtType BY <2>2, LatchType
  <2>4. \A e \in Errors : \A normal : Terminate(Latch(rt, e), normal) => CountInv'
    BY <2>3, TerminateCount
  <2>5. ASSUME NEW e \in Errors, NEW w, StartErrorResponse(e, w),
               rt.state \in {"RECEIVING", "FRAME_READY"},
               alg'.steps = alg.steps, alg'.delivered = alg.delivered,
               alg'.dirty => alg.dirty \/ rt.phase = "SIM_RUNNING"
        PROVE  CountInv'
    <3>1. /\ Latch(rt, e).expected = rt.expected /\ Latch(rt, e).phase = rt.phase
          /\ Latch(rt, e) \in RtType
      BY <2>2, <2>3 DEF Latch, RtType
    <3> QED BY <2>5, <3>1, AnswerCount DEF StartErrorResponse
  <2>6. CASE BlockInit \/ RunInert
    BY <2>2, <2>6 DEF BlockInit, RunInert, RtType, AlgType, CountInv, LockStep, Unused,
                      InSession
  <2>7. CASE WaitConnection
    <3>1. CASE \/ \E result \in {-1, 0, 1} : CloseChannel(result)
               \/ \E ok \in BOOLEAN : PollConnection(ok)
               \/ ConnectionError
      <4>1. /\ rt.state = "WAIT_CONNECTION" /\ rt'.state = "WAIT_CONNECTION"
            /\ alg' = alg
        <5>1. ASSUME NEW result \in {-1, 0, 1}, CloseChannel(result)
              PROVE  rt'.state = "WAIT_CONNECTION" /\ rt.state = "WAIT_CONNECTION"
          <6>1. CASE result = 0 BY <5>1, <6>1 DEF CloseChannel, AwaitingClose
          <6>2. CASE result = -1
            BY <2>2, <5>1, <6>2 DEF CloseChannel, AwaitingClose, Latch, RtType
          <6>3. CASE result = 1
            <7>1. rt' = [rt EXCEPT !.close_pending = FALSE, !.normal_end = FALSE,
                                   !.latched = FALSE,
                                   !.last_error = IF rt.normal_end THEN "NONE" ELSE @]
              BY <5>1, <6>3 DEF CloseChannel
            <7> QED BY <2>2, <5>1, <7>1 DEF CloseChannel, AwaitingClose, RtType
          <6> QED BY <6>1, <6>2, <6>3
        <5>2. CASE (\E ok \in BOOLEAN : PollConnection(ok)) \/ ConnectionError
          BY <2>2, <5>2 DEF PollConnection, ConnectionError, AwaitingPeer, Latch, RtType
        <5>3. alg' = alg
          BY <3>1 DEF CloseChannel, PollConnection, ConnectionError
        <5> QED BY <3>1, <5>1, <5>2, <5>3
      <4> QED BY <4>1 DEF CountInv, LockStep, Unused, InSession
    <3>2. CASE PeerClosed BY <2>4, <3>2 DEF PeerClosed, Errors
    <3>3. CASE AcceptConnection
      <4>1. /\ rt' = [rt EXCEPT !.phase = "WAIT_SIM_START", !.expected = 0,
                                !.started = FALSE, !.close_pending = FALSE,
                                !.normal_end = FALSE, !.latched = FALSE,
                                !.wait_kind = "TRANSFER", !.state = "RECEIVING"]
            /\ alg' = [alg EXCEPT !.dirty = FALSE, !.steps = 0, !.delivered = 0]
        BY <2>2, <3>3 DEF AcceptConnection, StartReceiving, AlgReset, RtType
      <4>2. /\ rt'.state = "RECEIVING" /\ rt'.phase = "WAIT_SIM_START" /\ rt'.expected = 0
            /\ alg'.steps = 0 /\ alg'.delivered = 0 /\ alg'.dirty = FALSE
        BY <2>2, <4>1 DEF RtType, AlgType
      <4>3. 0 % StepMod = 0 BY ClockAssumption
      <4> QED BY <4>2, <4>3 DEF CountInv, LockStep, Unused, InSession
    <3> QED BY <2>7, <3>1, <3>2, <3>3 DEF WaitConnection
  <2>8. CASE Receiving
    <3>1. PICK r \in DeviceResults :
            \/ ReceiveFails(r) \/ ReceiveIdles(r) \/ ReceiveTimesOut(r)
            \/ ReceiveHeaderPart(r) \/ ReceivePayload(r)
            \/ \E h \in Arriving : ReceiveHeader(r, h) \/ RejectHeader(r, h)
      BY <2>8 DEF Receiving
    <3>2. CASE ReceiveFails(r) \/ ReceiveTimesOut(r)
      BY <2>4, <3>2 DEF ReceiveFails, ReceiveTimesOut, Errors
    <3>3. CASE \/ ReceiveIdles(r) \/ ReceiveHeaderPart(r) \/ ReceivePayload(r)
               \/ \E h \in Arriving : ReceiveHeader(r, h)
      <4>1. /\ rt.state = "RECEIVING" /\ rt'.state \in {"RECEIVING", "FRAME_READY"}
            /\ rt'.expected = rt.expected /\ rt'.phase = rt.phase /\ alg' = alg
        BY <2>2, <3>3
           DEF ReceiveIdles, ReceiveHeaderPart, ReceivePayload, ReceiveHeader,
               Transferring, RtType
      <4> QED BY <4>1, SameCount DEF InSession
    <3>4. ASSUME NEW h \in Arriving, RejectHeader(r, h) PROVE CountInv'
      <4> DEFINE s == Latch(Transferring, "PROTOCOL")
      <4>1. s \in RtType
        BY <2>2, LatchType DEF Transferring, RtType, Errors
      <4>2. s.expected = rt.expected /\ s.phase = rt.phase
        BY <2>2 DEF Latch, Transferring, RtType
      <4>3. StartSending(s, HeaderOctets + ResponseOctets, "CLOSE", HeaderVerdict(h),
                         [kind |-> "RESPONSE", error |-> HeaderVerdict(h)])
            /\ rt.state = "RECEIVING" /\ alg' = alg
        BY <3>4 DEF RejectHeader
      <4> HIDE DEF s
      <4> QED BY <4>1, <4>2, <4>3, AnswerCount
    <3> QED BY <3>1, <3>2, <3>3, <3>4
  <2>9. CASE FrameReady
    <3>1. ASSUME NEW p \in StartPayloads, RejectStart(p) PROVE CountInv'
      BY <2>5, <3>1 DEF RejectStart, FrameIs, Errors
    <3>2. ASSUME NEW step, RejectStep(step) PROVE CountInv'
      BY <2>5, <3>2 DEF RejectStep, FrameIs, Errors
    <3>3. ASSUME NEW p \in StartPayloads, NEW ok \in BOOLEAN, StartAlgorithm(p, ok)
          PROVE  CountInv'
      <4>1. CASE ok
        <5>1. [rt EXCEPT !.started = TRUE] \in RtType
              /\ [rt EXCEPT !.started = TRUE].expected = rt.expected
              /\ [rt EXCEPT !.started = TRUE].phase = rt.phase
          BY <2>2 DEF RtType
        <5>2. alg' = [alg EXCEPT !.running = TRUE] BY <3>3, <4>1 DEF StartAlgorithm
        <5>3. alg'.steps = alg.steps /\ alg'.delivered = alg.delivered
              /\ alg'.dirty = alg.dirty
          BY <2>2, <5>2 DEF AlgType
        <5> QED BY <3>3, <4>1, <5>1, <5>3, AnswerCount DEF StartAlgorithm, FrameIs
      <4>2. CASE ~ok BY <2>5, <3>3, <4>2 DEF StartAlgorithm, FrameIs, Errors
      <4> QED BY <4>1, <4>2
    <3>4. ASSUME NEW step \in Steps, NEW ok \in BOOLEAN, StepAlgorithm(step, ok)
          PROVE  CountInv'
      <4>1. rt.state = "FRAME_READY" /\ rt.phase = "SIM_RUNNING"
        BY <3>4 DEF StepAlgorithm, FrameIs, ControlInv, StartedPhase
      <4>2. CASE ok
        <5>1. alg' = [alg EXCEPT !.dirty = TRUE, !.steps = @ + 1]
          BY <3>4, <4>2 DEF StepAlgorithm
        <5>2. alg'.steps = alg.steps + 1 /\ alg'.delivered = alg.delivered
          BY <2>2, <5>1 DEF AlgType
        <5>3. /\ rt'.state = "SENDING" /\ tx'.done = "ADVANCE_STEP"
              /\ rt'.phase = rt.phase /\ rt'.expected = rt.expected
          BY <2>2, <3>4, <4>2 DEF StepAlgorithm, StartSending, RtType
        <5>4. alg.steps - alg.delivered = 0 /\ rt.expected = alg.delivered % StepMod
          BY <4>1 DEF CountInv, LockStep, InSession
        <5>5. alg'.steps - alg'.delivered = 1 BY <2>2, <5>2, <5>4 DEF AlgType
        <5> QED BY <4>1, <5>2, <5>3, <5>4, <5>5 DEF CountInv, LockStep, Unused, InSession
      <4>3. CASE ~ok
        <5>1. alg' = [alg EXCEPT !.dirty = TRUE]
              /\ StartErrorResponse("ALGORITHM_STEP", "INTERNAL")
          BY <3>4, <4>3 DEF StepAlgorithm
        <5>2. alg'.steps = alg.steps /\ alg'.delivered = alg.delivered
          BY <2>2, <5>1 DEF AlgType
        <5> QED BY <2>5, <4>1, <5>1, <5>2 DEF Errors
      <4> QED BY <4>2, <4>3
    <3>5. CASE StopSession BY <2>2, <3>5, TerminateCount DEF StopSession
    <3> QED BY <2>9, <3>1, <3>2, <3>3, <3>4, <3>5 DEF FrameReady
  <2>10. CASE Sending
    <3>1. PICK r \in DeviceResults :
            \/ SendFails(r) \/ SendIdles(r) \/ SendTimesOut(r)
            \/ SendPart(r) \/ FinishFrame(r) \/ FinishAndClose(r)
      BY <2>10 DEF Sending
    <3>2. CASE SendFails(r) \/ SendTimesOut(r) \/ FinishAndClose(r)
      BY <2>2, <2>4, <3>2, TerminateCount
         DEF SendFails, SendTimesOut, FinishAndClose, Errors
    <3>3. CASE SendIdles(r) \/ SendPart(r)
      <4>1. rt' = rt /\ alg' = alg /\ tx'.done = tx.done
        BY <2>2, <3>3 DEF SendIdles, SendPart, TxType
      <4> QED BY <4>1, SameCount DEF InSession
    <3>4. CASE FinishFrame(r)
      <4>1. /\ rt.state = "SENDING" /\ tx.done # "CLOSE"
            /\ rt' = [AfterFrame EXCEPT !.wait_kind = "INTERACTION",
                                        !.state = "RECEIVING"]
            /\ alg' = [alg EXCEPT !.delivered =
                          IF tx.done = "ADVANCE_STEP" THEN @ + 1 ELSE @]
        BY <3>4 DEF FinishFrame, StartReceiving
      <4>2. rt'.state = "RECEIVING" /\ rt'.phase = "SIM_RUNNING" /\ alg'.steps = alg.steps
        BY <2>2, <4>1 DEF AfterFrame, RtType, AlgType, TxType, ControlInv, StartedPhase
      <4>3. CASE tx.done = "ENTER_SIM_RUNNING"
        <5>1. rt.phase = "WAIT_SIM_START" BY <4>1, <4>3 DEF ControlInv, StartedPhase
        <5>2. alg.steps = 0 /\ alg.delivered = 0 BY <5>1 DEF CountInv, Unused
        <5>3. rt'.expected = 0 /\ alg'.delivered = 0
          BY <2>2, <4>1, <4>3, <5>2 DEF AfterFrame, RtType, AlgType
        <5>4. 0 % StepMod = 0 BY ClockAssumption
        <5> QED BY <4>2, <5>2, <5>3, <5>4 DEF CountInv, LockStep, Unused, InSession
      <4>4. CASE tx.done = "ADVANCE_STEP"
        <5>1. alg.steps - alg.delivered = 1 /\ rt.expected = alg.delivered % StepMod
          BY <4>1, <4>4 DEF CountInv, LockStep, InSession
        <5>2. rt'.expected = (rt.expected + 1) % StepMod
              /\ alg'.delivered = alg.delivered + 1
          BY <2>2, <4>1, <4>4 DEF AfterFrame, RtType, AlgType
        <5>3. rt'.expected = alg'.delivered % StepMod
          BY <2>2, <5>1, <5>2, NextStep, ClockAssumption DEF AlgType
        <5>4. alg'.steps - alg'.delivered = 0
          BY <2>2, <4>2, <5>1, <5>2 DEF AlgType
        <5> QED BY <4>2, <5>3, <5>4 DEF CountInv, LockStep, Unused, InSession
      <4> QED BY <2>2, <4>1, <4>3, <4>4 DEF TxType
    <3> QED BY <3>1, <3>2, <3>3, <3>4
  <2> QED BY <2>1, <2>6, <2>7, <2>8, <2>9, <2>10
<1> QED BY <1>1, <1>2
-----------------------------------------------------------------------------
\* ---- The invariants ----

IInv == TypeOK /\ ControlInv /\ ProgressInv /\ Waiting /\ CountInv

LEMMA InvInit == Init => IInv
BY TypeInit, ControlInit, ProgressInit, WaitingInit, CountInit DEF IInv

LEMMA InvStep == IInv /\ [Next]_vars => IInv'
<1> SUFFICES ASSUME IInv, [Next]_vars PROVE IInv'
  OBVIOUS
<1>1. TypeOK' BY TypeStep DEF IInv
<1>2. ControlInv' BY ControlStep DEF IInv
<1>3. ProgressInv' BY ProgressStep DEF IInv
<1>4. Waiting' BY <1>2, WaitingStep DEF IInv
<1>5. CountInv' BY CountStep DEF IInv
<1> QED BY <1>1, <1>2, <1>3, <1>4, <1>5 DEF IInv

THEOREM Invariance == Spec => []IInv
<1> QED BY InvInit, InvStep, PTL DEF Spec

\* on_start and on_stop come in pairs, whatever ends the session.
THEOREM PairingCorrect == Spec => []AlgorithmPaired
<1>1. IInv => AlgorithmPaired BY DEF IInv, ControlInv
<1> QED BY <1>1, Invariance, PTL

\* The step index the Core expects is the number of outputs it delivered, for
\* every number of steps and every width of the index.
THEOREM LockStepCorrect == Spec => []LockStep
<1>1. IInv => LockStep BY DEF IInv, CountInv
<1> QED BY <1>1, Invariance, PTL

\* No IoDevice call is asked to go past a frame buffer.
THEOREM BuffersCorrect == Spec => []FramesFit
<1>1. IInv => FramesFit BY FramesFitHolds DEF IInv
<1> QED BY <1>1, Invariance, PTL

\* A session that is being closed has its cause on record.
THEOREM CauseCorrect == Spec => []CloseHasCause
<1>1. IInv => CloseHasCause BY DEF IInv, ControlInv
<1> QED BY <1>1, Invariance, PTL

\* No timed state outlasts its limit, for every accepted timeout and clock width.
THEOREM OverstayCorrect == Spec => []NoOverstay
<1>1. IInv => NoOverstay BY DEF IInv, Waiting, NoOverstay
<1> QED BY <1>1, Invariance, PTL
-----------------------------------------------------------------------------
\* ---- What a step may do ----

\* Two calls of Run the properties below have to tell apart from all others: one
\* that ends the session, and one that hands a frame to the device.
LEMMA Terminated ==
    ASSUME IInv, NEW r \in RtType, NEW normal, Terminate(r, normal)
    PROVE  /\ rt'.state = "WAIT_CONNECTION" /\ rt'.close_pending = TRUE
           /\ rt'.latched = r.latched /\ rt'.last_error = r.last_error
           /\ alg'.running = FALSE /\ alg'.steps = 0 /\ alg'.delivered = 0
<1>1. /\ rt'.state = "WAIT_CONNECTION" /\ rt'.close_pending = TRUE
      /\ rt'.latched = r.latched /\ rt'.last_error = r.last_error
  BY DEF Terminate, RtType
<1>2. alg'.running = FALSE /\ alg'.steps = 0 /\ alg'.delivered = 0
  BY DEF Terminate, AlgStop, AlgReset, IInv, ControlInv, AlgorithmPaired, TypeOK,
         AlgType, RtType
<1> QED BY <1>1, <1>2

LEMMA Answered ==
    ASSUME NEW r \in RtType, NEW total, NEW done, NEW error, NEW frame,
           StartSending(r, total, done, error, frame)
    PROVE  /\ rt'.state = "SENDING" /\ tx'.done = done
           /\ rt'.latched = r.latched /\ rt'.last_error = r.last_error
           /\ rt'.close_pending = r.close_pending
BY DEF StartSending, RtType

\* What close leaves of the control state.
LEMMA ClosedChannel ==
    ASSUME TypeOK, NEW result \in {-1, 0, 1}, CloseChannel(result)
    PROVE  /\ rt.state = "WAIT_CONNECTION" /\ rt'.state = "WAIT_CONNECTION"
           /\ rt.close_pending /\ alg' = alg
           /\ rt' = rt \/ ~rt'.close_pending
           /\ rt.latched /\ rt'.latched => rt'.last_error = rt.last_error
           /\ ~rt.latched /\ rt'.latched => rt'.last_error = "IODEVICE"
<1>1. rt \in RtType /\ alg' = alg /\ rt.state = "WAIT_CONNECTION" /\ rt.close_pending
  BY DEF TypeOK, CloseChannel, AwaitingClose
<1>2. CASE result = 0
  <2>1. rt' = rt BY <1>2 DEF CloseChannel
  <2> QED BY <1>1, <2>1 DEF RtType
<1>3. CASE result = -1 BY <1>1, <1>3 DEF CloseChannel, Latch, RtType
<1>4. CASE result = 1
  <2>1. rt' = [rt EXCEPT !.close_pending = FALSE, !.normal_end = FALSE,
                         !.latched = FALSE,
                         !.last_error = IF rt.normal_end THEN "NONE" ELSE @]
    BY <1>4 DEF CloseChannel
  <2>2. rt'.latched = FALSE /\ rt'.close_pending = FALSE /\ rt'.state = rt.state
    BY <1>1, <2>1 DEF RtType
  <2> QED BY <1>1, <1>4, <2>2
<1> QED BY <1>2, <1>3, <1>4

LEMMA Polled ==
    ASSUME TypeOK, (\E ok \in BOOLEAN : PollConnection(ok)) \/ ConnectionError
    PROVE  /\ rt.state = "WAIT_CONNECTION" /\ rt'.state = "WAIT_CONNECTION"
           /\ ~rt.close_pending /\ ~rt'.close_pending /\ alg' = alg
           /\ rt.latched /\ rt'.latched => rt'.last_error = rt.last_error
           /\ ~rt.latched /\ rt'.latched => rt'.last_error = "IODEVICE"
BY DEF PollConnection, ConnectionError, AwaitingPeer, Latch, RtType, TypeOK

LEMMA Accepted ==
    ASSUME TypeOK, AcceptConnection
    PROVE  /\ rt.state = "WAIT_CONNECTION" /\ ~rt.close_pending
           /\ rt'.state = "RECEIVING" /\ rt'.latched = FALSE
           /\ alg'.running = alg.running /\ alg'.steps = 0 /\ alg'.delivered = 0
BY DEF AcceptConnection, AwaitingPeer, StartReceiving, AlgReset, AlgType, RtType, TypeOK

LEMMA Heard ==
    ASSUME TypeOK, NEW r \in DeviceResults,
           \/ ReceiveIdles(r) \/ ReceiveHeaderPart(r) \/ ReceivePayload(r)
           \/ \E h \in Arriving : ReceiveHeader(r, h)
    PROVE  /\ rt.state = "RECEIVING" /\ rt'.state \in {"RECEIVING", "FRAME_READY"}
           /\ rt'.latched = rt.latched /\ rt'.last_error = rt.last_error
           /\ rt'.close_pending = rt.close_pending /\ alg' = alg
BY DEF ReceiveIdles, ReceiveHeaderPart, ReceivePayload, ReceiveHeader,
       Transferring, RtType, TypeOK

LEMMA Finished ==
    ASSUME TypeOK, ControlInv, NEW r \in DeviceResults, FinishFrame(r)
    PROVE  /\ rt.state = "SENDING" /\ tx.done # "CLOSE" /\ rt'.state = "RECEIVING"
           /\ rt'.latched = rt.latched /\ rt.latched = FALSE
           /\ alg'.running = alg.running /\ alg'.steps = alg.steps
           /\ alg'.delivered = IF tx.done = "ADVANCE_STEP" THEN alg.delivered + 1
                               ELSE alg.delivered
<1>1. /\ rt.state = "SENDING" /\ tx.done # "CLOSE"
      /\ rt' = [AfterFrame EXCEPT !.wait_kind = "INTERACTION", !.state = "RECEIVING"]
      /\ alg' = [alg EXCEPT !.delivered = IF tx.done = "ADVANCE_STEP" THEN @ + 1 ELSE @]
  BY DEF FinishFrame, StartReceiving
<1>2. rt'.state = "RECEIVING" /\ rt'.latched = rt.latched
  BY <1>1 DEF TypeOK, AfterFrame, RtType
<1>3. rt.latched = FALSE
  BY <1>1 DEF TypeOK, ControlInv, LatchPhase, RtType
<1>4. /\ alg'.running = alg.running /\ alg'.steps = alg.steps
      /\ alg'.delivered = IF tx.done = "ADVANCE_STEP" THEN alg.delivered + 1
                          ELSE alg.delivered
  BY <1>1 DEF TypeOK, AlgType
<1> QED BY <1>1, <1>2, <1>3, <1>4

\* Every call of Run is a step of the abstract service or invisible to it.
LEMMA ServiceStep == IInv /\ IInv' /\ [Next]_vars => [Service!Next]_(Service!vars)
<1> SUFFICES ASSUME IInv, IInv', [Next]_vars PROVE [Service!Next]_(Service!vars)
  OBVIOUS
<1> DEFINE Hidden == /\ ServiceMode' = ServiceMode /\ alg'.running = alg.running
                     /\ alg'.steps = alg.steps /\ alg'.delivered = alg.delivered
<1>0. Hidden => UNCHANGED Service!vars BY DEF Service!vars
<1>1. CASE UNCHANGED vars
  BY <1>1 DEF vars, Service!vars, ServiceMode
<1>2. CASE Next
  <2>1. PICK d \in 0 .. RunPeriod :
          /\ Elapse(d)
          /\ \/ BlockInit \/ RunInert \/ WaitConnection \/ Receiving
             \/ FrameReady \/ Sending
    BY <1>2 DEF Next
  <2>2. TypeOK /\ ControlInv /\ CountInv /\ rt \in RtType /\ tx \in TxType
        /\ alg \in AlgType
    BY DEF IInv, TypeOK
  <2>3. \A e \in Errors : Latch(rt, e) \in RtType BY <2>2, LatchType
  <2>4. ASSUME NEW r \in RtType, NEW normal, Terminate(r, normal),
               ServiceMode # "ending"
        PROVE  Service!End
    <3>1. ServiceMode' = "ending" BY <2>4, Terminated DEF ServiceMode
    <3> QED BY <2>4, <3>1, Terminated DEF Service!End
  <2>5. rt.state = "SENDING" => ServiceMode \in {"rejecting", "accepting", "owing"}
    BY <2>2 DEF ServiceMode, TxType
  <2>6. rt.state \in {"RECEIVING", "FRAME_READY"} => ServiceMode = "open"
    BY DEF ServiceMode
  <2>7. ASSUME NEW e \in Errors, NEW w, StartErrorResponse(e, w), alg'.running = alg.running,
               alg'.steps = alg.steps, alg'.delivered = alg.delivered,
               rt.state \in {"RECEIVING", "FRAME_READY"}
        PROVE  Service!Reject
    <3>1. rt'.state = "SENDING" /\ tx'.done = "CLOSE"
      BY <2>3, <2>7, Answered DEF StartErrorResponse
    <3>2. ServiceMode' = "rejecting" BY <3>1 DEF ServiceMode
    <3> QED BY <2>6, <2>7, <3>2 DEF Service!Reject, Service!Become
  <2> USE DEF Service!Next
  <2>8. CASE BlockInit \/ RunInert
    <3>1. rt.state = "INERT" /\ rt'.state \in {"INERT", "WAIT_CONNECTION"}
          /\ rt.close_pending = rt'.close_pending
          /\ alg'.running = alg.running /\ alg'.steps = alg.steps
          /\ alg'.delivered = alg.delivered
      BY <2>2, <2>8 DEF BlockInit, RunInert, RtType, AlgType
    <3> QED BY <1>0, <3>1 DEF ServiceMode
  <2>9. CASE WaitConnection
    <3>1. ASSUME NEW result \in {-1, 0, 1}, CloseChannel(result)
          PROVE  Service!Closed \/ Hidden
      BY <2>2, <3>1, ClosedChannel DEF ServiceMode, Service!Closed, Service!Become
    <3>2. CASE (\E ok \in BOOLEAN : PollConnection(ok)) \/ ConnectionError
      BY <1>0, <2>2, <3>2, Polled DEF ServiceMode
    <3>3. CASE PeerClosed
      <4>1. ServiceMode = "idle" BY <3>3 DEF PeerClosed, AwaitingPeer, ServiceMode
      <4> QED BY <2>3, <2>4, <3>3, <4>1 DEF PeerClosed, Errors
    <3>4. CASE AcceptConnection
      <4>1. alg.steps = 0 /\ alg.delivered = 0
        BY <2>2, <3>4, Accepted DEF CountInv, Unused, InSession
      <4>2. ServiceMode = "idle" /\ ServiceMode' = "open"
        BY <2>2, <3>4, Accepted DEF ServiceMode
      <4> QED BY <2>2, <3>4, <4>1, <4>2, Accepted DEF Service!Connect, Service!Become
    <3> QED BY <1>0, <2>9, <3>1, <3>2, <3>3, <3>4 DEF WaitConnection
  <2>10. CASE Receiving
    <3>1. PICK r \in DeviceResults :
            \/ ReceiveFails(r) \/ ReceiveIdles(r) \/ ReceiveTimesOut(r)
            \/ ReceiveHeaderPart(r) \/ ReceivePayload(r)
            \/ \E h \in Arriving : ReceiveHeader(r, h) \/ RejectHeader(r, h)
      BY <2>10 DEF Receiving
    <3>2. CASE ReceiveFails(r) \/ ReceiveTimesOut(r)
      BY <2>3, <2>4, <2>6, <3>2 DEF ReceiveFails, ReceiveTimesOut, Errors
    <3>3. CASE \/ ReceiveIdles(r) \/ ReceiveHeaderPart(r) \/ ReceivePayload(r)
               \/ \E h \in Arriving : ReceiveHeader(r, h)
      <4>1. ServiceMode = "open" /\ ServiceMode' = "open"
        BY <2>2, <3>3, Heard DEF ServiceMode
      <4> QED BY <1>0, <2>2, <3>3, <4>1, Heard
    <3>4. ASSUME NEW h \in Arriving, RejectHeader(r, h) PROVE Service!Reject
      <4>1. Latch(Transferring, "PROTOCOL") \in RtType
        BY <2>2, LatchType DEF Transferring, RtType, Errors
      <4>2. rt'.state = "SENDING" /\ tx'.done = "CLOSE"
        BY <3>4, <4>1, Answered DEF RejectHeader
      <4>3. ServiceMode' = "rejecting" BY <4>2 DEF ServiceMode
      <4> QED BY <2>6, <3>4, <4>3 DEF RejectHeader, Service!Reject, Service!Become
    <3> QED BY <3>1, <3>2, <3>3, <3>4
  <2>11. CASE FrameReady
    <3>1. ASSUME NEW p \in StartPayloads, RejectStart(p) PROVE Service!Reject
      BY <2>7, <3>1 DEF RejectStart, FrameIs, Errors
    <3>2. ASSUME NEW step, RejectStep(step) PROVE Service!Reject
      BY <2>7, <3>2 DEF RejectStep, FrameIs, Errors
    <3>3. ASSUME NEW p \in StartPayloads, NEW ok \in BOOLEAN, StartAlgorithm(p, ok)
          PROVE  Service!Start \/ Service!Reject
      <4>1. CASE ok
        <5>1. rt.state = "FRAME_READY" /\ rt.phase = "WAIT_SIM_START"
          BY <3>3 DEF StartAlgorithm, FrameIs, StartVerdict
        <5>2. ~alg.running
          BY <2>2, <5>1 DEF ControlInv, StartedPhase, AlgorithmPaired
        <5>3. [rt EXCEPT !.started = TRUE] \in RtType BY <2>2 DEF RtType
        <5>4. rt'.state = "SENDING" /\ tx'.done = "ENTER_SIM_RUNNING"
          BY <3>3, <4>1, <5>3, Answered DEF StartAlgorithm
        <5>5. ServiceMode = "open" /\ ServiceMode' = "accepting"
          BY <5>1, <5>4 DEF ServiceMode
        <5>6. alg' = [alg EXCEPT !.running = TRUE] BY <3>3, <4>1 DEF StartAlgorithm
        <5>7. alg'.running = TRUE /\ alg'.steps = alg.steps
              /\ alg'.delivered = alg.delivered
          BY <2>2, <5>6 DEF AlgType
        <5> QED BY <5>2, <5>5, <5>7 DEF Service!Start, Service!Become
      <4>2. CASE ~ok BY <2>7, <3>3, <4>2 DEF StartAlgorithm, FrameIs, Errors
      <4> QED BY <4>1, <4>2
    <3>4. ASSUME NEW step \in Steps, NEW ok \in BOOLEAN, StepAlgorithm(step, ok)
          PROVE  Service!Compute \/ Service!Reject
      <4>1. rt.state = "FRAME_READY" /\ rt.phase = "SIM_RUNNING"
        BY <2>2, <3>4 DEF StepAlgorithm, FrameIs, ControlInv, StartedPhase
      <4>2. CASE ok
        <5>1. alg' = [alg EXCEPT !.dirty = TRUE, !.steps = @ + 1]
          BY <3>4, <4>2 DEF StepAlgorithm
        <5>2. /\ alg'.running = alg.running /\ alg'.steps = alg.steps + 1
              /\ alg'.delivered = alg.delivered
          BY <2>2, <5>1 DEF AlgType
        <5>3. alg.running
          BY <2>2, <4>1 DEF ControlInv, StartedPhase, AlgorithmPaired
        <5>4. alg.steps = alg.delivered
          BY <2>2, <4>1 DEF CountInv, LockStep, AlgType
        <5>5. rt'.state = "SENDING" /\ tx'.done = "ADVANCE_STEP"
          BY <2>2, <3>4, <4>2, Answered DEF StepAlgorithm
        <5>6. ServiceMode = "open" /\ ServiceMode' = "owing"
          BY <4>1, <5>5 DEF ServiceMode
        <5> QED BY <5>2, <5>3, <5>4, <5>6 DEF Service!Compute, Service!Become
      <4>3. CASE ~ok
        <5>1. alg' = [alg EXCEPT !.dirty = TRUE]
              /\ StartErrorResponse("ALGORITHM_STEP", "INTERNAL")
          BY <3>4, <4>3 DEF StepAlgorithm
        <5>2. alg'.running = alg.running /\ alg'.steps = alg.steps
              /\ alg'.delivered = alg.delivered
          BY <2>2, <5>1 DEF AlgType
        <5> QED BY <2>7, <4>1, <5>1, <5>2 DEF Errors
      <4> QED BY <4>2, <4>3
    <3>5. CASE StopSession
      BY <2>2, <2>4, <2>6, <3>5 DEF StopSession, FrameIs
    <3> QED BY <2>11, <3>1, <3>2, <3>3, <3>4, <3>5 DEF FrameReady
  <2>12. CASE Sending
    <3>1. PICK r \in DeviceResults :
            \/ SendFails(r) \/ SendIdles(r) \/ SendTimesOut(r)
            \/ SendPart(r) \/ FinishFrame(r) \/ FinishAndClose(r)
      BY <2>12 DEF Sending
    <3>2. CASE SendFails(r) \/ SendTimesOut(r) \/ FinishAndClose(r)
      BY <2>2, <2>3, <2>4, <2>5, <3>2 DEF SendFails, SendTimesOut, FinishAndClose, Errors
    <3>3. CASE SendIdles(r) \/ SendPart(r)
      <4>1. rt' = rt /\ alg' = alg /\ tx'.done = tx.done
        BY <2>2, <3>3 DEF SendIdles, SendPart, TxType
      <4> QED BY <1>0, <4>1 DEF ServiceMode
    <3>4. CASE FinishFrame(r)
      <4>1. ServiceMode' = "open" BY <2>2, <3>4, Finished DEF ServiceMode
      <4>2. CASE tx.done = "ENTER_SIM_RUNNING"
        <5>1. ServiceMode = "accepting" BY <2>2, <3>4, <4>2, Finished DEF ServiceMode
        <5> QED BY <2>2, <3>4, <4>1, <4>2, <5>1, Finished
                DEF Service!Accept, Service!Become
      <4>3. CASE tx.done = "ADVANCE_STEP"
        <5>1. ServiceMode = "owing" BY <2>2, <3>4, <4>3, Finished DEF ServiceMode
        <5> QED BY <2>2, <3>4, <4>1, <4>3, <5>1, Finished
                DEF Service!Deliver, Service!Become
      <4> QED BY <2>2, <3>4, <4>2, <4>3, Finished DEF TxType
    <3> QED BY <3>1, <3>2, <3>3, <3>4
  <2> QED BY <2>1, <2>8, <2>9, <2>10, <2>11, <2>12
<1> QED BY <1>1, <1>2

\* The Core implements the abstract service, for every config and device.
THEOREM CoreImplementsService == Spec => ImplementsService
<1>1. Init => Service!Init
  BY DEF Init, ServiceMode, Service!Init
<1> QED BY <1>1, Invariance, ServiceStep, PTL DEF Spec, ImplementsService, Service!Spec

\* Everything a call of Run can do to the latched error.
LEMMA ErrorStep ==
    ASSUME IInv, Next
    PROVE  \/ ~rt'.latched
           \/ rt.latched /\ rt'.last_error = rt.last_error
           \/ ~rt.latched /\ rt'.last_error # "TIMEOUT"
           \/ ~rt.latched /\ idle + ClockSub(clock', clock) >= CurrentLimit
<1> DEFINE Goal == \/ ~rt'.latched
                   \/ rt.latched /\ rt'.last_error = rt.last_error
                   \/ ~rt.latched /\ rt'.last_error # "TIMEOUT"
                   \/ ~rt.latched /\ idle + ClockSub(clock', clock) >= CurrentLimit
<1>1. PICK d \in 0 .. RunPeriod :
        /\ Elapse(d)
        /\ \/ BlockInit \/ RunInert \/ WaitConnection \/ Receiving
           \/ FrameReady \/ Sending
  BY DEF Next
<1>2. TypeOK /\ ControlInv /\ rt \in RtType /\ tx \in TxType BY DEF IInv, TypeOK
<1>3. \A e \in Errors : /\ Latch(rt, e) \in RtType /\ Latch(rt, e).latched = TRUE
                        /\ rt.latched => Latch(rt, e).last_error = rt.last_error
                        /\ ~rt.latched => Latch(rt, e).last_error = e
  BY <1>2 DEF Latch, RtType
<1>4. \A e \in Errors : \A normal : Terminate(Latch(rt, e), normal) =>
        rt'.last_error = Latch(rt, e).last_error
  BY <1>3, Terminated
<1>5. \A e \in Errors : \A w : StartErrorResponse(e, w) =>
        rt'.last_error = Latch(rt, e).last_error
  <2> TAKE e \in Errors
  <2> TAKE w
  <2> QED BY <1>3, Answered DEF StartErrorResponse
<1>6. \A e \in Errors : \A normal : e # "TIMEOUT" /\ Terminate(Latch(rt, e), normal) => Goal
  BY <1>3, <1>4
<1>7. \A e \in Errors : \A w : e # "TIMEOUT" /\ StartErrorResponse(e, w) => Goal
  BY <1>3, <1>5
<1>8. ASSUME NEW normal, Terminate(Latch(rt, "TIMEOUT"), normal),
             Timed, Expired(CurrentLimit)
      PROVE  Goal
  <2>1. CASE rt.latched BY <1>3, <1>4, <1>8, <2>1 DEF Errors
  <2>2. CASE ~rt.latched
    <3>1. ConfigIsValid(config) /\ config \in Configs
      BY <1>2, <1>8 DEF ControlInv, ConfigAccepted, Timed, TypeOK
    <3>2. CurrentLimit \in 1 .. HalfClock - 1 BY <3>1, LimitRange
    <3>3. idle = ClockSub(clock, progress_start) /\ idle < CurrentLimit
      BY <1>8 DEF IInv, Waiting
    <3>4. clock \in 0 .. ClockMod - 1 /\ progress_start \in 0 .. ClockMod - 1
      BY <1>2 DEF TypeOK
    <3>5. ClockSub(clock, progress_start) < HalfClock
      BY <3>2, <3>3, <3>4, AgeRange, ClockAssumption
    <3>6. idle + ClockSub(clock', clock) = ClockSub(clock', progress_start)
      BY <1>1, <3>3, <3>4, <3>5, AgeIsExact DEF Elapse
    <3> QED BY <1>8, <2>2, <3>6 DEF Expired
  <2> QED BY <2>1, <2>2
<1>9. CASE BlockInit \/ RunInert
  BY <1>2, <1>9 DEF BlockInit, RunInert, RtType, ControlInv, InertIsBlank
<1>10. CASE WaitConnection
  <2>1. ASSUME NEW result \in {-1, 0, 1}, CloseChannel(result) PROVE Goal
    BY <1>2, <2>1, ClosedChannel
  <2>2. CASE (\E ok \in BOOLEAN : PollConnection(ok)) \/ ConnectionError
    BY <1>2, <2>2, Polled
  <2>3. CASE PeerClosed BY <1>6, <2>3 DEF PeerClosed, Errors
  <2>4. CASE AcceptConnection BY <1>2, <2>4, Accepted
  <2> QED BY <1>10, <2>1, <2>2, <2>3, <2>4 DEF WaitConnection
<1>11. CASE Receiving
  <2>1. PICK r \in DeviceResults :
          \/ ReceiveFails(r) \/ ReceiveIdles(r) \/ ReceiveTimesOut(r)
          \/ ReceiveHeaderPart(r) \/ ReceivePayload(r)
          \/ \E h \in Arriving : ReceiveHeader(r, h) \/ RejectHeader(r, h)
    BY <1>11 DEF Receiving
  <2>2. CASE ReceiveFails(r) BY <1>6, <2>2 DEF ReceiveFails, Errors
  <2>3. CASE ReceiveTimesOut(r)
    BY <1>8, <2>3 DEF ReceiveTimesOut, Timed, CurrentLimit
  <2>4. CASE \/ ReceiveIdles(r) \/ ReceiveHeaderPart(r) \/ ReceivePayload(r)
             \/ \E h \in Arriving : ReceiveHeader(r, h)
    BY <1>2, <2>4, Heard
  <2>5. ASSUME NEW h \in Arriving, RejectHeader(r, h) PROVE Goal
    <3>1. Latch(Transferring, "PROTOCOL") \in RtType
          /\ (~rt.latched => Latch(Transferring, "PROTOCOL").last_error = "PROTOCOL")
      <4>1. Transferring \in RtType /\ Transferring.latched = rt.latched
        BY <1>2 DEF Transferring, RtType
      <4> QED BY <4>1, LatchType, LatchFields DEF Errors
    <3>2. rt.latched = FALSE
      BY <1>2, <2>5 DEF RejectHeader, ControlInv, LatchPhase, RtType
    <3> QED BY <2>5, <3>1, <3>2, Answered DEF RejectHeader
  <2> QED BY <2>1, <2>2, <2>3, <2>4, <2>5
<1>12. CASE FrameReady
  <2>1. rt.state = "FRAME_READY"
    BY <1>12 DEF FrameReady, RejectStart, StartAlgorithm, RejectStep, StepAlgorithm,
                 StopSession, FrameIs
  <2>2. rt.latched = FALSE BY <1>2, <2>1 DEF ControlInv, LatchPhase, RtType
  <2>3. \A e \in {"PROTOCOL", "ALGORITHM_START", "ALGORITHM_STEP"} : \A w :
          StartErrorResponse(e, w) => Goal
    BY <1>7 DEF Errors
  <2>4. ASSUME NEW p \in StartPayloads, NEW ok \in BOOLEAN, StartAlgorithm(p, ok)
        PROVE  Goal
    <3>1. CASE ok
      <4>1. /\ [rt EXCEPT !.started = TRUE] \in RtType
            /\ [rt EXCEPT !.started = TRUE].latched = FALSE
        BY <1>2, <2>2 DEF RtType
      <4> QED BY <2>4, <3>1, <4>1, Answered DEF StartAlgorithm
    <3>2. CASE ~ok BY <2>3, <2>4, <3>2 DEF StartAlgorithm
    <3> QED BY <3>1, <3>2
  <2>5. ASSUME NEW step \in Steps, NEW ok \in BOOLEAN, StepAlgorithm(step, ok)
        PROVE  Goal
    <3>1. CASE ok BY <1>2, <2>2, <2>5, <3>1, Answered DEF StepAlgorithm
    <3>2. CASE ~ok BY <2>3, <2>5, <3>2 DEF StepAlgorithm
    <3> QED BY <3>1, <3>2
  <2>6. CASE StopSession BY <1>2, <2>2, <2>6, Terminated DEF StopSession
  <2> QED BY <1>12, <2>3, <2>4, <2>5, <2>6 DEF FrameReady, RejectStart, RejectStep
<1>13. CASE Sending
  <2>1. PICK r \in DeviceResults :
          \/ SendFails(r) \/ SendIdles(r) \/ SendTimesOut(r)
          \/ SendPart(r) \/ FinishFrame(r) \/ FinishAndClose(r)
    BY <1>13 DEF Sending
  <2>2. CASE SendFails(r) BY <1>6, <2>2 DEF SendFails, Errors
  <2>3. CASE SendTimesOut(r) BY <1>8, <2>3 DEF SendTimesOut, Timed, CurrentLimit
  <2>4. CASE SendIdles(r) \/ SendPart(r) BY <2>4 DEF SendIdles, SendPart
  <2>5. CASE FinishFrame(r) BY <1>2, <2>5, Finished
  <2>6. CASE FinishAndClose(r)
    <3>1. rt.latched = TRUE
      BY <1>2, <2>6 DEF FinishAndClose, ControlInv, LatchPhase, RtType
    <3> QED BY <1>2, <2>6, <3>1, Terminated DEF FinishAndClose
  <2> QED BY <2>1, <2>2, <2>3, <2>4, <2>5, <2>6
<1> QED BY <1>1, <1>9, <1>10, <1>11, <1>12, <1>13

\* The first error of a session is the one that is reported.
THEOREM FirstErrorCorrect == Spec => FirstErrorWins
<1>1. IInv /\ [Next]_vars =>
        [rt.latched /\ rt'.latched => rt'.last_error = rt.last_error]_vars
  BY ErrorStep
<1> QED BY <1>1, Invariance, PTL DEF Spec, FirstErrorWins

\* No wait is given up early, wherever the microsecond clock wraps.
THEOREM TimeoutCorrect == Spec => NoEarlyTimeout
<1>1. IInv /\ [Next]_vars =>
        [~rt.latched /\ rt'.latched /\ rt'.last_error = "TIMEOUT" =>
           idle + ClockSub(clock', clock) >= CurrentLimit]_vars
  BY ErrorStep
<1> QED BY <1>1, Invariance, PTL DEF Spec, NoEarlyTimeout

\* A session that latched an error only answers and ends.
LEMMA RejectStepFinal ==
    ASSUME IInv, Next, rt.latched, InSession
    PROVE  \/ rt'.state = "WAIT_CONNECTION" /\ ~alg'.running
           \/ rt'.state = "SENDING" /\ alg' = alg
<1>1. TypeOK /\ ControlInv /\ rt \in RtType /\ tx \in TxType BY DEF IInv, TypeOK
<1>2. rt.state = "SENDING" /\ tx.done = "CLOSE"
  BY <1>1 DEF ControlInv, LatchPhase, InSession
<1>3. Sending
  BY <1>2 DEF Next, BlockInit, RunInert, WaitConnection, CloseChannel, PollConnection,
     ConnectionError, PeerClosed, AcceptConnection, AwaitingClose, AwaitingPeer,
     Receiving, ReceiveFails, ReceiveIdles, ReceiveTimesOut, ReceiveHeaderPart,
     ReceiveHeader, RejectHeader, ReceivePayload, FrameReady, RejectStart,
     StartAlgorithm, RejectStep, StepAlgorithm, StopSession, FrameIs
<1>4. PICK r \in DeviceResults :
        \/ SendFails(r) \/ SendIdles(r) \/ SendTimesOut(r)
        \/ SendPart(r) \/ FinishFrame(r) \/ FinishAndClose(r)
  BY <1>3 DEF Sending
<1>5. \A e \in Errors : Latch(rt, e) \in RtType BY <1>1, LatchType
<1>6. CASE SendFails(r) \/ SendTimesOut(r) \/ FinishAndClose(r)
  BY <1>1, <1>5, <1>6, Terminated DEF SendFails, SendTimesOut, FinishAndClose, Errors
<1>7. CASE SendIdles(r) \/ SendPart(r)
  BY <1>2, <1>7 DEF SendIdles, SendPart
<1>8. CASE FinishFrame(r) BY <1>2, <1>8 DEF FinishFrame
<1> QED BY <1>4, <1>6, <1>7, <1>8

\* After an error no frame is processed and the algorithm is only stopped.
THEOREM RejectCorrect == Spec => RejectIsFinal
<1>1. IInv /\ [Next]_vars =>
        [rt.latched /\ InSession =>
           \/ rt'.state = "WAIT_CONNECTION" /\ ~alg'.running
           \/ rt'.state = "SENDING" /\ alg' = alg]_vars
  BY RejectStepFinal
<1> QED BY <1>1, Invariance, PTL DEF Spec, RejectIsFinal

\* How an error ends a session, in the three parts proved above.
THEOREM ErrorsCorrect == Spec => ErrorsDecide
  BY FirstErrorCorrect, RejectCorrect, CauseCorrect, PTL DEF ErrorsDecide

\* A wait ends at its limit and not before: the two halves proved above.
THEOREM TimeoutsExactCorrect == Spec => TimeoutsExact
  BY OverstayCorrect, TimeoutCorrect, PTL DEF TimeoutsExact

\* Only on_start makes the algorithm run, and only on objects that reset_io left
\* clean: the abstract service's Start is the one step that does.
THEOREM CleanStartCorrect == Spec => CleanStart
<1>1. IInv /\ IInv' /\ [Next]_vars =>
        [~alg.running /\ alg.running' => ~alg.dirty /\ alg.steps = 0]_vars
  <2> SUFFICES ASSUME IInv, IInv', [Next]_vars, ~alg.running, alg.running'
               PROVE  ~alg.dirty /\ alg.steps = 0
    OBVIOUS
  <2>1. Service!Start
    BY ServiceStep
       DEF Service!vars, Service!Next, Service!Connect, Service!Accept,
           Service!Compute, Service!Deliver, Service!Reject, Service!End, Service!Closed
  <2>2. ServiceMode = "open" BY <2>1 DEF Service!Start, Service!Become
  <2>3. rt.state \in {"RECEIVING", "FRAME_READY"}
    BY <2>2 DEF ServiceMode, IInv, TypeOK, RtType, TxType
  <2>4. rt.phase # "SIM_RUNNING"
    BY <2>3 DEF IInv, ControlInv, StartedPhase, AlgorithmPaired
  <2> QED BY <2>3, <2>4 DEF IInv, CountInv, Unused
<1> QED BY <1>1, Invariance, PTL DEF Spec, CleanStart
====
