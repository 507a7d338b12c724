---- MODULE BlockCore ----
(***************************************************************************)
(* The device-independent protocol Core of one DSP block instance          *)
(* (dsp/src/c2837x_block.c) against an IoDevice that may return anything    *)
(* its C signature allows and a user algorithm that may fail.              *)
(*                                                                         *)
(* One call of C2837xBlock_Run is one step.  Some time passes first (at     *)
(* most RunPeriod ticks since the previous call), then the service routine  *)
(* of the current state runs to completion; every routine reads the clock   *)
(* at most once on each path, so the new clock value is "now" for the whole *)
(* call.  The runtime struct is split by concern into rt, rx, tx and        *)
(* progress_start; the field names are the source's.                       *)
(***************************************************************************)
EXTENDS Integers

CONSTANTS
    Configs,        \* the C2837xBlock_Config structs an instance may be bound to
    ClockMod,       \* the us clock counts 0 .. ClockMod-1 and wraps (2^32)
    StepMod,        \* expected_step_index counts 0 .. StepMod-1 and wraps (2^32)
    RunPeriod,      \* longest time between two calls of Run
    DeviceResults,  \* what receive and send may return
    WireLengths,    \* length fields a received header may carry
    MaxSteps        \* bound: steps of one session the model explores

HalfClock == ClockMod \div 2

ConfigType ==
    [bound : BOOLEAN,   \* every pointer of the config, ops and adapter is set
     rx_capacity : Nat, tx_capacity : Nat,
     input_octets : Nat, output_octets : Nat, max_payload : Nat,
     interaction_timeout : Nat, transfer_timeout : Nat]

ASSUME ConfigsAssumption == Configs \subseteq ConfigType
ASSUME ClockAssumption ==
    /\ ClockMod \in Nat \ {0} /\ StepMod \in Nat \ {0} /\ MaxSteps \in Nat
    /\ RunPeriod \in Nat
    /\ HalfClock \in Nat /\ RunPeriod + HalfClock <= ClockMod
ASSUME DeviceAssumption == DeviceResults \subseteq Int /\ WireLengths \subseteq Nat

HeaderOctets == 4
SimStartOctets == 6
ResponseOctets == 2

MsgTypes == {"SIM_START", "INPUT_DATA", "OUTPUT_DATA", "SIM_STOP", "RESPONSE"}
WireErrors == {"OK", "UNKNOWN_TYPE", "PAYLOAD_LENGTH", "CONFIG_MISMATCH",
               "STATE", "INTERNAL", "PROTOCOL_VERSION", "STEP_INDEX"}
Errors == {"NONE", "INVALID_ARGUMENT", "PROTOCOL", "TIMEOUT", "DISCONNECTED",
           "IODEVICE", "ALGORITHM_START", "ALGORITHM_STEP"}

\* rx_frame_words[0..1] and, once the payload is in, the words behind them.
Headers == [type : MsgTypes \union {"OTHER"}, length : WireLengths]
StartPayloads == [version_ok : BOOLEAN, hash_ok : BOOLEAN]
Steps == 0 .. StepMod - 1

VARIABLES
    config,          \* the bound config (const in the code)
    rt,              \* control part of C2837xBlock_Runtime
    rx,              \* receive part: rx_*
    tx,              \* transmit part: tx_*, and what tx_frame_words holds
    progress_start,  \* progress_start_us
    clock,           \* what time_us() returned last
    idle,            \* history: real time since progress_start, unwrapped
    alg              \* history: the user algorithm as its callbacks see it

vars == <<config, rt, rx, tx, progress_start, clock, idle, alg>>

RtType ==
    [state : {"INERT", "WAIT_CONNECTION", "RECEIVING", "FRAME_READY", "SENDING"},
     phase : {"WAIT_SIM_START", "SIM_RUNNING"},
     expected : Steps,
     wait_kind : {"TRANSFER", "INTERACTION"},
     started : BOOLEAN,        \* algorithm_started
     close_pending : BOOLEAN,
     latched : BOOLEAN,        \* primary_error_latched
     normal_end : BOOLEAN,     \* normal_end_pending
     last_error : Errors]

RxType ==
    [part : {"HEADER", "PAYLOAD"}, header : Nat, type : MsgTypes \union {"NONE"},
     length : Nat, payload : Nat]

TxFrames == [kind : {"NONE"}] \union [kind : {"RESPONSE"}, error : WireErrors]
              \union [kind : {"OUTPUT_DATA"}, step : Steps]
TxType ==
    [total : Nat, sent : Nat, error : WireErrors, frame : TxFrames,
     done : {"CLOSE", "ENTER_SIM_RUNNING", "ADVANCE_STEP"}]

\* running: between a successful on_start and its on_stop; dirty: the input and
\* output objects were used since the last reset_io; steps and delivered: on_step
\* successes and completely sent OUTPUT_DATA frames of this session.
AlgType == [running : BOOLEAN, dirty : BOOLEAN, steps : Nat, delivered : Nat]

\* Every field keeps its type; the clocks and the step index keep their width.
TypeOK ==
    /\ config \in Configs /\ rt \in RtType /\ rx \in RxType /\ tx \in TxType
    /\ progress_start \in 0 .. ClockMod - 1 /\ clock \in 0 .. ClockMod - 1
    /\ idle \in Nat /\ alg \in AlgType
-----------------------------------------------------------------------------
\* Operators named Mutant... are slips the checks must be able to tell from the
\* definition below them; no behaviour of the specification uses one.

\* Uint32 sums and differences of values already in range.
MutantClockAddWide(a, d) == a + d
ClockAdd(a, d) == IF a + d >= ClockMod THEN a + d - ClockMod ELSE a + d
ClockSub(a, b) == IF a >= b THEN a - b ELSE a - b + ClockMod

Larger(a, b) == IF a > b THEN a ELSE b

MutantBuffersForgetHeader(c) ==
    /\ c.rx_capacity >= Larger(c.input_octets, SimStartOctets)
    /\ c.tx_capacity >= Larger(c.output_octets, ResponseOctets)
BuffersHoldFrames(c) ==
    /\ c.rx_capacity >= HeaderOctets + Larger(c.input_octets, SimStartOctets)
    /\ c.tx_capacity >= HeaderOctets + Larger(c.output_octets, ResponseOctets)

ConfigIsValid(c) ==
    /\ c.bound
    /\ \A n \in {c.rx_capacity, c.tx_capacity, c.input_octets,
                 c.output_octets, c.max_payload} : n % 2 = 0
    /\ c.input_octets \in 4 .. c.max_payload
    /\ c.output_octets \in 4 .. c.max_payload
    /\ c.max_payload >= SimStartOctets
    /\ BuffersHoldFrames(c)
    /\ c.interaction_timeout \in 1 .. HalfClock - 1
    /\ c.transfer_timeout \in 1 .. HalfClock - 1

MutantLatchLastError(r, e) == [r EXCEPT !.last_error = e, !.latched = TRUE]
Latch(r, e) == IF r.latched THEN r ELSE [r EXCEPT !.last_error = e, !.latched = TRUE]

MutantExpiredAtDeadline(timeout) == clock' >= ClockAdd(progress_start, timeout)
Expired(timeout) == ClockSub(clock', progress_start) >= timeout

RxReset == [part |-> "HEADER", header |-> 0, type |-> "NONE", length |-> 0, payload |-> 0]

TxReset == [tx EXCEPT !.total = 0, !.sent = 0, !.error = "OK", !.done = "CLOSE"]

\* reset_io clears the objects; on_stop ends what on_start began.
MutantResetKeepsObjects == [alg EXCEPT !.steps = 0, !.delivered = 0]
AlgReset == [alg EXCEPT !.dirty = FALSE, !.steps = 0, !.delivered = 0]
MutantStopForgotten == AlgReset
AlgStop == IF rt.started THEN [AlgReset EXCEPT !.running = FALSE] ELSE AlgReset

\* What a call changes besides rt, rx, tx and alg: the progress clock restarts,
\* keeps running, or is not looked at.
ProgressRestarts == progress_start' = clock' /\ idle' = 0
ProgressAges == idle' = idle + ClockSub(clock', clock) /\ UNCHANGED progress_start
ProgressUnused == idle' = 0 /\ UNCHANGED progress_start

StartReceiving(r, kind) ==
    /\ rx' = RxReset
    /\ rt' = [r EXCEPT !.wait_kind = kind, !.state = "RECEIVING"]
    /\ ProgressRestarts

StartSending(r, total, done, error, frame) ==
    /\ tx' = [total |-> total, sent |-> 0, done |-> done,
              error |-> error, frame |-> frame]
    /\ rt' = [r EXCEPT !.state = "SENDING"]
    /\ ProgressRestarts

Terminate(r, normal) ==
    /\ alg' = AlgStop
    /\ rx' = RxReset
    /\ tx' = TxReset
    /\ rt' = [r EXCEPT !.started = FALSE, !.phase = "WAIT_SIM_START",
                       !.expected = 0, !.close_pending = TRUE,
                       !.normal_end = normal, !.state = "WAIT_CONNECTION"]
    /\ ProgressUnused

StartErrorResponse(primary, wire) ==
    /\ StartSending(Latch(rt, primary), HeaderOctets + ResponseOctets, "CLOSE",
                    wire, [kind |-> "RESPONSE", error |-> wire])
    /\ UNCHANGED rx
-----------------------------------------------------------------------------
\* C2837xBlock_Init: called once, before the main loop.
BlockInit ==
    /\ rt.state = "INERT" /\ rt.last_error = "NONE"
    /\ rt' = IF ConfigIsValid(config)
             THEN [rt EXCEPT !.state = "WAIT_CONNECTION"]
             ELSE [rt EXCEPT !.last_error = "INVALID_ARGUMENT"]
    /\ alg' = IF ConfigIsValid(config) THEN [alg EXCEPT !.dirty = FALSE] ELSE alg
    /\ ProgressUnused
    /\ UNCHANGED <<rx, tx>>

\* Run on an instance whose Init failed.
RunInert ==
    /\ rt.state = "INERT" /\ rt.last_error # "NONE"
    /\ ProgressUnused
    /\ UNCHANGED <<rt, rx, tx, alg>>

AwaitingClose == rt.state = "WAIT_CONNECTION" /\ rt.close_pending
AwaitingPeer == rt.state = "WAIT_CONNECTION" /\ ~rt.close_pending

\* close: > 0 done, 0 busy, < 0 failed.
CloseChannel(result) ==
    /\ AwaitingClose
    /\ rt' = CASE result = 0 -> rt
               [] result < 0 ->
                    Latch([rt EXCEPT !.close_pending = FALSE,
                                     !.normal_end = FALSE], "IODEVICE")
               [] result > 0 ->
                    [rt EXCEPT !.close_pending = FALSE, !.normal_end = FALSE,
                               !.latched = FALSE,
                               !.last_error = IF rt.normal_end THEN "NONE" ELSE @]
    /\ ProgressUnused
    /\ UNCHANGED <<rx, tx, alg>>

\* CLOSED -> open, OPEN -> listen, LISTENING -> nothing; ok: no call failed.
PollConnection(ok) ==
    /\ AwaitingPeer
    /\ rt' = IF ok THEN rt ELSE Latch(rt, "IODEVICE")
    /\ ProgressUnused
    /\ UNCHANGED <<rx, tx, alg>>

ConnectionError ==
    /\ AwaitingPeer
    /\ rt' = Latch(rt, "IODEVICE")
    /\ ProgressUnused
    /\ UNCHANGED <<rx, tx, alg>>

PeerClosed ==
    /\ AwaitingPeer
    /\ Terminate(Latch(rt, "DISCONNECTED"), FALSE)

AcceptConnection ==
    /\ AwaitingPeer
    /\ tx' = TxReset
    /\ alg' = AlgReset
    /\ StartReceiving([rt EXCEPT !.phase = "WAIT_SIM_START", !.expected = 0,
                                 !.started = FALSE, !.close_pending = FALSE,
                                 !.normal_end = FALSE, !.latched = FALSE],
                      "TRANSFER")
-----------------------------------------------------------------------------
Remaining == IF rx.part = "HEADER" THEN HeaderOctets - rx.header
             ELSE rx.length - rx.payload

WaitLimit == IF rt.wait_kind = "INTERACTION" THEN config.interaction_timeout
             ELSE config.transfer_timeout

\* A result the IoDevice contract excludes: odd, or more than was asked for.
BadCount(r, limit) == r < 0 \/ (r > 0 /\ (r % 2 = 1 \/ r > limit))
GoodCount(r, limit) == r > 0 /\ r % 2 = 0 /\ r <= limit

AllowedIn(type) == IF type = "SIM_START" THEN "WAIT_SIM_START" ELSE "SIM_RUNNING"
ExpectedLength(type) == CASE type = "SIM_START" -> SimStartOctets
                          [] type = "INPUT_DATA" -> config.input_octets
                          [] type = "SIM_STOP" -> 0

\* validate_header: the wire error of a complete header, "OK" when it is valid.
HeaderVerdict(h) ==
    IF h.type = "OTHER" THEN "UNKNOWN_TYPE"
    ELSE IF \/ h.type \in {"OUTPUT_DATA", "RESPONSE"}
            \/ rt.phase # AllowedIn(h.type) THEN "STATE"
    ELSE IF \/ h.length % 2 = 1
            \/ h.length > config.max_payload
            \/ HeaderOctets + h.length > config.rx_capacity
            \/ h.length # ExpectedLength(h.type) THEN "PAYLOAD_LENGTH"
    ELSE "OK"

\* Octets arrived: an INTERACTION wait becomes a TRANSFER wait.
Transferring == [rt EXCEPT !.wait_kind = "TRANSFER"]

ReceiveFails(r) ==
    /\ rt.state = "RECEIVING" /\ BadCount(r, Remaining)
    /\ Terminate(Latch(rt, "IODEVICE"), FALSE)

MutantIdleIsProgress(r) ==
    /\ rt.state = "RECEIVING" /\ r = 0 /\ ~Expired(WaitLimit)
    /\ ProgressRestarts
    /\ UNCHANGED <<rt, rx, tx, alg>>
ReceiveIdles(r) ==
    /\ rt.state = "RECEIVING" /\ r = 0 /\ ~Expired(WaitLimit)
    /\ ProgressAges
    /\ UNCHANGED <<rt, rx, tx, alg>>

ReceiveTimesOut(r) ==
    /\ rt.state = "RECEIVING" /\ r = 0 /\ Expired(WaitLimit)
    /\ Terminate(Latch(rt, "TIMEOUT"), FALSE)

ReceiveHeaderPart(r) ==
    /\ rt.state = "RECEIVING" /\ rx.part = "HEADER"
    /\ GoodCount(r, Remaining) /\ r < Remaining
    /\ rx' = [rx EXCEPT !.header = @ + r]
    /\ rt' = Transferring
    /\ ProgressRestarts
    /\ UNCHANGED <<tx, alg>>

ReceiveHeader(r, h) ==
    /\ rt.state = "RECEIVING" /\ rx.part = "HEADER"
    /\ GoodCount(r, Remaining) /\ r = Remaining
    /\ HeaderVerdict(h) = "OK"
    /\ rx' = [rx EXCEPT !.header = @ + r, !.type = h.type, !.length = h.length,
                        !.part = IF h.length = 0 THEN @ ELSE "PAYLOAD"]
    /\ rt' = [Transferring EXCEPT !.state = IF h.length = 0 THEN "FRAME_READY" ELSE @]
    /\ ProgressRestarts
    /\ UNCHANGED <<tx, alg>>

RejectHeader(r, h) ==
    /\ rt.state = "RECEIVING" /\ rx.part = "HEADER"
    /\ GoodCount(r, Remaining) /\ r = Remaining
    /\ HeaderVerdict(h) # "OK"
    /\ rx' = [rx EXCEPT !.header = @ + r]
    /\ StartSending(Latch(Transferring, "PROTOCOL"), HeaderOctets + ResponseOctets,
                    "CLOSE", HeaderVerdict(h),
                    [kind |-> "RESPONSE", error |-> HeaderVerdict(h)])
    /\ UNCHANGED alg

ReceivePayload(r) ==
    /\ rt.state = "RECEIVING" /\ rx.part = "PAYLOAD"
    /\ GoodCount(r, Remaining)
    /\ rx' = [rx EXCEPT !.payload = @ + r]
    /\ rt' = [Transferring EXCEPT !.state = IF r = Remaining THEN "FRAME_READY" ELSE @]
    /\ ProgressRestarts
    /\ UNCHANGED <<tx, alg>>
-----------------------------------------------------------------------------
\* handle_sim_start: the wire error of a SIM_START payload, "OK" to start.
StartVerdict(p) == IF rt.phase # "WAIT_SIM_START" THEN "STATE"
                   ELSE IF ~p.version_ok THEN "PROTOCOL_VERSION"
                   ELSE IF ~p.hash_ok THEN "CONFIG_MISMATCH"
                   ELSE "OK"

FrameIs(type) == rt.state = "FRAME_READY" /\ rx.type = type

RejectStart(p) ==
    /\ FrameIs("SIM_START") /\ StartVerdict(p) # "OK"
    /\ StartErrorResponse("PROTOCOL", StartVerdict(p))
    /\ UNCHANGED alg

\* on_start succeeds (ok) or the algorithm refuses.
StartAlgorithm(p, ok) ==
    /\ FrameIs("SIM_START") /\ StartVerdict(p) = "OK"
    /\ IF ok
       THEN /\ alg' = [alg EXCEPT !.running = TRUE]
            /\ StartSending([rt EXCEPT !.started = TRUE],
                            HeaderOctets + ResponseOctets, "ENTER_SIM_RUNNING",
                            tx.error, [kind |-> "RESPONSE", error |-> "OK"])
            /\ UNCHANGED rx
       ELSE /\ StartErrorResponse("ALGORITHM_START", "INTERNAL")
            /\ UNCHANGED alg

RejectStep(step) ==
    /\ FrameIs("INPUT_DATA") /\ step # rt.expected
    /\ StartErrorResponse("PROTOCOL", "STEP_INDEX")
    /\ UNCHANGED alg

\* decode_input, on_step and, when it succeeds, encode_output.
StepAlgorithm(step, ok) ==
    /\ FrameIs("INPUT_DATA") /\ step = rt.expected
    /\ IF ok
       THEN /\ alg' = [alg EXCEPT !.dirty = TRUE, !.steps = @ + 1]
            /\ StartSending(rt, HeaderOctets + config.output_octets, "ADVANCE_STEP",
                            tx.error, [kind |-> "OUTPUT_DATA", step |-> step])
            /\ UNCHANGED rx
       ELSE /\ alg' = [alg EXCEPT !.dirty = TRUE]
            /\ StartErrorResponse("ALGORITHM_STEP", "INTERNAL")

StopSession ==
    /\ FrameIs("SIM_STOP")
    /\ Terminate(rt, TRUE)
-----------------------------------------------------------------------------
Unsent == tx.total - tx.sent

SendFails(r) ==
    /\ rt.state = "SENDING" /\ BadCount(r, Unsent)
    /\ Terminate(Latch(rt, "IODEVICE"), FALSE)

SendIdles(r) ==
    /\ rt.state = "SENDING" /\ r = 0 /\ ~Expired(config.transfer_timeout)
    /\ ProgressAges
    /\ UNCHANGED <<rt, rx, tx, alg>>

SendTimesOut(r) ==
    /\ rt.state = "SENDING" /\ r = 0 /\ Expired(config.transfer_timeout)
    /\ Terminate(Latch(rt, "TIMEOUT"), FALSE)

SendPart(r) ==
    /\ rt.state = "SENDING" /\ GoodCount(r, Unsent) /\ r < Unsent
    /\ tx' = [tx EXCEPT !.sent = @ + r]
    /\ ProgressRestarts
    /\ UNCHANGED <<rt, rx, alg>>

\* finish_sending when the session goes on.
MutantStepNotAdvanced ==
    IF tx.done = "ENTER_SIM_RUNNING"
    THEN [rt EXCEPT !.phase = "SIM_RUNNING", !.expected = 0] ELSE rt
MutantPhaseNotEntered ==
    IF tx.done = "ENTER_SIM_RUNNING"
    THEN [rt EXCEPT !.expected = 0]
    ELSE [rt EXCEPT !.expected = (@ + 1) % StepMod]
AfterFrame ==
    IF tx.done = "ENTER_SIM_RUNNING"
    THEN [rt EXCEPT !.phase = "SIM_RUNNING", !.expected = 0]
    ELSE [rt EXCEPT !.expected = (@ + 1) % StepMod]

FinishFrame(r) ==
    /\ rt.state = "SENDING" /\ GoodCount(r, Unsent) /\ r = Unsent
    /\ tx.done # "CLOSE"
    /\ tx' = [tx EXCEPT !.sent = @ + r, !.done = "CLOSE"]
    /\ StartReceiving(AfterFrame, "INTERACTION")
    /\ alg' = [alg EXCEPT !.delivered = IF tx.done = "ADVANCE_STEP" THEN @ + 1 ELSE @]

\* finish_sending after an error response.
FinishAndClose(r) ==
    /\ rt.state = "SENDING" /\ GoodCount(r, Unsent) /\ r = Unsent
    /\ tx.done = "CLOSE"
    /\ Terminate(rt, FALSE)
-----------------------------------------------------------------------------
Init ==
    /\ config \in Configs
    /\ rt = [state |-> "INERT", phase |-> "WAIT_SIM_START", expected |-> 0,
             wait_kind |-> "TRANSFER", started |-> FALSE, close_pending |-> FALSE,
             latched |-> FALSE, normal_end |-> FALSE, last_error |-> "NONE"]
    /\ rx = RxReset
    /\ tx = [total |-> 0, sent |-> 0, error |-> "OK", done |-> "CLOSE",
             frame |-> [kind |-> "NONE"]]
    /\ clock \in 0 .. ClockMod - 1
    /\ progress_start = 0 /\ idle = 0
    /\ alg = [running |-> FALSE, dirty |-> TRUE, steps |-> 0, delivered |-> 0]

WaitConnection ==
    \/ \E result \in {-1, 0, 1} : CloseChannel(result)
    \/ \E ok \in BOOLEAN : PollConnection(ok)
    \/ ConnectionError
    \/ PeerClosed
    \/ AcceptConnection

\* MaxSteps bounds the session: no INPUT_DATA arrives beyond it.
Arriving == {h \in Headers : h.type = "INPUT_DATA" => alg.steps < MaxSteps}

Receiving ==
    \E r \in DeviceResults :
        \/ ReceiveFails(r)
        \/ ReceiveIdles(r)
        \/ ReceiveTimesOut(r)
        \/ ReceiveHeaderPart(r)
        \/ \E h \in Arriving : ReceiveHeader(r, h) \/ RejectHeader(r, h)
        \/ ReceivePayload(r)

FrameReady ==
    \/ \E p \in StartPayloads : \/ RejectStart(p)
                                \/ \E ok \in BOOLEAN : StartAlgorithm(p, ok)
    \/ \E step \in Steps : \/ RejectStep(step)
                           \/ \E ok \in BOOLEAN : StepAlgorithm(step, ok)
    \/ StopSession

Sending ==
    \E r \in DeviceResults :
        \/ SendFails(r)
        \/ SendIdles(r)
        \/ SendTimesOut(r)
        \/ SendPart(r)
        \/ FinishFrame(r)
        \/ FinishAndClose(r)

Elapse(d) == clock' = ClockAdd(clock, d) /\ UNCHANGED config

Next ==
    \E d \in 0 .. RunPeriod :
        /\ Elapse(d)
        /\ \/ BlockInit
           \/ RunInert
           \/ WaitConnection
           \/ Receiving
           \/ FrameReady
           \/ Sending

\* The main loop calls Run for ever and the hardware timer advances.
Fairness == WF_vars(Next /\ clock' # clock)

Spec == Init /\ [][Next]_vars /\ Fairness
-----------------------------------------------------------------------------
InSession == rt.state \in {"RECEIVING", "FRAME_READY", "SENDING"}
Timed == rt.state \in {"RECEIVING", "SENDING"}
CurrentLimit == IF rt.state = "SENDING" THEN config.transfer_timeout ELSE WaitLimit

\* The algorithm runs exactly when the Core believes so, and never outside a
\* session: every path that leaves a session (SIM_STOP, timeout, device error,
\* peer close, error response) has called on_stop for a successful on_start.
AlgorithmPaired ==
    /\ alg.running = rt.started
    /\ alg.running => InSession

\* The step index the Core asks for counts the outputs the peer was sent
\* completely, and at most one computed output is in flight: no input is stepped
\* twice and none is skipped, across the wrap of expected_step_index.
LockStep ==
    /\ alg.steps - alg.delivered =
         IF rt.state = "SENDING" /\ tx.done = "ADVANCE_STEP" THEN 1 ELSE 0
    /\ InSession => rt.expected = alg.delivered % StepMod

\* on_start never sees input or output objects an earlier session used.
CleanStart == [][~alg.running /\ alg.running' => ~alg.dirty /\ alg.steps = 0]_vars

\* receive is never asked to store, and send never to load, beyond the frame
\* buffers of the config that Init accepted, and both always at a whole word.
FramesFit ==
    /\ rt.state = "RECEIVING" =>
         LET at == IF rx.part = "HEADER" THEN rx.header ELSE HeaderOctets + rx.payload
         IN  at % 2 = 0 /\ Remaining > 0 /\ at + Remaining <= config.rx_capacity
    /\ rt.state = "SENDING" =>
         tx.sent % 2 = 0 /\ Unsent > 0 /\ tx.total <= config.tx_capacity

\* A session that is being closed has latched its cause, unless SIM_STOP ended
\* it; so completing the close clears last_error for a clean end only.
CloseHasCause == rt.close_pending => (rt.latched = ~rt.normal_end)

\* The first error of a session is the one GetLastError reports until the close
\* completes or a new peer is accepted, whatever fails while the error response
\* is sent and the channel is closed.
FirstErrorWins == [][rt.latched /\ rt'.latched => rt'.last_error = rt.last_error]_vars

\* After an error is latched inside a session the algorithm is not called again
\* except by on_stop, and the session only finishes its answer and ends.
RejectIsFinal ==
    [][rt.latched /\ InSession =>
         \/ rt'.state = "WAIT_CONNECTION" /\ ~alg'.running
         \/ rt'.state = "SENDING" /\ alg' = alg]_vars

\* An error decides how a session ends: the first one is reported, the algorithm
\* is not stepped behind it, and the close it causes keeps the report.
ErrorsDecide == FirstErrorWins /\ RejectIsFinal /\ []CloseHasCause

\* A wait is abandoned by the first Run call that finds it too old: a session
\* never stays in a timed state for its limit or longer, clock wraps included.
NoOverstay == Timed => idle < CurrentLimit

\* A wait is never abandoned early, clock wraps included.
NoEarlyTimeout ==
    [][~rt.latched /\ rt'.latched /\ rt'.last_error = "TIMEOUT" =>
         idle + ClockSub(clock', clock) >= CurrentLimit]_vars

\* A wait is given up when its limit is over: no earlier, and by the first Run call
\* that can see it.
TimeoutsExact == []NoOverstay /\ NoEarlyTimeout

\* A peer that goes silent, or a device that accepts nothing, cannot hold the
\* block: every receive wait and every send ends.
WaitsEnd ==
    /\ rt.state = "RECEIVING" ~> rt.state # "RECEIVING"
    /\ rt.state = "SENDING" ~> rt.state # "SENDING"

\* The Core is an implementation of BlockService.
ServiceMode ==
    IF rt.state \in {"INERT", "WAIT_CONNECTION"}
    THEN IF rt.close_pending THEN "ending" ELSE "idle"
    ELSE IF rt.state # "SENDING" THEN "open"
    ELSE CASE tx.done = "CLOSE" -> "rejecting"
           [] tx.done = "ENTER_SIM_RUNNING" -> "accepting"
           [] tx.done = "ADVANCE_STEP" -> "owing"

Service == INSTANCE BlockService
    WITH mode <- ServiceMode, running <- alg.running,
         steps <- alg.steps, delivered <- alg.delivered

\* Every step of the Core is a step of the service or leaves it alone.
ImplementsService == Service!Spec
====
