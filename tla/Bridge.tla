---- MODULE Bridge ----
(***************************************************************************)
(* A whole simulation bridge, frame by frame: the S-function and its        *)
(* protocol client on the PC, the wire between, and the block on the DSP.   *)
(* The block is what BlockService says of it, which BlockCore implements;   *)
(* here its steps get the frames that cause them and the frames they owe.   *)
(* Inputs are named after the simulation and the step they belong to, so    *)
(* that it can be said which inputs an output was computed from.            *)
(* A frame is whole or lost: how octets and datagrams make frames is the    *)
(* business of the channel modules.  Assumed of the network: no ephemeral   *)
(* port, and over UDP no step index on the wire, comes round again while a  *)
(* datagram of its first use is under way.                                  *)
(***************************************************************************)
EXTENDS Integers, SequencesExt

CONSTANTS
    Wires,      \* the IoDevice types considered, of "tcp", "udp" and "serial"
    StepMod,    \* values of the step index on the wire (2^32)
    MaxSims,    \* bound: simulations started
    MaxSteps,   \* bound: steps of one simulation
    MaxFlight,  \* bound: frames on their way in one direction
    FaultSets   \* what may go wrong in a behaviour: sets of AllFaults

\* timeout: a timer or a device ends a wait or a session at any moment; vanish:
\* the PC process ends without SIM_STOP; lose, duplicate: a datagram; refuse: hash,
\* version or the user's algorithm.
AllFaults == {"timeout", "vanish", "lose", "duplicate", "refuse"}

ASSUME WiresAssumption == Wires \subseteq {"tcp", "udp", "serial"}
ASSUME StepModAssumption == StepMod \in Nat \ {0}
ASSUME BoundsAssumption ==
    MaxSims \in Nat /\ MaxSteps \in Nat /\ MaxFlight \in Nat \ {0}
ASSUME FaultsAssumption == FaultSets \subseteq SUBSET AllFaults

VARIABLES
    wire,       \* the IoDevice type of this instance
    faults,     \* what may go wrong in this behaviour
    pc,         \* the S-function's context
    toDsp, toPc,\* frames on the wire
    mode, running, steps, delivered,    \* the block: see BlockService
    peer,       \* who the block's channel is in a session with
    answer,     \* the frame the block owes
    fed,        \* the inputs the algorithm computed in this session of the block
    stale,      \* this simulation began with a step of an earlier one on its line
    got         \* what the outputs this simulation took were computed from

dsp == <<mode, running, steps, delivered>>
world == <<wire, faults>>
vars == <<world, pc, toDsp, toPc, dsp, peer, answer, fed, stale, got>>

Dsp == INSTANCE BlockService
-----------------------------------------------------------------------------
NoPort == 0

\* Every simulation has a socket of its own; a COM port is always the same.
Port(sim) == IF wire = "serial" THEN 1 ELSE sim

PcOn == pc.state \in {"starting", "running", "stepping"}
PcPort == IF PcOn THEN Port(pc.sim) ELSE NoPort

\* "of": the inputs an INPUT_DATA brings, or those an OUTPUT_DATA was made of.
Frame(type, port) == [type |-> type, port |-> port, step |-> 0, of |-> << >>]
Garbage == Frame("GARBAGE", 1)
Input == [type |-> "INPUT_DATA", port |-> PcPort, step |-> pc.step % StepMod,
          of |-> <<<<pc.sim, pc.step>>>>]
MutantOutput(f) ==
    [f EXCEPT !.type = "OUTPUT_DATA", !.step = (@ + 1) % StepMod, !.of = fed \o @]
Output(f) == [f EXCEPT !.type = "OUTPUT_DATA", !.of = fed \o @]

\* Which frames can be next, and what a wire holds after the i-th was taken.
Deliverable(q) == IF wire = "udp" THEN DOMAIN q ELSE {1} \cap DOMAIN q
For(q, port) == {i \in Deliverable(q) : q[i].port = port}
After(q, i) ==
    {RemoveAt(q, i)} \union
        (IF wire = "udp" /\ "duplicate" \in faults THEN {q} ELSE {})

\* The parts of a sequence that keep its order.
Increasing(at) == \A i, j \in DOMAIN at : i < j => at[i] < at[j]
Parts(q) ==
    UNION {{[i \in 1 .. n |-> q[at[i]]] : at \in {f \in [1 .. n -> DOMAIN q] : Increasing(f)}}
           : n \in 0 .. Len(q)}

\* What may be left when a receiver throws away what has arrived so far: a UART
\* may be in the middle of a frame.
Cut(q) ==
    CASE wire = "tcp" -> {<< >>}
      [] wire = "udp" -> Parts(q)
      [] wire = "serial" ->
           {SubSeq(q, n, Len(q)) : n \in 1 .. Len(q) + 1}
           \union {<<Garbage>> \o SubSeq(q, n + 1, Len(q)) : n \in 1 .. Len(q)}

\* What is sent into a connection that the block has closed is lost.
PcSends(f) ==
    /\ Len(toDsp) < MaxFlight
    /\ toDsp' = IF wire = "tcp" /\ peer # f.port THEN toDsp ELSE Append(toDsp, f)

\* A frame for a closed socket is lost; one on a serial line stays on it.
Heard(f) == f.port = PcPort \/ (wire = "serial" /\ Len(toPc) < MaxFlight)
Arriving(f) == IF Heard(f) THEN Append(toPc, f) ELSE toPc
-----------------------------------------------------------------------------
(* The PC.  A callback of the S-function blocks until its frame has come or  *)
(* failed; a step of the model is what it does between two waits.            *)

\* Every variable has its type; the S-function's step index (context->step_index) is
\* the number of outputs it committed, the block's count that of inputs it computed.
TypeOK ==
    /\ wire \in Wires /\ faults \in FaultSets
    /\ pc \in [state : {"idle", "starting", "running", "stepping", "failed"},
               sim : 0 .. MaxSims, step : 0 .. MaxSteps]
    /\ Len(toDsp) <= MaxFlight /\ Len(toPc) <= MaxFlight
    /\ mode \in Dsp!Modes /\ running \in BOOLEAN
    /\ steps \in 0 .. MaxSteps /\ delivered \in 0 .. steps
    /\ peer \in 0 .. MaxSims /\ stale \in BOOLEAN
    /\ Len(fed) = steps /\ Len(got) = pc.step

Init ==
    /\ wire \in Wires /\ faults \in FaultSets
    /\ pc = [state |-> "idle", sim |-> 0, step |-> 0]
    /\ toDsp = << >> /\ toPc = << >>
    /\ Dsp!Init
    /\ peer = NoPort /\ answer = Garbage /\ fed = << >>
    /\ stale = FALSE /\ got = << >>

Enters(state) == pc' = [pc EXCEPT !.state = state]

\* pc_socket_close and its relatives: what a socket has not read is lost.
PcCloses(state) ==
    /\ Enters(state)
    /\ toPc' = IF wire = "serial" THEN toPc ELSE << >>

\* A frame of this type is on its way.
Carries(q, type) == \E i \in DOMAIN q : q[i].type = type

MutantFirstStep == pc.step
FirstStep == 0

\* mdlStart: connect, or open and purge, and send SIM_START.  The purge of a COM port
\* throws away what has arrived, not what the block has yet to read or to send.
PcStart ==
    /\ pc.state = "idle" /\ pc.sim < MaxSims
    /\ pc' = [state |-> "starting", sim |-> pc.sim + 1, step |-> FirstStep]
    /\ Len(toDsp) < MaxFlight
    /\ toDsp' = Append(toDsp, Frame("SIM_START", Port(pc.sim + 1)))
    /\ toPc' \in IF wire = "serial" THEN Cut(toPc) ELSE {toPc}
    /\ IF wire = "tcp"
       THEN mode = "idle" /\ peer = NoPort /\ peer' = pc.sim + 1
       ELSE UNCHANGED peer
    /\ stale' = (wire = "serial" /\ (\/ mode = "owing"
                                    \/ Carries(toDsp, "INPUT_DATA")
                                    \/ Carries(toPc', "OUTPUT_DATA")))
    /\ got' = << >>
    /\ UNCHANGED <<world, dsp, answer, fed>>

\* protocol_wait_response in mdlStart.
PcStarted ==
    /\ pc.state = "starting"
    /\ \E i \in For(toPc, PcPort) :
         /\ toPc[i].type = "RESPONSE_OK"
         /\ toPc' \in After(toPc, i)
    /\ Enters("running")
    /\ UNCHANGED <<world, toDsp, dsp, peer, answer, fed, stale, got>>

PcRefused ==
    /\ pc.state = "starting"
    /\ \E i \in For(toPc, PcPort) : toPc[i].type # "RESPONSE_OK"
    /\ PcCloses("idle")
    /\ UNCHANGED <<world, toDsp, dsp, peer, answer, fed, stale, got>>

\* mdlOutputs up to the wait for OUTPUT_DATA.
PcStep ==
    /\ pc.state = "running" /\ pc.step < MaxSteps
    /\ wire = "udp" => pc.step + 1 < StepMod
    /\ PcSends(Input)
    /\ Enters("stepping")
    /\ UNCHANGED <<world, toPc, dsp, peer, answer, fed, stale, got>>

\* protocol_wait_output_data, sfun_decode_output_payload: the answer to this step.
MutantAnswers(f) == f.type = "OUTPUT_DATA"
Answers(f) == f.type = "OUTPUT_DATA" /\ f.step = pc.step % StepMod

PcCommit ==
    /\ pc.state = "stepping"
    /\ \E i \in For(toPc, PcPort) :
         /\ Answers(toPc[i])
         /\ got' = Append(got, toPc[i].of)
         /\ toPc' \in After(toPc, i)
    /\ pc' = [pc EXCEPT !.state = "running", !.step = @ + 1]
    /\ UNCHANGED <<world, toDsp, dsp, peer, answer, fed, stale>>

\* sfun_fail_step: any other frame closes the socket and ends the session.
PcRejects ==
    /\ pc.state = "stepping"
    /\ \E i \in For(toPc, PcPort) : ~Answers(toPc[i])
    /\ PcCloses("failed")
    /\ UNCHANGED <<world, toDsp, dsp, peer, answer, fed, stale, got>>

\* A send or a wait ends in TIMEOUT, DISCONNECT or an error of the system.
PcFails ==
    /\ "timeout" \in faults /\ PcOn
    /\ PcCloses(IF pc.state = "starting" THEN "idle" ELSE "failed")
    /\ UNCHANGED <<world, toDsp, dsp, peer, answer, fed, stale, got>>

\* mdlTerminate: SIM_STOP, sent once and not waited for, if a session is on.
PcTerminate ==
    /\ \/ pc.state = "running" /\ PcSends(Frame("SIM_STOP", PcPort))
       \/ pc.state = "failed" /\ UNCHANGED toDsp
    /\ PcCloses("idle")
    /\ UNCHANGED <<world, dsp, peer, answer, fed, stale, got>>

PcVanishes ==
    /\ "vanish" \in faults /\ pc.state # "idle"
    /\ PcCloses("idle")
    /\ UNCHANGED <<world, toDsp, dsp, peer, answer, fed, stale, got>>
-----------------------------------------------------------------------------
(* The block.                                                                *)

InSession == mode \in {"open", "accepting", "owing", "rejecting"}

\* TCP: the chip has taken a connection; UDP: the sender of the first datagram
\* becomes the candidate; SCI: an octet arrives.
DspConnect ==
    /\ Dsp!Connect
    /\ IF wire = "tcp"
       THEN peer # NoPort /\ UNCHANGED peer
       ELSE \E i \in Deliverable(toDsp) : peer' = toDsp[i].port
    /\ UNCHANGED <<world, pc, toDsp, toPc, answer, fed, stale, got>>

\* A TCP connection that closed before the Core asked for it.
DspForgets ==
    /\ wire = "tcp" /\ mode = "idle" /\ peer \notin {NoPort, PcPort}
    /\ peer' = NoPort /\ toDsp' = << >>
    /\ UNCHANGED <<world, pc, toPc, dsp, answer, fed, stale, got>>

\* The frames the Core goes along with, by phase and step index.
MutantAcceptable(f) ==
    \/ f.type = "SIM_START" /\ ~running
    \/ f.type = "INPUT_DATA" /\ running
    \/ f.type = "SIM_STOP" /\ running
Acceptable(f) ==
    \/ f.type = "SIM_START" /\ ~running
    \/ f.type = "INPUT_DATA" /\ running /\ f.step = delivered % StepMod
    \/ f.type = "SIM_STOP" /\ running

Ended == Dsp!End /\ fed' = << >> /\ UNCHANGED answer

\* handle_sim_start, handle_input_data, handle_sim_stop.
Served(f) ==
    CASE f.type = "SIM_START" ->
           Dsp!Start /\ answer' = Frame("RESPONSE_OK", f.port) /\ UNCHANGED fed
      [] f.type = "INPUT_DATA" ->
           Dsp!Compute /\ answer' = Output(f) /\ fed' = fed \o f.of
      [] f.type = "SIM_STOP" -> Ended

\* start_error_response; over UDP the channel refuses to send it while the payload
\* of the frame rejected by its header is unread, which ends the session at once.
HeaderRejected(f) ==
    \/ f.type = "SIM_START" /\ running
    \/ f.type = "INPUT_DATA" /\ ~running
Rejected(f) ==
    IF wire = "udp" /\ HeaderRejected(f) THEN Ended
    ELSE Dsp!Reject /\ answer' = Frame("RESPONSE_ERROR", peer) /\ UNCHANGED fed

DspReceive ==
    /\ mode = "open"
    /\ \E i \in For(toDsp, peer) :
         /\ \/ Acceptable(toDsp[i]) /\ Served(toDsp[i])
            \/ ~Acceptable(toDsp[i]) /\ Rejected(toDsp[i])
            \/ "refuse" \in faults /\ toDsp[i].type # "SIM_STOP" /\ Rejected(toDsp[i])
         /\ toDsp' \in After(toDsp, i)
    /\ UNCHANGED <<world, pc, toPc, peer, stale, got>>

\* The UDP channel drops the datagrams of other peers while a session is on.
DspDrops ==
    /\ wire = "udp" /\ InSession
    /\ \E i \in DOMAIN toDsp : toDsp[i].port # peer /\ toDsp' = RemoveAt(toDsp, i)
    /\ UNCHANGED <<world, pc, toPc, dsp, peer, answer, fed, stale, got>>

\* The answer is sent completely.
DspSend ==
    /\ \/ Dsp!Accept /\ UNCHANGED fed
       \/ Dsp!Deliver /\ UNCHANGED fed
       \/ mode = "rejecting" /\ Dsp!End /\ fed' = << >>
    /\ answer.port = PcPort => Len(toPc) < MaxFlight
    /\ toPc' = Arriving(answer)
    /\ UNCHANGED <<world, pc, toDsp, peer, answer, stale, got>>

\* A timeout, a device error or a closed connection.  Even without faults the
\* interaction timeout ends a session whose peer is gone and silent.
Attended == peer = PcPort
MutantPeerSilent == mode = "open" /\ running /\ ~Attended /\ For(toDsp, peer) = {}
PeerSilent == mode = "open" /\ ~Attended /\ For(toDsp, peer) = {}
DspTimesOut == PeerSilent /\ Ended /\ UNCHANGED <<world, pc, toDsp, toPc, peer, stale, got>>
DspFails ==
    /\ "timeout" \in faults /\ InSession /\ Ended
    /\ UNCHANGED <<world, pc, toDsp, toPc, peer, stale, got>>

\* close has completed; what had arrived at the channel is gone.
DspClosed ==
    /\ Dsp!Closed
    /\ peer' = NoPort
    /\ toDsp' \in Cut(toDsp)
    /\ UNCHANGED <<world, pc, toPc, answer, fed, stale, got>>

Lose ==
    /\ wire = "udp" /\ "lose" \in faults
    /\ \/ \E i \in DOMAIN toDsp : toDsp' = RemoveAt(toDsp, i) /\ UNCHANGED toPc
       \/ \E i \in DOMAIN toPc : toPc' = RemoveAt(toPc, i) /\ UNCHANGED toDsp
    /\ UNCHANGED <<world, pc, dsp, peer, answer, fed, stale, got>>
-----------------------------------------------------------------------------
Pc == \/ PcStart \/ PcStarted \/ PcRefused \/ PcStep \/ PcCommit \/ PcRejects
      \/ PcFails \/ PcTerminate \/ PcVanishes
Block == \/ DspConnect \/ DspForgets \/ DspReceive \/ DspDrops \/ DspSend
         \/ DspTimesOut \/ DspFails \/ DspClosed

Next == Pc \/ Block \/ Lose

\* The DSP's main loop never stops, and a PC that waits for a frame reads it.
Fairness ==
    /\ WF_vars(DspConnect) /\ WF_vars(DspForgets) /\ WF_vars(DspReceive)
    /\ WF_vars(DspDrops) /\ WF_vars(DspSend) /\ WF_vars(DspTimesOut)
    /\ WF_vars(DspClosed)
    /\ WF_vars(PcStarted \/ PcRefused) /\ WF_vars(PcCommit \/ PcRejects)

Spec == Init /\ [][Next]_vars /\ Fairness
-----------------------------------------------------------------------------
Steps(sim, n) == [i \in 1 .. n |-> <<sim, i - 1>>]

\* A session of the block is fed by one simulation only, from its first step on,
\* every step once and in order, whatever is still under way from earlier ones.
OneSimulation == fed # << >> => fed = Steps(fed[1][1], Len(fed))

\* The outputs the S-function commits to its ports in step k are what an algorithm
\* started afresh made of the inputs of steps 0 to k of this simulation, each taken
\* once; and the block is never ahead of the step the S-function waits for, even
\* when a copy of a SIM_START makes it run a part of the simulation again.  The
\* frames of a serial line name no simulation: there the outputs are vouched for if
\* no step of an earlier simulation was under way, or its answer untaken, when this
\* one had purged its COM port.
LockStep ==
    /\ ~stale => \A i \in DOMAIN got : got[i] = Steps(pc.sim, i)
    /\ PcOn /\ fed # << >> /\ fed[1][1] = pc.sim =>
         \/ Len(fed) <= Len(got)
         \/ pc.state = "stepping" /\ Len(fed) = Len(got) + 1

\* A session whose PC ended or failed, with or without SIM_STOP, is given up, and
\* the block is there for the next one.
Reclaimed == (InSession /\ ~Attended) ~> (mode = "idle" \/ Attended)

\* PC and DSP never wait for one another: without faults a step that was begun gets
\* its outputs.
Answered == (faults = {} /\ pc.state = "stepping") ~> (pc.state = "running")
====
