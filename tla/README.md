# DSP-SimBridge in TLA+

DSP-SimBridge couples a Simulink model on a PC to an algorithm on a TI C2837x
DSP: in every simulation step the S-function sends the inputs, the DSP runs the
algorithm once and sends the outputs back. A MATLAB App keeps the project and
generates the files of both sides. This directory holds the specifications of
what runs on the DSP, of the bridge it forms with the S-function, of the PC's
transports and of the App's session, preview and commit, the configurations that
model-check them and the proofs.

Contents: [inventory](#inventory), [plan](#plan), [modules](#modules),
[runs](#runs), [fairness](#fairness), [proofs](#proofs), [findings](#findings),
[not modelled](#what-is-not-modelled).

## Inventory

Source paths are relative to the repository.

### DSP side

**Protocol Core** (`dsp/src/c2837x_block.c`). One `C2837xBlock` instance per
block. State: five states (INERT, WAIT_CONNECTION, RECEIVING, FRAME_READY,
SENDING), a protocol phase, receive and transmit progress, the expected step
index, the wait kind, the progress clock, and four flags (algorithm started,
close pending, error latched, normal end). Operations: `C2837xBlock_Init` once,
then `C2837xBlock_Run` from the main loop for ever; a `Run` call serves the
current state once and never waits. It calls the IoDevice (`open`, `listen`,
`get_connection_state`, `receive`, `send`, `close`), the algorithm (`on_start`,
`on_step`, `on_stop`), the I/O adapter (`reset_io`, decode, encode) and the
microsecond timer. Hard: every device call may be partial, idle or failing;
timeouts on a wrapping clock; a dozen ways out of a session. Correct when the
algorithm's callbacks pair, inputs and outputs stay in lock step, the first
error is the one reported, waits end exactly on time and buffers suffice.

**IoDevice contract** (`dsp/inc/c2837x_block_iodevice.h`). Seven operations
behind a table of function pointers, implemented by three devices.

**W5300 TCP channel** (`dsp/src/c2837x_w5300_channel.c`). State: connected flag,
one pending segment, a fourteen-stage close, a fault mark, the platform
generation it last saw. Hard: the chip takes commands asynchronously and drops
what is written too early; SEND, SEND_OK, RECV and CLOSE must be ordered; W5300
erratum 1 (a TCP CLOSE with unsent data wedges the socket) is avoided by
reopening the socket as UDP and sending a dummy octet; the peer may go at any
time; `PlatformInit` may reset the chip under the channel.

**W5300 UDP channel** (`dsp/src/c2837x_w5300_udp_channel.c`). State: the
candidate peer, the datagram being read, a SEND transaction of its own, a
five-stage close. Hard: datagrams of other peers between the candidate's, of any
size and with any length field; RECV and SEND share one command register; each
frame is one datagram and goes out once.

**W5300 socket layer and registers** (`dsp/src/c2837x_w5300_socket.c`,
`_hal.c`). One pending command per socket with a phase (register, then status),
FIFO access in whole words, size registers that are believed when read alike
twice.

**SCI channel** (`dsp/src/c2837x_block_sci.c`). UART with a 16-octet FIFO, an odd
octet staged between calls, a half-duplex direction pin. State: a logical
connection, the staged octet, one pending send with the octets queued so far,
whether the transceiver drives the line. Hard: a frame longer than the FIFO goes
out over many calls; the pin may turn only when the last stop bit is out, also
after an abort; overruns and line errors must end the session, but the latch is
looked at once per call, before the FIFO is read, and the receiver runs on
meanwhile; a line has no notion of a peer that left.

**Platform** (`dsp/src/c2837x_block_platform.c`, `_timer2.c`). Resets the chip,
configures memory and network, starts a new generation; the wrapping timer.

**Configuration and algorithm** (`c2837x_block_config.c`, `my_algorithm.c`).
Generated tables and user code.

### PC side

**S-function** (generated by `app/c2837x_block_render_sfun_files.m`), **protocol
client** (`app/templates/protocol.c.in`), **transports**
(`app/templates/pc_socket.c.in`, `pc_udp.c.in`,
`simulink/c2837x_block_pc_serial.c`). A blocking client: connect, SIM_START, one
INPUT_DATA and OUTPUT_DATA per step, SIM_STOP. State: a step index, whether a
session is on, a socket or handle. Hard: deadlines over several reads, late and
duplicate datagrams, a COM port without sessions, the two step counters staying
equal. Correct when the outputs of a step come from the inputs of that step and
all before it, and a block whose PC is gone comes back for the next simulation.

Each transport has one deadline per frame and moves what the system gives it:
partial counts, interrupted waits, datagrams of any length; the serial one
computes its time in performance-counter ticks and hands it to Windows in
milliseconds. Correct when a handle that stays open stands between two frames and
no call ends before, or waits beyond, its deadline.

**Legacy S-function** (`simulink/c2837x_block_sfun.c` and its own protocol and
socket code). The single-instance predecessor the requirements retire.

### App

**Project session** (`app/c2837x_block_project_session.m`). State: the project,
its Dirty mark, its FilePath; the MAT files. Operations: edit, save, load (with
migration of older formats), and the callbacks of the **Configurator UI** that
ask before work is discarded. Hard: a save may fail half way, a load may save
first, a file may be of another format or carry stale hashes. Correct when a
session that says saved and clean tells the truth.

**Coordinator, preview and commit** (`app/c2837x_block_app_coordinator.m`,
`_create_preview_snapshot.m`, `_validate_preview_snapshot.m`,
`_compare_candidate_files.m`, `_validate_candidate_actions.m`,
`_commit_preview_snapshot.m`, `_commit_file_bytes.m`). State: the preview status
and snapshot (project, sources, candidates, baselines of the targets, chosen
actions) and the last result. Operations: preview, choose an action, commit; every
edit and load invalidates. Hard: other programs write the targets and the source
between any two looks, a commit stops in the middle without rollback, a preview
may outlive the project it shows. Correct when only what was previewed is
overwritten, only a current preview can be committed, and the result of a commit
says what it did.

**Validation**, **SCI baud**, **migration**, **code generation**: functions of one
project structure, without state.

### Who calls whom

    Simulink -> S-function -> protocol client -> transport ~~ wire ~~
        W5300 or SCI <- channel <- Core (Run, from the main loop) -> algorithm

    user -> Configurator -> coordinator -> session -> MAT files
                                        -> preview -> commit -> generated files ~~ editors, builds

Everything on the DSP runs in one main loop, without interrupts; what is
concurrent is the chip, the network, the clock and the PC. A call of `Run` is
therefore one atomic step of the Core models, and an IoDevice call one step of
the channel models, interleaved with steps of chip and network. In MATLAB one
callback runs at a time; what is concurrent with a preview or a commit are other
programs on the same files.

## Plan

The order in which the modules were written is the order of importance: the
Core and the abstract service it implements, the devices below it, the bridge
above it, the PC's transports, the App. What could follow:

1. `IoDevice`: the contract of a device as an abstract specification (what a
   session may see between connected and closed), refined by the three channels;
   it would replace the projected Core inside them.
2. `Platform`: initialisation, memory map and generation of two instances on one
   chip.
3. `SciBaud` and the validation rules against a reference definition.
4. Proofs that the three channels refine `IoDevice`, once it is there. The
   invariants and action properties of all passing runs are proved.

## Modules

| module | models | state |
|---|---|---|
| `BlockService` | what a block promises the Simulink side, in four variables | `mode`, `running`, `steps`, `delivered` |
| `BlockCore` | `c2837x_block.c` | the runtime struct, split into `rt`, `rx`, `tx`, `progress_start`; the clock; history `idle`, `alg` |
| `BlockCoreProofs` | theorems about `BlockCore` | |
| `TcpChannel` | `c2837x_w5300_channel.c`, TCP half of `_socket.c` | `core`, `chan`, `chip`, `gen`, `age`; history `hist` |
| `TcpChannelProofs` | theorems about it | |
| `UdpChannel` | `c2837x_w5300_udp_channel.c`, UDP half of `_socket.c` | the same |
| `UdpChannelProofs` | theorems about it | |
| `SciChannel` | `c2837x_block_sci.c` | `core`, `chan`, `call`, `chip`; history `hist` |
| `SciChannelProofs` | theorems about it | |
| `Bridge` | generated S-function, protocol client and transports on the PC, the wire, and the block as `BlockService` | `pc`, `toDsp`, `toPc`, the block's four, `peer`, `answer`; history `fed`, `stale`, `got` |
| `BridgeProofs` | theorems about it | |
| `PcTransport` | `pc_socket.c.in`, `pc_udp.c.in`, `c2837x_block_pc_serial.c`, the framing of `protocol.c.in` | `kind`, `call`, `line`, `staged`, `valid`, `outcome`, `now`; history `hist` |
| `PcTransportProofs` | theorems about it | |
| `ProjectSession` | `c2837x_block_project_session.m`, the save, load and close callbacks of `C2837xBlockConfigurator.m` | `session`, `files` |
| `ProjectSessionProofs` | theorems about it | |
| `PreviewCommit` | the coordinator, preview and commit | `project`, `source`, `disk`, `dirs`, `preview`, `job`, `result`, `others`; history `hist` |
| `PreviewCommitProofs` | theorems about it | |
| `MC...` | small instances | |

`BlockCore` has one action per outcome of a service routine: an early return is
an action, its guard the conditions on the way there. The IoDevice is whatever
its C signature allows: `receive` and `send` return any member of
`DeviceResults`, odd, negative and too large counts included, so what holds of
`BlockCore` holds over every device. One action is one `Run` call; the clock
advances by at most `RunPeriod` before it. `idle` counts the real time since
`progress_start_us` was set, without wrapping, and `alg` records what the
algorithm's callbacks saw; neither is read by an action's guard (except for the
bound `MaxSteps`).

`BlockService` says what a session is: it opens, is accepted or rejected, every
step computed is delivered before the next is computed, it ends. `BlockCore`
implements it under the mapping at the end of the module.

`TcpChannel` and `UdpChannel` take the other side of the boundary: the channel
and the socket layer in detail, the Core reduced to the calls it can make next
(`core`). The reduction is `BlockCore`'s: no progress may be repeated until the
Core's timeout ends the session, a failure ends it, a complete frame is followed
by an answer. The chip is external: a command register `cr` it clears when it
takes the command, an effect (`doing`) that reaches the status register later,
buffers and event bits. A status read may yield a value of `Glitches`, a size
read may be unstable (`-1`). In `UdpChannel` the FIFO holds whole datagrams and
`read` the octets consumed since the last RECV; RECV with anything else than one
datagram consumed marks the FIFO `torn`.

`SciChannel` numbers the octets instead of giving them values: `hist.heard`
counts those that reached the receiver, `hist.given` those the Core got or a
cleanup threw away, and every octet staged or queued carries its number, so that
order, loss and repetition can be told from one another; one that came with a
framing error may be in the FIFO as `Garbled`. The two calls that read the
receiver are taken apart, because it does not wait for them: `call` says how far
one has come. `NoErrorSeen` is its look at `RXERROR` and `RXFFOVF`,
`ReceiveCounts` (or `Accept`, `KeepListening`) its look at `RXFFST`, `ReadOctet`
one read of `SCIRXBUF`, `ReceiveReturns` the words it returns and the octet it
stages; octets, overruns and line errors come between any two of them. The other
calls touch only registers that do not change under them, or that a reset holds
while they run (`session_cleanup`), and are one step. One constant chooses which
transceivers are considered (none, active high, active low), and the pin has a
level, not a direction. `session_cleanup` with its reset of FIFOs, errors and
shifter is one operator, used by every path that calls it.

`Bridge` puts both ends together, a frame at a time. The block's steps are those
of `BlockService` (the instance `Dsp`), which `BlockCore` is proved to
implement; `Bridge` adds the frame that causes a step and the frame it owes. A
blocking callback of the S-function is a state (`starting`, `stepping`), and
`failed` is a session ended by `sfun_fail_step` that Simulink has not terminated
yet. `wire` and `faults` choose the transport, and what may go wrong, in the initial
state. TCP delivers in order
and a connection exists once; a UDP datagram may be lost, copied and overtaken,
every simulation has a source port of its own and the block drops what comes
from others; a serial line has no sessions, loses what is on its way when a
receiver is reset, and may leave it the end of a frame (`Cut`, `Garbage`).
`fed` holds the inputs of the block's session, every input named after its
simulation and step, and travels with the outputs, so that `got` says what each
output the S-function took was computed from. What the PC sends into a TCP
connection that the block has closed is lost.

The frames of protocol V1 name a step but no simulation, and a COM port is purged
once, before SIM_START. So when a simulation on a serial line begins while a step of
an earlier one is still on its way to the block, being computed, or answered and not
taken, that answer may be taken for one of its own: the step index on the wire can
agree. The purge throws away what has arrived and cannot reach the rest. `stale`
records that a simulation began like that, and the first half of `LockStep` (what the
outputs were computed from) does not speak of such a simulation; without `stale` TLC
finds it violated with three simulations. Nothing in the repository promises more of
a serial line, so it is a limit of the protocol and not a finding. The second half of
`LockStep`, and `OneSimulation`, hold for every simulation.

Assumed of the network: an
ephemeral port is not used again while datagrams for its last owner are under
way, and a step index (2^32 values) does not come round within the life of a
datagram; the guard on `StepMod` in `PcStep` is the latter. The early drop of
finding 1 is not part of `Bridge`; the refusal of finding 2 is (`Rejected`).

The channels carry projected reactions of the Core that over-approximate it: it
may give up at any call that makes no progress.

`PcTransport` is one client with one transport (`kind`, chosen in the initial
state) and one call at a time; a call is a state, because it blocks. Octets are
counted, not valued; a datagram has a size and announces a payload length. Time
is real time in units of which a tick of the performance counter and a
millisecond are any multiples, so that all rounding of the serial deadline is
there. It refines the frames `Bridge` sends whole: `FrameBoundary` is what
`Bridge` assumes of a handle that stays open.

`ProjectSession` writes every operation as the set of its outcomes, so that
`loadRequested`, which may save, ask and load, is composed the way the code calls
it; a callback is one action. A file is of today's format, older or unreadable; a
failed MATLAB save may leave any of the old file or an unreadable one (external:
`Damaged`). A project is a number and whether its stored interface hashes are
right.

`PreviewCommit` has one action per look at, or change of, the file system, since
other programs may act between any two of them; what the user does happens
between two callbacks. The four scans of the targets that a preview makes are two
(`CompareTargets`, `TakeSnapshot`): what changes between the others is found by
the same comparison. Every step that can fail may fail, without a cause. A commit
goes file by file in the order of the candidates as the code does: check the
target, write a temporary file, look again, move, read back. `hist` records what
this commit published, what others touched after that or after the last look,
and which replacements the user asked for. The project here is a value of its
own: `EditProject`, `OpenProject` and `RefuseDraft` say what the operations of
`ProjectSession` do to the preview. A directory in the place of a target is left
out.

## Runs

| run | shows | bounds | states |
|---|---|---|---|
| `core` | the safety and action properties of the Core, that it implements `BlockService`, and that every receive wait and every send ends | clock of 8 ticks, step index of 2 values, three steps per session, counts from -1 to beyond a frame, one valid and several invalid configs | 20 k |
| `tcp` | erratum, command register, SEND_OK, RX accounting, close, fault and generation; every close ends and the socket listens again, unless a LISTEN was missed as in `tcp_early_drop` | TX buffer smaller than a frame, so that a frame takes two segments; RX buffer of odd size; capacities below and above it; one chip reset | 198 k |
| `tcp_early_drop` | the exception to the above: a violation | smaller buffers, no reset | |
| `udp` | alignment of the FIFO, one SEND per frame, answers to the asker, close, fault and generation; every close ends, the socket is opened again, a waiting datagram is taken up | two peers, two queued datagrams, six kinds of datagram (short, header only, even, odd, lying, long), one reset | 410 k |
| `udp_answer` | a rejected frame with payload cannot be answered: a violation | one queued datagram | |
| `sci` | while no error is latched octets in order, without a gap and none read ahead, and no receive reads on behind a gap the Core was given; the pin, one transmission of every octet, confirmation after the last stop bit; every answer leaves the line without help of a timer, a closed channel hears the next first octet, a session that was given octets behind a gap ends | FIFOs of three octets, so that header and answer take several calls; nine octets from the line, each of which may be lost, spoilt or overrun at any point inside a call; three transceivers | 403 k |
| `bridge` | over each wire: a session of the block is fed by one simulation, every step once and in order; the outputs of step k were computed from the inputs of steps 0 to k; a session whose PC is gone is given up; without faults every step gets its outputs | three simulations of four steps (the smallest number at which `LockStep` needs `stale`), an index of three values (it wraps on the lines without datagrams), two frames each way; behaviours with every fault at any moment and with none | 63 k |
| `pc_transport` | a handle that stays open stands between frames, deadlines are exact up to the rounding of the clock, every call ends | a tick of 2 and a millisecond of 3 units, timeouts of 1 and 2 ms, header of 2 and payloads of up to 4 octets, datagrams of 1 to 6 octets, a buffer smaller than the longest payload, two octets on the line, one datagram queued | 627 k |
| `session` | a session that says saved and clean tells the truth | two files of every form, two projects with right and stale hashes; loadProject never asked to save, as in the App | 1.8 k |
| `session_save` | the same when a caller asks loadProject to save: a violation | the same | |
| `commit` | only a current preview can be committed, it overwrites only what it showed, the result is true | three files, one of them the user's, in two directories; two projects, two versions of the source; two changes by other programs at any moment | 1.8 M |
| `commit_source` | a preview may hold candidates of an older source than its snapshot: a violation | the same | |

The clock of `core` is small enough to wrap several times in a session, the
index wraps within a session, and every limit (`RunPeriod`, timeouts) is smaller
than half the clock as `C2837xBlock_Init` demands. What a larger buffer, clock
or frame adds is more intermediate counts of the same kind. Three files are one
before, one in and one behind the hand of a commit; two changes by others are
enough to hide a change (write and write back) or to touch one file before and
one after it was published. For every safety property the proofs below drop the
bounds. `MaxSteps`, `MaxSims`, `MaxFlight`,
`MaxGeneration`, `MaxQueue`, `MaxOctets`, `MaxDatagram` and `MaxOthers` bound
counters and queues that only their guard reads.

Some properties are conjunctions named for one question: `TimeoutsExact` (no
overstay, no early timeout), `OctetsOnce` (confirmed once, read once),
`AnsweredOnce` (sent once, to the asker), `ComesBack` of each channel (every
close or send ends, and the channel serves the next peer; of the SCI device also
that a session with a gap ends), `SentOnce`,
`SessionsApart`, `ErrorsDecide`; the parts are defined before them.

Every property has a slip of the code it was seen to catch: the operators named
`Mutant...` beside the definition they would replace. They are part of no
behaviour.

## Fairness

* Core: `WF(Next /\ clock' # clock)`: the main loop calls `Run` for ever and the
  hardware timer runs. Nothing is assumed of the device or the peer.
* Channels: weak fairness of the Core's poll with a correct status reading
  (the main loop, and a register that does not read wrong for ever), of `close`
  with the clock advancing, and of the chip taking and carrying out commands.
  `CloseEnds` needs only the second: the deadline ends a close that the chip
  does not. The network owes nothing: no fairness for peers, SEND_OK or data.
* `Bridge`: weak fairness of every step of the block but its failures (the main
  loop; `DspTimesOut` is the interaction timeout, which `WaitsEnd` of the Core
  justifies) and of a PC that waits for a frame taking it. Simulink owes
  nothing: no fairness for starting, stepping or terminating. What fails does so
  by choice, so `Answered` speaks of the behaviours without faults.
* `SciChannel`: weak fairness of `Run`, timers apart (`TimerEndsSend`: that the
  Core's transfer timeout ends the send must not be what makes it end), and of
  the transmitter, which shifts as long as it has octets. The line owes nothing.
* `PcTransport`: weak fairness of the steps of a call (the process runs) and of
  time. The network and the system's waits owe nothing; what the timeouts give is
  what the code asks for.
* `ProjectSession` and `PreviewCommit` claim safety only: nothing has to happen.

## Proofs

`BlockCoreProofs` proves for all constants satisfying the assumptions named in
`BlockCore` (a clock of any size, `RunPeriod` plus half the clock at most the
clock; configs of the right type; any set of device results and header lengths)
what the run `core` checks: `TypeOK`, `AlgorithmPaired`, `LockStep`, `FramesFit`,
`TimeoutsExact` (`NoOverstay` and `NoEarlyTimeout`), `ErrorsDecide` (with its
parts `FirstErrorWins`, `RejectIsFinal` and `CloseHasCause`), `CleanStart` and the
refinement of `BlockService`.

None of the invariants is inductive alone. `IInv` adds to them:

* `ConfigAccepted`, `InertIsBlank`: an instance out of INERT has a valid config;
  one in INERT has done nothing.
* `ClosePhase`, `LatchPhase`, `StartedPhase`: in which states the flags can be
  set, how the protocol phase, `algorithm_started` and the state go together.
* `RxProgress`, `TxProgress`: how far receive and transmit are, in even counts
  below the frame, and which frame is being sent. `FramesFit` follows.
* `Waiting`: `progress_start`, `clock` and `idle` agree modulo the clock and
  `idle` is below the limit. This carries `NoOverstay` and `NoEarlyTimeout`
  across the wrap; the arithmetic of the clock comes first in the module.
* `CountInv`: `LockStep` with the counts outside a session.

The step proof has one step per action of `Next`; each action property and the
refinement is proved from `IInv` and the action.

`PcTransportProofs` proves `TypeOK`, `FrameBoundary` and `DeadlineExact` for every
tick, millisecond, set of timeouts and lengths that satisfy the assumptions named
in `PcTransport`. Its `IInv` adds `Balance` (what a transfer has moved and has
left make up its frame, and the octets taken from the line are those) and `Paced`
(the deadline in force is the one of the call's start, a wait was armed before it
and is handed the rounded rest).

`TcpChannelProofs` proves `TypeOK`, `NoErratum`, `OctetsOnce`, `OneCommand` and
`SessionsApart` for buffers, frames and capacities of any size and any number of
resets of the chip. The difficulty is a chip that moves between two calls and that
`PlatformInit` may reset under the channel. `IInv` therefore has two cases. A channel
in step with the chip (`chan.seen = gen`) and the chip satisfy `Live`: which command
is in the register and which the channel believes pending (`InRegister`), how far
octets were read and written under them (`Counts`), that a CLOSE is only reached with
an empty buffer or over UDP (`Emptied`), and what a SEND_OK can confirm (`Sums`). A
channel that has not looked since a reset knows nothing, but the chip is blank.
`Shape` (what the Core and the channel know of each other) holds in both, and
`sync_platform_generation` leads from the second to the first (`SyncedInStep`).
The two action properties are proved from `IInv` with one lemma per operation.

`UdpChannelProofs` proves `TypeOK`, `Aligned`, `OneCommand`, `AnsweredOnce` and
`SessionsApart` for any set of peers, datagrams of any size with any length field, and
buffers of any size, along the same lines. Two things differ: `send` and `receive` do
not look at the generation, so a session may run on against a blank chip
(`SessionHolds`), and RECV must find the FIFO at a boundary, which takes a relation of
the octets read with the size recorded of the datagram (`Whole`, `Reading`).

`BridgeProofs` proves `TypeOK`, `OneSimulation` and `LockStep` over every wire, for any
number of simulations, steps and frames under way, any width of the step index and any
set of faults, under the two assumptions on the network stated [above](#modules). `OneSimulation` speaks of the block's inputs, `LockStep` of the PC's
outputs; the invariant has to follow what is between them. Its parts:

* `OnlyAsked`: every INPUT_DATA on the wire was sent by its simulation, and no step
  later than the one in hand; `Fed` says the same of what was computed, and that over
  UDP it came from the peer of the session.
* `InOrder`: where the wire keeps the order, each INPUT_DATA has its predecessor, a
  SIM_START or the rest of a cut frame before it, and the first one on the wire finds
  the block exactly as far as its step. This is why a serial line never feeds a session
  from two simulations, whatever was cut and whatever is left.
* `Labelled`: over UDP an output says which step of which simulation it answers.
* `OneStep`: over TCP, and on a line that was clean, one step at most is under way, as
  inputs, being computed, or as outputs, and it is the one the S-function waits for.
* `Apart`: a socket belongs to one simulation; `Owed`: the block's mode and its answer.
* `Committed`: the first half of `LockStep`.

`SciChannelProofs` proves `TypeOK`, `InOrder`, `LineDriven` and `SentOnce` for FIFOs,
headers, payloads and answers of any (even) size and every set of transceivers.
`IInv` is their conjunction with `QueuedOnce`, `Settled` (an operation that is over
has nothing queued, a closed channel has neither an operation nor a staged octet,
which `Close` needs: it does not clean up twice) and `Underway` (what a call under
way holds agrees with what it is to return, and no other call runs meanwhile). The
proof turns on two sequences, what is on its way to the Core (`Held`: the staged
octet, what the call has read, what the FIFO has) and what is on its way out
(`Leaving`): each step leaves them alone, cuts off a prefix, moves an octet from one
part to the next, or joins a run of consecutive numbers to them. `InOrder` claims
this of `Held` only while no error is latched: an error ends the claim and not the
call, and the next look at the latch, which `NoErrorSeen` cannot pass, restores it
by a cleanup. So a receive that has passed its look started from whole data.

`ProjectSessionProofs` proves the types and `DirtyTrue` for every set of projects
and paths under the assumption `"Save" \notin Decisions` of the theorem, which is
what the configurator does; `session_save` shows that it is needed. `DirtyTrue`
with the types is inductive: a lemma per operation shows that each of its outcomes
is `Sound`, and the composed ones follow from their parts.

`PreviewCommitProofs` proves `TypeOK`, `PreviewCurrent`, `ReportTrue` and
`OverwritesPreviewed` for any number of files, directories and changes by others.
`IInv` adds what holds in the middle: `TakenFor` (the snapshot being taken is of
this project), `Committable` (the policy, and that a user's file is replaced only
when asked), `Position` (the file in hand is one to write, and its target is as
previewed once it was looked at), `Done` (files before the one in hand finished,
those behind untouched, a published one holds its candidate unless touched) and
`Reported` (the last result stays true while others write and the next preview is
taken). Every way a commit ends is one lemma, `EndStep`.

Model-checked only: liveness (`WaitsEnd`, `ComesBack`, `Reclaimed`, `Answered`,
`CallEnds`), since fairness is out of reach of the prover. The properties of the runs
that expect a violation are refuted by TLC.

## Findings

1. **A connection that drops early stops a TCP block** (`tcp_early_drop`). In
   LISTENING the Core makes no call, so the LISTEN command stays recorded as
   pending. When a peer connects and resets before the next poll, the socket is
   CLOSED again; `open` sees a pending command, advances it, and
   `advance_target_state` (`dsp/src/c2837x_w5300_socket.c:86`) answers -1 to
   LISTEN with SOCK_CLOSED, now and on every later call. FR-131 of
   `requirements/archive/requirements_multi_iodevice_v1.0_frozen_rev2.md`
   (:1344, :1349) says that CLOSED is opened and that an ordinary failure may be
   retried. Only `PlatformInit` gets the block back.
2. **A frame rejected at its header is not answered over UDP** (`udp_answer`).
   The payload of the rejected frame is still in the FIFO, `datagram_active`
   stays set and `send` (`dsp/src/c2837x_w5300_udp_channel.c:385`) refuses, so
   the error RESPONSE that `tests/dsp_host/w5300_udp_core_lifecycle_test.c:566`
   expects is never sent and the PC runs into its timeout.

3. **loadProject, asked to save, may lose the save** (`session_save`).
   `loadProject` of the session reads the file
   (`app/c2837x_block_project_session.m:170`) before `canDiscardChanges` saves the
   project in hand (:191). When both are the same file, the file holds the project
   just saved and the session shows the one read before, clean and with that
   FilePath. The requirements
   (`requirements/archive/requirements_multi_iodevice_v1.0_frozen_rev2.md:370`)
   want saved-and-clean told apart from unsaved changes;
   `tests/app/test_project_session.m:127` names the order saves-current-then-loads.
   The configurator saves by itself and loads with Don't Save, so the App's user
   does not meet it.
4. **A preview may hold candidates of an older source** (`commit_source`). The
   provider reads the external source when it renders the copy
   (`app/c2837x_block_app_coordinator.m:171`), the snapshot reads it again (:191).
   An edit between the two is seen by neither, the snapshot stays valid and the
   older copy is committed, against lines 2016 and 2025 of the same requirements.

## What is not modelled

* The **legacy S-function** (`simulink/c2837x_block_sfun.c`, `_sfun_io.c`, its
  `_protocol.c` and `_pc_socket.c`): retired by the requirements and replaced by
  the generated one, which is modelled.
* **Code generation, validation, SCI baud, migration**: functions of one project
  structure without state; `PreviewCommit` takes any verdict of theirs and any
  content. **UI** beyond the callbacks named above, **build scripts**, test models.
* **Platform**: the register sequence, the memory map and the timer's prescaler;
  a successful `PlatformInit` is an action of the W5300 channels.
* The **user's algorithm** beyond success and failure; octet order and packing of
  words; texts of errors.
* Within the modelled files: `c2837x_w5300_socket_disconnect` and
  `udp_rx_available` (no caller), the residual octet of a split UDP read (the Core
  asks for exactly what is left of a header or payload, an even count, in one
  call), argument checks against null pointers and socket numbers the generated
  configuration rules out, the loop over addresses when the PC connects (it leaves
  nothing behind), the lists of legacy file risks of the coordinator (report
  data), a directory in the place of a commit target.
* What a gap on a **serial line** does to the block. An octet that is lost or spoilt
  after the look at the latch and before the last read of the same `receive`
  (`c2837x_block_sci.c`:253 and :264-295) may let that call return octets from
  behind the gap with success. When they complete a frame it is executed and
  answered, because the protocol has no check sum and `send` does not look at the
  latch; the next `receive` then closes the session. `SciChannel` has all of
  these steps, and `InOrder` and `ComesBack` say what holds in spite of them. `Bridge`
  does not give payloads a content that a gap could change: a frame damaged on the
  way is `Garbage` there, one the Core recognises as none.
* Time between reading the clock and waiting on it: `Wait` of `PcTransport` is one
  step, and `DeadlineExact` does not count what the process loses in between
  (`c2837x_block_pc_serial.c`:860-885), which comes on top of every such wait.
