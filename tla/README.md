# TLA+ models of the RMD motor SDK

Models, model-checking runs and machine-checked proofs of this SDK: how targets
get from the application to motors on CAN and EtherCAT and feedback gets back, how
sessions, backends and the IMU are started and stopped, and how the bench programs
move motors with it.

## The system

The library connects an application with RMD motors on any number of CAN buses
and EtherCAT masters, and with one IMU. Every bus has a *backend* with realtime
threads of its own; the application calls the facade `DriverSDK`.

    application ── DriverSDK (setMotorTarget, getMotorActual, getBackendStatus, ...)
                     │ MotorTargetFrame            ▲ MotorActualFrame, BackendStatus
                     ▼ SnapshotBuffer              │ SnapshotBuffer, AtomicBackendStatus
      ┌──────────────┴──────────────┬──────────────┴───────────────┐
      RmdCanBackend                 RmdEthercatBackend              Rs232ImuBackend
       txLoop  rxLoop                realtimeLoop                    readLoop
        │        ▲                     │  ▲                            ▲
        SocketCAN                     EtherLab master, ProcessLock     serial line

| Component | State | Operations | What makes it correct |
|---|---|---|---|
| Snapshot buffer (`rmd_snapshot_buffer.h`) | three slots, one atomic word with index and version, the indexes and versions of the two sides | `publish`, `readInto`, `read` | no slot is used by both sides; a read returns one whole frame, as fresh as possible, never an older one than before; it returns |
| CAN backend (`rmd_can_backend.cpp`, trackers in `rmd_types.cpp`, `rmd_safety.cpp`) | `stop_`, the socket, two threads, the working actuals, the mask of motors heard | `start`, `stop`, `txLoop`, `rxLoop` | a published frame says the truth about who replied; silence is reported; stop waits for both threads |
| EtherCAT cycle (`rmd_ethercat_backend.cpp`, `rmd_ethercat_snapshot.cpp`, `rmd_ethercat_pdo.cpp`) | process image, working actuals, newest targets, status | one `realtimeLoop` pass | drives are enabled only on a recent request; lost motors are released and reported; the command watchdog disarms |
| EtherCAT start and stop | lock, master, device, domains, process data, thread, AL state of the slaves | `start`, `stop`, `failStart`, `waitForStartupReady` | nothing used after release, nothing left behind, slaves leave OP before the thread stops, both calls return |
| Process lock (`rmd_process_lock.cpp`) | file descriptor of a locked file | `acquire`, `release`, fallback to `/tmp` | one process at a time, freed also by a crash |
| Backend status (`rmd_motor_backend.h`) | independent atomics | `setFault`, `record*`, `snapshot` | a fault once set is seen |
| Configuration and registry (`rmd_can_config.cpp`, `rmd_motor_registry.cpp`, `rmd_ethercat_bindings.cpp`) | tables built once per session | `loadConfig`, `fromConfig`, bindings | every motor has one index, one backend and parameters of its own, whatever sections name it |
| Driver facade (`rmd_driver_sdk.cpp`) | configuration, registry, backends, IMU, mode and current tables, sequence number | `init`, `stop`, `setMode`, `setMaxCurr`, `setCntBias`, `setMotorTarget`, `getMotorActual` | a session is complete or absent; its tables fit; all backends get the same targets |
| Conversion (`rmd_protocol.cpp`, `rmd_ethercat_pdo.cpp`) | none | clamp, polarity and bias, scale, pack, parse | what a motor is sent is what was asked, within limits and field widths |
| IMU backend (`rs232_imu_backend.cpp`) | serial port, thread, parser, last sample | `start`, `stop`, `readLoop` | only whole frames that check out are published; the reader falls into step again; stop returns |
| Bench workflow, joint path (`rmd_bench_workflow.cpp`, `rmd_joint_path.cpp`) | consecutive counts, ramp progress | readiness, ramp and path sampling, `disableMotors` | a count starts again after a bad sample; set points are continuous |
| EtherCAT bench programs and MIT probe (`examples/`) | phase, loop index, missed samples, stop flag | settle, enable, move, disable | readiness before motion, targets within limits, loss and stop end the motion, no motor left enabled |


What is hard here: two threads exchange frames without a lock; two more share the
working state of a CAN bus with an unreliable network between them and the motors;
drives answer to what they were told one exchange ago; start can fail after any of a
dozen acquisitions; slaves, kernel and other processes act at any time; tables
survive a session and meet another configuration; a serial stream is cut and
damaged anywhere; a signal, lost feedback or an exception may end a program in any
phase.
`PROJECT.json` lists the hazards at their lines, with the properties that watch
each of them.

## Modules

| Module | Models | Status |
|---|---|---|
| `FrameRegister` | abstract: an atomic register of frames whose reads never go backwards | specification for `SnapshotBuffer` |
| `MotorBackend` | abstract: what `start`, `stop` and the threads of any motor backend promise the facade | specification for `CanBackend` and `EthercatLifecycle` |
| `SnapshotBuffer` | `SnapshotBuffer<T>`, one step per atomic operation and per word copied | checked, proved |
| `CanBackend` | `RmdCanBackend`, with bus and motors as environment | checked, proved |
| `EthercatCycle` | `realtimeLoop`, with bus and CiA 402 drives as environment | checked, proved |
| `EthercatLifecycle` | `RmdEthercatBackend::start`, `stop`, with the slaves' AL state as environment | checked, proved |
| `ProcessLock` | `acquireEthercatProcessLock`, `ProcessLock` and the kernel's master, several processes | checked, proved |
| `MotorConfig` | `loadConfig`, `fromConfig`, the bindings, as operators | checked within `DriverSdk` |
| `Conversion` | the arithmetic of targets on both buses, as operators on scaled integers | checked within `DriverSdk` |
| `DriverSdk` | the facade with its backends and their threads as environment | checked, proved |
| `ImuBackend` | `Rs232ImuBackend`, with the device and a faulty line as environment | checked, proved |
| `MotionProgram` | eight programs of `examples/`, bench workflow and joint path, with feedback as environment | checked, proved |
| `MC<name>` | constants of the runs of module `<name>` | |
| `<name>Proofs` | theorems about module `<name>` | |

`CanBackend` and `EthercatCycle` read and publish a frame in one step: that is
what `SnapshotBuffer` implementing `FrameRegister` entitles them to (reads that
gave up aside, which return the previous frame). `EthercatLifecycle` has the
realtime loop as two actions, one of which publishes a frame that is ready or
not; what goes on in it is `EthercatCycle`. `ProcessLock` takes from
`EthercatLifecycle` the order lock, master, device and its reverse. `DriverSdk`
composes several backends, each abstracted to what those modules promise: start
returns or throws, stop returns, and while it runs a backend takes the newest frame
and reports any of its motors as lost. The first part of that is `MotorBackend`, the
contract behind the interface of that name: a backend has threads between `start`
and the return of `stop` only, frames come from them, and a failed start leaves none.
`CanBackend` and `EthercatLifecycle` each implement it (`BackendSpec`, by a mapping
of the caller's progress to phases), so that `DriverSDK::stop` may destroy the buffers
behind them. `MotionProgram` sees of the SDK what a
program sees: samples of feedback that may be bad at any time, and frames that may
be refused.

### SnapshotBuffer

State and actions are those of the class. `publish` is `PublishBegin` (which
chooses the frame), one `FillWord` per word of the frame and `Exchange`, the
`exchange` of the state word. A read is `ReadBegin`, then up to `MaxAttempts`
rounds of `Load` and `CasSucceeds` or `CasFails`, then `CopyWord` for each word
and `Return`. A weak compare-and-swap may fail for no reason. Frames are numbered
in the order of publication, so a torn frame is one whose words have different
numbers. What the memory orders guarantee is modelled by the order of the steps;
the mutant `Exchange_Relaxed` shows what goes wrong without the release.

### CanBackend

`app` is the caller of `start`, `setMotorTarget` and `stop`. The transmit thread
reads the target frame (`TxCycle`), sends one command per motor (`TxSend`,
`TxSendFails`) and sleeps (`TxSleep`). The receive thread waits (`RxWait`) and
handles an MIT reply (`RxReply`), another frame (`RxOther`) or a timeout. To `rxLoop`
a timeout is a `receive` that returns 0 or less (`RxTimeout`): nothing came for 50 ms, an
empty frame came, or `poll` or `read` failed, as a signal makes it, whatever waits in
the queue. Then it marks the motors it has not heard (`RxMarkMissing`) and
publishes (`RxPublishPartial`); replies may arrive before and between these steps. A motor's feedback is abstracted to its status
word: ok, the 0xffff of a stale motor, or the 0 it starts with. Motors reply to
commands within 50 ms or not at all; `Prompt` says whether the transmit thread
keeps its period, in which case several cycles fit into a timeout.

### EthercatCycle

Time is counted in cycles. `Receive` turns every domain into actuals or marks it
lost (`readEthercatDomainSnapshot`), `Command` reads the targets, applies the
watchdog, derives the control words and publishes. `Bus` is the exchange: it
reaches some of the motors, which report their status and obey their word
according to the CiA 402 state machine (`React`). `complete` are the domains
whose working counter the master will report as complete; that a domain is
reported incomplete although all its motors were reached is possible.
`authorised` and `asked` are history variables for `ArmedOnlyOnRequest`.

### EthercatLifecycle

The caller acquires the six resources one by one, any of which may fail
(`AcquireFails`, `failStart`), configures the process data of the slaves when it has
the domains (`Configure`), spawns the thread, requests OP (`RequestOp`), samples frames
(`Sample`) until enough ready ones were seen or the deadline passes, and on the
way back or in `stop` takes the slaves to SAFEOP and PREOP, joins the thread and
releases. `start` repeats its requests for PREOP and OP for ever when they are refused
(`RequestRefused`). On the way back a request is given up after three attempts and
each wait for the slaves may run out; `gaveUp` records that it happened. The status
code that `failStart` sets is left out. `readyCount`, `refusals` and `gaveUp` are
history variables.

### ProcessLock

Each process runs the steps of `start` up to the device node and the release in
reverse order. `Opens` says who can open which lock file; a process that cannot
open the first is led to the second. `Die` kills a process
anywhere; the kernel then closes its files in any order (`Reap`).

### MotorConfig and Conversion

A configuration document is the sequences of entries of its sections, each entry
with the attributes that decide where a motor goes; loading folds over them in the
code's order (CAN slaves, EtherCAT slaves, explicit placements) and fails where the
code throws. Every entry becomes a `Placement`, which says on which bus it puts a
motor or that it is passed over or wrong; `Loading` is the configuration after each
of them, and one wrong placement makes it `Failed` for good. `FromConfig` gives motors
their index and their backend, in order of first appearance.

`Conversion` counts in thousandths of a radian, radian per second and newton metre.
Integer fields have the width they have on the wire: `Int16` wraps where the code
casts, and MIT fields have 16 and 12 bits. `Packed` is what the two EtherCAT profiles
have in common. `IsParameters` are the parameters `readMotorParameters` reads: any
numbers. What can be said of a command depends on them, and `CommandsFaithful` says how:
a position reads back if counts determine it (`ReadsBack`), a torque keeps its
direction if it cannot leave 16 bits (`KeepsDirection`), and in mode 10 it stays within
the motor's current whatever the parameters. Resolution and torque gain are chosen as
integers per thousandth, so that rounding happens only where the code rounds.

### DriverSdk

The application has one thread, so its operations follow each other; `pc`, `next`
and `then` say which one runs and which backend it deals with. `init` is `InitBegin`,
`StopBackend` and `StopRest` (it stops the previous session first), `Load`,
`StartImu`, `CreateBackends`, `StartBackend` for each backend and `InitReturns`;
`StartFails` and a failing IMU go through `StopAll` and then throw. `SetTargets`
converts a frame and `PublishTo` hands it to one backend after the other, between
which the backends' `TakeTarget` and `PublishActuals` interleave. `stop` is private:
`init` calls it first and when a start fails, and the destructor. The stub EtherCAT backend is an EtherCAT backend for which `StartFails` is
taken.

### ImuBackend

`ReadByte` handles one byte of a chunk by `Hunt`, `SecondByte` or `FrameByte`, by
`frameIndex` as in the code; whether a chunk goes on is free, so a read may end
anywhere. The stop flag is read between chunks. `sent` and `pos` are the device,
which sends valid frames for ever; `Receive` and `Lose` damage the line. Frames are
shortened to six and five bytes of four values, in the layout of the real ones,
with the same checksum rule for XSENS and any checksum for HIPNUC. `tail`, a
history variable, holds the last bytes received. Of YESENSE, whose decoder
is third-party code, only what the backend makes of an output is modelled.

### MotionProgram

One program runs: `Begin` chooses its arguments among those its checks accept, then
`pc` goes through the phases the programs share. `Settle`, `Enable`, `Run`, `Finish`
and `Disabling` are their loops, one iteration a step; `Watch` counts monitored
samples without operation. The programs differ in their arguments (`HoldArgs`,
`PathArgs`, ...), in where they send the motors (`PathFinal`, `FitPosition`, ...)
and in the exit codes of `Finish`. The mock controller looks before it sends,
which is `MockMove`; the step response settles, checks where the step leads only then
(`JumpSettle`, exit 2 before anything is enabled) and jumps there without a ramp; the torque probe drives one CAN motor, paced by the clock, and has
actions of its own. An iteration is one step, but a signal may come between its check
of the stop flag and its frame (`SignalBeforeSend`), besides between iterations
(`RequestStop`): one more enabled frame is then made, which is what `StopObeyed`
allows; the probe may make two more on the way out. Kinematics is a constant
operator that may fail (`Solvable`). The mock controller solves the joint angles also from
measured positions in every iteration, in both modes, and since those may be any, that may
fail at any time (`thrown`). Progress along ramps is computed in hundredths.
`good`, `on`, `blind` and `late` are history variables.

## Runs

| Run | What it shows | Instance | Distinct states, time |
|---|---|---|---|
| `snapshot` | all safety properties of the buffer, refinement of `FrameRegister`, every read returns, the last frame is seen | two words per frame, seven publications, spurious failures of the compare-and-swap | 54 000, 15 s |
| `can` | published frames tell the truth about who replied, a dead bus is reported, `stop` returns, the contract `MotorBackend` is kept | two motors with slave ids 1 and 63; sends fail, replies get lost, motors fall silent and come back, empty frames arrive, polls and reads fail; the transmit thread may be late | 290 000, 2 min |
| `can_reliable` | complete frames keep coming; a disabled motor stops being driven | two motors with slave ids 1 and 63, frames of other nodes, nothing lost; targets enable both motors, or reset one and release the other | 174 000, 1.3 min |
| `ecat_cycle` | arming only on an unexpired request, the watchdog disarms, lost motors are released and reported | two motors in one domain, exchanges that reach any of them, one drive fault, a command timeout of two cycles, every target | 1 070 000 (up to symmetry), 20 s |
| `ecat_cycle_live` | drives get enabled and stay so, faults are reset | two motors in two domains, lossy, one fault, a command timeout of two cycles; one motor is enabled and reset in turn, the other enabled | 444 000, 45 s |
| `ecat_lifecycle` | nothing used after release or left behind, slaves leave OP before the thread stops, `stop` returns, and `start` unless it is refused for ever; the contract `MotorBackend` is kept | three ready frames; any acquisition, kernel request or wait may fail, any number of times | 5 600, 2 s |
| `process_lock` | each lock file admits one process, the lock covers all use and is freed, and the master behind it is free | four processes that may die anywhere, two of them led to each file | 10 000, 4 s |
| `sdk` | a session is complete or absent, its tables, indexes and layouts fit it, EtherCAT and MIT frames say what was asked within limits, all backends hold the same frame | six configurations (mixed buses, a motor moved by an explicit placement, a type EtherCAT refuses, an alias without parameters, one beyond the frame, an unreadable file), three calls of `init`, a motor whose largest torque does not fit 16 bits, tables of both lengths, currents within and beyond 16 signed bits, two frames of extreme targets | 724 000, 35 s |
| `imu` | published samples are those of whole valid frames, the reader falls into step again, `stop` returns | all three types, payloads that hold a header or end with half of one, chunks of two bytes, one byte lost, changed or inserted, two starts | 418 000, 30 s |
| `apps` | motors are enabled when ready only, move within limits and in bounded steps; loss and stop end the motion; every program ends, with no motor enabled but after an exception of the solver | eight programs, two motors, ramps of zero, of less and of more than the motion, steps within, at and beyond limits, targets beyond limits, a path and a policy the solver fails for; any sample bad, any frame refused, a stop anywhere, between check and send too | 84 000, 1.75 min |

Why the bounds are enough. A frame of two words is enough to see one torn.
Seven publications are more than the `MaxAttempts` (three) that a read makes, so
a read can be overrun in every attempt, give up, and be followed by one that
does not. The code treats motors alike and the properties compare a motor that is
heard with one that is not, so two motors do; slave id 63 is the last bit of the
tracker's mask. Loss on EtherCAT is per domain, which takes a domain with
two motors (one reached, the other not) and two domains (one lost, the other
not): the two runs of `EthercatCycle`. A timeout of two cycles leaves an
application that publishes in every cycle unexpired; with one cycle every frame
would expire before it is obeyed. Three ready frames distinguish first, middle
and last in the startup count. Four processes give each lock file a holder and a
competitor. Three calls of `init` let a session, a failed `init` and another
session with the tables of both follow each other; two motors on different buses
give two backends, between which a frame is half handed round; two frames make the
older one distinguishable. The extreme targets reach every clamp. One motor's
scale makes its torque leave 16 bits: in mode 10 its current of 500 catches that before
the cast, one of 40000 does not, nor does anything in the other modes. In
the serial run a chunk of two bytes lets a stop fall on every byte and between them, and
after one fault the parser is out of step by any number of bytes, which is what a
second fault could do as well. In `apps` three samples in a row are needed and
four are waited for, so that a bad sample can come early enough to recover from, or
too late; the longest motion misses feedback, recovers and misses it again.
The constants of each run are in its `.cfg` and `MC` module.

Two further runs show where the code departs from its documents; TLC finds the
execution that violates what they say:

| Run | What is stated | Code |
|---|---|---|
| `can_silent` | one silent motor is reported stale after a timeout (`docs/usage_guide_zh.md:676`) | the timeout restarts with every frame of any other motor, and no frame is published meanwhile |
| `sdk_limits` | position is limited to the configured range (design document :278) | `setTargets` limits the joint position, converts it to the motor's coordinate and then applies the joint limits to that too (`src/rmd_driver_sdk.cpp:220`): with reversed polarity or a bias and an asymmetric range the motor goes elsewhere |

The design document is
`docs/superpowers/specs/2026-05-08-unified-rmd-realtime-sdk-design.md`. These were
met as well; no run is spent on them.

CAN and EtherCAT:

- The document has a stale enabled motor get a safe command (:289); the transmit loop
  does not look at stale flags (`src/rmd_can_backend.cpp:111`). It has stop send
  safe commands (:223); `RmdCanBackend::stop` sends nothing (:61).
- `rxLoop` takes a `receive` that returns 0 or less for a timeout
  (`src/rmd_can_backend.cpp:147`), and that is also a frame without data bytes, or a
  `poll` or `read` that fails, as a signal makes it (`src/rmd_can_transport.cpp:81`). Motors
  whose reply is already in the socket queue, or comes before they are marked, are
  then marked stale and healthy again in the next frame; the document says that a
  timeout marks only affected motors (:291). What holds is that no motor whose reply
  was read is marked (`HeardIsHealthy`).
- Motors with ids of 64 or more have no bit in the tracker's mask.
- The failure of a domain marks the motors of that domain stale
  (`src/rmd_ethercat_backend.cpp:634`), not all of the backend's (:290).
- `docs/ethercat_quickstart_zh.md:16` has start wait for consecutive fresh frames;
  it samples them (`src/rmd_ethercat_backend.cpp:373`), and an unready one between
  two samples is missed.
- `README.md:19` has one process at most open a master; processes with different
  rights may lock different files (`src/rmd_ethercat_backend.cpp:222`).

Facade and configuration:

- An alias larger than a frame throws while backends are made and leaves the IMU
  thread running until the next `init` or the destructor. `AllOrNothing` names it.
- An explicit EtherCAT placement with a type other than `MT_Device`, as in
  `docs/usage_guide_zh.md`, is accepted by `loadConfig` and refused by the backend's
  start (`src/rmd_ethercat_backend.cpp:472`).
- `setCntBias` before `init` has no effect: `init` reads the configuration again.
- A raw torque beyond 16 bits wraps and may turn (`src/rmd_ethercat_pdo.cpp:41`, :56):
  nothing compares a motor's scale and largest torque, or the currents of
  `setMaxCurr`, with the width of the field.
- Aliases without a backend read as zeros and are not counted among the motors
  without feedback; a new backend's initial frame counts as fresh.

Bench programs (paths under `examples/`):

- An exception of the solver ends the program with nobody to disable the motors (state
  `thrown`, which `EndsDisabled` excepts): in the loop of
  `rmd_ecat_joint_path_demo.cpp:833`, and in that of `rmd_ecat_mock_controller.cpp`, where
  the observation is solved from measured positions in both modes (:799), before lost
  feedback is looked at, and the policy's targets in one (:826). The handler (:905)
  returns 1.
- A signal that comes between a loop's look at the flag and `setMotorTarget`
  (`rmd_ecat_hold_position.cpp:182`, :189) is followed by one more enabled frame, and
  then by those that disable.
- Path and policy are checked against limits at multiples of the period from zero,
  and sampled shifted by the ramp: other times, if the ramp is no multiple. The
  path program checks again in its loop, the policy loop does not
  (`rmd_ecat_mock_controller.cpp:828`); `CommandsInRange` excepts that case.
- The loops of the MIT probe look at the stop flag in every sample, but after the one of
  its ramp it sends its full target all the same, without the rest of the ramp
  (`rmd_mit_torque_probe.cpp:360`); it ignores lost feedback (:447), and the
  result of `setMotorTarget`.
- Hold, position, joint and path programs exit 0 after a stop during the motion.
  The target zero of the hold program is not compared with limits.

IMU: a bad frame is dropped whole, without looking for a header inside it, so a device
whose every frame holds a header at one place could keep the reader out of step
(`Resyncs` excludes it). When a device falls silent the last sample stays, and nothing tells.

### Fairness

Fairness is stated in each module's `FairSpec`, or in `Spec` for the three newer
modules. `ecat_cycle` and `sdk` check safety only.

- `SnapshotBuffer`: the consumer is weakly fair, within a read because it is plain
  code of a scheduled thread, and between reads because backend threads read once
  per cycle and applications poll. A compare-and-swap that is possible again and
  again does not fail spuriously for ever. Nothing is assumed of the producer.
- `CanBackend`: both loops and a called `stop` are weakly fair. Owed replies are
  strongly fair to be sent or lost, and queued replies to be taken, because the
  socket queue is first in, first out; the queue itself is a set.
- `EthercatCycle`: the three steps of a cycle are weakly fair: the thread runs
  periodically and an exchange always ends. Nothing is assumed of the
  application.
- `EthercatLifecycle`: the caller's next step, the passing of the deadline and the
  thread are weakly fair. Nothing is assumed of the slaves, nor of the kernel: the
  requests for PREOP and OP, which the code repeats without bound, may be refused
  for ever, and `StartReturns` says that this is the only thing that keeps `start` from
  returning.
- `ProcessLock`: steps of start and stop and the kernel's cleanup are weakly fair.
- `ImuBackend`: the reading thread and a `stop` that waits are weakly fair. `read`
  has a timeout, so the thread goes on even if the device is silent; that bytes keep
  coming is an assumption about the device. That a frame without a header inside is sent
  again and again is a premise of `Resyncs`.
- `MotionProgram`: the program is weakly fair, it is one thread and sleeps for
  bounded times. Nothing is assumed of feedback, frames or signals.
- `DriverSdk` has no fairness: an application need not go on.

Deadlock checking is on in the runs of `SnapshotBuffer`, `EthercatCycle`,
`ProcessLock`, `DriverSdk` and `ImuBackend`, and off where the system comes to rest:
a stopped CAN backend, a stopped lifecycle, a program that ended.

## Proofs

Each `Proofs` module proves `Spec => []IInv` for an inductive invariant `IInv`,
stated in the component's module or at the head of the `Proofs` module, and derives
the safety properties from it, for all values of the constants allowed by the
module's assumptions.

- `SnapshotBuffer`: ownership of slots by the two sides and the shared word, the
  contents of a slot by its owner's progress, and the order of versions are
  inductive only together. `ImplementsRegister` maps the register's value to the
  last frame exchanged; every step is a step of the register or a stutter.
- `CanBackend`: `LifecycleInv` ties threads and socket to the caller's progress;
  `TrackerInv` says that the tracker's mask is exactly the motors heard since the
  last publication, which needs distinct slave ids below 64.
  `TimeoutsSpareHeardMotors` follows from it: the motors marked are those outside the
  mask, whenever the timeout or the error came.
  `ImplementsContract` adds `ThreadsInv`, that a thread which serves the buffers
  means a backend started and not yet stopped, and shows each step to be one of
  `MotorBackend` or a stutter.
- `EthercatCycle`: `WordInv` describes the control words between `Command` and
  `Bus`, when image, published frame and working actuals must agree. The watchdog
  theorem follows because an expired frame writes only disarming words and a
  complete domain has all its drives reached.
- `EthercatLifecycle`: `PhaseInv` says what is held and whether the thread exists
  at each place of the caller, `CountInv` that counted frames were distinct,
  `DownInv` how far the slaves have come down, unless the backend gave up on it
  (no slave count, a request refused, or a wait that ran out). `ImplementsContract`
  follows from `PhaseInv`: every way out of a failed start joins the thread first.
- `ProcessLock`: `HeldInv` per process and `FlockInv` for the lock files; exclusion
  follows for processes that are led to the same file.
- `DriverSdk`: `StateInv` gives the state of every backend by where the operation is
  (those before `next` are started, or stopped, or hold the new frame), `PhaseInv`
  when there is a session and an IMU, `TargetInv` which sequence numbers backends
  hold. `AllOrNothing` and `OneCommandForAll` follow. `ShapeInv` relates the registry
  to the configuration. `LoadedMotors` says what `loadConfig` returns, for documents of
  any length: motors with distinct positive aliases up to the total, each with the
  parameters of its alias. `SInv` carries that through a session: the tables belong to
  the document that was loaded, every backend was made for its motors of the registry, and one that
  started can drive them. `SessionConsistent` follows. `CommandInv` says that every frame in
  a session was converted, with the tables of the session, from requests of the
  application; `CommandsFaithful` follows by the arithmetic of the conversions.
- `ImuBackend`: `ParserInv` says that the frame begun is a suffix of the bytes
  received, which makes a completed frame the last `Size` bytes; `ThreadInv` ties
  port and flag to the thread. `FramesFaithful` follows for every size, header,
  checksum and number of faults.
- `MotionProgram`: `PlanInv` says that the plan of a running program is one its
  arguments accept, `CountInv` ties the program's counters to the samples really
  seen in a row, `BlindInv` bounds the frames sent since operation was last seen by
  the samples missed and the distance to the last monitored one (a remainder by
  `plan.every`), `LateInv` counts the enabled frames since the stop
  flag was set: one at most, and by phase for the probe.
  `Attentive`, `EndsDisabled` and the action property `EnabledAfterReady` follow, for
  every kinematics, limit, period and patience. `CommandsInRange` is not inductive,
  since limits are compared when a plan is made or the motors are found, and
  frames are made later: `RangeInv` remembers what was compared (`PlanBounds`, by program) and
  that `start` are the positions found. A point between two allowed ones is allowed
  because progress lies between 0 and 100 and a rounded quotient between its neighbours;
  the joint path program compares again in its loop, the mock policy was compared at the
  times it is sampled at, and the fit lets motors drift by `Drift`.

Induction over the natural numbers, which two of these arguments need (the placements
of a document, the samples of a path), goes through the least counterexample: the
library's `WFMin` says that a non-empty set has a minimal member, with sets in place of
the predicates that the provers cannot instantiate (`Induction` and `InductionUpTo` in
`DriverSdkProofs`).

What the assumptions say of the code. Documents have finite sections, integer
aliases and integer parameters, of any value (`DocumentsAssumption`), tables of currents are finite and not negative
(`CurrentTablesAssumption`, a vector of `std::uint16_t`), and requests are numbers
(`RequestsAssumption`). Programs find motors at integer positions, have integer
limits and requests (`PositionsAssumption`), and take durations that `parsePositive` and
`parseNonNegative` let through (`ArgumentsAssumption`, `ProbesAssumption`). All of them
hold in the runs, where TLC evaluates them. One theorem has a hypothesis of its own:
`MotorsStayInRange` asks that the kinematics, where they do not fail, give integers
(`SolveGivesNumbers`, over all joint angles, which TLC cannot enumerate; those of the
run are sums of angles).

Properties that are conjunctions name their parts: `ResourcesSafe`,
`StartAndStopInOrder`, `LockCovers`, `SilenceIsReported`, `Attentive`. Slot ownership
and monotone reads (`SnapshotBuffer`), the agreement of stale flag and status
(`CanBackend`), that the socket outlives the threads (`CanBackend`; the contract that
`can` checks says so of everything `stop` ends) and that staleness shows as degraded (`EthercatCycle`) are theorems without
a run of their own: they are parts of what the refinement and the other properties
check.

Checked by TLC only: all liveness properties (the prover does not reason about
fairness); `StepBounded`, whose bound `MaxStep` is a number of the run (how
far apart two frames are depends on the distances, ramps and paths that arguments ask
for, and no constant of the code bounds them for all); and the runs that expect a violation.
Every other property of the passing runs is a theorem. Assumed, not proved: the behaviour of the external parts
(bus, drives, slaves, kernel, serial device), as their actions state it.

## Not modelled

- Backend status: `setFault` stores `degraded` and `errorCode` one after the other;
  the modules take them as one step, since nothing acts on the pair. Cycle counters,
  jitter statistics and CPU pinning are left out.
- CAN backend: slave ids of 64 or more and two motors of one id are excluded by
  `SlaveIdAssumption`. The loader accepts them, so nothing here covers that hazard.
- EtherCAT cycle: distributed clocks. EtherCAT start: the SDO transfers that configure a
  slave succeed or fail as one step (`Configure`), whose request for PREOP may be
  refused any number of times before. Slaves are taken together.
- A backend whose `start` throws, as the constructor of `std::thread` may: `init` has no
  handler for it (`src/rmd_driver_sdk.cpp:173`).
- Status replies of the CAN protocol (`parseStatus1`, `parseStatus2`) and the byte
  order within frames: pure functions that unit tests cover.
- Facade: getters that copy values, and SDO and REG calls, which return unsupported.
- Kinematics: iterative floating-point geometry, a constant operator here.
- `rmd_motion_plan` and the CAN measurement programs (sine, sweep,
  autotune, dual sine, status and snapshot probes, fault reset): they drive one motor
  with computed set points and record the response; what is in them is numerics,
  files and output.
- XML text, the vendored XML and IMU libraries, common string helpers, scripts.

## Plan

Done: snapshot buffer, CAN backend, EtherCAT cycle, lifecycle and lock; facade,
configuration and conversion; IMU; bench programs; safety proofs of all of them; the
contract of a motor backend and the two backends that implement it; what a loaded
configuration, a session's tables, its commands and the programs' set points satisfy.

Left, in this order:

1. Proofs: `StepBounded`, with `MaxStep` bounded by the steepest of the accepted
   arguments.
2. `DriverSdk` with one instance of `MotorBackend` per backend in place of its table
   of backend states.
3. The fault reset program, as a further program of `MotionProgram`.
