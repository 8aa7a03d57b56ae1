# A verification project for BAM

TLA+ models of the Baseball Avoidance Multi-rotor simulation (BAM) and of the programs around it, the
TLC runs that check them on small instances, and TLAPS proofs for all instances: every safety property that a
run checks is a theorem, and so is the refinement of the abstract scheduler.

    tlc -config MCRtOneStep.cfg MCRtOneStep.tla        any run: <name>.cfg with its module
    tlapm RtOneStep_proof.tla                          any proof: the modules named *_proof

`PROJECT.json` lists components, runs, mutants, hazards, findings, theorems and, under `map`, the
source lines each definition models.

## 1. Inventory

Programs and processes (arrows are the messages and files between them):

    Simulink model (MATLAB process, MEX blocks)  --pub_pose, bball_pub_pose-->  Bam2Airsim --RPC--> Unreal/Airsim
       or autocoded executable (rt_malloc_main)   --pub_pose-->  drone_plotter
                 ^                                <--/phase_space_warping_analyzer--  phase_space_warping
                 |  userStruct, SimIn, SimPar                            ^ pub_pose, /lidar...
    EBK_AVOIDANCE / examples / setup                         lidar_publisher <--RPC-- Unreal/Airsim
                 |  CSV trajectories
                 v
    BamEcho --RPC--> Unreal/Airsim, pictures and videos on disk

| component | state | operations | what is hard | what makes it correct | module |
|---|---|---|---|---|---|
| main program of an autocoded model, `rt_malloc_main.cpp` | overrun and event flags per rate, status, stop request, instance, log | `main`, `rt_InitModel`, `rt_OneStep` (from a loop or an interrupt) | preemption of `rt_OneStep` by itself; early returns; error exits | rate-monotonic, no release lost or served twice, starvation reported, clean exits | `RtOneStep` |
| pose publishers: `ros_msg_iface`, two blocks with it and two without | global node pointer per copy of the library, or PWork | `mdlStart/Outputs/Terminate` | every block shuts the shared ROS context down; order of blocks; SIGINT; repeated runs | connected whenever stepping, own topic, nothing dangling or leaked | `PosePublishers` |
| subscriber block `psw_sub` | static node, subscription, buffer, flag | same | statics outlive a run; queue of 10 | output recent, zeros before data | `PswSubscriber` |
| BamEcho | trajectory, actors' poses, threads, pictures, videos | flight loop, capture, writers, export, cleanup | a thread per picture; failures in any phase; Ctrl-C | pictures show their row, videos complete up to a gap of their own view, no exported picture lost | `BamEcho` |
| EBK_AVOIDANCE with `setup` | workspace: userStruct, SimIn, SimPar, results; the loaded model | batch loop, demonstration, summary | state inherited from run to run; failing runs; repeated sessions | every run flies its own pair and is counted once | `BatchAvoidance` |
| Bam2Airsim, TestPosePub | position of `main`, ROS context, nodes with queues, log file; the armed state and poses in Airsim | `main` with its checks, `updateMsg`, timers of the publisher | failing remote calls nobody catches; SIGINT in any statement; slow calls against a queue of 10; crash and restart | armed only where checked, clean exits, each actor follows its own topic and catches up | `Bam2Airsim`, `TestPosePub`, `AirsimBridge` |
| phase space warping analyzer | ring buffer, step counter, reference in parts, history | `pose_callback`, which runs the analysis | computations that raise half way; overlapping windows; lost poses | a reference from one analysis, not tested on its own samples once a span has passed; every interval analysed once | `PswAnalyzer`, `FlightAnalysis` |
| drone plotter | positions, orientation, axes, window | pose callback, timer, closing | drawing slower than flying; a drawing that fails after clearing | the plot catches up with the last pose | `DronePlotter`, `FlightAnalysis` |
| parallel batches of executables | parameter and output files, processes, jobs of the shell | `example_batch_runme.m`, `aRunParallel.sh`, the executables | old files, old processes, interrupted and failed sessions, shared names | results of the own run and session; a pool of N | `ParallelBatch`, `WorkerPool` |
| spdlog, as the bridge uses it | FILE buffer, file | write, close, shutdown | lines are buffered without a flush level | what is on disk after an exit | `SpdLog` |
| lidar publisher | - | a timer callback | - | - | not modelled: keeps nothing between calls |
| ball velocity estimator, Bezier arrays, trim | - | numerical | - | - | not modelled: floating point |
| build, installation and cleaning scripts | files | shell and MATLAB | failing steps reported as success | - | not modelled |
| Simulink diagrams, aerodynamics, quaternions, plots | - | numerical | - | - | not modelled: floating point, or no source text |
| rest of spdlog with fmt, html, binaries | - | - | - | - | not modelled: third party or generated |

The hazards of the code, each at its line and with the properties that would catch it, are in
`PROJECT.json`.

## 2. Modules

### RateScheduler, RtOneStep (`AutoCodeModels/src/rt_malloc_main.cpp`)

`RtOneStep` has one action for each stretch of `rt_OneStep` between two points where it can be
preempted, and one for each step of `main`. The local variables of an activation (its position in
the code and the loop index `i`) are a frame on `stack`; the last frame executes. `Enter` covers
lines 223-245, which run with interrupts disabled. Flags count modulo `FlagMod`, as `boolean_T` does
modulo 256. The single-tasking variant is the instance `NUMST = 1`.

Two constants say how the routine is used. `Drivers` is `{"loop"}` for the program as built (`main`
calls `rt_OneStep` in a loop), and contains `"interrupt"` for what the comments of the file describe,
an attachment to a timer. `MaskFlags` says whether the places where the comments call for masked
interrupts also cover the test-and-claim of a subrate; the file itself leaves interrupts enabled
there. The model step is a nondeterministic effect on error status and stop request. Interrupts
nested deeper than `MaxNesting` are cut off; every entry beyond the second finds an overrun anyway
unless the activations below it have finished their base step, so four levels hold one activation per
rate and one more.

`RateScheduler` is the abstract specification: sets of pending and running rates, a base step, a
failure flag. `ImplementsScheduler` checks that `RtOneStep` implements it under the mapping `Sched`: a subrate is
pending while its event flag is up, its overrun flag down and no activation is about to hand its event back; it runs
while an activation is inside its step; the base step is in progress while the innermost activation releases subrates
or steps the base rate.

### Rclcpp, PosePublishers, PswSubscriber, SimulinkRos (`ROS2_ws`)

`Rclcpp` states the few facts of the client library the blocks rely on: `init` and `shutdown` of the
default context, nodes that belong to one initialisation of it, bounded subscription queues. It is
external code. `PosePublishers` has one operator per function of `ros_msg_iface` and of the blocks
without it; `PswSubscriber` the same for `psw_sub`. `SimulinkRos` composes them: the engine calls the
blocks in any order within a phase, on one thread; a block may fail to start; SIGINT and messages of
the analyzer come at any moment. `LibOf` gives the copy of the static library a block is linked with:
one per MEX file in MATLAB, one for all blocks in an executable. A node is the record of its block, run
and context generation, so a stale node is distinguishable from a new one. That the engine terminates
all blocks also when one failed to start, and clears PWork and the outputs before a run, is its
documented behaviour and an assumption of the model. A SIGINT between the `rclcpp::ok` or `init` of a start and the constructor
of its node makes the constructor throw: `StartThrows`.

### BamEcho (`BamEcho/BamEcho.py`, `bamCsvLoad.py`)

The main thread is a program counter over the phases of the script; each picture has a thread, an
element of `writers`. A picture records the row it is numbered with and the rows whose poses the actors
had when it was taken, so a mix-up is visible. `videos` has the frames ffmpeg encodes: those before the
first gap. `Interrupt` is Ctrl-C in any phase, in `Capture` also between the starts of two threads; `End` covers `exit()`,
uncaught exceptions and the end, all followed by the wait for threads and `on_exit`. The working directory is left out: it is
the process's own. Remote calls that never return are not modelled.

### BatchAvoidance (`EBK_AVOIDANCE.m`, `setup.m`, `setup/...`)

Trajectory data is the number of its pair, so each input of a simulation shows where it came from.
`SetupSteps` keeps the intermediate values of `SimIn`: a failing statement leaves the ones before done.
`modelStop` is the StopTime of the loaded model, which the warm-up changes and restores. `flown`, a
history variable, records what each run flew with. The script can be executed again in the same
workspace, which only clears `userStruct`. `find` and `ArgMax` are MATLAB's `find` and `max`: the indices in increasing
order, and the first of the greatest.

### SpdLog, Bam2Airsim, TestPosePub, AirsimBridge (`visualization_pkgs/bam_2_airsim`)

`Bam2Airsim` has one action per statement of `main` that calls Airsim or ROS, and `updateMsg`. A remote call
succeeds, or fails before or after Airsim has executed it, with an exception that a `try` block catches or
not; an uncaught one ends the process (`Die`). The environment `airsim` (is there a drone, a ball, is it armed,
which pose does each actor show) outlives the process. SIGINT kills the process except between `rclcpp::init`
and `rclcpp::shutdown`, where it shuts the context down: constructors of nodes then throw, `spin` returns.
`MakeExecutor` stands for the constructor and the `add_node` calls, as a SIGINT between them ends like one before (the
constructor throws) or after (`spin` returns).
`SpdLog` is the path of a line through the logger: it is on disk when stdio empties its buffer (at any moment,
`Spill`) or when the last reference to the logger goes, which is at the return of `main`, not in
`stopDebugLogger`. Of a line only its kind matters, an issue or progress.

`TestPosePub` numbers the poses of each topic. `AirsimBridge` composes the two processes and hands each
publication to the queues of the nodes that listen at that moment. `delivered`, a history variable, is the
last pose handed to the present node of an actor. An orientation keeps its four components, so that their
order is visible.

### PswAnalyzer, DronePlotter, FlightAnalysis

Both nodes have one thread, so each callback is one step. In `PswAnalyzer` an analysis is named by the step
counter at which it runs. Each part of the reference carries the analysis it comes from; any computation may
raise between two assignments, as numerical ones do, but where the covariance is not computed (fewer than two transitions); `Dims` are the numbers of dimensions PCA may keep, which
differ from window to window. `Samples` gives the steps of the samples that a range of embedded points spans,
for any buffer size, delay and dimension. `results` holds what was published: `publish_results` catches its own
exceptions, after the history was extended. `DronePlotter` keeps the number of the last position and of the
orientation, and what the axes show; `update_plot` fails up to `MaxBlanks` times after clearing them.
`FlightAnalysis` composes both with a flight that waits for neither. Poses to the analyzer are alike, since it
only counts them; poses to the plotter are numbered.

### WorkerPool, ParallelBatch (`AutoCodeModels/examples/BatchProcessing`)

MATLAB (`StartSession`, `writePfile`, `system`, `convertArrayToStruct`, `Plot`), the shell script (`Fork`, `Count`,
`Wait`, `AllDone`), and an executable per input that reads its parameters when it starts and creates its output when
the simulation is over. The directory, and executables whose script was interrupted, outlive a session. A parameter
file is the number of the session that wrote it; an output records input and parameters, and is torn while it is
written and mixed when two processes write it. `Jobs` are those of the present script. A glob without a match is an
input of its own, `Glob`, which no executable can read. Ctrl-C ends the session; it kills the jobs, leaves them, or leaves the
whole script, which then forks what is left. Two history variables say what `OwnResults` cannot promise: `shared` has the
numbers that this session shares with another input or an executable of an older one, `excused` those without a
result of this session, for a file that was not written, a failed executable, or a script that was not run. `WorkerPool` says what the script promises: each input once, at most N at a time,
"all done" at the end. `ImplementsPool` checks it under the mapping `Pool`, with its liveness.

## 3. Runs

| run | instance | shows |
|---|---|---|
| `one_step` | 3 rates (1, 2, 3 base steps), nesting 4, flags modulo 4, both drivers, masked flags | all safety properties, `StarvationDetected`, the refinement of `RateScheduler` |
| `one_step_unmasked` | the same from an interrupt, unmasked | violation of `RunsOnlyReleased` |
| `simulink_ros` | one library and one nonlib publisher, `psw_sub`, 2 runs of 2 steps, 2 SIGINTs, queue 2, 4 messages | connection, topics, nodes, lag |
| `simulink_ros_exe` | both publishers on one copy of the library | violation of `OwnTopic` |
| `simulink_ros_stale` | 2 runs, 2 messages | violation of `ZerosUntilData` |
| `bam_echo` | 2 views, up to 3 rows, one failing writer | pictures, videos, termination |
| `batch` | 5 pairs of which the files lack the last, distances below, at and above `R_safe`, 2 sessions | inputs, counts, cases |
| `batch_trim` | 2 pairs | violation of `OwnInitialConditions` |
| `airsim_bridge` | queues of 2, 3 poses a topic, 1 failing call, 2 starts of the bridge | checks before arming, exits, order and catching up of poses, end on SIGINT |
| `airsim_bridge_attitude` | 1 pose | violation of `AttitudeAsSent` |
| `flight_analysis` | buffer of 8, interval 2, points of 2 samples 3 apart, 3 of the 5 reference, 1 or 2 dimensions, 12 poses, 2 analyzers, 1 plotter | reference, windows, account of analyses, plot |
| `parallel_batch` | 2 runs, 2 cores, one old input with the digits of run 1, 2 sessions of which the first may be interrupted, 1 failing executable a session | results, end of sessions, refinement of `WorkerPool` with its liveness |

Why the bounds are enough. Three rates are the least at which a middle rate can be preempted and
preempt; four activations are one more than the rates; flags modulo 4 wrap within the run. Two runs of
a model meet every state the first leaves behind; two SIGINTs hit both a start and a step; four messages
overflow a queue of two. Two views and three rows give a gap in the middle, at the start and at the end
of a video. Five pairs leave four that can fly, so that errored, avoided and collided runs mix in every
order before the index selection; two sessions cover batch after demonstration and the reverse. Three poses
overflow a queue of two while one is shown; the second start of the bridge meets all an ended one leaves behind. Twelve
poses make analyses due at steps 8 (the pose that fills the buffer), 10 and 12: one that raises, one that makes the
reference and one that is tested, in any order. The span of a point, 3, is longer than the interval, as with the interval of
10 that the README of the analyzer suggests: the analysis right after the reference tests samples of it, the one after that must
not. Three reference points are the least for which the covariance is computed. Two runs and an old input are one more input than cores; the second session finds files,
processes and the script of the first, so that only the first need be interrupted; a failed executable among three leaves others
that must not suffer. That N is never exceeded is proved for all N. Every property has a mutant of the code, listed in `PROJECT.json`, for which its run fails. Deadlock is checked
for the scheduler and BamEcho; the other runs stop at their bounds of runs, sessions, starts and poses.

Fairness. `RtOneStep`: weak fairness of the executing activation (the processor does not stop), of the
loop of `main` and of its end; none of interrupts, the host or errors. `BamEcho`: weak fairness of the main thread
and of the writers, that is, remote calls, file writes and ffmpeg return. `AirsimBridge`: weak fairness of `main` and of
the callback of each actor (remote calls return or time out, the executor serves every ready subscription); none of
`confirmConnection`, which waits for Airsim as long as it takes, nor of signals and publishers. `FlightAnalysis`: of the
callbacks and the timer, which a spinning node serves. `ParallelBatch`: of the two scripts while they are not waiting, and of
the executables, whose simulations have a stop time; none of failures and Ctrl-C. `SimulinkRos` and `BatchAvoidance` claim
no liveness.

## 4. What the violations show

1. `one_step_unmasked`: `rt_OneStep` is said to be fully re-entrant, but an interrupt between lines 286
   and 287 (or 301 and 302) makes a subrate run twice for one release and takes its flag below zero. The
   program as shipped is not affected, as its loop never preempts itself: that is `Drivers = {"loop"}`.
2. `simulink_ros_exe`: in an executable with both publishers, both poses go to the topic started last.
3. `simulink_ros_stale`: `psw_sub` outputs a message of the previous run.
4. `batch_trim`: every run of a batch starts in the trim state of the first pair.
5. `airsim_bridge_attitude`: the bridge takes the components x, y, z, w of an orientation as w, x, y, z, with a comment that
   w is the last. A pose whose components are named as in `PoseStamped`, like those of `TestPosePub`, is shown rotated: the
   identity becomes a half turn. The poses of BAM's own library come out right, because it writes w into `orientation.x` and
   so on (`ros_msg_iface.cpp:67-70`); it is the plotter, reading the same topic by name, that misreads those.

Seen while modelling, with no property: with `-dt`, which the README documents for showing a trajectory without capture and
export, the summary of BamEcho (line 672) reads `videoOutputs`, which only the export assigns, and every run ends in a
NameError; a remote call that fails outside of a `try` block while the bridge checks the environment, or with another
exception than `rpc_error`, ends it with nothing in its log file, although its header (line 17) says that any issues will be
logged, and the drone stays armed if it was, as no document says that every way out disarms it; `BamAirsimNode`
and the test publisher measure their debug interval from the last message instead of the last output, so that messages more
frequent than one a second are never printed; the bridge never gives API control back; `stopDebugLogger` writes its last
line to the default logger, not to the file; the analyzer fits PCA anew in every window, so reference and test points are
in different coordinates, and its `timestep` counts received poses; `use_parsim` of EBK_AVOIDANCE is never read; a demonstration neither
seeds the EKF nor sets StopTime as batches do; line 111 of `setupDefaults.m` sets `chi_d` for `psi_d`;
`imgReqCount` of BamEcho is a length, so that a configuration without views passes the check.

## 5. Proofs

Each theorem below holds for every value of the constants that satisfies the `ASSUME`s of its module, which TLC evaluates
in the runs.

| module | theorem | property |
|---|---|---|
| `RtOneStep_proof` | `TypeCorrect` | `TypeOK` |
| | `PreemptionIsRateMonotonic` | `RateMonotonic` |
| | `OnlyReleasedRatesRun` | `RunsOnlyReleased`, if `FlagsProtected` |
| | `NoReleaseIsLost` | `NoLostRelease`, if `FlagsProtected` |
| | `EveryExitIsClean` | `CleanExit` |
| `RtOneStepSched_proof` | `RtOneStepIsAScheduler` | `ImplementsScheduler`, if `FlagsProtected` |
| `ParallelBatch_proof` | `TypeCorrect` | `TypeOK` |
| | `ResultsAreOwn` | `OwnResults` |
| | `ScriptIsAPool` | `Safety => Pool!Safety`, the safety part of `ImplementsPool` |
| `AirsimBridge_proof` | `TypeCorrect` | `TypeOK` |
| | `ArmedOnlyWhenChecked` | `CheckedBeforeArming` |
| | `ExitsAreClean` | `CleanExits` |
| | `PosesInOrder` | `OwnPosesInOrder` |
| `FlightAnalysis_proof` | `TypeCorrect` | `TypeOK` |
| | `ReferenceIsWhole` | `ReferenceFromOneAnalysis` |
| | `EveryAnalysisAccounted` | `AnalysesAccounted` |
| | `ReferenceIsNotTested` | `TestDisjointFromReference` |
| `SimulinkRos_proof` | `TypeCorrect` | `TypeOK` |
| | `NoPointerDangles` | `NoDanglingNode` |
| | `BlocksAreConnected` | `Connected` |
| | `LagIsBounded` | `LagBounded` |
| | `NodesAreReleased` | `NoNodeLeak`, if each block has its own copy of the library |
| | `TopicsAreComplete` | `TopicsMirrorBlocks`, if each block has its own copy of the library |
| `BamEcho_proof` | `TypeCorrect` | `TypeOK` |
| | `PicturesShowTheirRow` | `FramesShowTheirRow` |
| | `VideosAreComplete` | `VideosComplete` |
| | `PicturesAreKept` | `NoPictureLost` |
| `BatchAvoidance_proof` | `TypeCorrect` | `TypeOK` |
| | `RunsFlyTheirOwnPair` | `OwnTrajectories` |
| | `DemonstrationStartsOnPath` | `DemoStartsOnPath` |
| | `CountsAreRight` | `CountsAddUp` |
| | `CasesAreExtreme` | `CasesChosen` |

Each rests on an inductive invariant `IInv`, a conjunction of named parts with a lemma per action. TLC checked each `IInv` on
small instances before it was proved.

**RtOneStep**, for any number of rates, release periods, nesting depth and flag width of at least four. Two invariants,
because the two kinds of flags protect different things. `AnyInv` holds in every build, and `TypeOK`, `RateMonotonic` and
`CleanExit` follow from it: they rest on the overrun flags, which an activation tests (line 284) before it looks at the next
slower rate, and what runs between that test and the claim has returned when it goes on. `IInv` assumes
`FlagsProtected == MaskFlags \/ Drivers = {"loop"}`, which `RunsOnlyReleased`, `NoLostRelease` and the refinement need for
the reason `one_step_unmasked` shows: without masking, an activation between the test of an event flag and its effect can
be preempted by one that takes the same release. TLC checked `AnyInv` with masking and without. The parts are

- `OnlyInLoop`, `OnSubrate`: when there are activations, and which task each position is about;
- `Innermost` (`IInv`): only the executing activation is at a position where interrupts are masked. In `AnyInv` it is
  `EntryOnTop`: only the executing activation enters, since the base flag keeps others out;
- `Nesting`: what a preempted activation may be doing, and that those above it serve faster rates. It is
  `RateMonotonic` for all positions instead of `run` only, since an activation between claim and return
  blocks the slower rates as well;
- `FlagsCount` (`AnyInv`): the overrun flag of a subrate counts the activation that steps it and at most one overrun, after
  which nothing is released. So it never exceeds 2, and wrapping cannot hide an activation: a width of four suffices;
- `BaseFlag`, and in `IInv` `RunFlag` and `SingleFlags`: while no error is reported, each flag counts exactly the
  activations or releases it stands for, so it is 0 or 1;
- `FlaggedRuns`, `EventUp`: a claimed subrate has its flags up (`RunsOnlyReleased`);
- `Cover`: each unserved release is still in the scan of some activation on the stack. `NoLostRelease` alone is
  not inductive: it says nothing before the stack is empty;
- `Lifecycle`: model, log and position of `main` go together (`CleanExit`).

`RtOneStepIsAScheduler` needs more, because `IInv` says little once an error status is set, while the activations on the
stack go on and must still be steps of the scheduler. `SInv` adds:

- `RaisedByRun`: the overrun flag of a subrate is up only while it is stepped, not only until an error is reported but as
  long as an activation may release subrates. So a release finds the event flag up exactly if the subrate is pending or
  running, which is what tells `Release` from `Overrun`;
- `GivenUp`: an event flag counts more than one release only after an overrun, and then the overrun flag outlasts the
  activations. Otherwise handing back one of the releases would make the other pending again, which the scheduler has
  given up;
- `Fresh`: `main` initialises the model only if its registration reported no error.

The proof describes the abstract state by what the innermost activation does (`Views`, `GotoViews`, `PopViews`) and then
takes one action at a time: `Claim` is `Start`, `SubrateDone` is `Finish`, `BaseDone` is `FinishBase`, `ReleaseSubrate` is
`Release`, `Overrun` or a stutter, a call is `StartBase` or `Fail`; the scan between two steps and `ClearEvent` stutter.

**ParallelBatch**, for any N, number of runs, sessions and finite set of old inputs:

- `OneEach`: a session has at most one process per input; without it two processes of one run could write one output;
- `OnlyOldOnes`: a process of an older session, which may get more from a script that outlived it, can touch only the
  numbers that are shared;
- `Pooled`: how many jobs there are at each position of the loop, and that none is of an input still to come. "At most N"
  alone is not inductive: before `Fork` there must be fewer;
- `Origins`, `OwnNumber`: inputs never vanish, and every output names an input that is there. So a whole output under a
  number that is not shared is of the run itself, however old;
- `Owned`: for a run that is neither shared nor excused, the parameter file is the session's from `writePfile` on, and while the script
  runs its input is still to come, or its process has it, or its output is whole. `OwnResults` speaks only of the end.

`ScriptIsAPool` maps each step by cases; `Fork` needs `Pooled`, as the pool starts only below N.

**AirsimBridge**, for queues of any depth and any number of starts, poses and failing calls:

- `Checked`: what `main` knows of the environment at each position, and that it is disarmed after `armDisarm(false)`;
- `Logged`: a running process has said something and, once it gives up, why; an ended one has an empty buffer;
- `Queued`: what waits for an actor is of its topic, in increasing order, newer than what it shows and no newer than
  what was published. `OwnPosesInOrder` is about one step and needs to know what the head of the queue can be, also
  after a crash has emptied it and a new node has joined.

**FlightAnalysis**, for any buffer, interval, embedding, fraction (at most 1) and queues:

- `Counted`: the buffer holds the last poses, and is or was full exactly from step `BufferSize` on;
- `Referenced`: an established reference is of one analysis, at a due step no later than all tracked ones;
- `Accounted`, `InOrder`: due steps are made, raised or tracked, each once, and histories increase;
- lemmas `Multiples` and `WindowsApart` are the arithmetic: two due steps differ by at least the interval, and then the
  samples of the later test window and of the earlier reference are disjoint if they are at least the span of a point apart.
  `ReferenceIsNotTested` combines them; where the interval is no shorter than the span it leaves no exception.

**SimulinkRos**, for any publishers, linking, runs, steps, signals, messages and queue depth. `NoNodeLeak` and
`TopicsMirrorBlocks` assume `OneCopyEach`, that no two blocks share a copy of the library: true of MEX files and of every
executable with one publisher, and `simulink_ros_exe` shows what happens otherwise. The other theorems hold without it.

- `Handles`: every pointer of a publisher leads to an existing node of a block that has the pointer (`NoDanglingNode`);
- `Phased`, `Dated`: where the engine is bounds what `psw_sub` and the contexts can be. The statics of `psw_sub` outlive a
  run, so its node and subscription may be of an older context, never of a later one;
- `StartedLive`: every started block is live in the present context until a SIGINT, and `Connected` is this for the
  stepping phase. It is not inductive without the phases before: the first `mdlTerminate` shuts the context down for all,
  and only the order start, step, terminate keeps it away from blocks that still step;
- `Recent`: a live queue holds the last messages in order, and if it is empty the buffer has the last (`LagBounded`);
- `Aged`: a node of another run is older than the context or was shut down with it, because each `mdlTerminate` shuts the
  context down and every block is terminated before the next run. So what the nonlib publishers leave behind stays dead;
- `Pointed`, `Mirrored` (under `OneCopyEach`): each library node is the one its copy points to, and a topic is the sequence of
  the steps of its block.

**BamEcho**, for any views, rows and failing writers:

- `Loop`: which poses were set for the frame the main thread is at. `Photographed`: each frame so far has one picture per
  view, of these poses, in the hands of a writer, written or failed;
- `Exported`: videos are made after every writer was joined, each with all the pictures before the first that failed;
- `Removed`: files go after the export only. `NoPictureLost` compares disk and video in every state, so it needs to know
  that between the export of the first view and of the last nothing was removed.

**BatchAvoidance**, for any number of runs and sessions, and any files and distances (natural numbers, as only their order
counts; `Inf` is one of them):

- `SetUp`: the statements of a run hand over the inputs of its own pair, one to the next, whatever the workspace held;
- `Consistent`: once a batch is set up, each run is recorded as it flew or as errored, and no other is;
- `Reported`: the summary is made when the loop is through. That its counts and cases are right rests on facts about the
  operators: `FindFacts` (the result of `find` enumerates its argument in increasing order, by counting the elements up to each),
  `ArgMaxFacts` and `ArgMinFacts`. The least element behind these comes from the set form of well-founded induction
  (`WFMin`), which needs no operator as a parameter.

Only model-checked: all liveness (`StarvationDetected`, `Ends`, `LastPoseShown`, `SigintEnds`, `LastPosePlotted`, `SessionEnds`, the
fairness part of `ImplementsPool`), which depends on fairness and `ENABLED`, out of the prover's reach. The properties that
runs refute are no theorems, of course; what holds of the same code under a hypothesis is (`FlagsProtected`, `OneCopyEach`).

## 6. Not modelled, and what is left

- The lidar publisher keeps nothing between two calls of its timer and catches every exception: no property of it takes
  more than one step.
- The ball velocity estimator, Bernstein and Bezier trajectories, trim, aerodynamics and quaternions are floating point
  computations. What an integer abstraction leaves of them holds by construction.
- The build, installation and cleaning scripts are sequences of calls to tools outside the repository.
- The Simulink diagrams have no source text; the S-functions in them are modelled.
- spdlog is modelled as far as the bridge depends on it. The rest of it, the bundled fmt library above all, is most of the
  C++ text of the repository (some 27 of 32 thousand lines) and formats messages that no property here is about. The share of
  source lines the map names stays small for this reason; the programs of the repository themselves are covered in the table
  of section 1.
- Left to do: the analyzer of `PswAnalyzer` in place of the free one of `SimulinkRos`.
