----------------------------- MODULE SimulinkRos ------------------------------
(***************************************************************************)
(* A Simulink model with ROS blocks, run several times in one process: the *)
(* engine starts every block, steps them, and terminates them, on one      *)
(* thread.  The blocks share the default rclcpp context, which a SIGINT    *)
(* shuts down at any moment; the analyzer publishes at any moment.         *)
(***************************************************************************)
EXTENDS Rclcpp, FiniteSets

CONSTANTS
    LibPublishers, NonlibPublishers, LibOf, QueueDepth,
    MaxRuns,        \* bound: runs of the model in the process
    MaxSteps,       \* bound: steps of a run
    MaxSigints,     \* bound: SIGINTs
    MaxMessages     \* bound: messages of the analyzer

ASSUME PublishersAssumption ==
    /\ LibPublishers \cap NonlibPublishers = {} /\ DOMAIN LibOf = LibPublishers
    /\ {"psw", "none"} \cap (LibPublishers \cup NonlibPublishers) = {}
ASSUME DepthAssumption == QueueDepth \in Nat \ {0}
ASSUME BoundsAssumption == {MaxRuns, MaxSteps, MaxSigints, MaxMessages} \subseteq Nat

VARIABLES
    context,
    nodes, pPoseNode, pwork, topic,
    node, subscription, queue, latestData, dataReceived, y, sent,
    phase,          \* of the run: idle, starting, stepping, terminating
    run,            \* number of the run
    step,           \* number of the step
    pending,        \* blocks still to be called in this phase or step
    pswStart,       \* how far mdlStart of psw_sub got
    interrupted,    \* history: a SIGINT came during this run
    joined,         \* history: what was sent before this run subscribed
    sigints         \* SIGINTs so far

pubVars == <<nodes, pPoseNode, pwork, topic>>
pswVars == <<node, subscription, queue, latestData, dataReceived, y, sent>>
engineVars == <<phase, run, step, pending, pswStart, interrupted, joined, sigints>>
vars == <<context, pubVars, pswVars, engineVars>>

Pub == INSTANCE PosePublishers
Psw == INSTANCE PswSubscriber

Blocks == Pub!Publishers \cup {"psw"}

Init ==
    /\ context = Fresh
    /\ Pub!Init
    /\ Psw!Init
    /\ phase = "idle" /\ run = 0 /\ step = 0
    /\ pending = {}
    /\ pswStart = "none"
    /\ interrupted = FALSE
    /\ joined = 0
    /\ sigints = 0

BeginRun ==
    /\ phase = "idle" /\ run < MaxRuns
    /\ Pub!Sizes /\ Psw!Sizes
    /\ phase' = "starting" /\ run' = run + 1 /\ step' = 0
    /\ pending' = Blocks
    /\ pswStart' = "none"
    /\ interrupted' = FALSE
    /\ UNCHANGED <<context, joined, sigints>>

\* The engine calls no other block while mdlStart of psw_sub is half done.
StartPublisher(b) ==
    /\ phase = "starting" /\ b \in pending /\ pswStart # "initialized"
    /\ Pub!mdlStart(b, run)
    /\ pending' = pending \ {b}
    /\ UNCHANGED <<pswVars, phase, run, step, pswStart, interrupted, joined, sigints>>

PswInitialize ==
    /\ phase = "starting" /\ "psw" \in pending /\ pswStart = "none"
    /\ Psw!initializeROS(run)
    /\ pswStart' = "initialized"
    /\ UNCHANGED <<pubVars, phase, run, step, pending, interrupted, joined, sigints>>

\* setupSubscriber ends mdlStart; an error status makes the engine give up.
PswSetup ==
    /\ pswStart = "initialized"
    /\ \E succeeds \in BOOLEAN :
        /\ Psw!setupSubscriber(succeeds)
        /\ IF succeeds
           THEN pending' = pending \ {"psw"} /\ UNCHANGED phase
           ELSE pending' = Blocks /\ phase' = "terminating"
    /\ pswStart' = "done"
    /\ joined' = sent
    /\ UNCHANGED <<pubVars, run, step, interrupted, sigints>>

\* SIGINT while a block makes its node: an exception leaves mdlStart, and the
\* engine gives up.
StartThrows ==
    /\ phase = "starting" /\ pswStart # "initialized" /\ sigints < MaxSigints
    /\ \/ pending \cap Pub!Publishers # {} /\ Pub!startThrows /\ UNCHANGED pswVars
       \/ "psw" \in pending /\ pswStart = "none" /\ Psw!initializeThrows /\ UNCHANGED pubVars
    /\ phase' = "terminating"
    /\ pending' = Blocks
    /\ interrupted' = TRUE
    /\ sigints' = sigints + 1
    /\ UNCHANGED <<run, step, pswStart, joined>>

\* Another block of the model fails to start.
StartAborts ==
    /\ phase = "starting" /\ pending # {} /\ pswStart # "initialized"
    /\ phase' = "terminating"
    /\ pending' = Blocks
    /\ UNCHANGED <<context, pubVars, pswVars, run, step, pswStart, interrupted, joined, sigints>>

\* Every block was called: the next step, or the end of the run.
BeginStep ==
    /\ phase \in {"starting", "stepping"} /\ pending = {} /\ step < MaxSteps
    /\ phase' = "stepping"
    /\ step' = step + 1
    /\ pending' = Blocks
    /\ UNCHANGED <<context, pubVars, pswVars, run, pswStart, interrupted, joined, sigints>>

Publish(b) ==
    /\ phase = "stepping" /\ b \in pending
    /\ Pub!mdlOutputs(b, step)
    /\ pending' = pending \ {b}
    /\ UNCHANGED <<pswVars, phase, run, step, pswStart, interrupted, joined, sigints>>

PswOutputs ==
    /\ phase = "stepping" /\ "psw" \in pending
    /\ Psw!mdlOutputs
    /\ pending' = pending \ {"psw"}
    /\ UNCHANGED <<pubVars, phase, run, step, pswStart, interrupted, joined, sigints>>

EndRun ==
    /\ phase = "stepping" /\ pending = {}
    /\ phase' = "terminating"
    /\ pending' = Blocks
    /\ UNCHANGED <<context, pubVars, pswVars, run, step, pswStart, interrupted, joined, sigints>>

TerminatePublisher(b) ==
    /\ phase = "terminating" /\ b \in pending
    /\ Pub!mdlTerminate(b)
    /\ pending' = pending \ {b}
    /\ UNCHANGED <<pswVars, phase, run, step, pswStart, interrupted, joined, sigints>>

PswTerminate ==
    /\ phase = "terminating" /\ "psw" \in pending
    /\ Psw!cleanupROS
    /\ pending' = pending \ {"psw"}
    /\ UNCHANGED <<pubVars, phase, run, step, pswStart, interrupted, joined, sigints>>

RunOver ==
    /\ phase = "terminating" /\ pending = {}
    /\ phase' = "idle"
    /\ UNCHANGED <<context, pubVars, pswVars, run, step, pending, pswStart, interrupted, joined,
                   sigints>>

\* rclcpp::init installs a handler that shuts the context down.
Sigint ==
    /\ context.ok /\ sigints < MaxSigints
    /\ context' = ShutDown(context)
    /\ interrupted' = TRUE
    /\ sigints' = sigints + 1
    /\ UNCHANGED <<pubVars, pswVars, phase, run, step, pending, pswStart, joined>>

Analyzer ==
    /\ sent < MaxMessages
    /\ Psw!AnalyzerPublishes
    /\ UNCHANGED <<pubVars, engineVars>>

Engine ==
    \/ BeginRun \/ PswInitialize \/ PswSetup \/ StartThrows \/ StartAborts
    \/ BeginStep \/ PswOutputs \/ EndRun \/ PswTerminate \/ RunOver
    \/ \E b \in Pub!Publishers : StartPublisher(b) \/ Publish(b) \/ TerminatePublisher(b)

Next == Engine \/ Sigint \/ Analyzer

Spec == Init /\ [][Next]_vars

-----------------------------------------------------------------------------
(* Correctness                                                              *)

Nodes == [block : Blocks \cup {"none"}, run : 0 .. MaxRuns, gen : Nat]

\* Type correctness of the blocks, the context they share and the engine.
TypeOK ==
    /\ context \in Contexts
    /\ nodes \subseteq Nodes
    /\ pPoseNode \in [Pub!Libs -> Nodes]
    /\ pwork \in [NonlibPublishers -> Nodes]
    /\ topic \in [Pub!Publishers -> Seq(Pub!Publishers \X (1 .. MaxSteps))]
    /\ node \in Nodes /\ subscription \in Nodes
    /\ queue \in Seq(1 .. MaxMessages) /\ Len(queue) <= QueueDepth
    /\ {latestData, y, sent, joined} \subseteq 0 .. MaxMessages
    /\ dataReceived \in BOOLEAN /\ interrupted \in BOOLEAN
    /\ phase \in {"idle", "starting", "stepping", "terminating"}
    /\ run \in 0 .. MaxRuns /\ step \in 0 .. MaxSteps /\ sigints \in 0 .. MaxSigints
    /\ pending \subseteq Blocks
    /\ pswStart \in {"none", "initialized", "done"}

\* No block keeps a pointer to a node that was deleted, whatever the order in
\* which the blocks start and terminate and however a run ends.
NoDanglingNode ==
    \A n \in {pPoseNode[l] : l \in Pub!Libs} \cup {pwork[b] : b \in NonlibPublishers} :
        n # NoNode => n \in nodes

\* Between two runs no node of the library varieties is left (the Windows
\* comment of ros_msg_iface.cpp:150).  The nonlib ones leave theirs (the comment
\* of mat_airsim_pub_nonlib.cpp:216-218): such a node is dead for good and never
\* takes part in a later run, although that run uses the same context again.
NoNodeLeak ==
    /\ phase = "idle" => \A n \in nodes : n.block \notin LibPublishers
    /\ \A n \in nodes : Live(n, context) => n.run = run

\* While an uninterrupted run steps, every block is connected, although each
\* run before it shut the context down and may have been interrupted.
Connected ==
    phase = "stepping" /\ ~interrupted =>
        /\ \A b \in LibPublishers : Live(pPoseNode[LibOf[b]], context)
        /\ \A b \in NonlibPublishers : Live(pwork[b], context)
        /\ Live(subscription, context)

\* A topic carries the poses of its own block, one per step and in order: all
\* of them in an uninterrupted run, those before the SIGINT otherwise.
TopicsMirrorBlocks ==
    \A b \in Pub!Publishers :
        /\ topic[b] = [k \in 1 .. Len(topic[b]) |-> <<b, k>>]
        /\ phase = "stepping" /\ ~interrupted =>
               Len(topic[b]) = IF b \in pending THEN step - 1 ELSE step

\* The output of psw_sub is never more than the queue behind the analyzer once
\* something was sent to this run: the buffer is copied after the node is spun.
LagBounded ==
    [][PswOutputs /\ Live(subscription, context) /\ sent > joined
        => y' + QueueDepth > sent]_vars

\* "pub_pose" and "bball_pub_pose" carry the poses of the own ship and of the
\* ball (ROS2_ws/README.md:10).
OwnTopic ==
    \A b \in Pub!Publishers : \A k \in DOMAIN topic[b] : topic[b][k][1] = b

\* "No data received yet, output zeros" (psw_sub.cpp:220), in every run.
ZerosUntilData ==
    phase = "stepping" /\ "psw" \notin pending /\ sent = joined => y = 0
==============================================================================
