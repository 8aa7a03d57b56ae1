---------------------------- MODULE PosePublishers ----------------------------
(***************************************************************************)
(* The S-functions that publish a pose from Simulink, in their two         *)
(* varieties: mat_airsim_pub and mat_airsim_bball_pub, which keep their    *)
(* node in the static library ros_msg_iface, and the nonlib ones, which    *)
(* keep it in the PWork vector of the block.                               *)
(*                                                                         *)
(* Each MEX file links a copy of the library of its own; an executable     *)
(* built by buildWithRos.m links one copy for all blocks.                  *)
(***************************************************************************)
EXTENDS Rclcpp

CONSTANTS
    LibPublishers,      \* blocks that use ros_msg_iface
    NonlibPublishers,   \* blocks that do not
    LibOf               \* block -> the copy of ros_msg_iface it is linked with

Publishers == LibPublishers \cup NonlibPublishers
Libs == {LibOf[b] : b \in LibPublishers}

VARIABLES
    context,        \* the default context of the process
    nodes,          \* PubPoseNode objects that exist
    pPoseNode,      \* copy of the library -> its global pPoseNode
    pwork,          \* nonlib block -> PWork[0]
    topic           \* block -> what was received on the block's topic, as
                    \* <<publishing block, step>>

pubVars == <<nodes, pPoseNode, pwork, topic>>

Init ==
    /\ nodes = {}
    /\ pPoseNode = [l \in Libs |-> NoNode]
    /\ pwork = [b \in NonlibPublishers |-> NoNode]
    /\ topic = [b \in Publishers |-> <<>>]

\* mdlInitializeSizes: a new vector of work pointers for the run.
Sizes ==
    /\ pwork' = [b \in NonlibPublishers |-> NoNode]
    /\ topic' = [b \in Publishers |-> <<>>]
    /\ UNCHANGED <<nodes, pPoseNode>>

\* The node of block b, made in context c in a given run.
NodeFor(b, run, c) == [block |-> b, run |-> run, gen |-> c.gen]

\* Mutation of start: the block relies on another one to have called init.
startWithoutInit(b, run) ==
    LET node == NodeFor(b, run, context)
    IN  /\ UNCHANGED context
        /\ nodes' = nodes \cup {node}
        /\ pPoseNode' = [pPoseNode EXCEPT ![LibOf[b]] = node]
        /\ UNCHANGED <<pwork, topic>>

\* ros_msg_iface::start, called by mdlStart of block b.
start(b, run) ==
    LET c == Ensured(context)
        node == NodeFor(b, run, c)
    IN  /\ context' = c
        /\ nodes' = nodes \cup {node}
        /\ pPoseNode' = [pPoseNode EXCEPT ![LibOf[b]] = node]
        /\ UNCHANGED <<pwork, topic>>

\* SIGINT between rclcpp::init and the constructor of the node, in either
\* variety: the constructor throws, and the block keeps the pointer it had.
startThrows ==
    /\ context' = ShutDown(Ensured(context))
    /\ UNCHANGED pubVars

\* A pose sent through a node arrives on the topic of the block the node was
\* made for; publish() on a dead context drops it silently.
Publish(b, step, node) ==
    topic' = IF Live(node, context)
             THEN [topic EXCEPT ![node.block] = Append(@, <<b, step>>)]
             ELSE topic

\* ros_msg_iface::outputs, called by mdlOutputs of block b.
outputs(b, step) ==
    /\ IF pPoseNode[LibOf[b]] # NoNode
       THEN Publish(b, step, pPoseNode[LibOf[b]])
       ELSE UNCHANGED topic
    /\ UNCHANGED <<context, nodes, pPoseNode, pwork>>

\* Mutation of terminate: the node is deleted, its pointer is kept.
terminateDangling(b) ==
    /\ nodes' = nodes \ {pPoseNode[LibOf[b]]}
    /\ context' = ShutDown(context)
    /\ UNCHANGED <<pPoseNode, pwork, topic>>

\* Mutation of terminate: the pointer is dropped without "delete".
terminateLeaking(b) ==
    /\ pPoseNode' = [pPoseNode EXCEPT ![LibOf[b]] = NoNode]
    /\ context' = ShutDown(context)
    /\ UNCHANGED <<nodes, pwork, topic>>

\* ros_msg_iface::terminate, called by mdlTerminate of block b, started or not.
terminate(b) ==
    /\ nodes' = nodes \ {pPoseNode[LibOf[b]]}
    /\ pPoseNode' = [pPoseNode EXCEPT ![LibOf[b]] = NoNode]
    /\ context' = ShutDown(context)
    /\ UNCHANGED <<pwork, topic>>

-----------------------------------------------------------------------------
(* The varieties without the library                                        *)

nonlibStart(b, run) ==
    LET c == Ensured(context)
        node == NodeFor(b, run, c)
    IN  /\ context' = c
        /\ nodes' = nodes \cup {node}
        /\ pwork' = [pwork EXCEPT ![b] = node]
        /\ UNCHANGED <<pPoseNode, topic>>

nonlibOutputs(b, step) ==
    /\ Publish(b, step, pwork[b])
    /\ UNCHANGED <<context, nodes, pPoseNode, pwork>>

\* "delete node" is commented out: the object stays.
nonlibTerminate ==
    /\ context' = ShutDown(context)
    /\ UNCHANGED pubVars

-----------------------------------------------------------------------------
mdlStart(b, run) ==
    \/ b \in LibPublishers /\ start(b, run)
    \/ b \in NonlibPublishers /\ nonlibStart(b, run)

mdlOutputs(b, step) ==
    \/ b \in LibPublishers /\ outputs(b, step)
    \/ b \in NonlibPublishers /\ nonlibOutputs(b, step)

mdlTerminate(b) ==
    \/ b \in LibPublishers /\ terminate(b)
    \/ b \in NonlibPublishers /\ nonlibTerminate
==============================================================================
