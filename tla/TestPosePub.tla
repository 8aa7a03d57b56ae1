------------------------------ MODULE TestPosePub ------------------------------
(***************************************************************************)
(* The test publisher: two nodes with a timer each in a single-threaded    *)
(* executor, until SIGINT.  A pose is abstracted to the number of its      *)
(* publication on the topic; its attitude is the identity, as toQuaternion *)
(* is switched off.                                                        *)
(***************************************************************************)
EXTENDS Naturals

CONSTANT MaxPoses       \* bound: poses on a topic

VARIABLES
    running,        \* the topics whose node spins
    published       \* poses published on a topic

testVars == <<running, published>>

Topics == {"pub_pose", "bball_pub_pose"}

\* The identity as <<w, x, y, z>>, and as the x, y, z, w of a message.
q == <<1, 0, 0, 0>>
Orientation == <<q[2], q[3], q[4], q[1]>>

Init ==
    /\ running = {}
    /\ published = [t \in Topics |-> 0]

\* main up to spin; -nobb leaves the node of the ball out.
Start ==
    /\ running = {}
    /\ running' \in {Topics, {"pub_pose"}}
    /\ UNCHANGED published

Message(t) == [topic |-> t, n |-> published[t] + 1, orientation |-> Orientation]

\* The timer of a node.
publishPose(t) ==
    /\ t \in running /\ published[t] < MaxPoses
    /\ published' = [published EXCEPT ![t] = @ + 1]
    /\ UNCHANGED running

\* SIGINT ends the executor and main.
Stop ==
    /\ running # {}
    /\ running' = {}
    /\ UNCHANGED published
==============================================================================
