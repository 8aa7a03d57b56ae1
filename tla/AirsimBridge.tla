----------------------------- MODULE AirsimBridge ------------------------------
(***************************************************************************)
(* The visualization of a flight: the test publisher and the bridge to     *)
(* Airsim, two processes that come and go independently, and the Unreal    *)
(* environment, which outlives them.                                       *)
(***************************************************************************)
EXTENDS Rclcpp, FiniteSets

CONSTANTS
    QueueDepth,     \* KEEP_LAST depth of a subscription (10 in the code)
    MaxFailures,    \* bound: failing remote calls
    MaxPoses,       \* bound: poses on a topic
    MaxStarts       \* bound: starts of the bridge

ASSUME QueueAssumption == QueueDepth \in Nat \ {0}
ASSUME LimitsAssumption == {MaxFailures, MaxPoses, MaxStarts} \subseteq Nat

VARIABLES
    phase, bUseBaseball, context, subscribed, queue, log, airsim, failures,
    running, published,
    starts,         \* starts of the bridge so far
    delivered       \* history: last pose handed to the current node of an
                    \* actor, 0 for none

bridgeVars == <<phase, bUseBaseball, context, subscribed, queue, log, airsim, failures>>
testVars == <<running, published>>
vars == <<bridgeVars, testVars, starts, delivered>>

Bridge == INSTANCE Bam2Airsim
Test == INSTANCE TestPosePub

Actors == Bridge!Actors

Init ==
    /\ Bridge!Init /\ Test!Init
    /\ starts = 0
    /\ delivered = [a \in Actors |-> 0]

-----------------------------------------------------------------------------
(* The bridge                                                               *)

StartBridge ==
    /\ starts < MaxStarts /\ starts' = starts + 1
    /\ Bridge!startDebugLogger
    /\ delivered' = [a \in Actors |-> 0]
    /\ UNCHANGED testVars

\* Airsim may not be there: confirmConnection waits for it.
Connect ==
    /\ Bridge!confirmConnection
    /\ UNCHANGED <<testVars, starts, delivered>>

Main ==
    /\ \/ Bridge!listVehicles \/ Bridge!simListSceneObjects \/ Bridge!simListAssets
       \/ Bridge!simSpawnObject \/ Bridge!enableApiControl \/ Bridge!armDisarm
       \/ Bridge!rclcppInit \/ Bridge!MakeNode \/ Bridge!MakeExecutor
       \/ Bridge!StopSpinning \/ Bridge!stopDebugLogger \/ Bridge!Return
    /\ UNCHANGED <<testVars, starts, delivered>>

Update(a) ==
    /\ Bridge!updateMsg(a)
    /\ UNCHANGED <<testVars, starts, delivered>>

Environment ==
    /\ Bridge!Spill \/ Bridge!Sigint
    /\ UNCHANGED <<testVars, starts, delivered>>

-----------------------------------------------------------------------------
(* The test publisher                                                       *)

StartTest == Test!Start /\ UNCHANGED <<bridgeVars, starts, delivered>>

StopTest == Test!Stop /\ UNCHANGED <<bridgeVars, starts, delivered>>

\* A publication reaches the nodes that listen to the topic at this moment.
Publish(t) ==
    /\ Test!publishPose(t)
    /\ Bridge!Deliver(Test!Message(t))
    /\ delivered' = [a \in Actors |-> IF Bridge!Hears(a, t) THEN published'[t] ELSE delivered[a]]
    /\ UNCHANGED <<phase, bUseBaseball, context, subscribed, log, airsim, failures, starts>>

Next ==
    \/ StartBridge \/ Connect \/ Main \/ Environment
    \/ \E a \in Actors : Update(a)
    \/ StartTest \/ StopTest
    \/ \E t \in Test!Topics : Publish(t)

\* The processes run while they have something to do: remote calls return or
\* time out, the executor serves every subscription that stays ready.
Fairness ==
    /\ WF_vars(Main)
    /\ \A a \in Actors : WF_vars(Update(a))

Spec == Init /\ [][Next]_vars /\ Fairness

-----------------------------------------------------------------------------
(* Correctness                                                              *)

Numbers == 0 .. MaxPoses
Messages == [topic : Test!Topics, n : Numbers \ {0}, orientation : {Test!Orientation}]
Poses == [topic : Test!Topics, n : Numbers \ {0}, attitude : {Bridge!Attitude(Test!Orientation)}]
Environments ==
    [drone : BOOLEAN, ball : {"missing", "asset", "scene"}, api : BOOLEAN, armed : BOOLEAN,
     shown : [Actors -> Poses \cup {Bridge!NoPose}]]

\* Type correctness of the processes, the environment and the history.
TypeOK ==
    /\ phase \in Bridge!Phases /\ bUseBaseball \in BOOLEAN /\ context \in Contexts
    /\ subscribed \subseteq Actors
    /\ queue \in [Actors -> Seq(Messages)]
    /\ \A a \in Actors : Len(queue[a]) <= QueueDepth
    /\ log \in Bridge!Logs
    /\ airsim \in Environments
    /\ failures \in 0 .. MaxFailures
    /\ running \subseteq Test!Topics /\ published \in [Test!Topics -> Numbers]
    /\ starts \in 0 .. MaxStarts
    /\ delivered \in [Actors -> Numbers]

\* The environment was checked before the drone is touched: the bridge arms and
\* spins only with the drone, and with the ball if it is to show it
\* (validateAirsimConfiguration), also when the ball was spawned by a call
\* whose answer was lost, or by an earlier start.
CheckedBeforeArming ==
    /\ airsim.armed \/ airsim.api => airsim.drone
    /\ phase \in Bridge!Arming \cup Bridge!InRos =>
           airsim.drone /\ (bUseBaseball => airsim.ball = "scene")

\* A bridge that exits with success leaves the drone disarmed and has emptied
\* its log; one that exits with failure has the issue on disk.  (A crash may
\* leave the drone armed and loses lines.)
CleanExits ==
    /\ phase = "success" => ~airsim.armed
    /\ phase \in {"success", "failure"} => log.buffer = {} /\ log.disk # {}
    /\ phase = "failure" => "issue" \in log.disk

\* An actor shows poses of its own topic only, and never goes back to an older
\* one: not across crashes, restarts and lost messages either.
OwnPosesInOrder ==
    [][\A a \in Actors :
          LET old == airsim.shown[a]  new == airsim'.shown[a]
          IN  new # old => /\ new.topic = IF a = "Drone" THEN "pub_pose" ELSE "bball_pub_pose"
                           /\ new.n > old.n]_vars

\* When the publisher pauses, every actor of a spinning bridge comes to show
\* the last pose that was sent to its node: a full queue drops its oldest.
LastPoseShown ==
    \A a \in Actors :
        <>[](phase = "spin") =>
            <>[](delivered[a] # 0 => airsim.shown[a].n = delivered[a])

\* SIGINT ends a bridge that has initialised ROS, whatever is in its queues.
SigintEnds ==
    phase \in Bridge!InRos /\ ~context.ok ~> phase \in Bridge!Ends

\* "the quat w component is the last element which agrees with the ROS2 msg
\* PoseStamped" (BamAirsimNode.cpp:79-81): actors have the attitude that was sent.
AttitudeAsSent ==
    \A a \in Actors :
        airsim.shown[a] # Bridge!NoPose =>
            LET s == airsim.shown[a].attitude IN <<s.w, s.x, s.y, s.z>> = Test!q
==============================================================================
