------------------------------ MODULE Bam2Airsim -------------------------------
(***************************************************************************)
(* The bridge from ROS to Airsim: main checks the Unreal environment, arms *)
(* the drone, subscribes one node per actor and spins them in a single-    *)
(* threaded executor until SIGINT; updateMsg sends a pose to its actor.    *)
(*                                                                         *)
(* phase is the position of main.  A remote call may fail before or after  *)
(* Airsim has executed it, with an rpc_error or another exception.  Nobody *)
(* catches exceptions but two places of validateAirsimConfiguration.       *)
(***************************************************************************)
EXTENDS Rclcpp, SpdLog

CONSTANTS
    QueueDepth,     \* KEEP_LAST depth of a subscription (10 in the code)
    MaxFailures     \* bound: failing remote calls

VARIABLES
    phase,          \* position of main, or how the process ended
    bUseBaseball,   \* FALSE with -nobb
    context,        \* the default context of the process
    subscribed,     \* the actors whose node exists
    queue,          \* messages waiting at the subscription of an actor
    log,
    airsim,         \* the Unreal environment, which outlives the bridge
    failures        \* remote calls that failed so far

processVars == <<bUseBaseball, context, subscribed, queue>>
bridgeVars == <<phase, processVars, log, airsim, failures>>

Actors == {"Drone", "BamBaseball"}
\* Mutation of TopicOf: both nodes listen to the topic of the own ship.
SameTopic == [Drone |-> "pub_pose", BamBaseball |-> "pub_pose"]

TopicOf == [Drone |-> "pub_pose", BamBaseball |-> "bball_pub_pose"]

NoPose == [topic |-> "none", n |-> 0, attitude |-> <<>>]

Ends == {"success", "failure", "crashed", "killed"}
Validation == {"connect", "vehicle", "objects", "assets", "spawn"}
Arming == {"control", "arm", "init"}
InRos == {"vehicleNode", "objectNode", "executor", "spin"}
Closing == {"rejected", "disarm", "stopLog", "return"}
Phases == {"off"} \cup Validation \cup Arming \cup InRos \cup Closing \cup Ends

Init ==
    /\ phase = "off"
    /\ bUseBaseball = TRUE
    /\ context = Fresh
    /\ subscribed = {}
    /\ queue = [a \in Actors |-> <<>>]
    /\ log = NoLog
    /\ airsim \in [drone : BOOLEAN, ball : {"missing", "asset", "scene"}, api : {FALSE},
                   armed : {FALSE}, shown : {[a \in Actors |-> NoPose]}]
    /\ failures = 0

-----------------------------------------------------------------------------
(* Remote calls and exits                                                   *)

\* The next statement; what main says about it goes to the log.
Goto(p) == phase' = p /\ log' = Written(log, "progress")

\* std::terminate or a signal: no destructor runs, the subscriptions are gone.
Die(end) ==
    /\ phase' = end
    /\ log' = Lost(log)
    /\ context' = Fresh /\ subscribed' = {} /\ queue' = [a \in Actors |-> <<>>]
    /\ UNCHANGED bUseBaseball

\* validateAirsimConfiguration logs the issue and returns false.
Reject == phase' = "rejected" /\ log' = Written(log, "issue")

\* A failing call throws, before or after Airsim has executed it.
Fails(after) ==
    /\ failures < MaxFailures /\ failures' = failures + 1
    /\ airsim' \in {airsim, after}

\* A call that makes Airsim after; nothing catches its exceptions.
Rpc(after, next) ==
    \/ Goto(next) /\ airsim' = after /\ UNCHANGED <<processVars, failures>>
    \/ Fails(after) /\ Die("crashed")

\* A call in a try block, which catches an rpc_error.
GuardedRpc(after, next) ==
    \/ Rpc(after, next)
    \/ Fails(after) /\ Reject /\ UNCHANGED processVars

\* A list that must contain a name.
Query(found, next) ==
    \/ found /\ Goto(next) /\ UNCHANGED <<processVars, airsim, failures>>
    \/ ~found /\ Reject /\ UNCHANGED <<processVars, airsim, failures>>
    \/ Fails(airsim) /\ Die("crashed")

-----------------------------------------------------------------------------
(* Steps of main                                                            *)

\* The file sink throws when it cannot open its file; else parseArguments.
startDebugLogger ==
    /\ phase \in Ends \cup {"off"}
    /\ \/ phase' = "connect" /\ log' = Written(Opened, "progress")
       \/ phase' = "crashed" /\ log' = NoLog
    /\ bUseBaseball' \in BOOLEAN
    /\ UNCHANGED <<context, subscribed, queue, airsim, failures>>

confirmConnection ==
    /\ phase = "connect"
    /\ GuardedRpc(airsim, "vehicle")

listVehicles ==
    /\ phase = "vehicle"
    /\ Query(airsim.drone, IF bUseBaseball THEN "objects" ELSE "control")

\* Mutation of simListSceneObjects: the ball is taken for granted.
simSkipSpawn ==
    /\ phase = "objects"
    /\ Rpc(airsim, "control")

simListSceneObjects ==
    /\ phase = "objects"
    /\ Rpc(airsim, IF airsim.ball = "scene" THEN "control" ELSE "assets")

simListAssets ==
    /\ phase = "assets"
    /\ Query(airsim.ball # "missing", "spawn")

simSpawnObject ==
    /\ phase = "spawn"
    /\ GuardedRpc([airsim EXCEPT !.ball = "scene"], "control")

enableApiControl ==
    /\ phase = "control"
    /\ Rpc([airsim EXCEPT !.api = TRUE], "arm")

armDisarm ==
    \/ phase = "arm" /\ Rpc([airsim EXCEPT !.armed = TRUE], "init")
    \/ phase = "disarm" /\ Rpc([airsim EXCEPT !.armed = FALSE], "stopLog")

rclcppInit ==
    /\ phase = "init"
    /\ Goto("vehicleNode")
    /\ context' = Ensured(context)
    /\ UNCHANGED <<bUseBaseball, subscribed, queue, airsim, failures>>

\* Nodes and executors throw on a context that was shut down.
OnContext(next, nodes) ==
    /\ \/ context.ok /\ Goto(next) /\ subscribed' = nodes
          /\ UNCHANGED <<bUseBaseball, context, queue>>
       \/ ~context.ok /\ Die("crashed")
    /\ UNCHANGED <<airsim, failures>>

MakeNode ==
    \/ /\ phase = "vehicleNode"
       /\ OnContext(IF bUseBaseball THEN "objectNode" ELSE "executor", {"Drone"})
    \/ phase = "objectNode" /\ OnContext("executor", Actors)

\* The executor, to which the nodes are then added: a SIGINT between these calls
\* ends as one before them does, when one throws, or as one in spin.
MakeExecutor == phase = "executor" /\ OnContext("spin", subscribed)

\* Mutation of StopSpinning: the drone is left to the next start.
StopArmed ==
    /\ phase = "spin" /\ ~context.ok
    /\ Goto("stopLog")
    /\ UNCHANGED <<processVars, airsim, failures>>

\* Mutation of StopSpinning: main waits until the queues are empty.
StopDrained ==
    /\ phase = "spin" /\ ~context.ok /\ \A a \in Actors : queue[a] = <<>>
    /\ Goto("disarm")
    /\ UNCHANGED <<processVars, airsim, failures>>

\* spin returns after SIGINT; rclcpp::shutdown gives SIGINT its default back.
StopSpinning ==
    /\ phase = "spin" /\ ~context.ok
    /\ Goto("disarm")
    /\ UNCHANGED <<processVars, airsim, failures>>

\* spdlog::shutdown drops the logger from the registry; main still holds it.
stopDebugLogger ==
    /\ phase = "stopLog"
    /\ phase' = "return"
    /\ UNCHANGED <<processVars, log, airsim, failures>>

\* main returns: its nodes and its reference to the logger go.
Return ==
    /\ phase \in {"rejected", "return"}
    /\ phase' = IF phase = "return" THEN "success" ELSE "failure"
    /\ log' = Closed(log)
    /\ context' = Fresh /\ subscribed' = {} /\ queue' = [a \in Actors |-> <<>>]
    /\ UNCHANGED <<bUseBaseball, airsim, failures>>

-----------------------------------------------------------------------------
(* Callbacks                                                                *)

\* Quaternionr(w, x, y, z) from the orientation <<x, y, z, w>> of a message.
Attitude(orientation) ==
    [w |-> orientation[1], x |-> orientation[2], y |-> orientation[3], z |-> orientation[4]]

\* Mutation of updateMsg: poses that come too soon after the last are skipped.
updateThrottled(a) ==
    /\ phase = "spin" /\ context.ok /\ a \in subscribed /\ queue[a] # <<>>
    /\ LET m == Head(queue[a])
           pose == [topic |-> m.topic, n |-> m.n, attitude |-> Attitude(m.orientation)]
       IN  airsim' \in {airsim, [airsim EXCEPT !.shown[a] = pose]}
    /\ queue' = [queue EXCEPT ![a] = Tail(@)]
    /\ UNCHANGED <<phase, bUseBaseball, context, subscribed, log, failures>>

\* The executor hands the oldest message of a subscription to its node, which
\* sends the pose on.  Debug output and every thousandth pose write a line.
updateMsg(a) ==
    /\ phase = "spin" /\ context.ok /\ a \in subscribed /\ queue[a] # <<>>
    /\ LET m == Head(queue[a])
           pose == [topic |-> m.topic, n |-> m.n, attitude |-> Attitude(m.orientation)]
           after == [airsim EXCEPT !.shown[a] = pose]
       IN  \/ /\ airsim' = after
              /\ queue' = [queue EXCEPT ![a] = Tail(@)]
              /\ log' \in {log, Written(log, "progress")}
              /\ UNCHANGED <<phase, bUseBaseball, context, subscribed, failures>>
           \/ Fails(after) /\ Die("crashed")

\* A message reaches the queues of the nodes that listen to its topic.
Hears(a, topic) == a \in subscribed /\ context.ok /\ TopicOf[a] = topic

Deliver(m) ==
    queue' = [a \in Actors |-> IF Hears(a, m.topic) THEN Enqueue(queue[a], m, QueueDepth)
                               ELSE queue[a]]

\* stdio writes a full buffer.
Spill ==
    /\ log.buffer # {}
    /\ log' = Spilled(log)
    /\ UNCHANGED <<phase, processVars, airsim, failures>>

\* SIGINT kills the process; only between rclcpp::init and rclcpp::shutdown it
\* shuts the context down instead.
Sigint ==
    /\ \/ /\ phase \in InRos /\ context.ok
          /\ context' = ShutDown(context)
          /\ UNCHANGED <<phase, bUseBaseball, subscribed, queue, log>>
       \/ phase \notin InRos \cup Ends \cup {"off"} /\ Die("killed")
    /\ UNCHANGED <<airsim, failures>>
==============================================================================
