-------------------------- MODULE AirsimBridge_proof ---------------------------
(***************************************************************************)
(* Proofs about the bridge to Airsim for queues of any depth and any       *)
(* number of starts, poses and failing remote calls: the drone is armed    *)
(* only where it was checked, exits are clean, poses arrive in order.      *)
(***************************************************************************)
EXTENDS AirsimBridge, SequenceTheorems, TLAPS

\* What main knows of the environment, besides CheckedBeforeArming.
Checked ==
    /\ CheckedBeforeArming
    /\ phase \in {"objects", "assets", "spawn"} => airsim.drone
    /\ phase \in {"stopLog", "return", "success"} => ~airsim.armed

\* A running process has said something, and said why it gives up; an ended one
\* has nothing in its buffer.
Logged ==
    /\ phase \notin Bridge!Ends \cup {"off"} =>
           log.open /\ "progress" \in log.buffer \cup log.disk
    /\ phase = "rejected" => "issue" \in log.buffer \cup log.disk
    /\ phase \in Bridge!Ends \cup {"off"} => log.buffer = {}
    /\ phase = "success" => "progress" \in log.disk
    /\ phase = "failure" => "issue" \in log.disk

\* What waits for an actor is of its topic, in order, and newer than what it
\* shows.
QueueOf(a) ==
    /\ airsim.shown[a].n <= published[Bridge!TopicOf[a]]
    /\ \A i \in DOMAIN queue[a] :
           /\ queue[a][i].topic = Bridge!TopicOf[a]
           /\ airsim.shown[a].n < queue[a][i].n
           /\ queue[a][i].n <= published[Bridge!TopicOf[a]]
    /\ \A i, j \in DOMAIN queue[a] : i < j => queue[a][i].n < queue[a][j].n

Queued == \A a \in Actors : QueueOf(a)

IInv == TypeOK /\ Checked /\ Logged /\ Queued

-----------------------------------------------------------------------------
(* Types of the operations                                                  *)

\* Operations on the log give logs.
LEMMA LogTypes ==
    ASSUME NEW l \in Bridge!Logs
    PROVE  /\ Bridge!NoLog \in Bridge!Logs /\ Bridge!Opened \in Bridge!Logs
           /\ \A line \in {"issue", "progress"} : Bridge!Written(l, line) \in Bridge!Logs
           /\ Bridge!Written(Bridge!Opened, "progress") \in Bridge!Logs
           /\ Bridge!Spilled(l) \in Bridge!Logs /\ Bridge!Closed(l) \in Bridge!Logs
           /\ Bridge!Lost(l) \in Bridge!Logs
BY DEF Bridge!Logs, Bridge!Lines, Bridge!NoLog, Bridge!Opened, Bridge!Written, Bridge!Spilled,
       Bridge!Closed, Bridge!Lost

\* Operations on the context give contexts.
LEMMA ContextTypes ==
    ASSUME NEW c \in Contexts
    PROVE  Bridge!Fresh \in Contexts /\ Bridge!Ensured(c) \in Contexts
           /\ Bridge!ShutDown(c) \in Contexts
<1>1. Bridge!Fresh \in Contexts
  BY DEF Contexts, Bridge!Fresh
<1>2. Bridge!Ensured(c) \in Contexts
  BY DEF Contexts, Bridge!Ensured
<1>3. Bridge!ShutDown(c) \in Contexts
  BY DEF Contexts, Bridge!ShutDown
<1> QED BY <1>1, <1>2, <1>3

\* What remote calls of main make of the environment; none moves an actor.
LEMMA EnvironmentTypes ==
    ASSUME airsim \in Environments, NEW b \in BOOLEAN
    PROVE  /\ [airsim EXCEPT !.ball = "scene"] \in Environments
           /\ [airsim EXCEPT !.api = b] \in Environments
           /\ [airsim EXCEPT !.armed = b] \in Environments
           /\ [airsim EXCEPT !.ball = "scene"].shown = airsim.shown
           /\ [airsim EXCEPT !.api = b].shown = airsim.shown
           /\ [airsim EXCEPT !.armed = b].shown = airsim.shown
BY DEF Environments

-----------------------------------------------------------------------------
(* Steps of main                                                            *)

\* The queues of a process that is gone.
NoQueues == [a \in Actors |-> <<>>]

\* A step of main before or after the executor spins goes on, gives up, dies or
\* returns; remote calls make of the environment nothing or what they are for.
MainGoes(next, after) ==
    /\ phase' = next /\ log' = Bridge!Written(log, "progress") /\ airsim' = after
    /\ UNCHANGED <<bUseBaseball, queue>>

MainGivesUp(after) ==
    /\ phase' = "rejected" /\ log' = Bridge!Written(log, "issue") /\ airsim' \in {airsim, after}
    /\ UNCHANGED <<bUseBaseball, queue>>

MainDies(end, after) ==
    /\ phase' = end /\ log' = Bridge!Lost(log) /\ airsim' \in {airsim, after}
    /\ queue' = NoQueues /\ UNCHANGED bUseBaseball

\* A remote call goes on, ends the process or, in a try block, gives up.
LEMMA RpcSteps ==
    ASSUME NEW after, NEW next
    PROVE  /\ Bridge!Rpc(after, next) => MainGoes(next, after) \/ MainDies("crashed", after)
           /\ Bridge!GuardedRpc(after, next) =>
                  MainGoes(next, after) \/ MainDies("crashed", after) \/ MainGivesUp(after)
BY DEF Bridge!Rpc, Bridge!GuardedRpc, Bridge!Goto, Bridge!Fails, Bridge!Die, Bridge!Reject,
       Bridge!processVars, MainGoes, MainDies, MainGivesUp, NoQueues, Actors

\* A query goes on only when it has found what it looked for.
LEMMA QuerySteps ==
    ASSUME NEW found, NEW next, Bridge!Query(found, next)
    PROVE  (found /\ MainGoes(next, airsim)) \/ MainDies("crashed", airsim) \/ MainGivesUp(airsim)
BY DEF Bridge!Query, Bridge!Goto, Bridge!Fails, Bridge!Die, Bridge!Reject,
       Bridge!processVars, MainGoes, MainDies, MainGivesUp, NoQueues, Actors

\* Where each step of main starts and where it leads to.
MainCase ==
    \/ /\ phase = "connect"
       /\ MainGoes("vehicle", airsim) \/ MainDies("crashed", airsim) \/ MainGivesUp(airsim)
    \/ /\ phase = "vehicle"
       /\ \/ airsim.drone /\ MainGoes(IF bUseBaseball THEN "objects" ELSE "control", airsim)
          \/ MainDies("crashed", airsim) \/ MainGivesUp(airsim)
    \/ /\ phase = "objects"
       /\ \/ MainGoes(IF airsim.ball = "scene" THEN "control" ELSE "assets", airsim)
          \/ MainDies("crashed", airsim)
    \/ /\ phase = "assets"
       /\ MainGoes("spawn", airsim) \/ MainDies("crashed", airsim) \/ MainGivesUp(airsim)
    \/ /\ phase = "spawn"
       /\ LET after == [airsim EXCEPT !.ball = "scene"]
          IN  MainGoes("control", after) \/ MainDies("crashed", after) \/ MainGivesUp(after)
    \/ /\ phase = "control"
       /\ LET after == [airsim EXCEPT !.api = TRUE]
          IN  MainGoes("arm", after) \/ MainDies("crashed", after)
    \/ /\ phase = "arm"
       /\ LET after == [airsim EXCEPT !.armed = TRUE]
          IN  MainGoes("init", after) \/ MainDies("crashed", after)
    \/ /\ phase = "disarm"
       /\ LET after == [airsim EXCEPT !.armed = FALSE]
          IN  MainGoes("stopLog", after) \/ MainDies("crashed", after)
    \/ phase = "init" /\ MainGoes("vehicleNode", airsim)
    \/ /\ phase \in {"vehicleNode", "objectNode", "executor"}
       /\ \/ \E next \in {"objectNode", "executor", "spin"} : MainGoes(next, airsim)
          \/ MainDies("crashed", airsim)
    \/ phase = "spin" /\ MainGoes("disarm", airsim)
    \/ /\ phase = "stopLog" /\ phase' = "return"
       /\ UNCHANGED <<bUseBaseball, queue, log, airsim>>
    \/ /\ phase \in {"rejected", "return"}
       /\ phase' = IF phase = "return" THEN "success" ELSE "failure"
       /\ log' = Bridge!Closed(log) /\ queue' = NoQueues
       /\ UNCHANGED <<bUseBaseball, airsim>>

\* Every step of main is one of the cases.
LEMMA MainSteps == Connect \/ Main => MainCase
<1> SUFFICES ASSUME Connect \/ Main PROVE MainCase
  OBVIOUS
<1>1. CASE Connect
  BY <1>1, RpcSteps DEF Connect, Bridge!confirmConnection, MainCase
<1>2. CASE Bridge!listVehicles
  BY <1>2, QuerySteps DEF Bridge!listVehicles, MainCase
<1>3. CASE Bridge!simListSceneObjects
  BY <1>3, RpcSteps DEF Bridge!simListSceneObjects, MainCase
<1>4. CASE Bridge!simListAssets
  BY <1>4, QuerySteps DEF Bridge!simListAssets, MainCase
<1>5. CASE Bridge!simSpawnObject
  BY <1>5, RpcSteps DEF Bridge!simSpawnObject, MainCase
<1>6. CASE Bridge!enableApiControl
  BY <1>6, RpcSteps DEF Bridge!enableApiControl, MainCase
<1>7. CASE Bridge!armDisarm
  BY <1>7, RpcSteps DEF Bridge!armDisarm, MainCase
<1>8. CASE Bridge!rclcppInit
  BY <1>8 DEF Bridge!rclcppInit, Bridge!Goto, MainCase, MainGoes
<1>9. CASE Bridge!MakeNode \/ Bridge!MakeExecutor
  BY <1>9 DEF Bridge!MakeNode, Bridge!MakeExecutor, Bridge!OnContext, Bridge!Goto, Bridge!Die,
              MainCase, MainGoes, MainDies, NoQueues, Actors
<1>10. CASE Bridge!StopSpinning
  BY <1>10 DEF Bridge!StopSpinning, Bridge!Goto, Bridge!processVars, MainCase, MainGoes
<1>11. CASE Bridge!stopDebugLogger
  BY <1>11 DEF Bridge!stopDebugLogger, Bridge!processVars, MainCase
<1>12. CASE Bridge!Return
  BY <1>12 DEF Bridge!Return, MainCase, NoQueues, Actors
<1> QED BY <1>1, <1>2, <1>3, <1>4, <1>5, <1>6, <1>7, <1>8, <1>9, <1>10, <1>11, <1>12 DEF Main

\* What else main changes.
LEMMA MainRest ==
    ASSUME TypeOK, Connect \/ Main
    PROVE  /\ context' \in Contexts /\ subscribed' \subseteq Actors
           /\ failures' \in 0 .. MaxFailures
           /\ UNCHANGED <<testVars, starts, delivered>>
<1> DEFINE Rest == /\ context' \in Contexts /\ subscribed' \subseteq Actors
                   /\ failures' \in 0 .. MaxFailures
<1>0. /\ context \in Contexts /\ Bridge!Fresh \in Contexts /\ subscribed \subseteq Actors
      /\ failures \in 0 .. MaxFailures
      /\ failures < MaxFailures => failures + 1 \in 0 .. MaxFailures
  <2>1. MaxFailures \in Nat
    BY LimitsAssumption
  <2>2. context \in Contexts /\ subscribed \subseteq Actors /\ failures \in 0 .. MaxFailures
    BY DEF TypeOK
  <2>3. Bridge!Fresh \in Contexts
    BY <2>2, ContextTypes
  <2> QED BY <2>1, <2>2, <2>3
<1>1. ASSUME NEW after, NEW next, Bridge!Rpc(after, next) \/ Bridge!GuardedRpc(after, next)
      PROVE  Rest
  BY <1>0, <1>1 DEF Bridge!Rpc, Bridge!GuardedRpc, Bridge!Goto, Bridge!Fails, Bridge!Die,
     Bridge!Reject, Bridge!processVars
<1>2. ASSUME NEW found, NEW next, Bridge!Query(found, next)
      PROVE  Rest
  BY <1>0, <1>2 DEF Bridge!Query, Bridge!Goto, Bridge!Fails, Bridge!Die,
     Bridge!Reject, Bridge!processVars
<1>3. UNCHANGED <<testVars, starts, delivered>>
  BY DEF Connect, Main
<1>4. ASSUME \/ Bridge!confirmConnection \/ Bridge!simListSceneObjects \/ Bridge!simSpawnObject
             \/ Bridge!enableApiControl \/ Bridge!armDisarm
      PROVE  Rest
  BY <1>1, <1>4 DEF Bridge!confirmConnection, Bridge!simListSceneObjects, Bridge!simSpawnObject,
     Bridge!enableApiControl, Bridge!armDisarm
<1>5. ASSUME Bridge!listVehicles \/ Bridge!simListAssets
      PROVE  Rest
  BY <1>2, <1>5 DEF Bridge!listVehicles, Bridge!simListAssets
<1>6. ASSUME NEW next, NEW nodes \in SUBSET Actors, Bridge!OnContext(next, nodes)
      PROVE  Rest
  BY <1>6, ContextTypes DEF Bridge!OnContext, Bridge!Die, TypeOK
<1>7. {"Drone"} \in SUBSET Actors /\ Bridge!Actors = Actors /\ subscribed \in SUBSET Actors
  BY DEF Actors, Bridge!Actors, TypeOK
<1>8. ASSUME Bridge!MakeNode \/ Bridge!MakeExecutor
      PROVE  Rest
  BY <1>6, <1>7, <1>8 DEF Bridge!MakeNode, Bridge!MakeExecutor
<1>9. ASSUME \/ Bridge!rclcppInit \/ Bridge!StopSpinning \/ Bridge!stopDebugLogger \/ Bridge!Return
      PROVE  Rest
  BY <1>9, ContextTypes DEF Bridge!rclcppInit, Bridge!StopSpinning, Bridge!stopDebugLogger,
     Bridge!Return, Bridge!Goto, Bridge!processVars, TypeOK
<1> QED BY <1>3, <1>4, <1>5, <1>8, <1>9 DEF Connect, Main

\* The phases of main are phases.
LEMMA PhaseTypes ==
    ASSUME MainCase, phase \in Bridge!Phases
    PROVE  phase' \in Bridge!Phases
BY DEF MainCase, MainGoes, MainDies, MainGivesUp, Bridge!Phases, Bridge!Validation, Bridge!Arming,
       Bridge!InRos, Bridge!Closing, Bridge!Ends

\* The effect of main on the environment, the log and the queues is well typed,
\* and moves no actor.
LEMMA MainTypes ==
    ASSUME TypeOK, MainCase
    PROVE  /\ airsim' \in Environments /\ airsim'.shown = airsim.shown
           /\ log' \in Bridge!Logs
           /\ bUseBaseball' = bUseBaseball
           /\ queue' = queue \/ queue' = NoQueues
<1>1. airsim \in Environments /\ log \in Bridge!Logs
  BY DEF TypeOK
<1>2. airsim' \in Environments /\ airsim'.shown = airsim.shown
  BY <1>1, EnvironmentTypes DEF MainCase, MainGoes, MainDies, MainGivesUp
<1>3. log' \in Bridge!Logs
  BY <1>1, LogTypes DEF MainCase, MainGoes, MainDies, MainGivesUp
<1> QED BY <1>2, <1>3 DEF MainCase, MainGoes, MainDies, MainGivesUp

\* Empty queues are queues.
LEMMA EmptyQueues ==
    /\ NoQueues \in [Actors -> Seq(Messages)]
    /\ \A a \in Actors : Len(NoQueues[a]) <= QueueDepth /\ DOMAIN NoQueues[a] = {}
BY QueueAssumption DEF NoQueues

\* Main keeps the type invariant.
LEMMA MainTypeStep ==
    ASSUME TypeOK, Connect \/ Main
    PROVE  TypeOK'
<1>1. MainCase
  BY MainSteps
<1>2. queue' \in [Actors -> Seq(Messages)] /\ \A a \in Actors : Len(queue'[a]) <= QueueDepth
  BY <1>1, MainTypes, EmptyQueues DEF TypeOK
<1>3. phase' \in Bridge!Phases
  BY <1>1, PhaseTypes DEF TypeOK
<1> QED BY <1>1, <1>2, <1>3, MainTypes, MainRest DEF TypeOK, testVars

\* Main arms what it has checked, and disarms before it ends with success.
LEMMA MainCheckedStep ==
    ASSUME TypeOK, Checked, MainCase
    PROVE  Checked'
<1>1. airsim \in Environments /\ phase \in Bridge!Phases
  BY DEF TypeOK
<1>2. /\ [airsim EXCEPT !.ball = "scene"].ball = "scene"
      /\ [airsim EXCEPT !.ball = "scene"].drone = airsim.drone
      /\ [airsim EXCEPT !.ball = "scene"].api = airsim.api
      /\ [airsim EXCEPT !.ball = "scene"].armed = airsim.armed
  BY <1>1 DEF Environments
<1> USE DEF MainGoes, MainDies, MainGivesUp, Checked, CheckedBeforeArming, Bridge!Arming,
            Bridge!InRos
<1>5. CASE phase \in {"connect", "vehicle", "objects", "assets"}
  BY <1>5 DEF MainCase
<1>6. CASE phase = "spawn"
  BY <1>2, <1>6 DEF MainCase
<1>7. CASE phase = "control"
  <2> DEFINE after == [airsim EXCEPT !.api = TRUE]
  <2>1. after.ball = airsim.ball /\ after.drone = airsim.drone
    BY <1>1 DEF Environments
  <2>2. /\ airsim' \in {airsim, after} /\ phase' \in {"arm", "crashed"}
        /\ bUseBaseball' = bUseBaseball
    BY <1>7 DEF MainCase
  <2> HIDE DEF after
  <2> QED BY <1>7, <2>1, <2>2
<1>8. CASE phase = "arm"
  <2> DEFINE after == [airsim EXCEPT !.armed = TRUE]
  <2>1. after.ball = airsim.ball /\ after.drone = airsim.drone
    BY <1>1 DEF Environments
  <2>2. /\ airsim' \in {airsim, after} /\ phase' \in {"init", "crashed"}
        /\ bUseBaseball' = bUseBaseball
    BY <1>8 DEF MainCase
  <2> HIDE DEF after
  <2> QED BY <1>8, <2>1, <2>2
<1>3. CASE phase = "disarm"
  <2> DEFINE after == [airsim EXCEPT !.armed = FALSE]
  <2>1. after.drone = airsim.drone /\ after.api = airsim.api /\ ~after.armed
    BY <1>1 DEF Environments
  <2>2. \/ airsim' \in {airsim, after} /\ phase' = "crashed"
        \/ airsim' = after /\ phase' = "stopLog"
    BY <1>3 DEF MainCase
  <2> HIDE DEF after
  <2> QED BY <1>3, <2>1, <2>2
<1>9. CASE phase \notin {"connect", "vehicle", "objects", "assets", "spawn", "control", "arm",
                        "disarm"}
  BY <1>9 DEF MainCase
<1> QED BY <1>3, <1>5, <1>6, <1>7, <1>8, <1>9

\* What main does to the log.
LEMMA LogFacts ==
    ASSUME NEW l \in Bridge!Logs
    PROVE  /\ l.open => \A line \in {"issue", "progress"} :
                  LET w == Bridge!Written(l, line)
                  IN  /\ w.open /\ line \in w.buffer
                      /\ l.buffer \subseteq w.buffer /\ l.disk = w.disk
           /\ Bridge!Lost(l).buffer = {}
           /\ Bridge!Closed(l).buffer = {}
           /\ Bridge!Closed(l).disk = l.disk \cup l.buffer
           /\ Bridge!Spilled(l).disk = l.disk \cup l.buffer
           /\ Bridge!Spilled(l).buffer = {}
           /\ Bridge!Spilled(l).open = l.open
BY DEF Bridge!Logs, Bridge!Lines, Bridge!Written, Bridge!Spilled, Bridge!Closed, Bridge!Lost

\* Main keeps what it has said until it is on disk.
LEMMA MainLoggedStep ==
    ASSUME TypeOK, Logged, MainCase
    PROVE  Logged'
<1>1. log \in Bridge!Logs
  BY DEF TypeOK
<1>2. CASE \E next, after : phase \notin Bridge!Ends \cup {"off", "rejected"}
                           /\ next \notin Bridge!Ends \cup {"off", "rejected"}
                           /\ MainGoes(next, after)
  BY <1>1, <1>2, LogFacts DEF MainGoes, Logged, Bridge!Ends
<1>3. CASE \E after : phase \notin Bridge!Ends \cup {"off"} /\ MainGivesUp(after)
  BY <1>1, <1>3, LogFacts DEF MainGivesUp, Logged, Bridge!Ends
<1>4. CASE \E after : MainDies("crashed", after)
  BY <1>1, <1>4, LogFacts DEF MainDies, Logged, Bridge!Ends
<1>5. CASE phase = "stopLog" /\ phase' = "return" /\ log' = log
  BY <1>5 DEF Logged, Bridge!Ends
<1>6. CASE /\ phase \in {"rejected", "return"} /\ log' = Bridge!Closed(log)
           /\ phase' = IF phase = "return" THEN "success" ELSE "failure"
  BY <1>1, <1>6, LogFacts DEF Logged, Bridge!Ends
<1>7. CASE phase \in {"connect", "vehicle", "objects", "assets", "spawn"}
  BY <1>2, <1>3, <1>4, <1>7 DEF MainCase, Bridge!Ends
<1>8. CASE phase \in {"control", "arm", "disarm", "init", "spin"}
  BY <1>2, <1>4, <1>8 DEF MainCase, Bridge!Ends
<1>9. CASE phase \in {"vehicleNode", "objectNode", "executor"}
  BY <1>2, <1>4, <1>9 DEF MainCase, Bridge!Ends
<1> QED BY <1>5, <1>6, <1>7, <1>8, <1>9 DEF MainCase

-----------------------------------------------------------------------------
(* Queues and actors                                                        *)

\* A full queue drops its oldest message, the others keep their order.
LEMMA EnqueueFacts ==
    ASSUME NEW M, NEW s \in Seq(M), NEW m \in M, NEW depth \in Nat \ {0}, Len(s) <= depth
    PROVE  /\ Bridge!Enqueue(s, m, depth) \in Seq(M)
           /\ Len(Bridge!Enqueue(s, m, depth)) <= depth
           /\ \E k \in {0, 1} :
                  LET e == Bridge!Enqueue(s, m, depth)
                  IN  /\ Len(e) + k = Len(s) + 1 /\ e[Len(e)] = m
                      /\ \A i \in 1 .. (Len(e) - 1) : e[i] = s[i + k]
<1>1. CASE Len(s) < depth
  <2>1. Bridge!Enqueue(s, m, depth) = Append(s, m)
    BY <1>1 DEF Bridge!Enqueue
  <2> QED BY <1>1, <2>1
<1>2. CASE ~(Len(s) < depth)
  <2>1. Bridge!Enqueue(s, m, depth) = Append(Tail(s), m)
    BY <1>2 DEF Bridge!Enqueue
  <2>2. /\ Tail(s) \in Seq(M) /\ Len(Tail(s)) = Len(s) - 1 /\ Len(s) \in Nat /\ Len(s) > 0
        /\ \A i \in 1 .. (Len(s) - 1) : Tail(s)[i] = s[i + 1]
    BY <1>2
  <2> HIDE <1>2
  <2>3. /\ Append(Tail(s), m) \in Seq(M) /\ Len(Append(Tail(s), m)) = Len(s)
        /\ Append(Tail(s), m)[Len(s)] = m
        /\ \A i \in 1 .. (Len(s) - 1) : Append(Tail(s), m)[i] = Tail(s)[i]
    BY <2>2
  <2> QED BY <2>1, <2>2, <2>3
<1> QED BY <1>1, <1>2

\* A step that moves no actor and only empties queues keeps their order.
LEMMA QueuedStill ==
    ASSUME Queued, queue' = queue \/ queue' = NoQueues, airsim'.shown = airsim.shown,
           published' = published
    PROVE  Queued'
BY EmptyQueues DEF Queued, QueueOf

\* updateMsg moves its actor to the head of its queue, or the process dies.
LEMMA UpdateFacts ==
    ASSUME TypeOK, NEW a \in Actors, Update(a)
    PROVE  \E pose \in Poses :
               /\ pose.topic = Head(queue[a]).topic /\ pose.n = Head(queue[a]).n
               /\ \/ /\ airsim' = [airsim EXCEPT !.shown[a] = pose]
                     /\ queue' = [queue EXCEPT ![a] = Tail(@)]
                     /\ log' \in {log, Bridge!Written(log, "progress")}
                     /\ UNCHANGED <<phase, context, subscribed, failures>>
                  \/ /\ airsim' \in {airsim, [airsim EXCEPT !.shown[a] = pose]}
                     /\ queue' = NoQueues /\ log' = Bridge!Lost(log)
                     /\ phase' = "crashed" /\ context' = Bridge!Fresh /\ subscribed' = {}
                     /\ failures < MaxFailures /\ failures' = failures + 1
<1> DEFINE m == Head(queue[a])
           pose == [topic |-> m.topic, n |-> m.n, attitude |-> Bridge!Attitude(m.orientation)]
<1>1. queue[a] \in Seq(Messages) /\ queue[a] # <<>>
  BY DEF Update, Bridge!updateMsg, TypeOK
<1>2. m \in Messages
  BY <1>1
<1>3. pose \in Poses /\ pose.topic = m.topic /\ pose.n = m.n
  BY <1>2 DEF Messages, Poses
<1>4. \/ /\ airsim' = [airsim EXCEPT !.shown[a] = pose]
         /\ queue' = [queue EXCEPT ![a] = Tail(@)]
         /\ log' \in {log, Bridge!Written(log, "progress")}
         /\ UNCHANGED <<phase, context, subscribed, failures>>
      \/ /\ airsim' \in {airsim, [airsim EXCEPT !.shown[a] = pose]}
         /\ queue' = NoQueues /\ log' = Bridge!Lost(log)
         /\ phase' = "crashed" /\ context' = Bridge!Fresh /\ subscribed' = {}
         /\ failures < MaxFailures /\ failures' = failures + 1
  BY DEF Update, Bridge!updateMsg, Bridge!Fails, Bridge!Die, NoQueues, Actors
<1> QED BY <1>3, <1>4

\* Moving an actor changes nothing else of the environment.
LEMMA MovedTypes ==
    ASSUME airsim \in Environments, NEW a \in Actors, NEW pose \in Poses
    PROVE  LET after == [airsim EXCEPT !.shown[a] = pose]
           IN  /\ after \in Environments
               /\ after.drone = airsim.drone /\ after.ball = airsim.ball
               /\ after.api = airsim.api /\ after.armed = airsim.armed
               /\ after.shown = [airsim.shown EXCEPT ![a] = pose]
               /\ after.shown[a] = pose
               /\ \A b \in Actors : b # a => after.shown[b] = airsim.shown[b]
BY DEF Environments

\* What a publication does to the queues.
LEMMA PublishFacts ==
    ASSUME TypeOK, NEW t \in Test!Topics, Publish(t)
    PROVE  /\ published[t] < MaxPoses /\ published[t] \in Nat
           /\ published' = [published EXCEPT ![t] = published[t] + 1]
           /\ Test!Message(t) \in Messages /\ Test!Message(t).topic = t
           /\ Test!Message(t).n = published[t] + 1
           /\ \A a \in Actors :
                  IF Bridge!Hears(a, t)
                  THEN queue'[a] = Bridge!Enqueue(queue[a], Test!Message(t), QueueDepth)
                  ELSE queue'[a] = queue[a]
           /\ queue' = [a \in Actors |-> queue'[a]]
           /\ delivered' = [a \in Actors |-> IF Bridge!Hears(a, t) THEN published[t] + 1
                                            ELSE delivered[a]]
<1>1. /\ published[t] < MaxPoses /\ published' = [published EXCEPT ![t] = @ + 1]
  BY DEF Publish, Test!publishPose
<1>2. MaxPoses \in Nat
  BY LimitsAssumption
<1>3. published \in [Test!Topics -> Numbers] /\ published[t] \in Nat
  BY <1>2 DEF TypeOK, Numbers
<1>4. /\ Test!Message(t) \in Messages /\ Test!Message(t).topic = t
      /\ Test!Message(t).n = published[t] + 1
  BY <1>1, <1>2, <1>3 DEF Test!Message, Messages, Numbers
<1>5. queue' = [a \in Actors |-> IF Bridge!Hears(a, t)
                                 THEN Bridge!Enqueue(queue[a], Test!Message(t), QueueDepth)
                                 ELSE queue[a]]
  BY <1>4 DEF Publish, Bridge!Deliver, Actors
<1>6. published'[t] = published[t] + 1
  BY <1>1, <1>3
<1>7. delivered' = [a \in Actors |-> IF Bridge!Hears(a, t) THEN published[t] + 1
                                     ELSE delivered[a]]
  BY <1>6 DEF Publish
<1> QED BY <1>1, <1>3, <1>4, <1>5, <1>7

\* Everything is well typed at the head and in the rest of a queue.
LEMMA TailFacts ==
    ASSUME NEW M, NEW s \in Seq(M), s # <<>>
    PROVE  /\ Tail(s) \in Seq(M) /\ Len(Tail(s)) = Len(s) - 1 /\ Len(s) \in Nat /\ Len(s) > 0
           /\ Head(s) = s[1] /\ Head(s) \in M
           /\ \A i \in 1 .. (Len(s) - 1) : Tail(s)[i] = s[i + 1]
OBVIOUS

\* Numbers of poses are integers.
LEMMA NumberTypes ==
    ASSUME TypeOK, NEW a \in Actors
    PROVE  /\ airsim.shown[a].n \in Int
           /\ \A i \in DOMAIN queue[a] : queue[a][i] \in Messages /\ queue[a][i].n \in Int
           /\ Bridge!TopicOf[a] \in Test!Topics
           /\ published[Bridge!TopicOf[a]] \in Int
<1>1. MaxPoses \in Nat
  BY LimitsAssumption
<1>2. /\ airsim.shown[a] \in Poses \cup {Bridge!NoPose}
      /\ queue[a] \in Seq(Messages) /\ published \in [Test!Topics -> Numbers]
  BY DEF TypeOK, Environments
<1>3. Numbers \subseteq Int
  BY <1>1 DEF Numbers
<1>4. /\ \A p \in Poses : p.n \in Numbers
      /\ Bridge!NoPose.n = 0
  BY DEF Poses, Bridge!NoPose
<1>5. \A i \in DOMAIN queue[a] : queue[a][i] \in Messages
  BY <1>2
<1>6. \A m \in Messages : m.n \in Int
  BY <1>3 DEF Messages
<1>7. Bridge!TopicOf[a] \in Test!Topics
  BY DEF Bridge!TopicOf, Test!Topics, Actors, Bridge!Actors
<1>8. airsim.shown[a].n \in Int
  <2>1. CASE airsim.shown[a] \in Poses
    BY <1>3, <1>4, <2>1
  <2>2. CASE airsim.shown[a] = Bridge!NoPose
    BY <1>4, <2>2
  <2> QED BY <1>2, <2>1, <2>2
<1>9. published[Bridge!TopicOf[a]] \in Int
  BY <1>2, <1>3, <1>7
<1> QED BY <1>5, <1>6, <1>7, <1>8, <1>9

\* The actor that moves goes forward, and the rest of its queue is newer still.
LEMMA UpdateQueued ==
    ASSUME TypeOK, Queued, NEW a \in Actors, Update(a)
    PROVE  Queued'
<1>1. PICK pose \in Poses :
          /\ pose.topic = Head(queue[a]).topic /\ pose.n = Head(queue[a]).n
          /\ \/ /\ airsim' = [airsim EXCEPT !.shown[a] = pose]
                /\ queue' = [queue EXCEPT ![a] = Tail(@)]
             \/ /\ airsim' \in {airsim, [airsim EXCEPT !.shown[a] = pose]}
                /\ queue' = NoQueues
  BY UpdateFacts
<1>2. queue[a] \in Seq(Messages) /\ queue[a] # <<>> /\ published' = published
  BY DEF Update, Bridge!updateMsg, TypeOK, testVars
<1>3. /\ Tail(queue[a]) \in Seq(Messages) /\ Len(Tail(queue[a])) = Len(queue[a]) - 1
      /\ Len(queue[a]) \in Nat /\ Len(queue[a]) > 0 /\ Head(queue[a]) = queue[a][1]
      /\ \A i \in 1 .. (Len(queue[a]) - 1) : Tail(queue[a])[i] = queue[a][i + 1]
  BY <1>2, TailFacts
<1>4. airsim \in Environments /\ queue \in [Actors -> Seq(Messages)]
  BY DEF TypeOK
<1>5. QueueOf(a)
  BY DEF Queued
<1>6. pose.n <= published[Bridge!TopicOf[a]]
      /\ \A i \in 1 .. (Len(queue[a]) - 1) :
             /\ Tail(queue[a])[i].topic = Bridge!TopicOf[a]
             /\ pose.n < Tail(queue[a])[i].n
             /\ Tail(queue[a])[i].n <= published[Bridge!TopicOf[a]]
  BY <1>1, <1>2, <1>3, <1>5 DEF QueueOf
<1>7. \A i, j \in 1 .. (Len(queue[a]) - 1) :
          i < j => Tail(queue[a])[i].n < Tail(queue[a])[j].n
  BY <1>2, <1>3, <1>5 DEF QueueOf
<1> SUFFICES ASSUME NEW b \in Actors PROVE QueueOf(b)'
  BY DEF Queued
<1>8. QueueOf(b)
  BY DEF Queued
<1>9. airsim'.shown[b] = airsim.shown[b] \/ (b = a /\ airsim'.shown[b] = pose)
  <2>1. CASE airsim' = airsim
    BY <2>1
  <2>2. CASE airsim' = [airsim EXCEPT !.shown[a] = pose]
    <3>1. airsim'.shown[a] = pose /\ (b # a => airsim'.shown[b] = airsim.shown[b])
      BY <1>4, <2>2, MovedTypes
    <3> QED BY <3>1
  <2> QED BY <1>1, <2>1, <2>2
<1>10. CASE queue' = NoQueues
  BY <1>2, <1>6, <1>8, <1>9, <1>10, EmptyQueues DEF QueueOf
<1>11. CASE queue' = [queue EXCEPT ![a] = Tail(@)] /\ airsim' = [airsim EXCEPT !.shown[a] = pose]
  <2>1. CASE b = a
    <3>4. airsim'.shown[a] = pose
      BY <1>4, <1>11, MovedTypes
    <3>1. airsim'.shown[b] = pose
      BY <2>1, <3>4
    <3>3. queue'[b] = Tail(queue[a])
      BY <1>4, <1>11, <2>1
    <3>2. DOMAIN Tail(queue[a]) = 1 .. (Len(queue[a]) - 1)
      BY <1>3
    <3> QED BY <1>2, <1>6, <1>7, <2>1, <3>1, <3>2, <3>3 DEF QueueOf
  <2>2. CASE b # a
    <3>1. queue'[b] = queue[b] /\ airsim'.shown[b] = airsim.shown[b]
      BY <1>4, <1>11, <2>2, MovedTypes
    <3> QED BY <1>2, <1>8, <3>1 DEF QueueOf
  <2> QED BY <2>1, <2>2
<1> QED BY <1>1, <1>10, <1>11

\* A new message is newer than all before.
LEMMA PublishQueued ==
    ASSUME TypeOK, Queued, NEW t \in Test!Topics, Publish(t)
    PROVE  Queued'
<1> DEFINE m == Test!Message(t)
<1>1. /\ published' = [published EXCEPT ![t] = published[t] + 1] /\ published[t] \in Nat
      /\ m \in Messages /\ m.topic = t /\ m.n = published[t] + 1
  BY PublishFacts
<1>2. airsim' = airsim
  BY DEF Publish
<1>3. QueueDepth \in Nat \ {0} /\ MaxPoses \in Nat
  BY QueueAssumption, LimitsAssumption
<1>4. published \in [Test!Topics -> Nat] /\ queue \in [Actors -> Seq(Messages)]
  BY <1>3 DEF TypeOK, Numbers
<1>5. \A u \in Test!Topics : published[u] <= published'[u]
  BY <1>1, <1>4
<1> SUFFICES ASSUME NEW a \in Actors PROVE QueueOf(a)'
  BY DEF Queued
<1>6. QueueOf(a)
  BY DEF Queued
<1>7. Bridge!TopicOf[a] \in Test!Topics
  BY NumberTypes
<1>8. /\ airsim.shown[a].n \in Int
      /\ \A i \in DOMAIN queue[a] : queue[a][i].n \in Int
  BY NumberTypes
<1>9. CASE ~Bridge!Hears(a, t)
  <2>1. queue'[a] = queue[a]
    BY <1>9, PublishFacts
  <2>2. published[Bridge!TopicOf[a]] \in Int /\ published'[Bridge!TopicOf[a]] \in Int
    BY <1>1, <1>4, <1>7
  <2> QED BY <1>2, <1>5, <1>6, <1>7, <1>8, <2>1, <2>2 DEF QueueOf
<1>10. CASE Bridge!Hears(a, t)
  <2> DEFINE e == Bridge!Enqueue(queue[a], m, QueueDepth)
             s == queue[a]
  <2>1. queue'[a] = e /\ Bridge!TopicOf[a] = t
    BY <1>10, PublishFacts DEF Bridge!Hears
  <2>2. s \in Seq(Messages) /\ Len(s) <= QueueDepth
    BY <1>4 DEF TypeOK
  <2>3. e \in Seq(Messages)
    BY <1>1, <1>3, <2>2, EnqueueFacts
  <2>4. PICK k \in {0, 1} :
            /\ Len(e) + k = Len(s) + 1 /\ e[Len(e)] = m
            /\ \A i \in 1 .. (Len(e) - 1) : e[i] = s[i + k]
    BY <1>1, <1>3, <2>2, EnqueueFacts
  <2>5. published'[t] = published[t] + 1 /\ published[t] \in Nat
    BY <1>1, <1>4
  <2>6. Len(s) \in Nat /\ Len(e) \in Nat /\ DOMAIN s = 1 .. Len(s) /\ DOMAIN e = 1 .. Len(e)
    BY <2>2, <2>3
  <2>7. \A i \in 1 .. (Len(e) - 1) : i + k \in DOMAIN s
    BY <2>4, <2>6
  <2>8. /\ airsim.shown[a].n <= published[t]
        /\ \A i \in DOMAIN s : s[i].topic = t /\ airsim.shown[a].n < s[i].n
                              /\ s[i].n <= published[t]
        /\ \A i, j \in DOMAIN s : i < j => s[i].n < s[j].n
    BY <1>6, <2>1 DEF QueueOf
  <2>12. Len(s) \in Int /\ Len(e) \in Int
    BY <2>6
  <2> HIDE DEF e, s, m
  <2>9. \A i \in 1 .. Len(e) :
            /\ e[i].topic = t /\ airsim.shown[a].n < e[i].n /\ e[i].n <= published[t] + 1
            /\ i # Len(e) => e[i].n <= published[t]
    <3> SUFFICES ASSUME NEW i \in 1 .. Len(e)
                 PROVE  /\ e[i].topic = t /\ airsim.shown[a].n < e[i].n
                        /\ e[i].n <= published[t] + 1
                        /\ i # Len(e) => e[i].n <= published[t]
      OBVIOUS
    <3>1. CASE i = Len(e)
      BY <1>1, <1>8, <2>4, <2>5, <2>8, <3>1
    <3>2. CASE i # Len(e)
      <4>1. i \in 1 .. (Len(e) - 1)
        BY <2>12, <3>2
      <4>2. e[i] = s[i + k] /\ i + k \in DOMAIN s /\ s[i + k].n \in Int
        BY <1>8, <2>4, <2>7, <4>1 DEF s
      <4> QED BY <2>5, <2>8, <4>2
    <3> QED BY <3>1, <3>2
  <2>10. \A i, j \in 1 .. Len(e) : i < j => e[i].n < e[j].n
    <3> SUFFICES ASSUME NEW i \in 1 .. Len(e), NEW j \in 1 .. Len(e), i < j
                 PROVE  e[i].n < e[j].n
      OBVIOUS
    <3>1. i \in 1 .. (Len(e) - 1) /\ i # Len(e)
      BY <2>12
    <3>2. e[i] = s[i + k] /\ i + k \in DOMAIN s /\ s[i + k].n \in Int
      BY <1>8, <2>4, <2>7, <3>1 DEF s
    <3>3. CASE j = Len(e)
      BY <1>1, <2>4, <2>5, <2>9, <3>1, <3>2, <3>3
    <3>4. CASE j # Len(e)
      <4>1. j \in 1 .. (Len(e) - 1) /\ i + k < j + k
        BY <2>12, <3>4
      <4>2. e[j] = s[j + k] /\ j + k \in DOMAIN s
        BY <2>4, <2>7, <4>1
      <4> QED BY <2>8, <3>2, <4>1, <4>2
    <3> QED BY <3>3, <3>4
  <2>11. airsim.shown[a].n <= published[t] + 1
    BY <1>8, <2>5, <2>8
  <2> QED BY <1>2, <2>1, <2>5, <2>6, <2>9, <2>10, <2>11 DEF QueueOf
<1> QED BY <1>9, <1>10

-----------------------------------------------------------------------------
(* The other steps keep the invariant                                       *)

\* A start begins a new log and forgets what was delivered.
LEMMA StartStep ==
    ASSUME IInv, StartBridge
    PROVE  IInv'
<1>1. /\ phase \in Bridge!Ends \cup {"off"}
      /\ \/ phase' = "connect" /\ log' = Bridge!Written(Bridge!Opened, "progress")
         \/ phase' = "crashed" /\ log' = Bridge!NoLog
      /\ bUseBaseball' \in BOOLEAN
      /\ UNCHANGED <<context, subscribed, queue, airsim, failures, running, published>>
      /\ starts < MaxStarts /\ starts' = starts + 1
      /\ delivered' = [a \in Actors |-> 0]
  BY DEF StartBridge, Bridge!startDebugLogger, testVars
<1>2. log \in Bridge!Logs /\ MaxStarts \in Nat /\ MaxPoses \in Nat /\ starts \in 0 .. MaxStarts
  BY LimitsAssumption DEF IInv, TypeOK
<1>3. TypeOK'
  <2>1. log' \in Bridge!Logs /\ phase' \in Bridge!Phases
    BY <1>1, <1>2, LogTypes DEF Bridge!Phases, Bridge!Validation, Bridge!Ends
  <2>2. starts' \in 0 .. MaxStarts /\ 0 \in Numbers
    BY <1>1, <1>2 DEF Numbers
  <2> QED BY <1>1, <2>1, <2>2 DEF IInv, TypeOK
<1>4. Checked'
  BY <1>1 DEF IInv, Checked, CheckedBeforeArming, Bridge!Arming, Bridge!InRos, Bridge!Ends
<1>5. Logged'
  BY <1>1 DEF Logged, Bridge!Ends, Bridge!Written, Bridge!Opened, Bridge!NoLog
<1>6. Queued'
  BY <1>1, QueuedStill DEF IInv
<1> QED BY <1>3, <1>4, <1>5, <1>6 DEF IInv

\* Main: its lemmas together.
LEMMA MainStep ==
    ASSUME IInv, Connect \/ Main
    PROVE  IInv'
<1>1. MainCase /\ TypeOK /\ Checked /\ Logged /\ Queued
  BY MainSteps DEF IInv
<1>2. TypeOK'
  BY <1>1, MainTypeStep
<1>3. Checked'
  BY <1>1, MainCheckedStep
<1>4. Logged'
  BY <1>1, MainLoggedStep
<1>5. published' = published
  BY <1>1, MainRest DEF testVars
<1>6. Queued'
  BY <1>1, <1>5, MainTypes, QueuedStill
<1> QED BY <1>2, <1>3, <1>4, <1>6 DEF IInv

\* updateMsg moves one actor, or ends the process.
LEMMA UpdateStep ==
    ASSUME IInv, NEW a \in Actors, Update(a)
    PROVE  IInv'
<1>1. TypeOK /\ Checked /\ Logged /\ Queued
  BY DEF IInv
<1>2. PICK pose \in Poses :
          \/ /\ airsim' = [airsim EXCEPT !.shown[a] = pose]
             /\ queue' = [queue EXCEPT ![a] = Tail(@)]
             /\ log' \in {log, Bridge!Written(log, "progress")}
             /\ UNCHANGED <<phase, context, subscribed, failures>>
          \/ /\ airsim' \in {airsim, [airsim EXCEPT !.shown[a] = pose]}
             /\ queue' = NoQueues /\ log' = Bridge!Lost(log)
             /\ phase' = "crashed" /\ context' = Bridge!Fresh /\ subscribed' = {}
             /\ failures < MaxFailures /\ failures' = failures + 1
  BY <1>1, UpdateFacts
<1>3. /\ phase = "spin" /\ queue[a] # <<>>
      /\ UNCHANGED <<bUseBaseball, running, published, starts, delivered>>
  BY DEF Update, Bridge!updateMsg, Bridge!Die, testVars
<1> DEFINE after == [airsim EXCEPT !.shown[a] = pose]
<1>4. /\ after \in Environments
      /\ after.drone = airsim.drone /\ after.ball = airsim.ball
      /\ after.api = airsim.api /\ after.armed = airsim.armed
  BY <1>1, MovedTypes DEF TypeOK
<1>5. airsim' \in {airsim, after}
  BY <1>2
<1>6. log \in Bridge!Logs /\ context \in Contexts /\ MaxFailures \in Nat
  BY <1>1, LimitsAssumption DEF TypeOK
<1> HIDE DEF after
<1>7. TypeOK'
  <2>1. airsim' \in Environments
    BY <1>1, <1>4, <1>5 DEF TypeOK
  <2>2. log' \in Bridge!Logs /\ context' \in Contexts /\ subscribed' \subseteq Actors
    BY <1>1, <1>2, <1>6, LogTypes, ContextTypes DEF TypeOK
  <2>3. failures' \in 0 .. MaxFailures /\ phase' \in Bridge!Phases
    BY <1>1, <1>2, <1>6 DEF TypeOK, Bridge!Phases, Bridge!Ends
  <2>4. queue' \in [Actors -> Seq(Messages)] /\ \A b \in Actors : Len(queue'[b]) <= QueueDepth
    <3>1. CASE queue' = NoQueues
      BY <3>1, EmptyQueues
    <3>2. CASE queue' = [queue EXCEPT ![a] = Tail(@)]
      <4>1. /\ Tail(queue[a]) \in Seq(Messages) /\ Len(Tail(queue[a])) = Len(queue[a]) - 1
            /\ Len(queue[a]) \in Nat
        BY <1>1, <1>3, TailFacts DEF TypeOK
      <4>2. Len(Tail(queue[a])) <= QueueDepth
        BY <1>1, <4>1, QueueAssumption DEF TypeOK
      <4> QED BY <1>1, <3>2, <4>1, <4>2 DEF TypeOK
    <3> QED BY <1>2, <3>1, <3>2
  <2> QED BY <1>1, <1>3, <2>1, <2>2, <2>3, <2>4 DEF TypeOK
<1>8. Checked'
  BY <1>1, <1>2, <1>3, <1>4, <1>5 DEF Checked, CheckedBeforeArming, Bridge!Arming, Bridge!InRos
<1>9. Logged'
  <2>1. CASE phase' = "crashed" /\ log' = Bridge!Lost(log)
    BY <1>6, <2>1, LogFacts DEF Logged, Bridge!Ends
  <2>2. CASE phase' = phase /\ log' = log
    BY <1>1, <2>2 DEF Logged
  <2>3. CASE phase' = phase /\ log' = Bridge!Written(log, "progress")
    BY <1>1, <1>3, <1>6, <2>3, LogFacts DEF Logged, Bridge!Ends
  <2> QED BY <1>2, <2>1, <2>2, <2>3
<1>10. Queued'
  BY <1>1, UpdateQueued
<1> QED BY <1>7, <1>8, <1>9, <1>10 DEF IInv

\* stdio and signals.
LEMMA EnvironmentStep ==
    ASSUME IInv, Environment
    PROVE  IInv'
<1>1. TypeOK /\ Checked /\ Logged /\ Queued /\ log \in Bridge!Logs /\ context \in Contexts
  BY DEF IInv, TypeOK
<1>2. UNCHANGED <<airsim, failures, bUseBaseball, running, published, starts, delivered>>
  BY DEF Environment, Bridge!Spill, Bridge!Sigint, Bridge!Die, Bridge!processVars, testVars
<1>3. CASE /\ log.buffer # {} /\ log' = Bridge!Spilled(log)
           /\ UNCHANGED <<phase, context, subscribed, queue>>
  <2>1. log' \in Bridge!Logs
    BY <1>1, <1>3, LogTypes
  <2>2. TypeOK'
    BY <1>1, <1>2, <1>3, <2>1 DEF TypeOK
  <2>3. Checked'
    BY <1>1, <1>2, <1>3 DEF Checked, CheckedBeforeArming
  <2>4. /\ log'.buffer = {} /\ log'.disk = log.disk \cup log.buffer /\ log'.open = log.open
    BY <1>1, <1>3, LogFacts
  <2>5. Logged'
    BY <1>1, <1>3, <2>4 DEF Logged
  <2>6. Queued'
    BY <1>1, <1>2, <1>3, QueuedStill
  <2> QED BY <2>2, <2>3, <2>5, <2>6 DEF IInv
<1>4. CASE context' = Bridge!ShutDown(context) /\ UNCHANGED <<phase, subscribed, queue, log>>
  <2>1. context' \in Contexts
    BY <1>1, <1>4, ContextTypes
  <2>2. TypeOK'
    BY <1>1, <1>2, <1>4, <2>1 DEF TypeOK
  <2>3. Checked' /\ Logged'
    BY <1>1, <1>2, <1>4 DEF Checked, CheckedBeforeArming, Logged
  <2>4. Queued'
    BY <1>1, <1>2, <1>4, QueuedStill
  <2> QED BY <2>2, <2>3, <2>4 DEF IInv
<1>5. CASE /\ phase' = "killed" /\ log' = Bridge!Lost(log) /\ context' = Bridge!Fresh
           /\ subscribed' = {} /\ queue' = NoQueues
  <2>1. log' \in Bridge!Logs /\ context' \in Contexts /\ phase' \in Bridge!Phases
    BY <1>1, <1>5, LogTypes, ContextTypes DEF Bridge!Phases, Bridge!Ends
  <2>2. TypeOK'
    BY <1>1, <1>2, <1>5, <2>1, EmptyQueues DEF TypeOK
  <2>3. Checked'
    BY <1>1, <1>2, <1>5 DEF Checked, CheckedBeforeArming, Bridge!Arming, Bridge!InRos
  <2>4. Logged'
    BY <1>1, <1>5, LogFacts DEF Logged, Bridge!Ends
  <2>5. Queued'
    BY <1>1, <1>2, <1>5, QueuedStill
  <2> QED BY <2>2, <2>3, <2>4, <2>5 DEF IInv
<1> QED BY <1>3, <1>4, <1>5 DEF Environment, Bridge!Spill, Bridge!Sigint, Bridge!Die,
           Bridge!processVars, NoQueues, Actors

\* The publisher starts and stops: the bridge does not notice.
LEMMA TestStep ==
    ASSUME IInv, StartTest \/ StopTest
    PROVE  IInv'
<1>1. /\ UNCHANGED <<bridgeVars, starts, delivered, published>>
      /\ running' \subseteq Test!Topics
  BY DEF StartTest, StopTest, Test!Start, Test!Stop, Test!Topics
<1>2. UNCHANGED <<phase, bUseBaseball, context, subscribed, queue, log, airsim, failures>>
  BY <1>1 DEF bridgeVars
<1>3. TypeOK'
  BY <1>1, <1>2 DEF IInv, TypeOK
<1>4. Checked' /\ Logged'
  BY <1>2 DEF IInv, Checked, CheckedBeforeArming, Logged
<1>5. Queued'
  BY <1>1, <1>2, QueuedStill DEF IInv
<1> QED BY <1>3, <1>4, <1>5 DEF IInv

\* A publication reaches the queues of the nodes that listen.
LEMMA PublishStep ==
    ASSUME IInv, NEW t \in Test!Topics, Publish(t)
    PROVE  IInv'
<1>1. TypeOK /\ Queued /\ QueueDepth \in Nat \ {0} /\ MaxPoses \in Nat
  BY QueueAssumption, LimitsAssumption DEF IInv
<1>2. /\ UNCHANGED <<phase, bUseBaseball, context, subscribed, log, airsim, failures, starts>>
      /\ running' = running
  BY DEF Publish, Test!publishPose
<1>3. /\ published[t] < MaxPoses /\ published[t] \in Nat
      /\ published' = [published EXCEPT ![t] = published[t] + 1]
      /\ Test!Message(t) \in Messages
      /\ delivered' = [a \in Actors |-> IF Bridge!Hears(a, t) THEN published[t] + 1
                                         ELSE delivered[a]]
  BY <1>1, PublishFacts
<1>4. \A a \in Actors : queue'[a] \in Seq(Messages) /\ Len(queue'[a]) <= QueueDepth
  <2> SUFFICES ASSUME NEW a \in Actors
               PROVE  queue'[a] \in Seq(Messages) /\ Len(queue'[a]) <= QueueDepth
    OBVIOUS
  <2>1. queue[a] \in Seq(Messages) /\ Len(queue[a]) <= QueueDepth
    BY <1>1 DEF TypeOK
  <2>2. \/ queue'[a] = Bridge!Enqueue(queue[a], Test!Message(t), QueueDepth)
        \/ queue'[a] = queue[a]
    BY <1>1, PublishFacts
  <2>3. LET e == Bridge!Enqueue(queue[a], Test!Message(t), QueueDepth)
        IN  e \in Seq(Messages) /\ Len(e) <= QueueDepth
    BY <1>1, <1>3, <2>1, EnqueueFacts
  <2> QED BY <2>1, <2>2, <2>3
<1>5. queue' = [a \in Actors |-> queue'[a]]
  BY <1>1, PublishFacts
<1>6. queue' \in [Actors -> Seq(Messages)]
  BY <1>4, <1>5
<1>7. published[t] + 1 \in Numbers
  BY <1>1, <1>3 DEF Numbers
<1>8. published' \in [Test!Topics -> Numbers] /\ delivered' \in [Actors -> Numbers]
  BY <1>1, <1>3, <1>7 DEF TypeOK
<1>9. TypeOK'
  BY <1>1, <1>2, <1>4, <1>6, <1>8 DEF TypeOK
<1>10. Checked' /\ Logged'
  BY <1>2 DEF IInv, Checked, CheckedBeforeArming, Logged
<1>11. Queued'
  BY <1>1, PublishQueued
<1> QED BY <1>9, <1>10, <1>11 DEF IInv

-----------------------------------------------------------------------------
(* The theorems                                                             *)

\* Nothing runs, waits or is shown at first.
LEMMA InitInv == Init => IInv
<1> SUFFICES ASSUME Init PROVE IInv
  OBVIOUS
<1>1. /\ phase = "off" /\ bUseBaseball = TRUE /\ context = Bridge!Fresh /\ subscribed = {}
      /\ queue = NoQueues /\ log = Bridge!NoLog /\ failures = 0
      /\ airsim \in [drone : BOOLEAN, ball : {"missing", "asset", "scene"}, api : {FALSE},
                     armed : {FALSE}, shown : {[a \in Actors |-> Bridge!NoPose]}]
      /\ running = {} /\ published = [t \in Test!Topics |-> 0]
      /\ starts = 0 /\ delivered = [a \in Actors |-> 0]
  BY DEF Init, Bridge!Init, Test!Init, NoQueues, Actors
<1>2. MaxFailures \in Nat /\ MaxPoses \in Nat /\ MaxStarts \in Nat
  BY LimitsAssumption
<1>3. 0 \in Numbers /\ 0 \in 0 .. MaxFailures /\ 0 \in 0 .. MaxStarts
  BY <1>2 DEF Numbers
<1>4. airsim.shown = [a \in Actors |-> Bridge!NoPose] /\ ~airsim.armed /\ ~airsim.api
  BY <1>1
<1>5. airsim \in Environments
  BY <1>1 DEF Environments
<1>6. log \in Bridge!Logs /\ context \in Contexts /\ phase \in Bridge!Phases
  BY <1>1 DEF Bridge!Logs, Bridge!NoLog, Contexts, Bridge!Fresh, Bridge!Phases
<1>7. TypeOK
  BY <1>1, <1>3, <1>5, <1>6, EmptyQueues DEF TypeOK
<1>8. Checked
  BY <1>1, <1>4 DEF Checked, CheckedBeforeArming, Bridge!Arming, Bridge!InRos
<1>9. Logged
  BY <1>1 DEF Logged, Bridge!Ends, Bridge!NoLog
<1>10. Queued
  <2> SUFFICES ASSUME NEW a \in Actors PROVE QueueOf(a)
    BY DEF Queued
  <2>1. DOMAIN queue[a] = {}
    BY <1>1, EmptyQueues
  <2>2. airsim.shown[a].n = 0 /\ published[Bridge!TopicOf[a]] = 0
    BY <1>1, <1>4, <1>7, NumberTypes DEF Bridge!NoPose
  <2> QED BY <2>1, <2>2 DEF QueueOf
<1> QED BY <1>7, <1>8, <1>9, <1>10 DEF IInv

\* Every step keeps the invariant.
LEMMA StepInv == IInv /\ [Next]_vars => IInv'
<1> SUFFICES ASSUME IInv, [Next]_vars PROVE IInv'
  OBVIOUS
<1>1. CASE UNCHANGED vars
  <2>1. UNCHANGED <<phase, bUseBaseball, context, subscribed, queue, log, airsim, failures,
                    running, published, starts, delivered>>
    BY <1>1 DEF vars, bridgeVars, testVars
  <2>2. TypeOK' /\ Checked' /\ Logged'
    BY <2>1 DEF IInv, TypeOK, Checked, CheckedBeforeArming, Logged
  <2>3. Queued'
    BY <2>1, QueuedStill DEF IInv
  <2> QED BY <2>2, <2>3 DEF IInv
<1>2. CASE Next
  BY <1>2, StartStep, MainStep, UpdateStep, EnvironmentStep, TestStep, PublishStep DEF Next
<1> QED BY <1>1, <1>2

\* Every reachable state satisfies the inductive invariant.
LEMMA Invariance == Spec => []IInv
BY InitInv, StepInv, PTL DEF Spec

\* The type invariant (the run airsim_bridge checks it on a small instance).
THEOREM TypeCorrect == Spec => []TypeOK
<1>1. IInv => TypeOK
  BY DEF IInv
<1> QED BY <1>1, Invariance, PTL

\* The bridge arms and spins only in an environment it has checked: the drone is
\* there, and the ball if it is to be shown, however its remote calls failed.
THEOREM ArmedOnlyWhenChecked == Spec => []CheckedBeforeArming
<1>1. IInv => CheckedBeforeArming
  BY DEF IInv, Checked
<1> QED BY <1>1, Invariance, PTL

\* An exit with success leaves the drone disarmed and the log on disk, an exit
\* with failure the issue that caused it.
THEOREM ExitsAreClean == Spec => []CleanExits
<1>1. IInv => CleanExits
  BY DEF IInv, Checked, Logged, CleanExits, Bridge!Ends
<1> QED BY <1>1, Invariance, PTL

\* No step of anybody shows an actor a pose of another topic or an older one.
LEMMA StepInOrder ==
    ASSUME IInv, [Next]_vars, NEW a \in Actors, airsim'.shown[a] # airsim.shown[a]
    PROVE  /\ airsim'.shown[a].topic = IF a = "Drone" THEN "pub_pose" ELSE "bball_pub_pose"
           /\ airsim'.shown[a].n > airsim.shown[a].n
<1>1. TypeOK /\ Queued /\ QueueOf(a)
  BY DEF IInv, Queued
<1>2. PICK b \in Actors : Update(b)
  <2>1. CASE UNCHANGED vars
    BY <2>1 DEF vars, bridgeVars
  <2>2. CASE Connect \/ Main
    BY <1>1, <2>2, MainSteps, MainTypes
  <2>3. CASE StartBridge \/ Environment \/ StartTest \/ StopTest \/ \E t \in Test!Topics : Publish(t)
    BY <2>3 DEF StartBridge, Environment, StartTest, StopTest, Publish, bridgeVars,
       Bridge!startDebugLogger, Bridge!Spill, Bridge!Sigint
  <2> QED BY <2>1, <2>2, <2>3 DEF Next
<1>3. PICK pose \in Poses :
          /\ pose.topic = Head(queue[b]).topic /\ pose.n = Head(queue[b]).n
          /\ airsim' \in {airsim, [airsim EXCEPT !.shown[b] = pose]}
  BY <1>1, <1>2, UpdateFacts
<1>4. airsim' = [airsim EXCEPT !.shown[b] = pose]
  BY <1>3
<1>5. /\ [airsim EXCEPT !.shown[b] = pose].shown[b] = pose
      /\ \A c \in Actors : c # b => [airsim EXCEPT !.shown[b] = pose].shown[c] = airsim.shown[c]
  BY <1>1, MovedTypes DEF TypeOK
<1>6. b = a /\ airsim'.shown[a] = pose
  BY <1>4, <1>5
<1>7. queue[a] \in Seq(Messages) /\ queue[a] # <<>>
  BY <1>1, <1>2, <1>6 DEF Update, Bridge!updateMsg, TypeOK
<1>8. Head(queue[a]) = queue[a][1] /\ 1 \in DOMAIN queue[a]
  BY <1>7, TailFacts
<1>9. pose.topic = Bridge!TopicOf[a] /\ airsim.shown[a].n < pose.n
  BY <1>1, <1>3, <1>6, <1>8 DEF QueueOf
<1>10. airsim.shown[a].n \in Int /\ pose.n \in Int
  BY <1>1, <1>3, <1>6, <1>8, NumberTypes
<1>11. Bridge!TopicOf[a] = IF a = "Drone" THEN "pub_pose" ELSE "bball_pub_pose"
  BY DEF Bridge!TopicOf, Actors, Bridge!Actors
<1> QED BY <1>6, <1>9, <1>10, <1>11

\* Actors show poses of their own topic and never go back, across crashes,
\* restarts, lost messages and failing remote calls.
THEOREM PosesInOrder == Spec => OwnPosesInOrder
<1> DEFINE Forward ==
        \A a \in Actors :
            LET old == airsim.shown[a]  new == airsim'.shown[a]
            IN  new # old => /\ new.topic = IF a = "Drone" THEN "pub_pose" ELSE "bball_pub_pose"
                             /\ new.n > old.n
<1>1. IInv /\ [Next]_vars => Forward
  BY StepInOrder
<1>2. OwnPosesInOrder <=> [][Forward]_vars
  BY DEF OwnPosesInOrder
<1> HIDE DEF Forward
<1> QED BY <1>1, <1>2, Invariance, PTL DEF Spec
==============================================================================
