--------------------------- MODULE SimulinkRos_proof ---------------------------
(***************************************************************************)
(* Proofs about the ROS blocks of a model for any set of publishers, any   *)
(* linking of the library, any queue and any number of runs, steps, SIGINTs *)
(* and messages.  Two of the results need each block to be linked with a   *)
(* copy of the library of its own, as MEX files are.                       *)
(***************************************************************************)
EXTENDS SimulinkRos, SequenceTheorems, TLAPS

\* Every block that uses ros_msg_iface has its own copy of it, as a MEX file
\* has; not so in an executable with two of them.
OneCopyEach == \A a, b \in LibPublishers : LibOf[a] = LibOf[b] => a = b

\* The node a publisher sends through.
Handle(b) == IF b \in LibPublishers THEN pPoseNode[LibOf[b]] ELSE pwork[b]

\* mdlStart of block b was called in this run, mdlTerminate was not.
Started(b) == phase = "stepping" \/ (phase = "starting" /\ b \notin pending)

\* The pointers of the publishers lead to nodes that exist and were made by a
\* block that has the pointer.
Handles ==
    /\ \A l \in Pub!Libs : pPoseNode[l] # NoNode =>
           /\ pPoseNode[l] \in nodes
           /\ pPoseNode[l].block \in LibPublishers /\ LibOf[pPoseNode[l].block] = l
    /\ \A b \in NonlibPublishers : pwork[b] # NoNode =>
           pwork[b] \in nodes /\ pwork[b].block = b

\* Where the engine is says how far the steps and psw_sub are.
Phased ==
    /\ pswStart = "initialized" => phase = "starting" /\ "psw" \in pending
    /\ phase = "starting" => step = 0
    /\ phase = "stepping" => step # 0
    /\ phase = "idle" => node = NoNode
    /\ phase = "starting" /\ pswStart = "none" => node = NoNode
    /\ phase = "terminating" /\ "psw" \notin pending => node = NoNode

\* The node of psw_sub was made no later than in the present context.
Dated == node.gen <= context.gen /\ subscription.gen <= context.gen

\* In a run without a SIGINT, each block that was started is connected.
StartedLive ==
    ~interrupted =>
        /\ \A b \in Pub!Publishers : Started(b) => Live(Handle(b), context)
        /\ Started("psw") => Live(subscription, context)
        /\ pswStart = "initialized" => Live(node, context)

\* The queue of a live subscription holds the last messages; when it is empty
\* although there was one, the buffer holds the last.
Recent ==
    Live(subscription, context) =>
        /\ \A k \in DOMAIN queue : queue[k] = sent - Len(queue) + k
        /\ queue = <<>> /\ sent > joined => dataReceived /\ latestData = sent

\* A node of another run is older than the context, or that has been shut down:
\* each mdlTerminate does so, and every block is terminated before the next run.
Aged ==
    /\ \A n \in nodes :
           /\ n.gen <= context.gen /\ n.run <= run
           /\ context.ok /\ n.gen = context.gen => n.run = run
    /\ phase = "idle" => ~context.ok
    /\ phase = "terminating" /\ pending # Blocks => ~context.ok

\* Every node of the library is the one its copy points to, and there is none
\* before the block is started and after it is terminated.
Pointed ==
    /\ \A n \in nodes : n.block \in LibPublishers => pPoseNode[LibOf[n.block]] = n
    /\ \A b \in LibPublishers :
           /\ phase = "idle" => pPoseNode[LibOf[b]] = NoNode
           /\ phase = "starting" /\ b \in pending => pPoseNode[LibOf[b]] = NoNode
           /\ phase = "terminating" /\ b \notin pending => pPoseNode[LibOf[b]] = NoNode

\* A topic has the poses of its block in order; none before the first step, one
\* for each step while the block is connected.
Mirrored ==
    \A b \in Pub!Publishers :
        /\ topic[b] = [k \in 1 .. Len(topic[b]) |-> <<b, k>>]
        /\ phase = "starting" => topic[b] = <<>>
        /\ phase = "stepping" /\ Live(Handle(b), context) =>
               Len(topic[b]) = IF b \in pending THEN step - 1 ELSE step

\* The inductive invariant, and the part of it that depends on the linking.
IInv == TypeOK /\ Handles /\ Phased /\ Dated /\ StartedLive /\ Recent /\ Aged
MexInv == Pointed /\ Mirrored

-----------------------------------------------------------------------------
(* What the operations of the blocks do, in the variables of the composition *)

\* The facts about the constants that the steps need.
LEMMA Constants ==
    /\ Pub!Publishers = LibPublishers \cup NonlibPublishers
    /\ Pub!Libs = {LibOf[b] : b \in LibPublishers}
    /\ Blocks = LibPublishers \cup NonlibPublishers \cup {"psw"}
    /\ LibPublishers \cap NonlibPublishers = {}
    /\ "psw" \notin LibPublishers \cup NonlibPublishers
    /\ "none" \notin LibPublishers \cup NonlibPublishers
    /\ QueueDepth \in Nat \ {0} /\ MaxRuns \in Nat /\ MaxSteps \in Nat
    /\ MaxSigints \in Nat /\ MaxMessages \in Nat
BY PublishersAssumption, DepthAssumption, BoundsAssumption
   DEF Pub!Publishers, Pub!Libs, Blocks

\* A context only gets newer, and one that is ok stays as it is.
LEMMA ContextOps ==
    ASSUME NEW c \in Contexts
    PROVE  /\ Ensured(c) \in Contexts /\ Ensured(c).ok
           /\ c.ok => Ensured(c) = c
           /\ ~c.ok => Ensured(c).gen = c.gen + 1
           /\ c.gen <= Ensured(c).gen
           /\ ShutDown(c) \in Contexts /\ ~ShutDown(c).ok /\ ShutDown(c).gen = c.gen
<1>1. c.ok \in BOOLEAN /\ c.gen \in Nat
  BY DEF Contexts
<1>2. c.ok => Ensured(c) = c
  BY DEF Ensured
<1>3. ~c.ok => Ensured(c) = [ok |-> TRUE, gen |-> c.gen + 1]
  BY DEF Ensured
<1>4. ShutDown(c) \in Contexts
  BY DEF Contexts, ShutDown
<1>5. ~ShutDown(c).ok
  BY DEF Contexts, ShutDown
<1>6. ShutDown(c).gen = c.gen
  BY DEF Contexts, ShutDown
<1>7. CASE c.ok
  BY <1>1, <1>2, <1>4, <1>5, <1>6, <1>7
<1>8. CASE ~c.ok
  <2>1. Ensured(c) \in Contexts
    <3>1. [ok |-> TRUE, gen |-> c.gen + 1] \in Contexts
      BY <1>1 DEF Contexts
    <3> QED BY <1>3, <1>8, <3>1
  <2>2. Ensured(c).ok
    BY <1>3, <1>8
  <2>3. Ensured(c).gen = c.gen + 1
    BY <1>3, <1>8
  <2> QED BY <1>1, <1>4, <1>5, <1>6, <1>8, <2>1, <2>2, <2>3
<1> QED BY <1>7, <1>8

\* The node that block b makes in a run.
NewNode(b) == [block |-> b, run |-> run, gen |-> Ensured(context).gen]

\* A new node is live in the context that was ensured for it.
LEMMA NewNodeFacts ==
    ASSUME TypeOK, NEW b \in Blocks
    PROVE  /\ NewNode(b) \in Nodes /\ NewNode(b) # NoNode /\ NewNode(b).block = b
           /\ NewNode(b).gen = Ensured(context).gen
           /\ Live(NewNode(b), Ensured(context))
<1>1. context \in Contexts /\ run \in 0 .. MaxRuns
  BY DEF TypeOK
<1>2. Ensured(context) \in Contexts /\ Ensured(context).ok
  BY <1>1, ContextOps
<1>3. Ensured(context).gen \in Nat
  BY <1>2 DEF Contexts
<1>4. b # "none"
  BY Constants
<1> QED BY <1>1, <1>2, <1>3, <1>4 DEF NewNode, Nodes, NoNode, Live

\* ros_msg_iface::start, or mdlStart of a block without it.
LEMMA StartEffect ==
    ASSUME NEW b \in Pub!Publishers, StartPublisher(b)
    PROVE  /\ phase = "starting" /\ b \in pending /\ pswStart # "initialized"
           /\ context' = Ensured(context)
           /\ nodes' = nodes \cup {NewNode(b)}
           /\ \/ /\ b \in LibPublishers
                 /\ pPoseNode' = [pPoseNode EXCEPT ![LibOf[b]] = NewNode(b)]
                 /\ pwork' = pwork
              \/ /\ b \in NonlibPublishers
                 /\ pwork' = [pwork EXCEPT ![b] = NewNode(b)]
                 /\ pPoseNode' = pPoseNode
           /\ topic' = topic
           /\ pending' = pending \ {b}
           /\ UNCHANGED <<pswVars, phase, run, step, pswStart, interrupted, joined, sigints>>
BY DEF StartPublisher, Pub!mdlStart, Pub!start, Pub!nonlibStart, Pub!NodeFor, Pub!Ensured,
       Ensured, NewNode

\* A pose goes to the topic of the block whose node it is sent through.
LEMMA PublishEffect ==
    ASSUME NEW b \in Pub!Publishers, Publish(b)
    PROVE  /\ phase = "stepping" /\ b \in pending
           /\ topic' = IF Live(Handle(b), context)
                       THEN [topic EXCEPT ![Handle(b).block] = Append(@, <<b, step>>)]
                       ELSE topic
           /\ pending' = pending \ {b}
           /\ UNCHANGED <<context, nodes, pPoseNode, pwork, pswVars, phase, run, step, pswStart,
                          interrupted, joined, sigints>>
<1>1. CASE b \in LibPublishers
  BY <1>1, Constants DEF Publish, Pub!mdlOutputs, Pub!outputs, Pub!Publish, Pub!Live, Pub!NoNode,
     Live, NoNode, Handle
<1>2. CASE b \in NonlibPublishers
  BY <1>2, Constants DEF Publish, Pub!mdlOutputs, Pub!nonlibOutputs, Pub!Publish, Pub!Live,
     Pub!NoNode, Live, NoNode, Handle
<1> QED BY <1>1, <1>2, Constants

\* ros_msg_iface::terminate, or mdlTerminate of a block without it.
LEMMA TerminateEffect ==
    ASSUME NEW b \in Pub!Publishers, TerminatePublisher(b)
    PROVE  /\ phase = "terminating" /\ b \in pending
           /\ context' = ShutDown(context)
           /\ \/ /\ b \in LibPublishers
                 /\ nodes' = nodes \ {pPoseNode[LibOf[b]]}
                 /\ pPoseNode' = [pPoseNode EXCEPT ![LibOf[b]] = NoNode]
              \/ /\ b \in NonlibPublishers
                 /\ nodes' = nodes /\ pPoseNode' = pPoseNode
           /\ pwork' = pwork /\ topic' = topic
           /\ pending' = pending \ {b}
           /\ UNCHANGED <<pswVars, phase, run, step, pswStart, interrupted, joined, sigints>>
BY DEF TerminatePublisher, Pub!mdlTerminate, Pub!terminate, Pub!nonlibTerminate, Pub!pubVars,
       Pub!ShutDown, ShutDown, Pub!NoNode, NoNode

\* A SIGINT while a node is made, in a publisher or in psw_sub.
LEMMA ThrowsEffect ==
    ASSUME StartThrows
    PROVE  /\ phase = "starting" /\ pswStart # "initialized" /\ sigints < MaxSigints
           /\ context' = ShutDown(Ensured(context))
           /\ phase' = "terminating" /\ pending' = Blocks
           /\ interrupted' = TRUE /\ sigints' = sigints + 1
           /\ UNCHANGED <<nodes, pPoseNode, pwork, topic, pswVars, run, step, pswStart, joined>>
BY DEF StartThrows, Pub!startThrows, Pub!pubVars, pubVars, Psw!initializeThrows, Psw!pswVars,
       pswVars, Pub!ShutDown, Psw!ShutDown, ShutDown, Pub!Ensured, Psw!Ensured, Ensured

\* Psw!Live, Psw!Enqueue and the like are those of the composition.
LEMMA SameOps ==
    /\ \A n, c : Psw!Live(n, c) = Live(n, c)
    /\ \A q, m, d : Psw!Enqueue(q, m, d) = Enqueue(q, m, d)
    /\ \A c : Psw!Ensured(c) = Ensured(c) /\ Psw!ShutDown(c) = ShutDown(c)
    /\ Psw!NoNode = NoNode
BY DEF Psw!Live, Live, Psw!Enqueue, Enqueue, Psw!Ensured, Ensured, Psw!ShutDown, ShutDown,
       Psw!NoNode, NoNode

\* The queue with the next message has the last messages sent, if it had those
\* before.
LEMMA EnqueueLast ==
    ASSUME TypeOK, sent < MaxMessages
    PROVE  LET e == Enqueue(queue, sent + 1, QueueDepth)
           IN  /\ e \in Seq(1 .. MaxMessages) /\ Len(e) <= QueueDepth /\ e # <<>>
               /\ (\A k \in DOMAIN queue : queue[k] = sent - Len(queue) + k)
                      => \A k \in DOMAIN e : e[k] = (sent + 1) - Len(e) + k
<1> DEFINE q == queue
           m == sent + 1
           M == 1 .. MaxMessages
           depth == QueueDepth
<1>z. /\ M \subseteq Nat /\ q \in Seq(M) /\ m \in M /\ depth \in Nat \ {0}
      /\ Len(q) <= depth /\ m - 1 = sent
  BY Constants DEF TypeOK
<1> HIDE DEF q, m, M, depth
<1> DEFINE e == Enqueue(q, m, depth)
<1>0. Len(q) \in Nat /\ DOMAIN q = 1 .. Len(q) /\ m \in Nat
  BY <1>z
<1>1. ASSUME Len(q) < depth
      PROVE  /\ e \in Seq(M) /\ Len(e) <= depth /\ e # <<>>
             /\ (\A k \in DOMAIN q : q[k] = (m - 1) - Len(q) + k)
                    => \A k \in DOMAIN e : e[k] = m - Len(e) + k
  <2>1. e = Append(q, m)
    BY <1>1 DEF Enqueue
  <2>2. /\ e \in Seq(M) /\ Len(e) = Len(q) + 1 /\ DOMAIN e = 1 .. (Len(q) + 1)
        /\ e[Len(q) + 1] = m /\ \A k \in 1 .. Len(q) : e[k] = q[k]
    BY <1>z, <2>1
  <2> HIDE DEF e
  <2>3. e # <<>>
    BY <1>0, <2>2
  <2>4. ASSUME \A k \in DOMAIN q : q[k] = (m - 1) - Len(q) + k
        PROVE  \A k \in DOMAIN e : e[k] = m - Len(e) + k
    <3> SUFFICES ASSUME NEW k \in DOMAIN e PROVE e[k] = m - Len(e) + k
      OBVIOUS
    <3>1. CASE k = Len(q) + 1
      BY <1>0, <2>2, <3>1
    <3>2. CASE k \in 1 .. Len(q)
      BY <1>0, <2>2, <2>4, <3>2
    <3> QED BY <1>0, <2>2, <3>1, <3>2
  <2> QED BY <1>0, <1>1, <1>z, <2>2, <2>3, <2>4
<1>2. ASSUME ~(Len(q) < depth)
      PROVE  /\ e \in Seq(M) /\ Len(e) <= depth /\ e # <<>>
             /\ (\A k \in DOMAIN q : q[k] = (m - 1) - Len(q) + k)
                    => \A k \in DOMAIN e : e[k] = m - Len(e) + k
  <2> DEFINE r == Tail(q)
  <2>1. e = Append(r, m)
    BY <1>2 DEF Enqueue
  <2>2. /\ q # <<>> /\ Len(q) \in Nat \ {0}
        /\ r \in Seq(M) /\ Len(r) = Len(q) - 1
        /\ \A k \in 1 .. (Len(q) - 1) : r[k] = q[k + 1]
    BY <1>z, <1>2
  <2> HIDE DEF r
  <2>3. /\ e \in Seq(M) /\ Len(e) = Len(r) + 1 /\ DOMAIN e = 1 .. (Len(r) + 1)
        /\ e[Len(r) + 1] = m /\ \A k \in 1 .. Len(r) : e[k] = r[k]
    BY <1>z, <2>1, <2>2
  <2> HIDE DEF e
  <2>4. e # <<>>
    BY <2>2, <2>3
  <2>5. ASSUME \A k \in DOMAIN q : q[k] = (m - 1) - Len(q) + k
        PROVE  \A k \in DOMAIN e : e[k] = m - Len(e) + k
    <3> SUFFICES ASSUME NEW k \in DOMAIN e PROVE e[k] = m - Len(e) + k
      OBVIOUS
    <3>1. CASE k = Len(r) + 1
      BY <1>0, <2>2, <2>3, <3>1
    <3>2. CASE k \in 1 .. Len(r)
      <4>1. e[k] = q[k + 1] /\ k + 1 \in DOMAIN q
        BY <1>0, <2>2, <2>3, <3>2
      <4>2. q[k + 1] = (m - 1) - Len(q) + (k + 1)
        BY <2>5, <4>1
      <4> QED BY <1>0, <2>2, <2>3, <3>2, <4>1, <4>2
    <3> QED BY <2>2, <2>3, <3>1, <3>2
  <2> QED BY <1>0, <1>z, <2>2, <2>3, <2>4, <2>5
<1>3. /\ e \in Seq(M) /\ Len(e) <= depth /\ e # <<>>
      /\ (\A k \in DOMAIN q : q[k] = (m - 1) - Len(q) + k)
             => \A k \in DOMAIN e : e[k] = m - Len(e) + k
  BY <1>1, <1>2
<1> HIDE DEF e
<1>4. (\A k \in DOMAIN q : q[k] = sent - Len(q) + k)
          => \A k \in DOMAIN q : q[k] = (m - 1) - Len(q) + k
  BY <1>z
<1> QED BY <1>3, <1>4 DEF e, q, m, M, depth

\* Taking messages from the front of the queue.
LEMMA TakeFromQueue ==
    ASSUME NEW M, NEW q \in Seq(M), NEW taken \in 1 .. Len(q)
    PROVE  LET rest == SubSeq(q, taken + 1, Len(q))
           IN  /\ rest \in Seq(M) /\ Len(rest) = Len(q) - taken
               /\ \A k \in DOMAIN rest : taken + k \in DOMAIN q /\ rest[k] = q[taken + k]
               /\ q[taken] \in M
<1> DEFINE rest == SubSeq(q, taken + 1, Len(q))
<1>1. Len(q) \in Nat /\ taken \in Nat \ {0} /\ taken <= Len(q) /\ DOMAIN q = 1 .. Len(q)
  OBVIOUS
<1>2. \A i \in (taken + 1) .. Len(q) : i \in DOMAIN q /\ q[i] \in M
  <2> SUFFICES ASSUME NEW i \in (taken + 1) .. Len(q) PROVE i \in 1 .. Len(q)
    BY <1>1
  <2> QED BY <1>1
<1>3. taken + 1 \in Int /\ Len(q) \in Int
  BY <1>1
<1>6. /\ rest \in Seq(M)
      /\ Len(rest) = IF taken + 1 <= Len(q) THEN Len(q) - (taken + 1) + 1 ELSE 0
      /\ \A k \in 1 .. Len(rest) : rest[k] = q[taken + 1 + k - 1]
  BY <1>1, <1>2, <1>3, SubSeqProperties
<1> HIDE DEF rest
<1>4. /\ Len(rest) = Len(q) - taken
      /\ \A k \in 1 .. (Len(q) - taken) : rest[k] = q[taken + k]
  <2>1. Len(rest) = Len(q) - taken
    BY <1>1, <1>6
  <2>2. \A k \in 1 .. (Len(q) - taken) : taken + 1 + k - 1 = taken + k
    BY <1>1
  <2> QED BY <1>6, <2>1, <2>2
<1>5. DOMAIN rest = 1 .. (Len(q) - taken)
  BY <1>6, <1>4
<1>7. \A k \in DOMAIN rest : taken + k \in DOMAIN q
  BY <1>1, <1>5
<1>8. q[taken] \in M
  BY <1>1
<1> QED BY <1>4, <1>5, <1>6, <1>7, <1>8 DEF rest

-----------------------------------------------------------------------------
(* Types                                                                    *)

\* The conjuncts of TypeOK, by component.
PublisherTypes ==
    /\ context \in Contexts
    /\ nodes \subseteq Nodes
    /\ pPoseNode \in [Pub!Libs -> Nodes]
    /\ pwork \in [NonlibPublishers -> Nodes]
    /\ topic \in [Pub!Publishers -> Seq(Pub!Publishers \X (1 .. MaxSteps))]

\* The conjuncts about psw_sub.
SubscriberTypes ==
    /\ node \in Nodes /\ subscription \in Nodes
    /\ queue \in Seq(1 .. MaxMessages) /\ Len(queue) <= QueueDepth
    /\ latestData \in 0 .. MaxMessages /\ y \in 0 .. MaxMessages /\ sent \in 0 .. MaxMessages
    /\ dataReceived \in BOOLEAN

\* The conjuncts about the engine and the shared context.
EngineTypes ==
    /\ joined \in 0 .. MaxMessages /\ interrupted \in BOOLEAN
    /\ phase \in {"idle", "starting", "stepping", "terminating"}
    /\ run \in 0 .. MaxRuns /\ step \in 0 .. MaxSteps /\ sigints \in 0 .. MaxSigints
    /\ pending \subseteq Blocks
    /\ pswStart \in {"none", "initialized", "done"}

\* TypeOK is the conjunction of its parts.
LEMMA TypeParts == TypeOK <=> PublisherTypes /\ SubscriberTypes /\ EngineTypes
BY DEF TypeOK, PublisherTypes, SubscriberTypes, EngineTypes

\* Steps of the engine and of a SIGINT keep the engine's state type correct.
LEMMA EngineTypeStep == TypeOK /\ [Next]_vars => EngineTypes'
<1> SUFFICES ASSUME EngineTypes, sent \in 0 .. MaxMessages, [Next]_vars PROVE EngineTypes'
  BY TypeParts DEF SubscriberTypes
<1> USE DEF EngineTypes
<1>0. MaxRuns \in Nat /\ MaxSteps \in Nat /\ MaxSigints \in Nat
  BY BoundsAssumption
<1> USE <1>0
<1>1. CASE BeginRun
  <2>1. run' \in 0 .. MaxRuns /\ step' \in 0 .. MaxSteps
    BY <1>1 DEF BeginRun
  <2>2. interrupted' \in BOOLEAN /\ phase' = "starting" /\ pswStart' = "none"
    BY <1>1 DEF BeginRun
  <2> QED BY <1>1, <2>1, <2>2 DEF BeginRun
<1>2. ASSUME NEW b \in Pub!Publishers, StartPublisher(b) PROVE EngineTypes'
  BY <1>2, StartEffect
<1>3. CASE PswInitialize
  BY <1>3 DEF PswInitialize
<1>4. CASE PswSetup
  BY <1>4 DEF PswSetup
<1>5. CASE StartAborts \/ EndRun \/ RunOver
  BY <1>5 DEF StartAborts, EndRun, RunOver
<1>6. CASE BeginStep
  BY <1>6 DEF BeginStep
<1>7. ASSUME NEW b \in Pub!Publishers, Publish(b) PROVE EngineTypes'
  BY <1>7, PublishEffect
<1>8. CASE PswOutputs \/ PswTerminate
  BY <1>8 DEF PswOutputs, PswTerminate
<1>9. ASSUME NEW b \in Pub!Publishers, TerminatePublisher(b) PROVE EngineTypes'
  BY <1>9, TerminateEffect
<1>10. CASE Sigint
  BY <1>10 DEF Sigint
<1>11. CASE Analyzer \/ UNCHANGED vars
  BY <1>11 DEF Analyzer, vars, engineVars
<1>12. CASE StartThrows
  BY <1>12, ThrowsEffect
<1> QED BY <1>1, <1>2, <1>3, <1>4, <1>5, <1>6, <1>7, <1>8, <1>9, <1>10, <1>11, <1>12
        DEF Next, Engine

\* What a step leaves alone, by component.
LEMMA Untouched ==
    ASSUME [Next]_vars
    PROVE  /\ \/ BeginRun \/ PswInitialize \/ StartThrows \/ PswTerminate \/ Sigint
              \/ \E b \in Pub!Publishers :
                     StartPublisher(b) \/ Publish(b) \/ TerminatePublisher(b)
              \/ UNCHANGED <<context, pubVars>>
           /\ \/ BeginRun \/ PswInitialize \/ PswSetup \/ PswOutputs \/ PswTerminate \/ Analyzer
              \/ UNCHANGED pswVars
<1>1. CASE PswSetup \/ PswOutputs \/ Analyzer
  BY <1>1 DEF PswSetup, Psw!setupSubscriber, PswOutputs, Psw!mdlOutputs, Analyzer,
              Psw!AnalyzerPublishes, pubVars
<1>2. CASE StartAborts \/ BeginStep \/ EndRun \/ RunOver \/ UNCHANGED vars
  BY <1>2 DEF StartAborts, BeginStep, EndRun, RunOver, vars, pubVars, pswVars
<1>3. CASE Sigint
  BY <1>3 DEF Sigint
<1>4. CASE \E b \in Pub!Publishers : StartPublisher(b) \/ Publish(b) \/ TerminatePublisher(b)
  BY <1>4 DEF StartPublisher, Publish, TerminatePublisher
<1>5. CASE StartThrows
  BY <1>5, ThrowsEffect
<1> QED BY <1>1, <1>2, <1>3, <1>4, <1>5 DEF Next, Engine

\* The publishers' state stays type correct.
LEMMA PublisherTypeStep == TypeOK /\ Phased /\ [Next]_vars => PublisherTypes'
<1> SUFFICES ASSUME TypeOK, Phased, [Next]_vars PROVE PublisherTypes'
  OBVIOUS
<1>0. PublisherTypes /\ step \in 0 .. MaxSteps /\ MaxSteps \in Nat
  BY Constants DEF TypeOK, PublisherTypes
<1>a. NoNode \in Nodes
  BY Constants DEF NoNode, Nodes
<1>b. Ensured(context) \in Contexts /\ ShutDown(context) \in Contexts
  BY <1>0, ContextOps DEF PublisherTypes
<1> USE DEF PublisherTypes
<1>1. CASE BeginRun
  <2>1. /\ pwork' = [b \in NonlibPublishers |-> NoNode]
        /\ topic' = [b \in Pub!Publishers |-> <<>>]
        /\ UNCHANGED <<context, nodes, pPoseNode>>
    BY <1>1 DEF BeginRun, Pub!Sizes, Pub!NoNode, NoNode
  <2>2. topic' \in [Pub!Publishers -> Seq(Pub!Publishers \X (1 .. MaxSteps))]
    BY <2>1
  <2> QED BY <1>0, <1>a, <2>1, <2>2
<1>2. ASSUME NEW b \in Pub!Publishers, StartPublisher(b) PROVE PublisherTypes'
  <2>1. NewNode(b) \in Nodes
    BY NewNodeFacts, Constants
  <2>2. nodes' \subseteq Nodes /\ context' \in Contexts /\ topic' = topic
    BY <1>0, <1>2, <1>b, <2>1, StartEffect
  <2>3. pPoseNode' \in [Pub!Libs -> Nodes] /\ pwork' \in [NonlibPublishers -> Nodes]
    BY <1>0, <1>2, <2>1, StartEffect
  <2> QED BY <1>0, <2>2, <2>3
<1>3. ASSUME NEW b \in Pub!Publishers, Publish(b) PROVE PublisherTypes'
  <2> DEFINE M == Pub!Publishers \X (1 .. MaxSteps)
             n == Handle(b).block
  <2>1. step \in 1 .. MaxSteps
    BY <1>0, <1>3, PublishEffect DEF Phased
  <2>2. topic \in [Pub!Publishers -> Seq(M)] /\ <<b, step>> \in M
    BY <1>0, <2>1
  <2>3. topic' \in {topic, [topic EXCEPT ![n] = Append(@, <<b, step>>)]}
    BY <1>3, PublishEffect
  <2>4. UNCHANGED <<context, nodes, pPoseNode, pwork>>
    BY <1>3, PublishEffect
  <2>5. topic' \in [Pub!Publishers -> Seq(M)]
    <3> HIDE DEF M, n
    <3>1. n \in Pub!Publishers => Append(topic[n], <<b, step>>) \in Seq(M)
      BY <2>2
    <3> QED BY <2>2, <2>3, <3>1
  <2> QED BY <1>0, <2>4, <2>5
<1>4. ASSUME NEW b \in Pub!Publishers, TerminatePublisher(b) PROVE PublisherTypes'
  <2>1. nodes' \subseteq Nodes /\ context' \in Contexts /\ topic' = topic /\ pwork' = pwork
    BY <1>0, <1>4, <1>b, TerminateEffect
  <2>2. pPoseNode' \in [Pub!Libs -> Nodes]
    BY <1>0, <1>4, <1>a, TerminateEffect
  <2> QED BY <1>0, <2>1, <2>2
<1>5. CASE PswInitialize
  BY <1>0, <1>5, <1>b, SameOps DEF PswInitialize, Psw!initializeROS, pubVars
<1>6. CASE PswTerminate
  BY <1>0, <1>6, <1>b, SameOps DEF PswTerminate, Psw!cleanupROS, pubVars
<1>7. CASE Sigint
  BY <1>0, <1>7, <1>b DEF Sigint, pubVars
<1>8. CASE UNCHANGED <<context, pubVars>>
  BY <1>0, <1>8 DEF pubVars
<1>9. CASE StartThrows
  <2>1. context' \in Contexts
    BY <1>9, <1>b, ContextOps, ThrowsEffect
  <2> QED BY <1>0, <1>9, <2>1, ThrowsEffect
<1> QED BY <1>1, <1>2, <1>3, <1>4, <1>5, <1>6, <1>7, <1>8, <1>9, Untouched

\* The state of psw_sub stays type correct.
LEMMA SubscriberTypeStep == TypeOK /\ [Next]_vars => SubscriberTypes'
<1> SUFFICES ASSUME TypeOK, [Next]_vars PROVE SubscriberTypes'
  OBVIOUS
<1>0. SubscriberTypes /\ MaxMessages \in Nat /\ QueueDepth \in Nat \ {0}
  BY Constants, TypeParts
<1>a. NoNode \in Nodes
  BY Constants DEF NoNode, Nodes
<1> USE DEF SubscriberTypes
<1>1. CASE BeginRun
  BY <1>0, <1>1 DEF BeginRun, Psw!Sizes
<1>2. CASE PswInitialize
  <2>1. node' = IF node = NoNode THEN NewNode("psw") ELSE node
    BY <1>2, SameOps DEF PswInitialize, Psw!initializeROS, NewNode
  <2>2. NewNode("psw") \in Nodes
    BY NewNodeFacts, Constants
  <2> QED BY <1>0, <1>2, <2>1, <2>2 DEF PswInitialize, Psw!initializeROS
<1>3. CASE PswSetup
  <2>1. subscription' \in {subscription, node} /\ queue' \in {queue, <<>>}
    BY <1>3 DEF PswSetup, Psw!setupSubscriber
  <2>2. queue' \in Seq(1 .. MaxMessages) /\ Len(queue') <= QueueDepth
    <3>1. Len(<<>>) = 0 /\ <<>> \in Seq(1 .. MaxMessages)
      OBVIOUS
    <3>2. 0 <= QueueDepth
      BY <1>0
    <3>3. queue' = queue \/ queue' = <<>>
      BY <2>1
    <3> QED BY <1>0, <3>1, <3>2, <3>3
  <2> QED BY <1>0, <1>3, <2>1, <2>2 DEF PswSetup, Psw!setupSubscriber
<1>4. CASE PswOutputs
  <2>1. /\ queue' \in Seq(1 .. MaxMessages) /\ Len(queue') <= QueueDepth
        /\ latestData' \in 0 .. MaxMessages /\ dataReceived' \in BOOLEAN
    <3>1. CASE \E taken \in 1 .. Len(queue) :
                  /\ latestData' = queue[taken]
                  /\ queue' = SubSeq(queue, taken + 1, Len(queue))
                  /\ dataReceived' = TRUE
      <4>1. PICK taken \in 1 .. Len(queue) :
                  /\ latestData' = queue[taken]
                  /\ queue' = SubSeq(queue, taken + 1, Len(queue))
                  /\ dataReceived' = TRUE
        BY <3>1
      <4>2. /\ queue' \in Seq(1 .. MaxMessages) /\ Len(queue') = Len(queue) - taken
            /\ latestData' \in 1 .. MaxMessages
        BY <1>0, <4>1, TakeFromQueue
      <4>3. Len(queue) \in Nat /\ Len(queue) <= QueueDepth
        BY <1>0
      <4> QED BY <1>0, <4>1, <4>2, <4>3
    <3>2. CASE UNCHANGED <<queue, latestData, dataReceived>>
      BY <1>0, <3>2
    <3> QED BY <1>4, <3>1, <3>2 DEF PswOutputs, Psw!mdlOutputs
  <2>2. y' \in {0, latestData'}
    BY <1>4 DEF PswOutputs, Psw!mdlOutputs
  <2> QED BY <1>0, <1>4, <2>1, <2>2 DEF PswOutputs, Psw!mdlOutputs
<1>5. CASE PswTerminate
  BY <1>0, <1>5, <1>a, SameOps DEF PswTerminate, Psw!cleanupROS
<1>6. CASE Analyzer
  <2>1. sent + 1 \in 1 .. MaxMessages /\ sent < MaxMessages
    BY <1>0, <1>6 DEF Analyzer
  <2>2. queue' \in {queue, Enqueue(queue, sent + 1, QueueDepth)}
    BY <1>6, SameOps DEF Analyzer, Psw!AnalyzerPublishes
  <2>3. /\ Enqueue(queue, sent + 1, QueueDepth) \in Seq(1 .. MaxMessages)
        /\ Len(Enqueue(queue, sent + 1, QueueDepth)) <= QueueDepth
    BY <2>1, EnqueueLast
  <2> QED BY <1>0, <1>6, <2>1, <2>2, <2>3 DEF Analyzer, Psw!AnalyzerPublishes
<1>7. CASE UNCHANGED pswVars
  BY <1>0, <1>7 DEF pswVars
<1> QED BY <1>1, <1>2, <1>3, <1>4, <1>5, <1>6, <1>7, Untouched

\* A step keeps the state type correct.
LEMMA TypeStep == TypeOK /\ Phased /\ [Next]_vars => TypeOK'
<1>1. TypeOK' <=> PublisherTypes' /\ SubscriberTypes' /\ EngineTypes'
  BY DEF TypeOK, PublisherTypes, SubscriberTypes, EngineTypes
<1> QED BY <1>1, PublisherTypeStep, SubscriberTypeStep, EngineTypeStep

-----------------------------------------------------------------------------
(* Where the run is, and how old the nodes are                              *)

\* The node of psw_sub is made in its mdlStart and reset in its mdlTerminate.
LEMMA PhasedStep == TypeOK /\ Phased /\ [Next]_vars => Phased'
<1> SUFFICES ASSUME TypeOK, Phased, [Next]_vars PROVE Phased'
  OBVIOUS
<1>0. step \in Nat /\ "psw" \in Blocks
  BY Constants DEF TypeOK
<1> USE DEF Phased
<1>1. CASE BeginRun
  BY <1>1 DEF BeginRun, Psw!Sizes
<1>2. ASSUME NEW b \in Pub!Publishers, StartPublisher(b) PROVE Phased'
  <2>1. b # "psw"
    BY Constants
  <2> QED BY <1>2, <2>1, StartEffect DEF pswVars
<1>3. CASE PswInitialize
  BY <1>3 DEF PswInitialize, Psw!initializeROS
<1>4. CASE PswSetup
  BY <1>0, <1>4 DEF PswSetup, Psw!setupSubscriber
<1>5. CASE StartAborts
  BY <1>0, <1>5 DEF StartAborts, pswVars
<1>6. CASE BeginStep
  BY <1>0, <1>6 DEF BeginStep, pswVars
<1>7. ASSUME NEW b \in Pub!Publishers, Publish(b) PROVE Phased'
  BY <1>7, PublishEffect DEF pswVars
<1>8. CASE PswOutputs
  <2>1. UNCHANGED <<pswStart, phase, step, node>> /\ phase = "stepping"
    BY <1>8 DEF PswOutputs, Psw!mdlOutputs
  <2> QED BY <2>1
<1>9. CASE EndRun \/ RunOver
  <2>1. UNCHANGED <<pswStart, step, node>>
    BY <1>9 DEF EndRun, RunOver, pswVars
  <2>2. CASE EndRun
    BY <1>0, <2>1, <2>2 DEF EndRun
  <2>3. CASE RunOver
    BY <1>0, <2>1, <2>3 DEF RunOver
  <2> QED BY <1>9, <2>2, <2>3
<1>10. ASSUME NEW b \in Pub!Publishers, TerminatePublisher(b) PROVE Phased'
  <2>1. b # "psw"
    BY Constants
  <2> QED BY <1>10, <2>1, TerminateEffect DEF pswVars
<1>11. CASE PswTerminate
  BY <1>11, SameOps DEF PswTerminate, Psw!cleanupROS
<1>12. CASE Sigint \/ Analyzer \/ UNCHANGED vars
  <2>1. UNCHANGED <<pswStart, phase, step, pending, node>>
    BY <1>12 DEF Sigint, Analyzer, Psw!AnalyzerPublishes, vars, pswVars, engineVars
  <2> QED BY <2>1
<1>13. CASE StartThrows
  BY <1>0, <1>13, ThrowsEffect
<1> QED BY <1>1, <1>2, <1>3, <1>4, <1>5, <1>6, <1>7, <1>8, <1>9, <1>10, <1>11, <1>12, <1>13
        DEF Next, Engine

\* A context is never replaced by an older one.
LEMMA DatedStep == TypeOK /\ Dated /\ [Next]_vars => Dated'
<1> SUFFICES ASSUME TypeOK, Dated, [Next]_vars PROVE Dated'
  OBVIOUS
<1>0. /\ context \in Contexts /\ context.gen \in Nat /\ Ensured(context).gen \in Nat
      /\ context.gen <= Ensured(context).gen /\ ShutDown(context).gen = context.gen
      /\ node.gen \in Nat /\ subscription.gen \in Nat /\ NoNode.gen = 0
  <2>1. context \in Contexts /\ node \in Nodes /\ subscription \in Nodes
    BY DEF TypeOK
  <2>2. Ensured(context) \in Contexts
    BY <2>1, ContextOps
  <2> QED BY <2>1, <2>2, ContextOps DEF Contexts, Nodes, NoNode
<1> USE DEF Dated
<1>1. CASE BeginRun
  BY <1>1 DEF BeginRun, Psw!Sizes
<1>2. ASSUME NEW b \in Pub!Publishers, StartPublisher(b) PROVE Dated'
  BY <1>0, <1>2, StartEffect DEF pswVars
<1>3. CASE PswInitialize
  <2>1. /\ context' = Ensured(context) /\ subscription' = subscription
        /\ node' = IF node = NoNode THEN NewNode("psw") ELSE node
    BY <1>3, SameOps DEF PswInitialize, Psw!initializeROS, NewNode
  <2>2. NewNode("psw").gen = Ensured(context).gen
    BY DEF NewNode
  <2> QED BY <1>0, <2>1, <2>2
<1>4. CASE PswSetup
  BY <1>4 DEF PswSetup, Psw!setupSubscriber
<1>5. ASSUME NEW b \in Pub!Publishers, Publish(b) PROVE Dated'
  BY <1>5, PublishEffect DEF pswVars
<1>6. ASSUME NEW b \in Pub!Publishers, TerminatePublisher(b) PROVE Dated'
  BY <1>0, <1>6, TerminateEffect DEF pswVars
<1>7. CASE PswTerminate
  BY <1>0, <1>7, SameOps DEF PswTerminate, Psw!cleanupROS
<1>8. CASE Sigint
  BY <1>0, <1>8 DEF Sigint, pswVars
<1>9. CASE PswOutputs \/ Analyzer
  BY <1>9 DEF PswOutputs, Psw!mdlOutputs, Analyzer, Psw!AnalyzerPublishes
<1>10. CASE StartAborts \/ BeginStep \/ EndRun \/ RunOver \/ UNCHANGED vars
  BY <1>10 DEF StartAborts, BeginStep, EndRun, RunOver, vars, pswVars
<1>11. CASE StartThrows
  <2>1. context'.gen = Ensured(context).gen
    BY <1>0, <1>11, ContextOps, ThrowsEffect
  <2> QED BY <1>0, <1>11, <2>1, ThrowsEffect DEF pswVars
<1> QED BY <1>1, <1>2, <1>3, <1>4, <1>5, <1>6, <1>7, <1>8, <1>9, <1>10, <1>11 DEF Next, Engine

-----------------------------------------------------------------------------
(* The pointers of the publishers                                           *)

\* Whoever deletes a node clears the pointer to it.
LEMMA HandlesStep == TypeOK /\ Handles /\ [Next]_vars => Handles'
<1> SUFFICES ASSUME TypeOK, Handles, [Next]_vars PROVE Handles'
  OBVIOUS
<1>0. /\ pPoseNode \in [Pub!Libs -> Nodes] /\ pwork \in [NonlibPublishers -> Nodes]
      /\ \A b \in LibPublishers : LibOf[b] \in Pub!Libs
      /\ Pub!Publishers = LibPublishers \cup NonlibPublishers
      /\ LibPublishers \cap NonlibPublishers = {}
  BY Constants DEF TypeOK
<1>1. CASE UNCHANGED <<nodes, pPoseNode, pwork>>
  BY <1>1 DEF Handles
<1>2. CASE BeginRun
  <2>1. nodes' = nodes /\ pPoseNode' = pPoseNode /\ pwork' = [b \in NonlibPublishers |-> NoNode]
    BY <1>2 DEF BeginRun, Pub!Sizes, Pub!NoNode, NoNode
  <2> QED BY <2>1 DEF Handles
<1>3. ASSUME NEW b \in Pub!Publishers, StartPublisher(b) PROVE Handles'
  <2>1. NewNode(b) # NoNode /\ NewNode(b).block = b
    BY Constants, NewNodeFacts
  <2>2. nodes' = nodes \cup {NewNode(b)}
    BY <1>3, StartEffect
  <2>3. CASE b \in LibPublishers
    <3>1. pPoseNode' = [pPoseNode EXCEPT ![LibOf[b]] = NewNode(b)] /\ pwork' = pwork
      BY <1>0, <1>3, <2>3, StartEffect
    <3> QED BY <1>0, <2>1, <2>2, <2>3, <3>1 DEF Handles
  <2>4. CASE b \in NonlibPublishers
    <3>1. pwork' = [pwork EXCEPT ![b] = NewNode(b)] /\ pPoseNode' = pPoseNode
      BY <1>0, <1>3, <2>4, StartEffect
    <3> QED BY <1>0, <2>1, <2>2, <2>4, <3>1 DEF Handles
  <2> QED BY <1>0, <2>3, <2>4
<1>4. ASSUME NEW b \in Pub!Publishers, TerminatePublisher(b) PROVE Handles'
  <2>1. CASE b \in LibPublishers
    <3>1. /\ nodes' = nodes \ {pPoseNode[LibOf[b]]} /\ pwork' = pwork
          /\ pPoseNode' = [pPoseNode EXCEPT ![LibOf[b]] = NoNode]
      BY <1>0, <1>4, <2>1, TerminateEffect
    <3>2. \A l \in Pub!Libs : l # LibOf[b] /\ pPoseNode[l] # NoNode
                                  => pPoseNode[l] # pPoseNode[LibOf[b]]
      BY <1>0, <2>1 DEF Handles
    <3>3. \A c \in NonlibPublishers : pwork[c] # NoNode => pwork[c] # pPoseNode[LibOf[b]]
      BY <1>0, <2>1 DEF Handles
    <3> QED BY <1>0, <2>1, <3>1, <3>2, <3>3 DEF Handles
  <2>2. CASE b \in NonlibPublishers
    BY <1>0, <1>1, <1>4, <2>2, TerminateEffect
  <2> QED BY <1>0, <2>1, <2>2
<1>5. ASSUME NEW b \in Pub!Publishers, Publish(b) PROVE UNCHANGED <<nodes, pPoseNode, pwork>>
  BY <1>5, PublishEffect
<1>6. CASE PswInitialize \/ PswTerminate \/ Sigint
  BY <1>1, <1>6 DEF PswInitialize, PswTerminate, Sigint, pubVars
<1>7. CASE UNCHANGED <<context, pubVars>>
  BY <1>1, <1>7 DEF pubVars
<1>8. CASE StartThrows
  BY <1>1, <1>8, ThrowsEffect
<1> QED BY <1>1, <1>2, <1>3, <1>4, <1>5, <1>6, <1>7, <1>8, Untouched

-----------------------------------------------------------------------------
(* Connected blocks and recent messages                                     *)

\* A node stays live while the context is ok, and comes to life in no other way.
LEMMA LiveStays ==
    ASSUME TypeOK, NEW n
    PROVE  /\ Live(n, context) => Live(n, Ensured(context))
           /\ n.gen \in Nat /\ n.gen <= context.gen /\ Live(n, Ensured(context))
                  => Live(n, context)
           /\ ~Live(n, ShutDown(context))
<1>1. context \in Contexts /\ context.gen \in Nat
  BY DEF TypeOK, Contexts
<1> QED BY <1>1, ContextOps DEF Live

\* Only a SIGINT or mdlTerminate ends the context of a started block.
LEMMA StartedLiveStep == TypeOK /\ Phased /\ StartedLive /\ [Next]_vars => StartedLive'
<1> SUFFICES ASSUME TypeOK, Phased, StartedLive, [Next]_vars, ~interrupted' PROVE StartedLive'
  BY DEF StartedLive
<1> DEFINE Connect ==
              /\ \A b \in Pub!Publishers : Started(b) => Live(Handle(b), context)
              /\ Started("psw") => Live(subscription, context)
              /\ pswStart = "initialized" => Live(node, context)
<1>0. /\ pPoseNode \in [Pub!Libs -> Nodes] /\ pwork \in [NonlibPublishers -> Nodes]
      /\ \A b \in LibPublishers : LibOf[b] \in Pub!Libs
      /\ Pub!Publishers = LibPublishers \cup NonlibPublishers
      /\ LibPublishers \cap NonlibPublishers = {}
      /\ "psw" \notin Pub!Publishers /\ Blocks = Pub!Publishers \cup {"psw"}
  BY Constants DEF TypeOK
<1>a. Connect' => StartedLive'
  BY DEF StartedLive
<1>b. ~interrupted => Connect
  BY DEF StartedLive
<1>1. CASE BeginRun
  <2>1. phase' = "starting" /\ pending' = Blocks /\ pswStart' = "none"
    BY <1>1 DEF BeginRun
  <2> QED BY <1>0, <1>a, <2>1 DEF Started
<1>2. ASSUME NEW b \in Pub!Publishers, StartPublisher(b) PROVE StartedLive'
  <2>1. /\ UNCHANGED <<interrupted, phase, pswStart, subscription, node>>
        /\ context' = Ensured(context) /\ pending' = pending \ {b}
        /\ pswStart # "initialized"
    BY <1>2, StartEffect DEF pswVars
  <2>2. Connect
    BY <1>b, <2>1
  <2>3. Live(NewNode(b), context')
    BY <1>0, <2>1, NewNodeFacts
  <2>4. Handle(b)' = NewNode(b)
    BY <1>0, <1>2, StartEffect DEF Handle
  <2>5. ASSUME NEW c \in Pub!Publishers, c # b
        PROVE  Handle(c)' \in {Handle(c), NewNode(b)}
    BY <1>0, <1>2, StartEffect DEF Handle
  <2>6. ASSUME NEW c \in Pub!Publishers, c # b, Started(c)' PROVE Live(Handle(c)', context')
    <3>1. Live(Handle(c), context)
      BY <2>1, <2>2, <2>6 DEF Started
    <3>2. Live(Handle(c), context')
      BY <2>1, <3>1, LiveStays
    <3> QED BY <2>3, <2>5, <2>6, <3>2
  <2>7. Started("psw")' => Live(subscription, context)'
    BY <1>0, <2>1, <2>2, LiveStays DEF Started
  <2>8. \A c \in Pub!Publishers : Started(c)' => Live(Handle(c)', context')
    BY <2>3, <2>4, <2>6
  <2>9. pswStart' # "initialized"
    BY <2>1
  <2> QED BY <1>a, <2>7, <2>8, <2>9
<1>3. CASE PswInitialize
  <2>5. /\ context' = Ensured(context)
        /\ node' = IF node = NoNode THEN NewNode("psw") ELSE node
    BY <1>3, SameOps DEF PswInitialize, Psw!initializeROS, NewNode
  <2>6. /\ UNCHANGED <<interrupted, phase, pending, subscription, pPoseNode, pwork>>
        /\ phase = "starting" /\ "psw" \in pending /\ pswStart = "none"
    BY <1>3 DEF PswInitialize, Psw!initializeROS, pubVars
  <2>1. /\ UNCHANGED <<interrupted, phase, pending, subscription, pPoseNode, pwork>>
        /\ context' = Ensured(context) /\ node = NoNode /\ node' = NewNode("psw")
        /\ phase = "starting" /\ "psw" \in pending
    BY <2>5, <2>6 DEF Phased
  <2>2. Connect
    BY <1>b, <2>1
  <2>3. Live(node', context')
    BY <1>0, <2>1, NewNodeFacts
  <2>4. \A c \in Pub!Publishers : Handle(c)' = Handle(c)
    BY <2>1 DEF Handle
  <2> QED BY <1>a, <2>1, <2>2, <2>3, <2>4, LiveStays DEF Started
<1>4. CASE PswSetup
  <2>1. /\ UNCHANGED <<context, interrupted, pPoseNode, pwork, node>>
        /\ pswStart = "initialized" /\ pswStart' = "done" /\ phase = "starting"
    BY <1>4 DEF PswSetup, Psw!setupSubscriber, pubVars, Phased
  <2>2. \/ phase' = "starting" /\ pending' = pending \ {"psw"} /\ subscription' = node
        \/ phase' = "terminating"
    BY <1>4, <2>1 DEF PswSetup, Psw!setupSubscriber
  <2>3. Connect
    BY <1>b, <2>1
  <2>4. \A c \in Pub!Publishers : Handle(c)' = Handle(c)
    BY <2>1 DEF Handle
  <2> QED BY <1>0, <1>a, <2>1, <2>2, <2>3, <2>4 DEF Started
<1>5. CASE StartAborts \/ EndRun \/ RunOver
  <2>1. /\ phase' \in {"terminating", "idle"} /\ pswStart' = pswStart
        /\ pswStart = "initialized" => phase = "starting"
        /\ pswStart # "initialized"
    BY <1>5 DEF StartAborts, EndRun, RunOver, Phased
  <2> QED BY <1>a, <2>1 DEF Started
<1>6. CASE BeginStep
  <2>1. /\ UNCHANGED <<context, interrupted, pPoseNode, pwork, node, subscription, pswStart>>
        /\ phase \in {"starting", "stepping"} /\ pending = {} /\ phase' = "stepping"
    BY <1>6 DEF BeginStep, pubVars, pswVars
  <2>2. Connect
    BY <1>b, <2>1
  <2>3. \A c \in Pub!Publishers : Handle(c)' = Handle(c)
    BY <2>1 DEF Handle
  <2> QED BY <1>a, <2>1, <2>2, <2>3 DEF Started
<1>7. ASSUME phase = "stepping", phase' = "stepping",
             UNCHANGED <<context, interrupted, pPoseNode, pwork, node, subscription, pswStart>>
      PROVE  StartedLive'
  <2>1. \A c \in Pub!Publishers : Handle(c)' = Handle(c)
    BY <1>7 DEF Handle
  <2> QED BY <1>a, <1>b, <1>7, <2>1 DEF Started
<1>8. CASE PswOutputs
  BY <1>7, <1>8 DEF PswOutputs, Psw!mdlOutputs, pubVars
<1>9. ASSUME NEW b \in Pub!Publishers, Publish(b) PROVE StartedLive'
  BY <1>7, <1>9, PublishEffect DEF pswVars
<1>10. ASSUME NEW b \in Pub!Publishers, TerminatePublisher(b) PROVE StartedLive'
  <2>1. phase' = "terminating" /\ pswStart' = pswStart /\ pswStart # "initialized"
    BY <1>10, TerminateEffect DEF Phased
  <2> QED BY <1>a, <2>1 DEF Started
<1>11. CASE PswTerminate
  <2>1. phase' = "terminating" /\ pswStart' = pswStart /\ pswStart # "initialized"
    BY <1>11 DEF PswTerminate, Phased
  <2> QED BY <1>a, <2>1 DEF Started
<1>12. CASE Sigint
  BY <1>12 DEF Sigint
<1>13. CASE Analyzer \/ UNCHANGED vars
  <2>1. UNCHANGED <<context, interrupted, pPoseNode, pwork, node, subscription, pswStart, phase,
                    pending>>
    BY <1>13 DEF Analyzer, Psw!AnalyzerPublishes, vars, pubVars, pswVars, engineVars
  <2>2. \A c \in Pub!Publishers : Handle(c)' = Handle(c)
    BY <2>1 DEF Handle
  <2> QED BY <1>a, <1>b, <2>1, <2>2 DEF Started
<1>14. CASE StartThrows
  BY <1>14, ThrowsEffect
<1> QED BY <1>1, <1>2, <1>3, <1>4, <1>5, <1>6, <1>8, <1>9, <1>10, <1>11, <1>12, <1>13, <1>14
        DEF Next, Engine

\* The queue drops its oldest message and the buffer takes the newest spun.
LEMMA RecentStep == TypeOK /\ Dated /\ Recent /\ [Next]_vars => Recent'
<1> SUFFICES ASSUME TypeOK, Dated, Recent, [Next]_vars, Live(subscription, context)'
             PROVE  /\ \A k \in DOMAIN queue' : queue'[k] = sent' - Len(queue') + k
                    /\ queue' = <<>> /\ sent' > joined' => dataReceived' /\ latestData' = sent'
  BY DEF Recent
<1>0. /\ subscription.gen \in Nat /\ subscription.gen <= context.gen
      /\ queue \in Seq(1 .. MaxMessages) /\ Len(queue) \in Nat /\ Len(queue) <= QueueDepth
      /\ DOMAIN queue = 1 .. Len(queue)
      /\ sent \in Nat /\ QueueDepth \in Nat \ {0} /\ MaxMessages \in Nat
  BY Constants DEF TypeOK, Dated, Nodes
<1>1. ASSUME UNCHANGED <<subscription, queue, sent, joined, dataReceived, latestData>>,
             Live(subscription, context)
      PROVE  /\ \A k \in DOMAIN queue' : queue'[k] = sent' - Len(queue') + k
             /\ queue' = <<>> /\ sent' > joined' => dataReceived' /\ latestData' = sent'
  BY <1>1 DEF Recent
<1>2. CASE BeginRun
  BY <1>1, <1>2 DEF BeginRun, Psw!Sizes
<1>3. ASSUME NEW b \in Pub!Publishers, StartPublisher(b)
      PROVE  /\ \A k \in DOMAIN queue' : queue'[k] = sent' - Len(queue') + k
             /\ queue' = <<>> /\ sent' > joined' => dataReceived' /\ latestData' = sent'
  <2>1. context' = Ensured(context) /\ UNCHANGED <<pswVars, joined>>
    BY <1>3, StartEffect
  <2>2. Live(subscription, context)
    BY <1>0, <2>1, LiveStays DEF pswVars
  <2> QED BY <1>1, <2>1, <2>2 DEF pswVars
<1>4. CASE PswInitialize
  <2>1. /\ context' = Ensured(context)
        /\ UNCHANGED <<subscription, queue, sent, joined, dataReceived, latestData>>
    BY <1>4, SameOps DEF PswInitialize, Psw!initializeROS
  <2>2. Live(subscription, context)
    BY <1>0, <2>1, LiveStays
  <2> QED BY <1>1, <2>1, <2>2
<1>5. CASE PswSetup
  <2>1. UNCHANGED <<context, sent, dataReceived, latestData>> /\ joined' = sent
    BY <1>5 DEF PswSetup, Psw!setupSubscriber
  <2>2. queue' = <<>> \/ UNCHANGED <<subscription, queue>>
    BY <1>5 DEF PswSetup, Psw!setupSubscriber
  <2>3. ~(sent' > joined')
    BY <1>0, <2>1
  <2>4. CASE queue' = <<>>
    BY <2>3, <2>4
  <2>5. CASE UNCHANGED <<subscription, queue>>
    BY <2>1, <2>3, <2>5 DEF Recent
  <2> QED BY <2>2, <2>4, <2>5
<1>6. CASE PswOutputs
  <2>1. UNCHANGED <<context, subscription, sent, joined>> /\ Live(subscription, context)
    BY <1>6 DEF PswOutputs, Psw!mdlOutputs
  <2>2. CASE queue = <<>>
    BY <1>1, <1>6, <2>1, <2>2 DEF PswOutputs, Psw!mdlOutputs
  <2>3. CASE queue # <<>>
    <3>1. PICK taken \in 1 .. Len(queue) :
              /\ latestData' = queue[taken]
              /\ queue' = SubSeq(queue, taken + 1, Len(queue))
              /\ dataReceived' = TRUE
      BY <1>6, <2>1, <2>3, SameOps DEF PswOutputs, Psw!mdlOutputs
    <3>2. /\ queue' \in Seq(1 .. MaxMessages) /\ Len(queue') = Len(queue) - taken
          /\ \A k \in DOMAIN queue' : taken + k \in DOMAIN queue /\ queue'[k] = queue[taken + k]
      <4> DEFINE M == 1 .. MaxMessages
      <4>1. queue \in Seq(M)
        BY <1>0
      <4> HIDE DEF M
      <4>2. /\ queue' \in Seq(M) /\ Len(queue') = Len(queue) - taken
            /\ \A k \in DOMAIN queue' : taken + k \in DOMAIN queue /\ queue'[k] = queue[taken + k]
        BY <3>1, <4>1, TakeFromQueue, Zenon
      <4> QED BY <4>2 DEF M
    <3>3. \A k \in DOMAIN queue : queue[k] = sent - Len(queue) + k
      BY <2>1 DEF Recent
    <3>4. \A k \in DOMAIN queue' : queue'[k] = sent' - Len(queue') + k
      <4> SUFFICES ASSUME NEW k \in DOMAIN queue' PROVE queue'[k] = sent' - Len(queue') + k
        OBVIOUS
      <4>1. queue'[k] = sent - Len(queue) + (taken + k)
        BY <3>2, <3>3
      <4>2. k \in Nat
        BY <3>2
      <4> QED BY <1>0, <2>1, <3>2, <4>1, <4>2
    <3>5. queue' = <<>> => latestData' = sent'
      <4> SUFFICES ASSUME queue' = <<>> PROVE latestData' = sent'
        OBVIOUS
      <4>1. Len(queue') = 0
        OBVIOUS
      <4>2. taken = Len(queue)
        <5>1. Len(queue) \in Nat /\ Len(queue') = Len(queue) - taken
          BY <1>0, <3>2
        <5> QED BY <4>1, <5>1
      <4> QED BY <1>0, <2>1, <3>1, <3>3, <4>2
    <3> QED BY <3>1, <3>4, <3>5
  <2> QED BY <2>2, <2>3
<1>7. ASSUME NEW b \in Pub!Publishers, Publish(b)
      PROVE  /\ \A k \in DOMAIN queue' : queue'[k] = sent' - Len(queue') + k
             /\ queue' = <<>> /\ sent' > joined' => dataReceived' /\ latestData' = sent'
  BY <1>1, <1>7, PublishEffect DEF pswVars
<1>8. ASSUME NEW b \in Pub!Publishers, TerminatePublisher(b) PROVE FALSE
  <2>1. context' = ShutDown(context) /\ subscription' = subscription
    BY <1>8, TerminateEffect DEF pswVars
  <2> QED BY <2>1, LiveStays
<1>9. CASE PswTerminate
  <2>1. subscription' = NoNode
    BY <1>9, SameOps DEF PswTerminate, Psw!cleanupROS
  <2> QED BY <2>1 DEF Live
<1>10. CASE Sigint
  <2>1. context' = ShutDown(context) /\ subscription' = subscription
    BY <1>10 DEF Sigint, pswVars
  <2> QED BY <2>1, LiveStays
<1>11. CASE Analyzer
  <2>1. /\ UNCHANGED <<context, subscription, joined>> /\ sent' = sent + 1
        /\ Live(subscription, context) /\ sent < MaxMessages
        /\ queue' = Enqueue(queue, sent + 1, QueueDepth)
    BY <1>11, SameOps DEF Analyzer, Psw!AnalyzerPublishes, engineVars
  <2>3. \A k \in DOMAIN queue : queue[k] = sent - Len(queue) + k
    BY <2>1 DEF Recent
  <2>4. queue' # <<>> /\ \A k \in DOMAIN queue' : queue'[k] = (sent + 1) - Len(queue') + k
    BY <2>1, <2>3, EnqueueLast
  <2> QED BY <2>1, <2>4
<1>12. CASE StartAborts \/ BeginStep \/ EndRun \/ RunOver \/ UNCHANGED vars
  BY <1>1, <1>12 DEF StartAborts, BeginStep, EndRun, RunOver, vars, pswVars, engineVars
<1>13. CASE StartThrows
  <2>1. context' = ShutDown(Ensured(context)) /\ context \in Contexts
    BY <1>13, ThrowsEffect DEF TypeOK
  <2>2. ~context'.ok
    BY <2>1, ContextOps
  <2> QED BY <2>2 DEF Live
<1> QED BY <1>2, <1>3, <1>4, <1>5, <1>6, <1>7, <1>8, <1>9, <1>10, <1>11, <1>12, <1>13
        DEF Next, Engine

\* Whatever ends a run, its nodes stay on a context that is never ok again.
LEMMA AgedStep == TypeOK /\ Phased /\ Aged /\ [Next]_vars => Aged'
<1> SUFFICES ASSUME TypeOK, Phased, Aged, [Next]_vars PROVE Aged'
  OBVIOUS
<1>0. /\ context \in Contexts /\ context.gen \in Nat /\ context.ok \in BOOLEAN /\ run \in Nat
      /\ \A n \in nodes : n.gen \in Nat /\ n.run \in Nat
  BY Constants DEF TypeOK, Contexts, Nodes
<1>a. /\ context.gen <= Ensured(context).gen /\ Ensured(context).gen \in Nat
      /\ context.ok => Ensured(context) = context
      /\ ~context.ok => Ensured(context).gen = context.gen + 1
  BY <1>0, ContextOps DEF Contexts
<1>b. ShutDown(context).gen = context.gen /\ ~ShutDown(context).ok
  BY <1>0, ContextOps
<1>1. ASSUME UNCHANGED context, nodes' \subseteq nodes, UNCHANGED run,
             phase' = "idle" => ~context.ok,
             phase' = "terminating" /\ pending' # Blocks => ~context.ok
      PROVE  Aged'
  BY <1>1 DEF Aged
<1>2. ASSUME context'.gen \in Nat, context.gen <= context'.gen, ~context'.ok,
             nodes' \subseteq nodes, UNCHANGED run
      PROVE  Aged'
  BY <1>0, <1>2 DEF Aged
<1>3. CASE BeginRun
  <2>1. /\ UNCHANGED <<context, nodes>> /\ run' = run + 1 /\ phase = "idle" /\ phase' = "starting"
    BY <1>3 DEF BeginRun, Pub!Sizes
  <2> QED BY <1>0, <2>1 DEF Aged
<1>4. ASSUME NEW b \in Pub!Publishers, StartPublisher(b) PROVE Aged'
  <2>1. /\ context' = Ensured(context) /\ nodes' = nodes \cup {NewNode(b)}
        /\ UNCHANGED <<run, phase>> /\ phase = "starting"
    BY <1>4, StartEffect
  <2>2. NewNode(b).run = run /\ NewNode(b).gen = Ensured(context).gen
    BY DEF NewNode
  <2>3. ASSUME NEW n \in nodes
        PROVE  /\ n.gen <= context'.gen /\ n.run <= run
               /\ n.gen = context'.gen => n.run = run
    <3>1. n.gen \in Nat /\ n.gen <= context.gen /\ n.run <= run
      BY <1>0 DEF Aged
    <3>2. CASE context.ok
      BY <1>a, <2>1, <3>1, <3>2 DEF Aged
    <3>3. CASE ~context.ok
      BY <1>0, <1>a, <2>1, <3>1, <3>3
    <3> QED BY <1>0, <3>2, <3>3
  <2> QED BY <1>0, <1>a, <2>1, <2>2, <2>3 DEF Aged
<1>5. CASE PswInitialize
  <2>1. /\ context' = Ensured(context)
        /\ UNCHANGED <<nodes, run, phase>> /\ phase = "starting"
    BY <1>5, SameOps DEF PswInitialize, Psw!initializeROS, pubVars
  <2>2. CASE context.ok
    BY <1>1, <1>a, <2>1, <2>2
  <2>3. CASE ~context.ok
    <3>1. \A n \in nodes : n.gen < context'.gen
      BY <1>0, <1>a, <2>1, <2>3 DEF Aged
    <3> QED BY <1>0, <1>a, <2>1, <3>1 DEF Aged
  <2> QED BY <1>0, <2>2, <2>3
<1>6. CASE PswSetup
  <2>1. /\ UNCHANGED <<context, nodes, run>> /\ phase = "starting"
        /\ phase' = "starting" \/ (phase' = "terminating" /\ pending' = Blocks)
    BY <1>6 DEF PswSetup, Psw!setupSubscriber, pubVars, Phased
  <2> QED BY <1>1, <2>1
<1>7. CASE StartThrows
  <2>1. context' = ShutDown(Ensured(context)) /\ Ensured(context) \in Contexts
    BY <1>0, <1>7, ContextOps, ThrowsEffect
  <2>2. context'.gen = Ensured(context).gen /\ ~context'.ok
    BY <2>1, ContextOps
  <2> QED BY <1>2, <1>7, <1>a, <2>2, ThrowsEffect
<1>8. CASE StartAborts \/ EndRun \/ BeginStep
  BY <1>1, <1>8 DEF StartAborts, EndRun, BeginStep, pubVars
<1>9. CASE RunOver
  <2>1. pending # Blocks
    BY <1>9, Constants DEF RunOver
  <2> QED BY <1>1, <1>9, <2>1 DEF RunOver, pubVars, Aged
<1>10. ASSUME NEW b \in Pub!Publishers, Publish(b) PROVE Aged'
  BY <1>1, <1>10, PublishEffect
<1>11. CASE PswOutputs
  BY <1>1, <1>11 DEF PswOutputs, Psw!mdlOutputs, pubVars
<1>12. ASSUME NEW b \in Pub!Publishers, TerminatePublisher(b) PROVE Aged'
  BY <1>0, <1>2, <1>12, <1>b, TerminateEffect
<1>13. CASE PswTerminate
  BY <1>0, <1>2, <1>13, <1>b, SameOps DEF PswTerminate, Psw!cleanupROS, pubVars
<1>14. CASE Sigint
  BY <1>0, <1>2, <1>14, <1>b DEF Sigint, pubVars
<1>15. CASE Analyzer \/ UNCHANGED vars
  BY <1>15 DEF Analyzer, Psw!AnalyzerPublishes, vars, pubVars, engineVars, Aged
<1> QED BY <1>3, <1>4, <1>5, <1>6, <1>7, <1>8, <1>9, <1>10, <1>11, <1>12, <1>13, <1>14, <1>15
        DEF Next, Engine

-----------------------------------------------------------------------------
(* One copy of the library for each block                                   *)

\* With a copy of its own, a block never overwrites the pointer of another.
LEMMA PointedStep ==
    ASSUME OneCopyEach, TypeOK, Pointed, [Next]_vars
    PROVE  Pointed'
<1>0. /\ pPoseNode \in [Pub!Libs -> Nodes]
      /\ \A b \in LibPublishers : LibOf[b] \in Pub!Libs
      /\ Pub!Publishers = LibPublishers \cup NonlibPublishers
      /\ LibPublishers \cap NonlibPublishers = {}
      /\ "psw" \notin LibPublishers /\ LibPublishers \subseteq Blocks
      /\ "none" \notin LibPublishers
  BY Constants DEF TypeOK
<1>a. NoNode.block = "none"
  BY DEF NoNode
<1>1. CASE BeginRun
  BY <1>0, <1>1 DEF Pointed, BeginRun, Pub!Sizes
<1>2. ASSUME NEW b \in Pub!Publishers, StartPublisher(b) PROVE Pointed'
  <2>1. /\ phase = "starting" /\ phase' = phase /\ b \in pending /\ pending' = pending \ {b}
        /\ nodes' = nodes \cup {NewNode(b)} /\ NewNode(b).block = b
    BY <1>2, StartEffect DEF NewNode
  <2>2. CASE b \in NonlibPublishers
    BY <1>0, <1>2, <2>1, <2>2, StartEffect DEF Pointed
  <2>3. CASE b \in LibPublishers
    <3>1. /\ pPoseNode' = [pPoseNode EXCEPT ![LibOf[b]] = NewNode(b)]
          /\ pPoseNode[LibOf[b]] = NoNode
      BY <1>0, <1>2, <2>1, <2>3, StartEffect DEF Pointed
    <3>2. \A c \in LibPublishers : c # b => pPoseNode'[LibOf[c]] = pPoseNode[LibOf[c]]
      BY <1>0, <2>3, <3>1 DEF OneCopyEach
    <3>3. pPoseNode'[LibOf[b]] = NewNode(b)
      BY <1>0, <2>3, <3>1
    <3>4. ASSUME NEW n \in nodes, n.block \in LibPublishers
          PROVE  pPoseNode'[LibOf[n.block]] = n
      <4>1. pPoseNode[LibOf[n.block]] = n
        BY <3>4 DEF Pointed
      <4>2. n.block # b
        BY <1>0, <1>a, <3>1, <3>4, <4>1
      <4> QED BY <3>2, <3>4, <4>1, <4>2
    <3> QED BY <2>1, <3>2, <3>3, <3>4 DEF Pointed
  <2> QED BY <1>0, <2>2, <2>3
<1>3. ASSUME NEW b \in Pub!Publishers, Publish(b) PROVE Pointed'
  BY <1>3, PublishEffect DEF Pointed
<1>4. ASSUME NEW b \in Pub!Publishers, TerminatePublisher(b) PROVE Pointed'
  <2>1. phase = "terminating" /\ phase' = phase /\ pending' = pending \ {b}
    BY <1>4, TerminateEffect
  <2>2. CASE b \in NonlibPublishers
    BY <1>0, <1>4, <2>1, <2>2, TerminateEffect DEF Pointed
  <2>3. CASE b \in LibPublishers
    <3>1. /\ pPoseNode' = [pPoseNode EXCEPT ![LibOf[b]] = NoNode]
          /\ nodes' = nodes \ {pPoseNode[LibOf[b]]}
      BY <1>0, <1>4, <2>3, TerminateEffect
    <3>2. \A c \in LibPublishers : c # b => pPoseNode'[LibOf[c]] = pPoseNode[LibOf[c]]
      BY <1>0, <2>3, <3>1 DEF OneCopyEach
    <3>3. pPoseNode'[LibOf[b]] = NoNode
      BY <1>0, <2>3, <3>1
    <3>4. ASSUME NEW n \in nodes', n.block \in LibPublishers
          PROVE  pPoseNode'[LibOf[n.block]] = n
      <4>1. pPoseNode[LibOf[n.block]] = n /\ n # pPoseNode[LibOf[b]]
        BY <3>1, <3>4 DEF Pointed
      <4> QED BY <3>2, <3>4, <4>1
    <3> QED BY <2>1, <3>2, <3>3, <3>4 DEF Pointed
  <2> QED BY <1>0, <2>2, <2>3
<1>5. CASE StartAborts \/ EndRun
  <2>1. phase' = "terminating" /\ pending' = Blocks /\ UNCHANGED <<nodes, pPoseNode>>
    BY <1>5 DEF StartAborts, EndRun, pubVars
  <2> QED BY <1>0, <2>1 DEF Pointed
<1>6. CASE BeginStep
  BY <1>6 DEF BeginStep, Pointed, pubVars
<1>7. CASE RunOver
  BY <1>7 DEF RunOver, Pointed, pubVars
<1>8. CASE PswInitialize
  BY <1>8 DEF PswInitialize, Pointed, pubVars
<1>9. CASE PswSetup
  <2>1. /\ UNCHANGED <<nodes, pPoseNode>>
        /\ \/ phase' = phase /\ pending' = pending \ {"psw"}
           \/ phase' = "terminating" /\ pending' = Blocks
    BY <1>9 DEF PswSetup, pubVars
  <2>2. \A b \in LibPublishers : b \in pending' <=> (b \in pending \/ pending' = Blocks)
    BY <1>0, <2>1
  <2>3. CASE phase' = phase /\ pending' = pending \ {"psw"}
    BY <1>0, <2>1, <2>3 DEF Pointed
  <2>4. CASE phase' = "terminating" /\ pending' = Blocks
    BY <1>0, <2>1, <2>4 DEF Pointed
  <2> QED BY <2>1, <2>3, <2>4
<1>10. CASE PswOutputs \/ PswTerminate
  <2>1. /\ UNCHANGED <<nodes, pPoseNode, phase>> /\ pending' = pending \ {"psw"}
    BY <1>10 DEF PswOutputs, PswTerminate, pubVars
  <2> QED BY <1>0, <2>1 DEF Pointed
<1>11. CASE Sigint \/ Analyzer \/ UNCHANGED vars
  BY <1>11 DEF Sigint, Analyzer, vars, pubVars, engineVars, Pointed
<1>12. CASE StartThrows
  BY <1>0, <1>12, ThrowsEffect DEF Pointed
<1> QED BY <1>1, <1>2, <1>3, <1>4, <1>5, <1>6, <1>7, <1>8, <1>9, <1>10, <1>11, <1>12
        DEF Next, Engine

\* With a copy of its own, a block publishes through its own node only.
LEMMA MirroredStep ==
    ASSUME OneCopyEach, TypeOK, Handles, Phased, Mirrored, [Next]_vars
    PROVE  Mirrored'
<1>0. /\ topic \in [Pub!Publishers -> Seq(Pub!Publishers \X (1 .. MaxSteps))]
      /\ pPoseNode \in [Pub!Libs -> Nodes] /\ pwork \in [NonlibPublishers -> Nodes]
      /\ \A b \in LibPublishers : LibOf[b] \in Pub!Libs
      /\ Pub!Publishers = LibPublishers \cup NonlibPublishers
      /\ Blocks = Pub!Publishers \cup {"psw"} /\ "psw" \notin Pub!Publishers
      /\ step \in 0 .. MaxSteps /\ MaxSteps \in Nat
  BY Constants DEF TypeOK
\* A step that publishes nothing.
<1>1. ASSUME UNCHANGED topic,
             phase' = "starting" => phase = "starting",
             phase' # "stepping" \/ \A b \in Pub!Publishers : ~Live(Handle(b), context)'
      PROVE  Mirrored'
  BY <1>1 DEF Mirrored
\* A step of the engine elsewhere.
<1>2. ASSUME UNCHANGED <<topic, phase, step, context, pPoseNode, pwork>>,
             \A b \in Pub!Publishers : b \in pending' <=> b \in pending
      PROVE  Mirrored'
  <2>1. \A b \in Pub!Publishers : Handle(b)' = Handle(b)
    BY <1>2 DEF Handle
  <2> QED BY <1>2, <2>1 DEF Mirrored
<1>3. CASE BeginRun
  <2>1. topic' = [b \in Pub!Publishers |-> <<>>] /\ phase' = "starting"
    BY <1>3 DEF BeginRun, Pub!Sizes
  <2>2. \A b : <<>> = [k \in 1 .. Len(<<>>) |-> <<b, k>>]
    OBVIOUS
  <2> QED BY <2>1, <2>2 DEF Mirrored
<1>4. ASSUME NEW b \in Pub!Publishers, StartPublisher(b) PROVE Mirrored'
  BY <1>1, <1>4, StartEffect
<1>5. CASE PswInitialize
  BY <1>1, <1>5 DEF PswInitialize, pubVars
<1>6. CASE PswSetup
  <2>1. UNCHANGED topic /\ phase = "starting" /\ phase' \in {phase, "terminating"}
    BY <1>6 DEF PswSetup, pubVars, Phased
  <2> QED BY <1>1, <2>1
<1>7. CASE StartAborts \/ EndRun \/ RunOver
  BY <1>1, <1>7 DEF StartAborts, EndRun, RunOver, pubVars
<1>8. CASE BeginStep
  <2>1. /\ UNCHANGED <<topic, context, pPoseNode, pwork>>
        /\ phase \in {"starting", "stepping"} /\ pending = {} /\ phase' = "stepping"
        /\ step' = step + 1 /\ pending' = Blocks
    BY <1>8 DEF BeginStep, pubVars
  <2> SUFFICES ASSUME NEW b \in Pub!Publishers, Live(Handle(b), context)'
               PROVE  Len(topic[b]) = step' - 1
    BY <1>0, <2>1 DEF Mirrored
  <2>2. Live(Handle(b), context)
    BY <2>1 DEF Handle
  <2>3. CASE phase = "starting"
    <3>1. topic[b] = <<>> /\ step = 0 /\ Len(<<>>) = 0
      BY <2>3 DEF Mirrored, Phased
    <3> QED BY <2>1, <3>1
  <2>4. CASE phase = "stepping"
    <3>1. Len(topic[b]) = step
      BY <2>1, <2>2, <2>4 DEF Mirrored
    <3> QED BY <1>0, <2>1, <3>1
  <2> QED BY <2>1, <2>3, <2>4
<1>9. ASSUME NEW b \in Pub!Publishers, Publish(b) PROVE Mirrored'
  <2>1. /\ UNCHANGED <<context, pPoseNode, pwork, phase, step>> /\ phase = "stepping"
        /\ b \in pending /\ pending' = pending \ {b}
        /\ topic' = IF Live(Handle(b), context)
                    THEN [topic EXCEPT ![Handle(b).block] = Append(@, <<b, step>>)]
                    ELSE topic
    BY <1>9, PublishEffect
  <2>2. \A c \in Pub!Publishers : Handle(c)' = Handle(c)
    BY <2>1 DEF Handle
  <2>3. CASE ~Live(Handle(b), context)
    BY <2>1, <2>2, <2>3 DEF Mirrored
  <2>4. CASE Live(Handle(b), context)
    <3>1. Handle(b).block = b
      <4>1. Handle(b) # NoNode
        BY <2>4 DEF Live
      <4> QED BY <1>0, <4>1 DEF Handle, Handles, OneCopyEach
    <3>2. topic' = [topic EXCEPT ![b] = Append(@, <<b, step>>)]
      BY <2>1, <2>4, <3>1
    <3>3. /\ topic'[b] = Append(topic[b], <<b, step>>)
          /\ \A c \in Pub!Publishers : c # b => topic'[c] = topic[c]
      BY <1>0, <3>2
    <3>4. /\ topic[b] = [k \in 1 .. Len(topic[b]) |-> <<b, k>>] /\ Len(topic[b]) = step - 1
          /\ step \in Nat \ {0} /\ <<b, step>> \in Pub!Publishers \X (1 .. MaxSteps)
          /\ topic[b] \in Seq(Pub!Publishers \X (1 .. MaxSteps))
      BY <1>0, <2>1, <2>4 DEF Mirrored, Phased
    <3>5. Len(topic'[b]) = step /\ topic'[b] = [k \in 1 .. Len(topic'[b]) |-> <<b, k>>]
      <4> DEFINE s == topic[b]
                 e == topic'[b]
      <4>1. /\ e = Append(s, <<b, step>>) /\ Len(s) = step - 1 /\ step \in Nat \ {0}
            /\ s \in Seq(Pub!Publishers \X (1 .. MaxSteps))
            /\ <<b, step>> \in Pub!Publishers \X (1 .. MaxSteps)
        BY <3>3, <3>4
      <4>2. s = [k \in 1 .. Len(s) |-> <<b, k>>]
        BY <3>4
      <4> HIDE DEF s, e
      <4>3. /\ e \in Seq(Pub!Publishers \X (1 .. MaxSteps)) /\ Len(e) = Len(s) + 1
            /\ \A k \in 1 .. Len(s) : e[k] = s[k]
            /\ e[Len(s) + 1] = <<b, step>>
        BY <4>1, AppendProperties
      <4>4. Len(e) = step /\ DOMAIN e = 1 .. step /\ e = [k \in DOMAIN e |-> e[k]]
        BY <4>1, <4>3
      <4>5. \A k \in 1 .. step : e[k] = <<b, k>>
        BY <4>1, <4>2, <4>3
      <4>6. [k \in 1 .. step |-> e[k]] = [k \in 1 .. step |-> <<b, k>>]
        BY <4>5, Zenon
      <4>7. e = [k \in 1 .. step |-> <<b, k>>]
        BY <4>4, <4>6
      <4>8. e = [k \in 1 .. Len(e) |-> <<b, k>>]
        BY <4>4, <4>7
      <4> QED BY <4>4, <4>8 DEF e
    <3> QED BY <2>1, <2>2, <3>3, <3>5 DEF Mirrored
  <2> QED BY <2>3, <2>4
<1>10. CASE PswOutputs
  BY <1>0, <1>2, <1>10 DEF PswOutputs, Psw!mdlOutputs, pubVars
<1>11. ASSUME NEW b \in Pub!Publishers, TerminatePublisher(b) PROVE Mirrored'
  BY <1>1, <1>11, TerminateEffect
<1>12. CASE PswTerminate
  BY <1>1, <1>12 DEF PswTerminate, pubVars
<1>13. CASE Sigint
  <2>1. context' = ShutDown(context) /\ UNCHANGED <<topic, phase>>
    BY <1>13 DEF Sigint, pubVars
  <2>2. \A b \in Pub!Publishers : ~Live(Handle(b), context)'
    BY <2>1, LiveStays DEF Live
  <2> QED BY <1>1, <2>1, <2>2
<1>14. CASE Analyzer \/ UNCHANGED vars
  BY <1>2, <1>14 DEF Analyzer, Psw!AnalyzerPublishes, vars, pubVars, engineVars
<1>15. CASE StartThrows
  BY <1>1, <1>15, ThrowsEffect
<1> QED BY <1>3, <1>4, <1>5, <1>6, <1>7, <1>8, <1>9, <1>10, <1>11, <1>12, <1>13, <1>14, <1>15
        DEF Next, Engine

-----------------------------------------------------------------------------
(* Results                                                                  *)

\* The invariants hold at the start.
LEMMA InitInv == Init => IInv /\ MexInv
<1> SUFFICES ASSUME Init PROVE IInv /\ MexInv
  OBVIOUS
<1>1. /\ context = Fresh /\ nodes = {} /\ pPoseNode = [l \in Pub!Libs |-> NoNode]
      /\ pwork = [b \in NonlibPublishers |-> NoNode]
      /\ topic = [b \in Pub!Publishers |-> <<>>]
  BY DEF Init, Pub!Init, Pub!NoNode, NoNode
<1>2. /\ node = NoNode /\ subscription = NoNode /\ queue = <<>> /\ latestData = 0
      /\ dataReceived = FALSE /\ y = 0 /\ sent = 0
  BY SameOps DEF Init, Psw!Init
<1>3. /\ phase = "idle" /\ run = 0 /\ step = 0 /\ pending = {} /\ pswStart = "none"
      /\ interrupted = FALSE /\ joined = 0 /\ sigints = 0
  BY DEF Init
<1>4. NoNode \in Nodes /\ NoNode.gen = 0 /\ Fresh \in Contexts /\ Fresh.gen = 0 /\ ~Fresh.ok
  BY Constants DEF NoNode, Nodes, Fresh, Contexts
<1>5. TypeOK
  <2>1. PublisherTypes
    BY <1>1, <1>4 DEF PublisherTypes
  <2>2. SubscriberTypes
    <3>1. Len(<<>>) = 0 /\ <<>> \in Seq(1 .. MaxMessages)
      OBVIOUS
    <3>2. MaxMessages \in Nat /\ QueueDepth \in Nat /\ 0 \in 0 .. MaxMessages /\ 0 <= QueueDepth
      BY Constants
    <3>3. queue \in Seq(1 .. MaxMessages) /\ Len(queue) <= QueueDepth
      BY <1>2, <3>1, <3>2
    <3>4. dataReceived \in BOOLEAN
      BY <1>2
    <3> QED BY <1>2, <1>4, <3>2, <3>3, <3>4, Zenon DEF SubscriberTypes
  <2>3. EngineTypes
    <3>1. /\ 0 \in 0 .. MaxMessages /\ 0 \in 0 .. MaxRuns /\ 0 \in 0 .. MaxSteps
          /\ 0 \in 0 .. MaxSigints
      BY Constants
    <3>2. interrupted \in BOOLEAN /\ pending \subseteq Blocks
      BY <1>3
    <3> QED BY <1>3, <3>1, <3>2, Zenon DEF EngineTypes
  <2> QED BY <2>1, <2>2, <2>3, TypeParts
<1>6. Handles
  BY <1>1 DEF Handles
<1>7. Phased
  BY <1>2, <1>3 DEF Phased
<1>8. Dated
  BY <1>1, <1>2, <1>4 DEF Dated
<1>9. StartedLive
  BY <1>3 DEF StartedLive, Started
<1>10. Recent
  BY <1>2 DEF Recent, Live
<1>a. Aged
  BY <1>1, <1>3, <1>4 DEF Aged
<1>11. Pointed
  BY <1>1, <1>3, Constants DEF Pointed
<1>12. Mirrored
  <2>1. \A b : <<>> = [k \in 1 .. Len(<<>>) |-> <<b, k>>]
    OBVIOUS
  <2> QED BY <1>1, <1>3, <2>1 DEF Mirrored
<1> QED BY <1>5, <1>6, <1>7, <1>8, <1>9, <1>10, <1>a, <1>11, <1>12 DEF IInv, MexInv

\* IInv is inductive, and with it MexInv where each block has its own copy.
LEMMA StepInv == IInv /\ [Next]_vars => IInv'
BY TypeStep, PhasedStep, DatedStep, HandlesStep, StartedLiveStep, RecentStep, AgedStep
   DEF IInv

\* The linking part of the invariant is inductive relative to the rest.
LEMMA MexStepInv == OneCopyEach /\ IInv /\ MexInv /\ [Next]_vars => MexInv'
BY PointedStep, MirroredStep DEF IInv, MexInv

\* Every reachable state satisfies the inductive invariants.
LEMMA Invariance == Spec => []IInv
BY InitInv, StepInv, PTL DEF Spec

\* Both parts hold in every state if each block has its own copy.
LEMMA MexInvariance == ASSUME OneCopyEach PROVE Spec => [](IInv /\ MexInv)
<1>1. IInv /\ MexInv /\ [Next]_vars => (IInv /\ MexInv)'
  BY StepInv, MexStepInv
<1> QED BY InitInv, <1>1, PTL DEF Spec

\* The state of the blocks, their context and the engine is type correct.
THEOREM TypeCorrect == Spec => []TypeOK
BY Invariance, PTL DEF IInv

\* No block keeps a pointer to a deleted node (ros_msg_iface::terminate and the
\* nonlib blocks), however blocks share copies of the library.
THEOREM NoPointerDangles == Spec => []NoDanglingNode
<1>1. IInv => NoDanglingNode
  BY DEF IInv, Handles, NoDanglingNode
<1> QED BY <1>1, Invariance, PTL

\* In an uninterrupted run every block that steps is connected, although the
\* mdlTerminate of each block shuts down the context of all.
THEOREM BlocksAreConnected == Spec => []Connected
<1>1. IInv => Connected
  BY Constants DEF IInv, StartedLive, Started, Connected, Handle
<1> QED BY <1>1, Invariance, PTL

\* psw_sub is never more than its queue behind the analyzer (mdlOutputs spins
\* the node before it copies the buffer).
THEOREM LagIsBounded == Spec => LagBounded
<1>1. IInv /\ [Next]_vars =>
          (PswOutputs /\ Live(subscription, context) /\ sent > joined => y' + QueueDepth > sent)
  <2> SUFFICES ASSUME IInv, PswOutputs, Live(subscription, context), sent > joined
               PROVE  y' + QueueDepth > sent
    OBVIOUS
  <2>0. /\ queue \in Seq(1 .. MaxMessages) /\ Len(queue) \in Nat /\ Len(queue) <= QueueDepth
        /\ DOMAIN queue = 1 .. Len(queue)
        /\ sent \in Nat /\ QueueDepth \in Nat \ {0}
    BY Constants DEF IInv, TypeOK
  <2>1. /\ \A k \in DOMAIN queue : queue[k] = sent - Len(queue) + k
        /\ queue = <<>> => dataReceived /\ latestData = sent
    BY DEF IInv, Recent
  <2>2. CASE queue = <<>>
    <3>1. y' = sent
      BY <2>1, <2>2 DEF PswOutputs, Psw!mdlOutputs
    <3> QED BY <2>0, <3>1
  <2>3. CASE queue # <<>>
    <3>1. PICK taken \in 1 .. Len(queue) : latestData' = queue[taken] /\ dataReceived' = TRUE
      BY <2>3, SameOps DEF PswOutputs, Psw!mdlOutputs
    <3>2. y' = queue[taken]
      BY <3>1 DEF PswOutputs, Psw!mdlOutputs
    <3>3. queue[taken] = sent - Len(queue) + taken
      BY <2>0, <2>1
    <3> QED BY <2>0, <3>2, <3>3
  <2> QED BY <2>2, <2>3
<1> QED BY <1>1, Invariance, PTL DEF Spec, LagBounded

\* Where each block has its own copy of the library, no node of ros_msg_iface
\* is left between two runs, and those the nonlib blocks leave stay dead.
THEOREM NodesAreReleased == ASSUME OneCopyEach PROVE Spec => []NoNodeLeak
<1>1. IInv /\ MexInv => NoNodeLeak
  <2> SUFFICES ASSUME IInv, MexInv, NEW n \in nodes
               PROVE  /\ phase = "idle" => n.block \notin LibPublishers
                      /\ Live(n, context) => n.run = run
    BY DEF NoNodeLeak
  <2>1. ASSUME phase = "idle", n.block \in LibPublishers PROVE FALSE
    <3>1. n = NoNode
      BY <2>1 DEF MexInv, Pointed
    <3> QED BY <2>1, <3>1, Constants DEF NoNode
  <2>2. Live(n, context) => n.run = run
    BY DEF IInv, Aged, Live
  <2> QED BY <2>1, <2>2
<1> QED BY <1>1, MexInvariance, PTL

\* Where each block has its own copy of the library, a topic carries the poses
\* of its block, in order and one per step while the run is not interrupted.
THEOREM TopicsAreComplete == ASSUME OneCopyEach PROVE Spec => []TopicsMirrorBlocks
<1>1. IInv /\ MexInv => TopicsMirrorBlocks
  <2> SUFFICES ASSUME IInv, MexInv, NEW b \in Pub!Publishers
               PROVE  /\ topic[b] = [k \in 1 .. Len(topic[b]) |-> <<b, k>>]
                      /\ phase = "stepping" /\ ~interrupted =>
                             Len(topic[b]) = IF b \in pending THEN step - 1 ELSE step
    BY DEF TopicsMirrorBlocks
  <2>1. phase = "stepping" /\ ~interrupted => Live(Handle(b), context)
    BY DEF IInv, StartedLive, Started
  <2> QED BY <2>1 DEF MexInv, Mirrored
<1> QED BY <1>1, MexInvariance, PTL
==============================================================================
