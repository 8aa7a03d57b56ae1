---------------------------- MODULE PswSubscriber -----------------------------
(***************************************************************************)
(* The S-function psw_sub, which brings the numbers of the phase space     *)
(* warping analyzer into Simulink.  Its node, subscription, buffer and     *)
(* flag are statics of the MEX file: they outlive a run of the model.      *)
(*                                                                         *)
(* A message is the number of its publication, 0 stands for zeros.         *)
(***************************************************************************)
EXTENDS Rclcpp

CONSTANT QueueDepth     \* KEEP_LAST depth of the subscription (10 in the code)

VARIABLES
    context,        \* the default context of the process
    node,           \* NoNode for nullptr
    subscription,   \* the node a subscription was created on, or NoNode
    queue,          \* messages waiting at the subscription
    latestData,
    dataReceived,
    y,              \* the output port
    sent            \* messages the analyzer has published

pswVars == <<node, subscription, queue, latestData, dataReceived, y, sent>>

Init ==
    /\ node = NoNode
    /\ subscription = NoNode
    /\ queue = <<>>
    /\ latestData = 0
    /\ dataReceived = FALSE
    /\ y = 0
    /\ sent = 0

\* The engine clears the output ports before a run.
Sizes ==
    /\ y' = 0
    /\ UNCHANGED <<node, subscription, queue, latestData, dataReceived, sent>>

initializeROS(run) ==
    LET c == Ensured(context)
    IN  /\ context' = c
        /\ node' = IF node = NoNode
                   THEN [block |-> "psw", run |-> run, gen |-> c.gen]
                   ELSE node
        /\ UNCHANGED <<subscription, queue, latestData, dataReceived, y, sent>>

\* SIGINT between rclcpp::init and the constructor of the node, which throws.
initializeThrows ==
    /\ node = NoNode
    /\ context' = ShutDown(Ensured(context))
    /\ UNCHANGED pswVars

\* setupSubscriber returns false when the context was shut down meanwhile.
setupSubscriber(succeeds) ==
    /\ succeeds = (context.ok /\ node # NoNode)
    /\ IF succeeds THEN subscription' = node /\ queue' = <<>>
       ELSE UNCHANGED <<subscription, queue>>
    /\ UNCHANGED <<context, node, latestData, dataReceived, y, sent>>

\* The analyzer publishes; only a live subscription receives.
AnalyzerPublishes ==
    /\ sent' = sent + 1
    /\ queue' = IF Live(subscription, context)
                THEN Enqueue(queue, sent + 1, QueueDepth)
                ELSE queue
    /\ UNCHANGED <<context, node, subscription, latestData, dataReceived, y>>

\* Mutation of mdlOutputs: the output is copied before the node is spun.
mdlOutputsLate ==
    /\ \/ /\ Live(subscription, context) /\ queue # <<>>
          /\ latestData' = queue[1]
          /\ dataReceived' = TRUE
          /\ queue' = Tail(queue)
       \/ /\ ~(Live(subscription, context) /\ queue # <<>>)
          /\ UNCHANGED <<queue, latestData, dataReceived>>
    /\ y' = IF dataReceived THEN latestData ELSE 0
    /\ UNCHANGED <<context, node, subscription, sent>>

\* spin_some runs messageCallback for one waiting message, or for several: the
\* last one stays in the buffer, which is then copied to the output.
mdlOutputs ==
    /\ \/ /\ Live(subscription, context) /\ queue # <<>>
          /\ \E taken \in 1 .. Len(queue) :
                /\ latestData' = queue[taken]
                /\ queue' = SubSeq(queue, taken + 1, Len(queue))
          /\ dataReceived' = TRUE
       \/ /\ ~(Live(subscription, context) /\ queue # <<>>)
          /\ UNCHANGED <<queue, latestData, dataReceived>>
    /\ y' = IF dataReceived' THEN latestData' ELSE 0
    /\ UNCHANGED <<context, node, subscription, sent>>

\* Mutation of cleanupROS: the node outlives the context it was made in.
cleanupKeepingNode ==
    /\ subscription' = NoNode
    /\ queue' = <<>>
    /\ context' = ShutDown(context)
    /\ UNCHANGED <<node, latestData, dataReceived, y, sent>>

\* mdlTerminate: the buffer and its flag are left as they are.
cleanupROS ==
    /\ subscription' = NoNode
    /\ queue' = <<>>
    /\ node' = NoNode
    /\ context' = ShutDown(context)
    /\ UNCHANGED <<latestData, dataReceived, y, sent>>
==============================================================================
