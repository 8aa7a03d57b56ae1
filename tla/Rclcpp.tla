-------------------------------- MODULE Rclcpp --------------------------------
(***************************************************************************)
(* The part of the ROS 2 client library that the S-functions rely on: the  *)
(* default context of a process, the node objects made in it, and the      *)
(* queue of a subscription.  A context that was shut down may be           *)
(* initialised again; nodes made before that stay on the dead context.     *)
(***************************************************************************)
EXTENDS Naturals, Sequences

\* A context is ok after rclcpp::init until rclcpp::shutdown or SIGINT; gen
\* tells one initialisation from the next.
Contexts == [ok : BOOLEAN, gen : Nat]
Fresh == [ok |-> FALSE, gen |-> 0]

\* if (!rclcpp::ok()) rclcpp::init(0, nullptr);
Ensured(context) ==
    IF context.ok THEN context ELSE [ok |-> TRUE, gen |-> context.gen + 1]

\* rclcpp::shutdown()
ShutDown(context) == [context EXCEPT !.ok = FALSE]

NoNode == [block |-> "none", run |-> 0, gen |-> 0]

\* A node communicates only through the context it was made in.
Live(node, context) == node # NoNode /\ context.ok /\ node.gen = context.gen

\* Mutation of Enqueue: a full queue keeps its oldest message.
EnqueueAll(queue, m, depth) == Append(queue, m)

\* A KEEP_LAST queue drops its oldest message when it is full.
Enqueue(queue, m, depth) ==
    IF Len(queue) < depth THEN Append(queue, m) ELSE Append(Tail(queue), m)
==============================================================================
