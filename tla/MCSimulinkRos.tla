---------------------------- MODULE MCSimulinkRos -----------------------------
(* The own-ship publisher in its library variety, the ball publisher without *)
(* the library or, in an executable, with the same copy of it.               *)
EXTENDS SimulinkRos

MexLibs == [b \in LibPublishers |-> b]
ExeLibs == [b \in LibPublishers |-> "exe"]
==============================================================================
