------------------------------ MODULE WorkerPool -------------------------------
(***************************************************************************)
(* What the parallel batch script promises: every input it was started on  *)
(* is run once, never more than N at a time, and "all done" is said when   *)
(* nothing is left to run or running.  An interrupted batch promises only  *)
(* the first two.                                                          *)
(***************************************************************************)
EXTENDS Naturals, FiniteSets

CONSTANTS
    Inputs,         \* what may be run
    N               \* most that run at a time

VARIABLES
    state,          \* "idle", "busy" or "all done"
    todo,           \* inputs not started yet
    running         \* inputs being run

poolVars == <<state, todo, running>>

Init == state = "idle" /\ todo = {} /\ running = {}

Begin ==
    /\ state # "busy" /\ state' = "busy"
    /\ todo' \in SUBSET Inputs /\ running' = {}

Start ==
    /\ state = "busy" /\ Cardinality(running) < N
    /\ \E f \in todo : todo' = todo \ {f} /\ running' = running \cup {f}
    /\ UNCHANGED state

Finish ==
    /\ state = "busy"
    /\ \E f \in running : running' = running \ {f}
    /\ UNCHANGED <<state, todo>>

AllDone ==
    /\ state = "busy" /\ todo = {} /\ running = {}
    /\ state' = "all done"
    /\ UNCHANGED <<todo, running>>

Abort == state' = "idle" /\ todo' = {} /\ running' = {}

Next == Begin \/ Start \/ Finish \/ AllDone \/ Abort

Safety == Init /\ [][Next]_poolVars

\* A batch that is not interrupted gets done.
Spec == Safety /\ WF_poolVars(Start) /\ WF_poolVars(Finish) /\ WF_poolVars(AllDone)
==============================================================================
