---------------------------- MODULE RateScheduler ----------------------------
(***************************************************************************)
(* What rt_OneStep promises: preemptive rate-monotonic execution of the    *)
(* subrates of a model above its base rate.  A release of a subrate stays  *)
(* pending until the subrate is started or the scheduler reports an        *)
(* overrun; a subrate starts only when no equal or faster one is running,  *)
(* and only the fastest running one can finish.                            *)
(***************************************************************************)
EXTENDS Integers

CONSTANT SubRates       \* task ids (numbers) of the subrates; a smaller id is a faster rate

VARIABLES
    pending,            \* subrates released and not started
    running,            \* subrates started and not finished
    baseRunning,        \* the base rate step is in progress
    failed              \* an error status stopped the scheduler

svars == <<pending, running, baseRunning, failed>>

Init ==
    /\ pending = {}
    /\ running = {}
    /\ baseRunning = FALSE
    /\ failed = FALSE

StartBase ==
    /\ ~failed /\ ~baseRunning
    /\ baseRunning' = TRUE
    /\ UNCHANGED <<pending, running, failed>>

Release(i) ==
    /\ baseRunning
    /\ i \notin pending \cup running
    /\ pending' = pending \cup {i}
    /\ UNCHANGED <<running, baseRunning, failed>>

\* The release of a subrate that is still pending or running: its pending
\* work is given up, the failure is not silent.
Overrun(i) ==
    /\ baseRunning
    /\ i \in pending \cup running
    /\ pending' = pending \ {i}
    /\ baseRunning' = FALSE
    /\ failed' = TRUE
    /\ UNCHANGED running

\* An error status is set: a base rate released too early, or an error of the
\* model.  What is in progress goes on, nothing is started afresh.
Fail ==
    /\ failed' = TRUE
    /\ UNCHANGED <<pending, running, baseRunning>>

\* A model step ends; its generated code may have set an error status.
FinishBase ==
    /\ baseRunning
    /\ baseRunning' = FALSE
    /\ failed' \in {failed, TRUE}
    /\ UNCHANGED <<pending, running>>

Start(i) ==
    /\ ~baseRunning
    /\ i \in pending
    /\ \A j \in running : i < j
    /\ pending' = pending \ {i}
    /\ running' = running \cup {i}
    /\ UNCHANGED <<baseRunning, failed>>

Finish(i) ==
    /\ ~baseRunning
    /\ i \in running
    /\ \A j \in running : i <= j
    /\ running' = running \ {i}
    /\ failed' \in {failed, TRUE}
    /\ UNCHANGED <<pending, baseRunning>>

Next ==
    \/ StartBase \/ FinishBase \/ Fail
    \/ \E i \in SubRates : Release(i) \/ Overrun(i) \/ Start(i) \/ Finish(i)

Spec == Init /\ [][Next]_svars
==============================================================================
