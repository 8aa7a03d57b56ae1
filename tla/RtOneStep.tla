------------------------------ MODULE RtOneStep ------------------------------
(***************************************************************************)
(* The main program of an autocoded BAM model (rt_malloc_main.cpp): main,  *)
(* its exits, and rt_OneStep.  rt_OneStep is called from the loop of main, *)
(* or attached to a timer interrupt, in which case it preempts itself and  *)
(* the stack holds several activations of it, the last one executing.     *)
(*                                                                         *)
(* The single-tasking rt_OneStep is the multitasking one without subrates: *)
(* the instance with NUMST = 1.                                            *)
(***************************************************************************)
EXTENDS Integers, Sequences

CONSTANTS
    NUMST,          \* number of sample times of the model
    FirstTid,       \* FIRST_TID: 1 when tasks 0 and 1 share the base rate
    CounterLimit,   \* base steps between two releases of a subrate
    FlagMod,        \* a boolean_T flag counts modulo this (256 in the build)
    Drivers,        \* what calls rt_OneStep: "loop" (main, as built) or
                    \* "interrupt" (a periodic timer, main only waits)
    MaskFlags,      \* interrupts are masked while the flags of a subrate are
                    \* tested and claimed, and while they are handed back
    MaxNesting      \* bound: activations of rt_OneStep on the stack at once

SubRates == (FirstTid + 1) .. (NUMST - 1)

ASSUME NumstAssumption == NUMST \in Nat \ {0}
ASSUME FirstTidAssumption == FirstTid \in {0, 1}
ASSUME LimitAssumption == CounterLimit \in [SubRates -> Nat \ {0}]
ASSUME FlagModAssumption == FlagMod \in Nat /\ FlagMod >= 4
ASSUME NestingAssumption == MaxNesting \in Nat \ {0}
ASSUME ModeAssumption == Drivers \subseteq {"loop", "interrupt"} /\ MaskFlags \in BOOLEAN

VARIABLES
    driver,         \* the member of Drivers this program was built with
    stack,          \* activations of rt_OneStep; the last one is executing
    OverrunFlags,   \* tid -> activations inside the step of tid
    eventFlags,     \* tid -> releases of subrate tid not completed
    taskCounter,    \* rtmTaskCounter: base steps since the last release
    errorStatus,    \* rtmGetErrorStatus
    stopRequested,  \* rtmGetStopRequested
    main,           \* where main is
    model,          \* life of the model instance S
    logging,        \* MAT-file logging
    exitCode        \* what main returned, -1 while it runs

taskVars == <<stack, OverrunFlags, eventFlags, taskCounter>>
mainVars == <<driver, main, model, logging, exitCode>>
vars == <<taskVars, errorStatus, stopRequested, mainVars>>

None == "None"
Statuses == {None, "Overrun", "Simulation finished", "Model error"}

\* release: lines 250-260; base: inside MODEL_STEP(S,0); scan: line 284;
\* event: line 286; claim: line 287; run: inside MODEL_STEP(S,tid);
\* done: line 302.
Pcs == {"release", "base", "scan", "event", "claim", "run", "done"}

Tids == 0 .. (NUMST - 1)
Frame == [pc : Pcs, tid : (FirstTid + 1) .. (NUMST + 1)]

\* Mutation of Inc: a flag that does not wrap.
IncUnbounded(n) == n + 1

Inc(n) == (n + 1) % FlagMod
Dec(n) == (n - 1) % FlagMod

Init ==
    /\ driver \in Drivers
    /\ stack = <<>>
    /\ OverrunFlags = [i \in Tids |-> 0]
    /\ eventFlags = [i \in Tids |-> 0]
    /\ taskCounter = [i \in SubRates |-> 0]
    /\ errorStatus = None
    /\ stopRequested = FALSE
    /\ main = "register"
    /\ model = "none"
    /\ logging = "off"
    /\ exitCode = -1

-----------------------------------------------------------------------------
(* main: registration, logging and initialisation, with their error exits. *)

\* MODEL() returns no instance: nothing to terminate.
RegisterFails ==
    /\ main = "register"
    /\ main' = "exit" /\ exitCode' = 1
    /\ UNCHANGED <<driver, taskVars, errorStatus, stopRequested, model, logging>>

\* MODEL() returns an instance, possibly one with an error status.
Register ==
    /\ main = "register"
    /\ \E status \in {None, "Model error"} :
        /\ errorStatus' = status
        /\ IF status = None
           THEN main' = "log" /\ model' = "registered" /\ UNCHANGED exitCode
           ELSE main' = "exit" /\ model' = "terminated" /\ exitCode' = 1
    /\ UNCHANGED <<driver, taskVars, stopRequested, logging>>

\* Mutation of StartDataLoggingFails: the instance is not terminated.
StartDataLoggingLeaks ==
    /\ main = "log"
    /\ main' = "exit" /\ exitCode' = 1
    /\ UNCHANGED <<driver, taskVars, errorStatus, stopRequested, model, logging>>

StartDataLoggingFails ==
    /\ main = "log"
    /\ model' = "terminated"
    /\ main' = "exit" /\ exitCode' = 1
    /\ UNCHANGED <<driver, taskVars, errorStatus, stopRequested, logging>>

\* Logging starts; the host may already ask to stop while main waits for the
\* start packet.
StartDataLogging ==
    /\ main = "log"
    /\ logging' = "on"
    /\ main' = "init"
    /\ stopRequested' \in BOOLEAN
    /\ UNCHANGED <<driver, taskVars, errorStatus, model, exitCode>>

rt_InitModel ==
    /\ main = "init"
    /\ OverrunFlags' = [i \in Tids |-> 0]
    /\ eventFlags' = [i \in Tids |-> 0]
    /\ errorStatus' \in {errorStatus, "Model error"}
    /\ model' = "initialized"
    /\ main' = "loop"
    /\ UNCHANGED <<driver, stack, taskCounter, stopRequested, logging, exitCode>>

-----------------------------------------------------------------------------
(* rt_OneStep, one action per stretch of code between two preemption points *)

Top == stack[Len(stack)]
Pop == SubSeq(stack, 1, Len(stack) - 1)
Goto(pc, tid) == stack' = [stack EXCEPT ![Len(stack)] = [pc |-> pc, tid |-> tid]]
At(pc) == stack # <<>> /\ Top.pc = pc

\* Entry, with interrupts disabled: the overrun check, then the error check.
Enter ==
    LET status == IF OverrunFlags[0] # 0 THEN "Overrun" ELSE errorStatus
    IN  /\ OverrunFlags' = [OverrunFlags EXCEPT ![0] = Inc(@)]
        /\ errorStatus' = status
        /\ stack' = IF status = None
                    THEN Append(stack, [pc |-> "release", tid |-> FirstTid + 1])
                    ELSE stack
        /\ UNCHANGED <<eventFlags, taskCounter>>

\* rtmStepTask(S,i): subrate i is due at this base step.
StepTask(i) == taskCounter[i] = 0

\* Mutation of ReleaseSubrate: a release that finds the last one pending is
\* dropped instead of reported.
ReleaseSubrateSilently ==
    /\ At("release") /\ Top.tid \in SubRates
    /\ LET i == Top.tid
       IN  /\ eventFlags' = [eventFlags EXCEPT ![i] = IF StepTask(i) THEN 1 ELSE @]
           /\ taskCounter' = [taskCounter EXCEPT ![i] = (@ + 1) % CounterLimit[i]]
           /\ Goto("release", i + 1)
    /\ UNCHANGED <<OverrunFlags, errorStatus, stopRequested, mainVars>>

ReleaseSubrate ==
    /\ At("release") /\ Top.tid \in SubRates
    /\ LET i == Top.tid
           overrun == StepTask(i) /\ eventFlags[i] # 0
       IN  /\ eventFlags' = [eventFlags EXCEPT ![i] = IF StepTask(i) THEN Inc(@) ELSE @]
           /\ IF overrun
              THEN /\ OverrunFlags' = [OverrunFlags EXCEPT ![0] = Dec(@), ![i] = Inc(@)]
                   /\ errorStatus' = "Overrun"
                   /\ stack' = Pop
                   /\ UNCHANGED taskCounter
              ELSE /\ taskCounter' = [taskCounter EXCEPT ![i] =
                                        IF @ + 1 = CounterLimit[i] THEN 0 ELSE @ + 1]
                   /\ Goto("release", i + 1)
                   /\ UNCHANGED <<OverrunFlags, errorStatus>>
    /\ UNCHANGED <<stopRequested, mainVars>>

StepBase ==
    /\ At("release") /\ Top.tid \notin SubRates
    /\ Goto("base", FirstTid + 1)
    /\ UNCHANGED <<OverrunFlags, eventFlags, taskCounter, errorStatus, stopRequested, mainVars>>

\* What generated code may do to the model's status during a step.
ModelStepEffects ==
    /\ errorStatus' \in {errorStatus, "Simulation finished", "Model error"}
    /\ stopRequested' \in {stopRequested, TRUE}

BaseDone ==
    /\ At("base")
    /\ ModelStepEffects
    /\ OverrunFlags' = [OverrunFlags EXCEPT ![0] = Dec(@)]
    /\ Goto("scan", FirstTid + 1)
    /\ UNCHANGED <<eventFlags, taskCounter, mainVars>>

\* Line 284: "If task i is running, don't run any lower priority task".
ScanBlocked ==
    /\ At("scan") /\ Top.tid \in SubRates
    /\ OverrunFlags[Top.tid] # 0
    /\ stack' = Pop
    /\ UNCHANGED <<OverrunFlags, eventFlags, taskCounter, errorStatus, stopRequested, mainVars>>

\* Mutation of Scan: the check of line 284 is missing.
ScanUnchecked ==
    /\ At("scan") /\ Top.tid \in SubRates
    /\ Goto("event", Top.tid)
    /\ UNCHANGED <<OverrunFlags, eventFlags, taskCounter, errorStatus, stopRequested, mainVars>>

Scan ==
    /\ At("scan") /\ Top.tid \in SubRates
    /\ OverrunFlags[Top.tid] = 0
    /\ Goto("event", Top.tid)
    /\ UNCHANGED <<OverrunFlags, eventFlags, taskCounter, errorStatus, stopRequested, mainVars>>

\* Mutation of TestEvent: a subrate that is not due ends the scan.
TestEventReturns ==
    /\ At("event")
    /\ IF eventFlags[Top.tid] # 0 THEN Goto("claim", Top.tid) ELSE stack' = Pop
    /\ UNCHANGED <<OverrunFlags, eventFlags, taskCounter, errorStatus, stopRequested, mainVars>>

TestEvent ==
    /\ At("event")
    /\ IF eventFlags[Top.tid] # 0
       THEN Goto("claim", Top.tid)
       ELSE Goto("scan", Top.tid + 1)
    /\ UNCHANGED <<OverrunFlags, eventFlags, taskCounter, errorStatus, stopRequested, mainVars>>

\* Mutation of Claim: the subrate is stepped without being marked running.
ClaimUnmarked ==
    /\ At("claim")
    /\ Goto("run", Top.tid)
    /\ UNCHANGED <<OverrunFlags, eventFlags, taskCounter, errorStatus, stopRequested, mainVars>>

Claim ==
    /\ At("claim")
    /\ OverrunFlags' = [OverrunFlags EXCEPT ![Top.tid] = Inc(@)]
    /\ Goto("run", Top.tid)
    /\ UNCHANGED <<eventFlags, taskCounter, errorStatus, stopRequested, mainVars>>

SubrateDone ==
    /\ At("run")
    /\ ModelStepEffects
    /\ OverrunFlags' = [OverrunFlags EXCEPT ![Top.tid] = Dec(@)]
    /\ Goto("done", Top.tid)
    /\ UNCHANGED <<eventFlags, taskCounter, mainVars>>

ClearEvent ==
    /\ At("done")
    /\ eventFlags' = [eventFlags EXCEPT ![Top.tid] = Dec(@)]
    /\ Goto("scan", Top.tid + 1)
    /\ UNCHANGED <<OverrunFlags, taskCounter, errorStatus, stopRequested, mainVars>>

Return ==
    /\ At("scan") /\ Top.tid \notin SubRates
    /\ stack' = Pop
    /\ UNCHANGED <<OverrunFlags, eventFlags, taskCounter, errorStatus, stopRequested, mainVars>>

rt_OneStep ==
    \/ ReleaseSubrate \/ StepBase \/ BaseDone
    \/ ScanBlocked \/ Scan \/ TestEvent \/ Claim \/ SubrateDone \/ ClearEvent \/ Return

-----------------------------------------------------------------------------
(* The two ways rt_OneStep is called                                        *)

\* One turn of the loop of main: the host may ask to stop during the pause
\* check, which leaves the loop, or during rtExtModeOneStep, which does not.
LoopTurn ==
    /\ driver = "loop" /\ main = "loop" /\ stack = <<>>
    /\ errorStatus = None /\ ~stopRequested
    /\ Enter
    /\ stopRequested' \in BOOLEAN
    /\ UNCHANGED mainVars

\* The host asks to stop while main pauses; with an interrupt, at any time.
StopRequest ==
    /\ main = "loop" /\ ~stopRequested
    /\ driver = "interrupt" \/ stack = <<>>
    /\ stopRequested' = TRUE
    /\ UNCHANGED <<taskVars, errorStatus, mainVars>>

\* Mutation of Interruptible: interrupts stay enabled between line 286 and 287.
InterruptibleAtClaim == ~(MaskFlags /\ (At("event") \/ At("done")))

\* Where the running activation leaves interrupts enabled.
Interruptible == ~(MaskFlags /\ (At("event") \/ At("claim") \/ At("done")))

Interrupt ==
    /\ driver = "interrupt" /\ main = "loop" /\ Interruptible
    /\ Len(stack) < MaxNesting
    /\ Enter
    /\ UNCHANGED <<stopRequested, mainVars>>

\* The loop ends; the timer is stopped, logging is saved and S is terminated.
Finish ==
    /\ main = "loop" /\ stack = <<>>
    /\ errorStatus # None \/ stopRequested
    /\ logging' = "saved"
    /\ model' = "terminated"
    /\ exitCode' = IF errorStatus \in {None, "Simulation finished"} THEN 0 ELSE 1
    /\ main' = "exit"
    /\ UNCHANGED <<driver, taskVars, errorStatus, stopRequested>>

Terminated == main = "exit" /\ UNCHANGED vars

Next ==
    \/ RegisterFails \/ Register \/ StartDataLoggingFails \/ StartDataLogging
    \/ rt_InitModel
    \/ rt_OneStep \/ LoopTurn \/ StopRequest \/ Interrupt \/ Finish
    \/ Terminated

\* The processor always executes the innermost activation, and the program
\* only waits for an interrupt when there is none.
Spec == Init /\ [][Next]_vars /\ WF_vars(rt_OneStep) /\ WF_vars(LoopTurn) /\ WF_vars(Finish)

-----------------------------------------------------------------------------
(* Correctness                                                              *)

\* Type correctness of the main program's state and of the activations.
TypeOK ==
    /\ driver \in Drivers
    /\ stack \in Seq(Frame)
    /\ OverrunFlags \in [Tids -> 0 .. (FlagMod - 1)]
    /\ eventFlags \in [Tids -> 0 .. (FlagMod - 1)]
    /\ taskCounter \in [SubRates -> Nat]
    /\ errorStatus \in Statuses
    /\ stopRequested \in BOOLEAN
    /\ main \in {"register", "log", "init", "loop", "exit"}
    /\ model \in {"none", "registered", "initialized", "terminated"}
    /\ logging \in {"off", "on", "saved"}
    /\ exitCode \in {-1, 0, 1}

\* Activations that preempt each other execute strictly faster rates: no
\* subrate is stepped by two activations at once, and none preempts a faster
\* one (lines 281-284).  Above all, nothing preempts an activation that releases
\* the subrates or steps the base rate (lines 232-242): not even one more entry
\* than the flag of the base rate can count, because the error stays.
RateMonotonic ==
    \A j, k \in DOMAIN stack : j < k =>
        /\ stack[j].pc \notin {"release", "base"}
        /\ stack[j].pc = "run" /\ stack[k].pc = "run" => stack[k].tid < stack[j].tid

\* A subrate is stepped only for a release that has not been served: its event
\* flag is up while MODEL_STEP(S,i) runs (lines 286-302).
RunsOnlyReleased ==
    \A k \in DOMAIN stack : stack[k].pc = "run" => eventFlags[stack[k].tid] # 0

\* When every activation has returned and no error was reported, no release is
\* left unserved: an activation that gives up at line 284 leaves its work to
\* the one it preempted.
NoLostRelease ==
    stack = <<>> /\ errorStatus = None => \A i \in SubRates : eventFlags[i] = 0

\* A program that exits has terminated every model instance it registered and
\* saved the log it started, whichever error exit it took (lines 400-479).
CleanExit ==
    main = "exit" => model \in {"none", "terminated"} /\ logging # "on"

Executing(i) == \E k \in DOMAIN stack : stack[k].pc = "run" /\ stack[k].tid = i

Completing(i) == \E k \in DOMAIN stack : stack[k].pc = "done" /\ stack[k].tid = i

\* Released, not begun, and not given up for an overrun.
Pending(i) == eventFlags[i] # 0 /\ OverrunFlags[i] = 0 /\ ~Completing(i)

\* A released subrate is executed, or its starvation is reported: base steps
\* may preempt it for ever, but then its next release finds it pending.
StarvationDetected ==
    \A i \in SubRates : Pending(i) ~> Executing(i) \/ errorStatus # None

\* rt_OneStep implements preemptive rate-monotonic scheduling with overrun
\* detection.
Sched == INSTANCE RateScheduler WITH
    pending <- {i \in SubRates : Pending(i)},
    running <- {i \in SubRates : Executing(i)},
    baseRunning <- At("release") \/ At("base"),
    failed <- errorStatus # None

ImplementsScheduler == Sched!Spec
==============================================================================
