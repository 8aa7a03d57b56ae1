------------------------- MODULE RtOneStepSched_proof -------------------------
(***************************************************************************)
(* Proof that rt_OneStep implements RateScheduler, for every number of     *)
(* rates and every depth of preemption, before and after an error status   *)
(* is set: the activations that are on the stack when it is set go on.     *)
(***************************************************************************)
EXTENDS RtOneStep_proof

\* The flag of a subrate is up only while it is stepped, as long as some
\* activation still releases subrates, whatever the error status.
RaisedByRun ==
    Calm => \A i \in SubRates : OverrunFlags[i] # 0 => Executing(i)

\* The work given up for an overrun stays given up: the overrun flag of the
\* subrate is up when every activation has handed back what it claimed.
GivenUp ==
    \A i \in SubRates : eventFlags[i] > 1 =>
        OverrunFlags[i] > IF Executing(i) THEN 1 ELSE 0

\* main initialises the model only when its registration reported no error.
Fresh == main \in {"register", "log", "init"} => errorStatus = None

\* What the refinement needs beside IInv.
SInv == RaisedByRun /\ GivenUp /\ Fresh

-----------------------------------------------------------------------------
(* What moving the innermost activation does to the abstract state          *)

\* The base rate is released or stepped.
Stepping == At("release") \/ At("base")

\* What TypeOK, Innermost and Nesting say of the innermost activation and of
\* those below it.
LEMMA Views ==
    ASSUME IInv, stack # <<>>
    PROVE  /\ stack \in Seq(Frame) /\ Len(stack) \in Nat /\ Len(stack) > 0
           /\ DOMAIN stack = 1 .. Len(stack) /\ Top = stack[Len(stack)]
           /\ \A i : Executing(i) <=> Held(i) \/ (Top.pc = "run" /\ Top.tid = i)
           /\ \A i : Completing(i) <=> Top.pc = "done" /\ Top.tid = i
           /\ \A k \in 1 .. (Len(stack) - 1) : ~Entering(stack[k]) /\ stack[k].pc # "done"
<1>1. /\ stack \in Seq(Frame) /\ Len(stack) \in Nat /\ Len(stack) > 0
      /\ DOMAIN stack = 1 .. Len(stack) /\ Top = stack[Len(stack)]
  BY TopFacts DEF IInv, TypeOK
<1>2. \A i : Executing(i) <=> Held(i) \/ (Top.pc = "run" /\ Top.tid = i)
  <2>1. 1 .. Len(stack) = (1 .. (Len(stack) - 1)) \cup {Len(stack)}
    BY <1>1
  <2> QED
    BY <1>1, <2>1 DEF Executing, Held
<1>3. \A k \in 1 .. (Len(stack) - 1) : ~Entering(stack[k]) /\ stack[k].pc # "done"
  BY <1>1 DEF IInv, Innermost, Masked
<1>4. \A i : Completing(i) <=> Top.pc = "done" /\ Top.tid = i
  BY <1>1 DEF IInv, Innermost, Masked, Completing
<1> QED
  BY <1>1, <1>2, <1>3, <1>4

\* The innermost activation goes on at pc with subrate tid.
LEMMA GotoViews ==
    ASSUME IInv, stack # <<>>, NEW pc \in Pcs, NEW tid \in (FirstTid + 1) .. (NUMST + 1),
           Goto(pc, tid)
    PROVE  /\ stack' # <<>> /\ Top'.pc = pc /\ Top'.tid = tid
           /\ \A i : Executing(i)' <=> Held(i) \/ (pc = "run" /\ tid = i)
           /\ \A i : Completing(i)' <=> pc = "done" /\ tid = i
           /\ At("release")' <=> pc = "release"
           /\ Stepping' <=> pc \in {"release", "base"}
<1> DEFINE n == Len(stack)
<1>1. /\ stack \in Seq(Frame) /\ n \in Nat /\ n > 0
      /\ \A k \in 1 .. (n - 1) : stack[k].pc # "done"
  BY Views
<1>2. /\ stack' \in Seq(Frame) /\ Len(stack') = n /\ DOMAIN stack' = 1 .. n
      /\ stack'[n].pc = pc /\ stack'[n].tid = tid
      /\ \A k \in 1 .. (n - 1) : stack'[k] = stack[k]
  BY <1>1, GotoFacts
<1>3. stack' # <<>> /\ Top' = stack'[n]
  BY <1>1, <1>2 DEF Top
<1>4. 1 .. n = (1 .. (n - 1)) \cup {n}
  BY <1>1
<1>5. \A i : Executing(i)' <=> Held(i) \/ (pc = "run" /\ tid = i)
  BY <1>2, <1>4 DEF Executing, Held
<1>6. \A i : Completing(i)' <=> pc = "done" /\ tid = i
  BY <1>1, <1>2, <1>4 DEF Completing
<1> QED
  BY <1>2, <1>3, <1>5, <1>6 DEF At, Stepping

\* The innermost activation returns to the one it preempted.
LEMMA PopViews ==
    ASSUME IInv, stack # <<>>, stack' = Pop
    PROVE  /\ \A i : Executing(i)' <=> Held(i)
           /\ \A i : ~Completing(i)'
           /\ ~At("release")' /\ ~Stepping'
<1> DEFINE n == Len(stack)
<1>1. /\ stack \in Seq(Frame) /\ n \in Nat /\ n > 0
      /\ \A k \in 1 .. (n - 1) : ~Entering(stack[k]) /\ stack[k].pc # "done"
  BY Views
<1>2. /\ stack' \in Seq(Frame) /\ Len(stack') = n - 1 /\ DOMAIN stack' = 1 .. (n - 1)
      /\ \A k \in 1 .. (n - 1) : stack'[k] = stack[k]
  BY <1>1, PopFacts
<1>3. stack' # <<>> => ~Entering(Top')
  <2> SUFFICES ASSUME stack' # <<>> PROVE ~Entering(Top')
    OBVIOUS
  <2>1. n - 1 \in 1 .. (n - 1)
    BY <1>1, <1>2, EmptySeq
  <2> QED
    BY <1>1, <1>2, <2>1 DEF Top
<1>4. \A i : Executing(i)' <=> Held(i)
  BY <1>2 DEF Executing, Held
<1>5. \A i : ~Completing(i)'
  BY <1>1, <1>2 DEF Completing
<1> QED
  BY <1>3, <1>4, <1>5 DEF At, Stepping, Entering

\* A stretch of code that leaves the flags alone and neither begins nor ends
\* a step of the model: the scheduler stutters.
LEMMA Stutters ==
    ASSUME SInv,
           UNCHANGED <<OverrunFlags, eventFlags, errorStatus>>,
           main' = main \/ errorStatus = None,
           \A i : Executing(i)' <=> Executing(i), \A i : Completing(i)' <=> Completing(i),
           Stepping' <=> Stepping, At("release")' => At("release")
    PROVE  SInv' /\ UNCHANGED Sched!svars
<1>1. RaisedByRun'
  BY DEF SInv, RaisedByRun, Calm
<1>2. GivenUp'
  BY DEF SInv, GivenUp
<1>3. Fresh'
  BY DEF SInv, Fresh
<1>4. \A i : Pending(i)' <=> Pending(i)
  BY DEF Pending
<1> QED
  BY <1>1, <1>2, <1>3, <1>4 DEF SInv, Sched!svars, Stepping

-----------------------------------------------------------------------------
(* Each action is a step of the scheduler or a stutter                      *)

\* Lines 262-290: between two steps of the model an activation moves on, or
\* returns at line 284 or at the end of its scan.
LEMMA ScanStutters ==
    ASSUME IInv, SInv, StepBase \/ ScanBlocked \/ Scan \/ TestEvent \/ Return
    PROVE  SInv' /\ UNCHANGED Sched!svars
<1> DEFINE t == Top.tid
<1>1. /\ UNCHANGED <<OverrunFlags, eventFlags, errorStatus>> /\ main' = main
      /\ stack # <<>>
  BY DEF StepBase, ScanBlocked, Scan, TestEvent, Return, mainVars, At
<1>2. Top.pc \notin {"run", "done"}
  BY DEF StepBase, ScanBlocked, Scan, TestEvent, Return, At
<1>3. (\A i : Executing(i) <=> Held(i)) /\ (\A i : ~Completing(i))
  BY <1>1, <1>2, Views
<1>4. /\ Stepping <=> StepBase
      /\ \/ StepBase /\ Goto("base", FirstTid + 1)
         \/ Scan /\ Goto("event", t) /\ t \in SubRates
         \/ TestEvent /\ Goto("claim", t) /\ t \in SubRates
         \/ TestEvent /\ Goto("scan", t + 1) /\ t \in SubRates
         \/ stack' = Pop /\ ~StepBase
  <2>1. At("event") => t \in SubRates
    BY TopFacts DEF IInv, TypeOK, OnSubrate, At
  <2> QED
    BY <2>1 DEF Stepping, StepBase, ScanBlocked, Scan, TestEvent, Return, At
<1>5. /\ \A i : Executing(i)' <=> Held(i)
      /\ \A i : ~Completing(i)'
      /\ ~At("release")' /\ (Stepping' <=> StepBase)
  <2>1. /\ {"base", "event", "claim", "scan"} \subseteq Pcs
        /\ FirstTid + 1 \in (FirstTid + 1) .. (NUMST + 1)
        /\ t \in SubRates => /\ t \in (FirstTid + 1) .. (NUMST + 1)
                             /\ t + 1 \in (FirstTid + 1) .. (NUMST + 1)
    BY NumstAssumption, FirstTidAssumption DEF Pcs, SubRates
  <2>2. CASE StepBase /\ Goto("base", FirstTid + 1)
    BY <1>1, <2>1, <2>2, GotoViews
  <2>3. CASE Scan /\ Goto("event", t) /\ t \in SubRates
    BY <1>1, <1>4, <2>1, <2>3, GotoViews DEF StepBase, Scan, At
  <2>4. CASE TestEvent /\ Goto("claim", t) /\ t \in SubRates
    BY <1>1, <1>4, <2>1, <2>4, GotoViews DEF StepBase, TestEvent, At
  <2>5. CASE TestEvent /\ Goto("scan", t + 1) /\ t \in SubRates
    BY <1>1, <1>4, <2>1, <2>5, GotoViews DEF StepBase, TestEvent, At
  <2>6. CASE stack' = Pop /\ ~StepBase
    BY <1>1, <2>6, PopViews
  <2> QED
    BY <1>4, <2>2, <2>3, <2>4, <2>5, <2>6
<1> QED
  BY <1>1, <1>3, <1>4, <1>5, Stutters

\* Line 287: a claim starts the subrate.
LEMMA ClaimStarts ==
    ASSUME IInv, SInv, Claim
    PROVE  SInv' /\ \E i \in SubRates : Sched!Start(i)
<1>0. PICK t \in SubRates : t = Top.tid
  BY TopFacts DEF IInv, TypeOK, Claim, At, OnSubrate
<1>1. /\ stack # <<>> /\ Top.pc = "claim" /\ Top.tid = t
      /\ OverrunFlags[t] = 0 /\ eventFlags[t] # 0
  BY <1>0, TopFacts DEF IInv, TypeOK, Claim, At, RunFlag, EventUp
<1>2. \A i \in SubRates : i \in Tids /\ i \in Nat
  BY TaskIds
<1>3. /\ OverrunFlags'[t] = 1
      /\ \A i \in SubRates : i # t => OverrunFlags'[i] = OverrunFlags[i]
      /\ eventFlags' = eventFlags /\ errorStatus' = errorStatus /\ main' = main
  <2>1. Inc(0) = 1
    BY FlagArithmetic, FlagModAssumption
  <2>2. OverrunFlags' = [OverrunFlags EXCEPT ![t] = 1]
    BY <1>1, <2>1 DEF Claim
  <2> QED
    BY <1>1, <1>2, <2>2 DEF IInv, TypeOK, Claim, mainVars
<1>4. /\ \A i : Executing(i) <=> Held(i)
      /\ \A i : ~Completing(i)
      /\ ~Stepping
  BY <1>1, Views DEF Stepping, At
<1>5. /\ \A i : Executing(i)' <=> Held(i) \/ i = t
      /\ \A i : ~Completing(i)'
      /\ ~At("release")' /\ ~Stepping'
  <2>1. t \in (FirstTid + 1) .. (NUMST + 1) /\ "run" \in Pcs /\ Goto("run", t)
    BY <1>1, TopFacts DEF IInv, TypeOK, Claim, Pcs
  <2> QED
    BY <1>1, <2>1, GotoViews
<1>6. \A i : Held(i) => i \in SubRates /\ t < i
  <2> SUFFICES ASSUME NEW k \in 1 .. (Len(stack) - 1), stack[k].pc = "run"
               PROVE  stack[k].tid \in SubRates /\ t < stack[k].tid
    BY DEF Held
  <2>1. /\ Len(stack) \in Nat /\ DOMAIN stack = 1 .. Len(stack) /\ Top = stack[Len(stack)]
    BY <1>1, Views
  <2>2. k \in DOMAIN stack /\ Len(stack) \in DOMAIN stack /\ k < Len(stack)
    BY <2>1
  <2> QED
    BY <1>1, <2>1, <2>2 DEF IInv, OnSubrate, Nesting, Entering
<1>7. SInv'
  <2>1. RaisedByRun'
    BY <1>3, <1>4, <1>5 DEF SInv, RaisedByRun, Calm, At
  <2>2. GivenUp'
    <3>1. ~(eventFlags[t] > 1)
      BY <1>1, <1>4 DEF SInv, GivenUp
    <3> QED
      BY <1>3, <1>4, <1>5, <3>1 DEF SInv, GivenUp
  <2> QED
    BY <1>3, <2>1, <2>2 DEF SInv, Fresh
<1>8. /\ Pending(t) /\ ~Pending(t)'
      /\ \A i \in SubRates : i # t => (Pending(i)' <=> Pending(i))
  BY <1>1, <1>3, <1>4, <1>5 DEF Pending
<1>9. Sched!Start(t)
  BY <1>1, <1>3, <1>4, <1>5, <1>6, <1>8 DEF Sched!Start, Stepping
<1> QED
  BY <1>1, <1>7, <1>9

\* Line 302: the step of a subrate finishes; its event flag is still up.
LEMMA SubrateFinishes ==
    ASSUME IInv, SInv, SubrateDone
    PROVE  SInv' /\ \E i \in SubRates : Sched!Finish(i)
<1>0. PICK t \in SubRates : t = Top.tid
  BY TopFacts DEF IInv, TypeOK, SubrateDone, At, OnSubrate
<1>1. /\ stack # <<>> /\ Top.pc = "run" /\ Top.tid = t /\ main = "loop"
      /\ OverrunFlags[t] \in 0 .. (FlagMod - 1) /\ OverrunFlags[t] # 0
  BY <1>0, TopFacts, TaskIds DEF IInv, TypeOK, SubrateDone, At, OnlyInLoop, RunFlag
<1>2. \A i \in SubRates : i \in Tids /\ i \in Nat
  BY TaskIds
<1>3. /\ OverrunFlags'[t] = OverrunFlags[t] - 1
      /\ \A i \in SubRates : i # t => OverrunFlags'[i] = OverrunFlags[i]
      /\ eventFlags' = eventFlags /\ main' = main
      /\ errorStatus # None => errorStatus' # None
  <2>1. Dec(OverrunFlags[t]) = OverrunFlags[t] - 1
    BY <1>1, FlagArithmetic
  <2>2. OverrunFlags' = [OverrunFlags EXCEPT ![t] = OverrunFlags[t] - 1]
    BY <1>1, <2>1 DEF SubrateDone
  <2> QED
    BY <1>1, <1>2, <2>2 DEF IInv, TypeOK, SubrateDone, ModelStepEffects, mainVars, None
<1>4. /\ \A i : Executing(i) <=> Held(i) \/ i = t
      /\ \A i : ~Completing(i)
      /\ ~Stepping
  BY <1>1, Views DEF Stepping, At
<1>5. /\ \A i : Executing(i)' <=> Held(i)
      /\ \A i : Completing(i)' <=> i = t
      /\ ~At("release")' /\ ~Stepping'
  <2>1. t \in (FirstTid + 1) .. (NUMST + 1) /\ "done" \in Pcs /\ Goto("done", t)
    BY <1>1, TopFacts DEF IInv, TypeOK, SubrateDone, Pcs
  <2> QED
    BY <1>1, <2>1, GotoViews
<1>6. \A i : Held(i) => i \in SubRates /\ t < i
  <2> SUFFICES ASSUME NEW k \in 1 .. (Len(stack) - 1), stack[k].pc = "run"
               PROVE  stack[k].tid \in SubRates /\ t < stack[k].tid
    BY DEF Held
  <2>1. /\ Len(stack) \in Nat /\ DOMAIN stack = 1 .. Len(stack) /\ Top = stack[Len(stack)]
    BY <1>1, Views
  <2>2. k \in DOMAIN stack /\ Len(stack) \in DOMAIN stack /\ k < Len(stack)
    BY <2>1
  <2> QED
    BY <1>1, <2>1, <2>2 DEF IInv, OnSubrate, Nesting, Entering
<1>7. ~Held(t)
  BY <1>1, <1>2, <1>6
<1>8. SInv'
  <2>1. RaisedByRun'
    <3> SUFFICES ASSUME errorStatus' = None, NEW i \in SubRates, OverrunFlags'[i] # 0
                 PROVE  Held(i)
      BY <1>5 DEF RaisedByRun, Calm
    <3>1. errorStatus = None
      BY <1>3
    <3>2. i # t
      BY <1>1, <1>3, <3>1 DEF IInv, SingleFlags, Calm
    <3> QED
      BY <1>3, <1>4, <3>1, <3>2 DEF SInv, RaisedByRun, Calm
  <2>2. GivenUp'
    <3>1. eventFlags[t] > 1 => OverrunFlags[t] > 1
      BY <1>1, <1>4 DEF SInv, GivenUp
    <3>2. eventFlags'[t] > 1 => OverrunFlags'[t] > 0
      BY <1>1, <1>3, <3>1
    <3>3. ASSUME NEW i \in SubRates, i # t, eventFlags'[i] > 1
          PROVE  OverrunFlags'[i] > IF Executing(i)' THEN 1 ELSE 0
      BY <1>3, <1>4, <1>5, <3>3 DEF SInv, GivenUp
    <3> QED
      BY <1>5, <1>7, <3>2, <3>3 DEF GivenUp
  <2> QED
    BY <1>1, <1>3, <2>1, <2>2 DEF SInv, Fresh
<1>9. \A i \in SubRates : Pending(i)' <=> Pending(i)
  <2>1. ~Pending(t) /\ ~Pending(t)'
    BY <1>1, <1>5 DEF Pending
  <2> QED
    BY <1>3, <1>4, <1>5, <2>1 DEF Pending
<1>10. \A i \in SubRates : Executing(i) => t <= i
  BY <1>1, <1>2, <1>4, <1>6
<1>11. Sched!Finish(t)
  <2>1. {i \in SubRates : Executing(i)}' = {i \in SubRates : Executing(i)} \ {t}
    BY <1>4, <1>5, <1>7
  <2> QED
    BY <1>1, <1>3, <1>4, <1>5, <1>9, <1>10, <2>1 DEF Sched!Finish, Stepping
<1> QED
  BY <1>1, <1>8, <1>11

\* Lines 303-304: handing a release back makes no subrate pending.  An overrun
\* reported in the meantime leaves the event flag up, and the overrun flag too.
LEMMA HandBackStutters ==
    ASSUME IInv, SInv, ClearEvent
    PROVE  SInv' /\ UNCHANGED Sched!svars
<1>0. PICK t \in SubRates : t = Top.tid
  BY TopFacts DEF IInv, TypeOK, ClearEvent, At, OnSubrate
<1>1. /\ stack # <<>> /\ Top.pc = "done" /\ Top.tid = t
      /\ eventFlags[t] \in 0 .. (FlagMod - 1) /\ eventFlags[t] # 0
  BY <1>0, TopFacts, TaskIds DEF IInv, TypeOK, ClearEvent, At, EventUp
<1>2. \A i \in SubRates : i \in Tids /\ i \in Nat
  BY TaskIds
<1>3. /\ eventFlags'[t] = eventFlags[t] - 1
      /\ \A i \in SubRates : i # t => eventFlags'[i] = eventFlags[i]
      /\ OverrunFlags' = OverrunFlags /\ main' = main /\ errorStatus' = errorStatus
  <2>1. Dec(eventFlags[t]) = eventFlags[t] - 1
    BY <1>1, FlagArithmetic
  <2>2. eventFlags' = [eventFlags EXCEPT ![t] = eventFlags[t] - 1]
    BY <1>1, <2>1 DEF ClearEvent
  <2> QED
    BY <1>1, <1>2, <2>2 DEF IInv, TypeOK, ClearEvent, mainVars
<1>4. /\ \A i : Executing(i) <=> Held(i)
      /\ \A i : Completing(i) <=> i = t
      /\ ~Stepping
  BY <1>1, Views DEF Stepping, At
<1>5. /\ \A i : Executing(i)' <=> Held(i)
      /\ \A i : ~Completing(i)'
      /\ ~At("release")' /\ ~Stepping'
  <2>1. /\ t + 1 \in (FirstTid + 1) .. (NUMST + 1) /\ "scan" \in Pcs /\ Goto("scan", t + 1)
    BY <1>1, NumstAssumption, FirstTidAssumption DEF ClearEvent, Pcs, SubRates
  <2> QED
    BY <1>1, <2>1, GotoViews
<1>6. SInv'
  <2>1. RaisedByRun'
    BY <1>3, <1>4, <1>5 DEF SInv, RaisedByRun, Calm
  <2>2. GivenUp'
    <3>1. ASSUME NEW i \in SubRates, eventFlags'[i] > 1 PROVE eventFlags[i] > 1
      BY <1>1, <1>3, <3>1
    <3> QED
      BY <1>3, <1>4, <1>5, <3>1 DEF SInv, GivenUp
  <2> QED
    BY <1>3, <2>1, <2>2 DEF SInv, Fresh
<1>7. \A i \in SubRates : Pending(i)' <=> Pending(i)
  <2>1. eventFlags'[t] # 0 => OverrunFlags'[t] # 0
    <3>1. eventFlags'[t] # 0 => eventFlags[t] > 1
      BY <1>1, <1>3
    <3>2. eventFlags[t] > 1 => OverrunFlags[t] > 0 \/ OverrunFlags[t] > 1
      BY DEF SInv, GivenUp
    <3> QED
      BY <1>3, <3>1, <3>2
  <2> QED
    BY <1>3, <1>4, <1>5, <2>1 DEF Pending
<1> QED
  BY <1>3, <1>4, <1>5, <1>6, <1>7 DEF Sched!svars, Stepping

\* Line 275: the base rate step finishes.
LEMMA BaseFinishes ==
    ASSUME IInv, SInv, BaseDone
    PROVE  SInv' /\ Sched!FinishBase
<1>1. /\ stack # <<>> /\ Top.pc = "base" /\ main = "loop"
  BY DEF IInv, BaseDone, At, OnlyInLoop
<1>2. \A i \in SubRates : i \in Tids /\ i # 0
  BY TaskIds
<1>3. /\ \A i \in SubRates : OverrunFlags'[i] = OverrunFlags[i]
      /\ eventFlags' = eventFlags /\ main' = main
      /\ errorStatus # None => errorStatus' # None
  BY <1>2 DEF IInv, TypeOK, BaseDone, ModelStepEffects, mainVars, None
<1>4. /\ \A i : Executing(i) <=> Held(i)
      /\ \A i : ~Completing(i)
      /\ Stepping
  BY <1>1, Views DEF Stepping, At
<1>5. /\ \A i : Executing(i)' <=> Held(i)
      /\ \A i : ~Completing(i)'
      /\ ~At("release")' /\ ~Stepping'
  <2>1. /\ FirstTid + 1 \in (FirstTid + 1) .. (NUMST + 1) /\ "scan" \in Pcs
        /\ Goto("scan", FirstTid + 1)
    BY NumstAssumption, FirstTidAssumption DEF BaseDone, Pcs
  <2> QED
    BY <1>1, <2>1, GotoViews
<1>6. SInv'
  BY <1>1, <1>3, <1>4, <1>5 DEF SInv, RaisedByRun, Calm, GivenUp, Fresh
<1>7. \A i \in SubRates : Pending(i)' <=> Pending(i)
  BY <1>3, <1>4, <1>5 DEF Pending
<1> QED
  BY <1>3, <1>4, <1>5, <1>6, <1>7 DEF Sched!FinishBase, Stepping

\* Lines 250-260: a due subrate is released, or its overrun reported; one that
\* is not due is only counted.
LEMMA SubrateIsReleased ==
    ASSUME IInv, SInv, ReleaseSubrate
    PROVE  /\ SInv'
           /\ \/ \E i \in SubRates : Sched!Release(i) \/ Sched!Overrun(i)
              \/ UNCHANGED Sched!svars
<1>0. PICK t \in SubRates : t = Top.tid
  BY DEF ReleaseSubrate
<1>1. /\ stack # <<>> /\ Top.pc = "release" /\ Top.tid = t /\ main = "loop" /\ Calm
      /\ At("release")
  BY <1>0 DEF IInv, ReleaseSubrate, At, OnlyInLoop, Calm
<1>2. 0 \in Tids /\ \A i \in SubRates : i \in Tids /\ i # 0
  BY TaskIds
<1>3. \A i \in SubRates : /\ OverrunFlags[i] \in 0 .. (FlagMod - 1) /\ OverrunFlags[i] <= 1
                          /\ eventFlags[i] \in 0 .. (FlagMod - 1) /\ eventFlags[i] <= 1
  BY <1>1, <1>2 DEF IInv, SingleFlags, TypeOK
<1>4. /\ \A i : Executing(i) <=> Held(i)
      /\ \A i : ~Completing(i)
      /\ Stepping
  BY <1>1, Views DEF Stepping, At
<1>5. \A i \in SubRates :
          /\ Executing(i) => eventFlags[i] # 0 /\ OverrunFlags[i] # 0
          /\ OverrunFlags[i] # 0 => Executing(i)
  <2>1. \A i : Executing(i) => eventFlags[i] # 0 /\ OverrunFlags[i] # 0
    BY DEF IInv, EventUp, RunFlag, Executing
  <2> QED
    BY <1>1, <2>1 DEF SInv, RaisedByRun
<1>6. /\ eventFlags' = [eventFlags EXCEPT ![t] = IF StepTask(t) THEN eventFlags[t] + 1
                                                  ELSE eventFlags[t]]
      /\ main' = main
  <2>1. Inc(eventFlags[t]) = eventFlags[t] + 1
    BY <1>3, FlagArithmetic
  <2> QED
    BY <1>1, <2>1 DEF ReleaseSubrate, mainVars
<1>7. eventFlags \in [Tids -> 0 .. (FlagMod - 1)]
  BY DEF IInv, TypeOK
<1>8. CASE StepTask(t) /\ eventFlags[t] # 0
  <2>1. /\ stack' = Pop /\ errorStatus' = "Overrun"
        /\ OverrunFlags' = [OverrunFlags EXCEPT ![0] = Dec(OverrunFlags[0]),
                                                 ![t] = Inc(OverrunFlags[t])]
    BY <1>1, <1>8 DEF ReleaseSubrate
  <2>2. /\ \A i : Executing(i)' <=> Executing(i)
        /\ \A i : ~Completing(i)'
        /\ ~At("release")' /\ ~Stepping'
    BY <1>1, <1>4, <2>1, PopViews
  <2>3. /\ OverrunFlags'[t] = OverrunFlags[t] + 1
        /\ \A i \in SubRates : i # t => OverrunFlags'[i] = OverrunFlags[i]
    <3>1. Inc(OverrunFlags[t]) = OverrunFlags[t] + 1
      BY <1>3, FlagArithmetic
    <3>2. OverrunFlags \in [Tids -> 0 .. (FlagMod - 1)]
      BY DEF IInv, TypeOK
    <3> QED
      BY <1>2, <2>1, <3>1, <3>2
  <2>4. \A i \in SubRates : i # t => eventFlags'[i] = eventFlags[i]
    BY <1>2, <1>6, <1>7
  <2>5. eventFlags'[t] = 2 /\ eventFlags[t] = 1
    BY <1>2, <1>3, <1>6, <1>7, <1>8
  <2>6. OverrunFlags'[t] # 0
    BY <1>3, <2>3
  <2>7. SInv'
    <3>1. RaisedByRun'
      BY <2>1, <2>2 DEF RaisedByRun, Calm, None
    <3>2. OverrunFlags'[t] > IF Executing(t)' THEN 1 ELSE 0
      BY <1>3, <1>5, <2>2, <2>3
    <3>3. \A i \in SubRates : i # t => ~(eventFlags'[i] > 1)
      BY <1>3, <2>4
    <3> QED
      BY <1>1, <1>6, <3>1, <3>2, <3>3 DEF SInv, GivenUp, Fresh
  <2>8. /\ Pending(t) \/ Executing(t)
        /\ \A i \in SubRates : i # t => (Pending(i)' <=> Pending(i))
    BY <1>4, <1>5, <1>8, <2>2, <2>3, <2>4, <2>6 DEF Pending
  <2>9. ~Pending(t)'
    BY <2>6 DEF Pending
  <2>10. Sched!Overrun(t)
    BY <1>4, <2>1, <2>2, <2>8, <2>9 DEF Sched!Overrun, Stepping, None
  <2> QED
    BY <2>7, <2>10
<1>9. CASE ~(StepTask(t) /\ eventFlags[t] # 0)
  <2>1. Goto("release", t + 1) /\ UNCHANGED <<OverrunFlags, errorStatus>>
    BY <1>1, <1>9 DEF ReleaseSubrate
  <2>2. /\ \A i : Executing(i)' <=> Executing(i)
        /\ \A i : Completing(i)' <=> Completing(i)
        /\ At("release")' /\ Stepping'
    <3>1. t + 1 \in (FirstTid + 1) .. (NUMST + 1) /\ "release" \in Pcs
      BY NumstAssumption, FirstTidAssumption DEF Pcs, SubRates
    <3> QED
      BY <1>1, <1>4, <2>1, <3>1, GotoViews
  <2>3. CASE StepTask(t)
    <3>1. eventFlags[t] = 0 /\ ~Executing(t) /\ OverrunFlags[t] = 0
      BY <1>5, <1>9, <2>3
    <3>2. /\ eventFlags'[t] = 1
          /\ \A i \in SubRates : i # t => eventFlags'[i] = eventFlags[i]
      BY <1>2, <1>6, <1>7, <2>3, <3>1
    <3>3. SInv'
      <4>1. RaisedByRun'
        BY <1>1, <2>1, <2>2 DEF SInv, RaisedByRun
      <4>2. \A i \in SubRates : ~(eventFlags'[i] > 1)
        BY <1>3, <3>2
      <4> QED
        BY <1>1, <1>6, <4>1, <4>2 DEF SInv, GivenUp, Fresh
    <3>4. /\ Pending(t)' /\ ~Pending(t)
          /\ \A i \in SubRates : i # t => (Pending(i)' <=> Pending(i))
      BY <1>4, <2>1, <2>2, <3>1, <3>2 DEF Pending
    <3>5. Sched!Release(t)
      BY <1>4, <2>1, <2>2, <3>1, <3>4 DEF Sched!Release, Stepping
    <3> QED
      BY <3>3, <3>5
  <2>4. CASE ~StepTask(t)
    <3>1. eventFlags' = eventFlags
      BY <1>2, <1>6, <1>7, <2>4
    <3> QED
      BY <1>1, <1>4, <1>6, <2>1, <2>2, <3>1, Stutters
  <2> QED
    BY <2>3, <2>4
<1> QED
  BY <1>8, <1>9

\* Lines 228-246: a call of rt_OneStep starts the base rate step, or finds it
\* in progress or an error status set, and fails.
LEMMA EntryStartsOrFails ==
    ASSUME IInv, SInv, Enter, main = "loop", main' = main
    PROVE  SInv' /\ (Sched!StartBase \/ Sched!Fail)
<1>1. /\ \A i \in SubRates : OverrunFlags'[i] = OverrunFlags[i]
      /\ eventFlags' = eventFlags
  BY TaskIds DEF IInv, TypeOK, Enter
<1>2. CASE errorStatus = None /\ OverrunFlags[0] = 0
  <2> DEFINE f == [pc |-> "release", tid |-> FirstTid + 1]
             n == Len(stack)
  <2>1. stack' = Append(stack, f) /\ errorStatus' = None
    BY <1>2 DEF Enter
  <2>2. f \in Frame /\ f.pc = "release"
    BY NumstAssumption, FirstTidAssumption DEF Frame, Pcs
  <2> HIDE DEF f
  <2>3. stack \in Seq(Frame)
    BY DEF IInv, TypeOK
  <2>4. /\ stack' \in Seq(Frame) /\ n \in Nat /\ Len(stack') = n + 1
        /\ DOMAIN stack = 1 .. n /\ DOMAIN stack' = 1 .. (n + 1)
        /\ stack'[n + 1].pc = "release"
        /\ \A k \in 1 .. n : stack'[k] = stack[k]
    BY <2>1, <2>2, <2>3, PushFacts
  <2>5. 1 .. (n + 1) = (1 .. n) \cup {n + 1}
    BY <2>4
  <2>6. /\ \A i : Executing(i)' <=> Executing(i)
        /\ \A i : Completing(i)' <=> Completing(i)
    BY <2>4, <2>5 DEF Executing, Completing
  <2>7. stack' # <<>> /\ Top'.pc = "release"
    BY <2>4, EmptySeq DEF Top
  <2>8. ~Stepping /\ Stepping'
    BY <1>2, <2>7 DEF IInv, BaseFlag, Stepping, At
  <2>9. SInv'
    BY <1>1, <1>2, <2>1, <2>6 DEF SInv, RaisedByRun, Calm, GivenUp, Fresh
  <2>10. \A i \in SubRates : Pending(i)' <=> Pending(i)
    BY <1>1, <2>6 DEF Pending
  <2>11. Sched!StartBase
    BY <1>2, <2>1, <2>6, <2>8, <2>10 DEF Sched!StartBase, Stepping
  <2> QED
    BY <2>9, <2>11
<1>3. CASE ~(errorStatus = None /\ OverrunFlags[0] = 0)
  <2>1. stack' = stack /\ errorStatus' # None
    BY <1>3 DEF Enter, None
  <2>2. /\ \A i : Executing(i)' <=> Executing(i)
        /\ \A i : Completing(i)' <=> Completing(i)
        /\ Stepping' <=> Stepping
        /\ At("release")' <=> At("release")
    BY <2>1 DEF Executing, Completing, Stepping, At, Top
  <2>3. SInv'
    BY <1>1, <2>1, <2>2 DEF SInv, RaisedByRun, Calm, GivenUp, Fresh
  <2>4. \A i \in SubRates : Pending(i)' <=> Pending(i)
    BY <1>1, <2>2 DEF Pending
  <2>5. Sched!Fail
    BY <2>1, <2>2, <2>4 DEF Sched!Fail, Stepping
  <2> QED
    BY <2>3, <2>5
<1> QED
  BY <1>2, <1>3

\* Lines 400-479: main outside of rt_OneStep stutters, unless the registration
\* or the initialisation of the model sets an error status.
LEMMA MainStuttersOrFails ==
    ASSUME IInv, SInv,
           \/ RegisterFails \/ Register \/ StartDataLoggingFails \/ StartDataLogging
           \/ rt_InitModel \/ StopRequest \/ Finish
    PROVE  SInv' /\ (Sched!Fail \/ UNCHANGED Sched!svars)
<1>1. CASE RegisterFails \/ StartDataLoggingFails \/ StartDataLogging \/ StopRequest \/ Finish
  <2>1. /\ UNCHANGED taskVars /\ errorStatus' = errorStatus
        /\ main' = main \/ errorStatus = None \/ main' = "exit"
    BY <1>1 DEF RegisterFails, StartDataLoggingFails, StartDataLogging, StopRequest, Finish,
       mainVars, SInv, Fresh
  <2>2. /\ UNCHANGED <<stack, OverrunFlags, eventFlags>>
        /\ \A i : Executing(i)' <=> Executing(i)
        /\ \A i : Completing(i)' <=> Completing(i)
        /\ Stepping' <=> Stepping
        /\ At("release")' <=> At("release")
    BY <2>1 DEF taskVars, Executing, Completing, Stepping, At, Top
  <2>3. CASE main' = main \/ errorStatus = None
    BY <2>1, <2>2, <2>3, Stutters
  <2>4. CASE main' = "exit"
    <3>1. SInv'
      BY <2>1, <2>2, <2>4 DEF SInv, RaisedByRun, Calm, GivenUp, Fresh
    <3>2. UNCHANGED Sched!svars
      BY <2>1, <2>2 DEF Sched!svars, Pending, Stepping
    <3> QED
      BY <3>1, <3>2
  <2> QED
    BY <2>1, <2>3, <2>4
<1>2. CASE Register \/ rt_InitModel
  <2>1. /\ stack = <<>> /\ stack' = <<>>
        /\ errorStatus = None
        /\ main' \in {"log", "init", "register"} => errorStatus' = None
    BY <1>2 DEF Register, rt_InitModel, IInv, OnlyInLoop, taskVars, SInv, Fresh, None
  <2>2. \A i \in SubRates : /\ eventFlags[i] = 0 /\ eventFlags'[i] = 0
                            /\ OverrunFlags[i] = 0 /\ OverrunFlags'[i] = 0
    <3>1. \A i \in SubRates : eventFlags[i] = 0
      BY <2>1 DEF IInv, Cover
    <3>2. \A i \in SubRates : OverrunFlags[i] = 0
      BY <2>1 DEF SInv, RaisedByRun, Calm, Executing
    <3>3. CASE Register
      BY <3>1, <3>2, <3>3 DEF Register, taskVars
    <3>4. CASE rt_InitModel
      BY <3>1, <3>2, <3>4, TaskIds DEF rt_InitModel
    <3> QED
      BY <1>2, <3>3, <3>4
  <2>3. /\ \A i : ~Executing(i) /\ ~Executing(i)'
        /\ ~Stepping /\ ~Stepping'
    BY <2>1 DEF Executing, Stepping, At
  <2>4. SInv'
    BY <2>1, <2>2 DEF SInv, RaisedByRun, GivenUp, Fresh
  <2>5. \A i \in SubRates : ~Pending(i) /\ ~Pending(i)'
    BY <2>2 DEF Pending
  <2>6. CASE errorStatus' = None
    BY <2>1, <2>3, <2>4, <2>5, <2>6 DEF Sched!svars, Stepping
  <2>7. CASE errorStatus' # None
    BY <2>1, <2>3, <2>4, <2>5, <2>7 DEF Sched!Fail, Stepping
  <2> QED
    BY <2>6, <2>7
<1> QED
  BY <1>1, <1>2

-----------------------------------------------------------------------------
(* The theorem                                                              *)

\* Nothing is released, running or failed when main starts.
LEMMA StartsIdle == Init => SInv /\ Sched!Init
<1> SUFFICES ASSUME Init PROVE SInv /\ Sched!Init
  OBVIOUS
<1>1. /\ stack = <<>> /\ errorStatus = None
      /\ \A i \in SubRates : OverrunFlags[i] = 0 /\ eventFlags[i] = 0
  BY TaskIds DEF Init
<1>2. SInv
  BY <1>1 DEF SInv, RaisedByRun, GivenUp, Fresh
<1>3. Sched!Init
  BY <1>1 DEF Sched!Init, Pending, Executing, At
<1> QED
  BY <1>2, <1>3

\* Every step of the program is a step of the scheduler or a stutter.
LEMMA StepsAreScheduled ==
    ASSUME IInv, SInv, [Next]_vars
    PROVE  SInv' /\ [Sched!Next]_(Sched!svars)
<1>1. CASE rt_OneStep
  <2>1. CASE StepBase \/ ScanBlocked \/ Scan \/ TestEvent \/ Return
    BY <2>1, ScanStutters
  <2>2. CASE ReleaseSubrate
    BY <2>2, SubrateIsReleased DEF Sched!Next
  <2>3. CASE BaseDone
    BY <2>3, BaseFinishes DEF Sched!Next
  <2>4. CASE Claim
    BY <2>4, ClaimStarts DEF Sched!Next
  <2>5. CASE SubrateDone
    BY <2>5, SubrateFinishes DEF Sched!Next
  <2>6. CASE ClearEvent
    BY <2>6, HandBackStutters
  <2> QED
    BY <1>1, <2>1, <2>2, <2>3, <2>4, <2>5, <2>6 DEF rt_OneStep
<1>2. CASE LoopTurn \/ Interrupt
  BY <1>2, EntryStartsOrFails DEF LoopTurn, Interrupt, mainVars, Sched!Next
<1>3. CASE \/ RegisterFails \/ Register \/ StartDataLoggingFails \/ StartDataLogging
           \/ rt_InitModel \/ StopRequest \/ Finish
  BY <1>3, MainStuttersOrFails DEF Sched!Next
<1>4. CASE UNCHANGED vars
  <2>1. /\ UNCHANGED <<stack, OverrunFlags, eventFlags, errorStatus, main>>
    BY <1>4 DEF vars, taskVars, mainVars
  <2>2. /\ \A i : Executing(i)' <=> Executing(i)
        /\ \A i : Completing(i)' <=> Completing(i)
        /\ Stepping' <=> Stepping
        /\ At("release")' <=> At("release")
    BY <2>1 DEF Executing, Completing, Stepping, At, Top
  <2> QED
    BY <2>1, <2>2, Stutters
<1> QED
  BY <1>1, <1>2, <1>3, <1>4 DEF Next, Terminated

\* rt_OneStep is a preemptive rate-monotonic scheduler with overrun detection
\* (lines 214-306), whatever preempts it and whenever an error status is set.
THEOREM RtOneStepIsAScheduler == ASSUME FlagsProtected PROVE Spec => ImplementsScheduler
<1>1. IInv /\ SInv /\ [Next]_vars => SInv' /\ [Sched!Next]_(Sched!svars)
  BY StepsAreScheduled
<1>2. Init => SInv /\ Sched!Init
  BY StartsIdle
<1> QED
  BY Inductive, <1>1, <1>2, PTL DEF Spec, ImplementsScheduler, Sched!Spec
==============================================================================
