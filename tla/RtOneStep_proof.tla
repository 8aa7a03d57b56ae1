--------------------------- MODULE RtOneStep_proof ---------------------------
(***************************************************************************)
(* Proofs about rt_OneStep for every number of rates, every counter limit  *)
(* and every depth of preemption.  First the builds in which the flags are *)
(* tested and claimed with interrupts masked, or in which only the loop of *)
(* main calls rt_OneStep (FlagsProtected, the invariant IInv), then every  *)
(* build (the invariant AnyInv).                                           *)
(***************************************************************************)
EXTENDS RtOneStep, SequenceTheorems, TLAPS

\* The activation f is where interrupts are off.
Masked(f) == f.pc \in {"event", "claim", "done"}

\* The activation f has not begun its scan of the subrates.
Entering(f) == f.pc \in {"release", "base"}

\* No status was set that would stop a new activation at its entry, or the
\* innermost activation passed that check before.
Calm == errorStatus = None \/ At("release")

\* rt_OneStep is called only while main loops.
OnlyInLoop == main # "loop" => stack = <<>>

\* An activation beyond its scan works on a subrate.
OnSubrate ==
    \A k \in DOMAIN stack :
        stack[k].pc \in {"event", "claim", "run", "done"} => stack[k].tid \in SubRates

\* Only the innermost activation enters, or is between a test and its effect.
Innermost ==
    \A k \in DOMAIN stack : Entering(stack[k]) \/ Masked(stack[k]) => k = Len(stack)

\* An activation that preempts the step of subrate i has not looked at i yet,
\* or has looked at it and gone back to a faster one.
Nesting ==
    \A j, k \in DOMAIN stack :
        j < k /\ stack[j].pc = "run"
            => \/ Entering(stack[k])
               \/ stack[k].pc = "scan" /\ stack[k].tid <= stack[j].tid
               \/ stack[k].tid < stack[j].tid

\* While the base rate is stepped its flag is up, so that a second base step is
\* reported and never begun.
BaseFlag ==
    errorStatus = None =>
        OverrunFlags[0] = IF At("release") \/ At("base") THEN 1 ELSE 0

\* A subrate that is being stepped has its flag up; one about to be claimed
\* has it down.
RunFlag ==
    \A k \in DOMAIN stack :
        /\ stack[k].pc = "run" => OverrunFlags[stack[k].tid] # 0
        /\ stack[k].pc \in {"event", "claim"} => OverrunFlags[stack[k].tid] = 0

\* No flag is up twice until an error is reported.
SingleFlags ==
    Calm => \A i \in SubRates : OverrunFlags[i] <= 1 /\ eventFlags[i] <= 1

\* A flag is up only for a subrate that is being stepped.
FlaggedRuns ==
    errorStatus = None =>
        \A i \in SubRates : OverrunFlags[i] # 0 =>
            \E k \in DOMAIN stack : stack[k].pc = "run" /\ stack[k].tid = i

\* A claimed release stays visible until it is handed back.
EventUp ==
    \A k \in DOMAIN stack :
        stack[k].pc \in {"claim", "run", "done"} => eventFlags[stack[k].tid] # 0

\* Some activation still has every released subrate before it.
Cover ==
    errorStatus = None =>
        \A i \in SubRates : eventFlags[i] # 0 =>
            \E k \in DOMAIN stack : Entering(stack[k]) \/ stack[k].tid <= i

\* main terminates what it registers.
Lifecycle ==
    /\ main = "register" => model = "none" /\ logging = "off" /\ errorStatus = None
    /\ main = "log" => logging = "off"
    /\ main = "exit" => model \in {"none", "terminated"} /\ logging # "on"

IInv ==
    /\ TypeOK /\ OnlyInLoop /\ OnSubrate /\ Innermost /\ Nesting /\ BaseFlag /\ RunFlag
    /\ SingleFlags /\ FlaggedRuns /\ EventUp /\ Cover /\ Lifecycle

-----------------------------------------------------------------------------
\* Task 0 is the base rate, never a subrate.
LEMMA TaskIds ==
    0 \in Tids /\ \A i \in SubRates : i \in Tids /\ i \in Nat /\ i # 0
BY NumstAssumption, FirstTidAssumption DEF SubRates, Tids

\* A flag does not wrap before it reaches the width of boolean_T.
LEMMA FlagArithmetic ==
    \A n \in 0 .. (FlagMod - 1) :
        /\ Inc(n) \in 0 .. (FlagMod - 1)
        /\ Dec(n) \in 0 .. (FlagMod - 1)
        /\ n <= 1 => Inc(n) = n + 1
        /\ n # 0 => Dec(n) = n - 1
BY FlagModAssumption DEF Inc, Dec

\* A position that is not the last is below it.
LEMMA BelowTop == \A n \in Nat : \A k \in 1 .. n : k # n => k \in 1 .. (n - 1)
OBVIOUS

\* Moving the innermost activation leaves those it preempted alone.
LEMMA GotoFacts ==
    ASSUME NEW pc \in Pcs, NEW tid \in (FirstTid + 1) .. (NUMST + 1),
           stack \in Seq(Frame), stack # <<>>, Goto(pc, tid)
    PROVE  /\ stack' \in Seq(Frame) /\ Len(stack) \in Nat /\ Len(stack) > 0
           /\ Len(stack') = Len(stack)
           /\ DOMAIN stack = 1 .. Len(stack) /\ DOMAIN stack' = 1 .. Len(stack)
           /\ stack'[Len(stack)].pc = pc /\ stack'[Len(stack)].tid = tid
           /\ \A k \in 1 .. (Len(stack) - 1) : stack'[k] = stack[k]
BY DEF Goto, Frame

\* Returning uncovers the activations that were preempted.
LEMMA PopFacts ==
    ASSUME stack \in Seq(Frame), stack # <<>>, stack' = Pop
    PROVE  /\ stack' \in Seq(Frame) /\ Len(stack) \in Nat /\ Len(stack) > 0
           /\ Len(stack') = Len(stack) - 1
           /\ DOMAIN stack = 1 .. Len(stack) /\ DOMAIN stack' = 1 .. (Len(stack) - 1)
           /\ \A k \in 1 .. (Len(stack) - 1) : stack'[k] = stack[k]
<1>1. Len(stack) \in Nat /\ Len(stack) > 0 /\ DOMAIN stack = 1 .. Len(stack)
    /\ \A k \in 1 .. Len(stack) : stack[k] \in Frame
  BY EmptySeq
<1>2. /\ SubSeq(stack, 1, Len(stack) - 1) \in Seq(Frame)
      /\ Len(SubSeq(stack, 1, Len(stack) - 1)) = Len(stack) - 1
      /\ \A k \in 1 .. (Len(stack) - 1) : SubSeq(stack, 1, Len(stack) - 1)[k] = stack[k]
  <2>1. \A k \in 1 .. (Len(stack) - 1) : stack[k] \in Frame
    BY <1>1
  <2> QED
    BY <1>1, <2>1, SubSeqProperties
<1> QED
  BY <1>1, <1>2, LenProperties DEF Pop

\* An interrupt adds an activation above the others.
LEMMA PushFacts ==
    ASSUME NEW f \in Frame, stack \in Seq(Frame), stack' = Append(stack, f)
    PROVE  /\ stack' \in Seq(Frame) /\ Len(stack) \in Nat
           /\ Len(stack') = Len(stack) + 1
           /\ DOMAIN stack = 1 .. Len(stack) /\ DOMAIN stack' = 1 .. (Len(stack) + 1)
           /\ stack'[Len(stack) + 1] = f
           /\ \A k \in 1 .. Len(stack) : stack'[k] = stack[k]
BY DEF Frame

\* The innermost activation is one of the frames.
LEMMA TopFacts ==
    ASSUME stack \in Seq(Frame), stack # <<>>
    PROVE  /\ Len(stack) \in Nat /\ Len(stack) > 0 /\ DOMAIN stack = 1 .. Len(stack)
           /\ Len(stack) \in DOMAIN stack /\ Top = stack[Len(stack)]
           /\ Top \in Frame
           /\ Top.pc \in Pcs /\ Top.tid \in (FirstTid + 1) .. (NUMST + 1)
<1>1. Len(stack) \in Nat /\ Len(stack) > 0 /\ DOMAIN stack = 1 .. Len(stack)
  BY EmptySeq, LenProperties
<1>2. Top \in Frame
  BY <1>1, ElementOfSeq DEF Top
<1> QED
  BY <1>1, <1>2 DEF Top, Frame

\* Lines 262-267: the base rate is stepped.
LEMMA StepBaseStep == ASSUME IInv, StepBase PROVE IInv'
<1> DEFINE n == Len(stack)
           t == Top.tid
<1> USE DEF IInv
<1>1. stack \in Seq(Frame) /\ stack # <<>> /\ Top.pc = "release" /\ Top = stack[n]
  BY TopFacts DEF TypeOK, StepBase, At
<1>2. 0 \in Tids /\ \A i \in SubRates : i \in Tids /\ i \in Nat /\ i # 0
  BY TaskIds
<1>3. /\ stack' \in Seq(Frame) /\ stack' # <<>> /\ n \in Nat /\ n > 0 /\ Len(stack') = n
      /\ DOMAIN stack = 1 .. n /\ DOMAIN stack' = 1 .. n
      /\ stack'[n].pc = "base" /\ stack'[n].tid = FirstTid + 1
      /\ \A k \in 1 .. (n - 1) : stack'[k] = stack[k]
      /\ Top' = stack'[n]
  <2>1. FirstTid + 1 \in (FirstTid + 1) .. (NUMST + 1)
    BY <1>1, NumstAssumption, FirstTidAssumption, TopFacts DEF SubRates
  <2>2. Goto("base", FirstTid + 1) /\ "base" \in Pcs
    BY <1>1 DEF StepBase, Pcs
  <2> QED
    BY <1>1, <2>1, <2>2, GotoFacts DEF Top
<1>5. /\ OverrunFlags' = OverrunFlags /\ eventFlags' = eventFlags /\ taskCounter' = taskCounter /\ errorStatus' = errorStatus /\ stopRequested' = stopRequested
      /\ driver' = driver /\ main' = main /\ model' = model
      /\ logging' = logging /\ exitCode' = exitCode
  BY DEF StepBase, mainVars
<1>6. TypeOK' /\ OnlyInLoop' /\ Lifecycle'
  BY <1>1, <1>3, <1>5 DEF TypeOK, OnlyInLoop, Lifecycle
<1>7. OnSubrate'
  BY <1>1, <1>3 DEF OnSubrate
<1>8. Innermost'
  BY <1>3 DEF Innermost, Entering, Masked
<1>9. Nesting'
  BY <1>1, <1>2, <1>3, TopFacts DEF Nesting, Entering, OnSubrate
<1>10. BaseFlag'
  BY <1>1, <1>2, <1>3, <1>5 DEF BaseFlag, At
<1>11. RunFlag'
  BY <1>1, <1>2, <1>3, <1>5 DEF RunFlag, OnSubrate, Innermost, Masked
<1>12. SingleFlags'
  BY <1>1, <1>2, <1>3, <1>5 DEF SingleFlags, Calm, At
<1>13. FlaggedRuns'
  BY <1>1, <1>2, <1>3, <1>5, TopFacts DEF FlaggedRuns
<1>14. EventUp'
  BY <1>1, <1>2, <1>3, <1>5 DEF EventUp
<1>15. Cover'
  BY <1>1, <1>2, <1>3, <1>5, TopFacts DEF Cover, Entering
<1> QED
  BY <1>6, <1>7, <1>8, <1>9, <1>10, <1>11, <1>12, <1>13, <1>14, <1>15

\* Line 275: the base rate is done and may be interrupted by itself.
LEMMA BaseDoneStep == ASSUME IInv, BaseDone PROVE IInv'
<1> DEFINE n == Len(stack)
           t == Top.tid
<1> USE DEF IInv
<1>1. stack \in Seq(Frame) /\ stack # <<>> /\ Top.pc = "base" /\ Top = stack[n]
  BY TopFacts DEF TypeOK, BaseDone, At
<1>2. 0 \in Tids /\ \A i \in SubRates : i \in Tids /\ i \in Nat /\ i # 0
  BY TaskIds
<1>3. /\ stack' \in Seq(Frame) /\ stack' # <<>> /\ n \in Nat /\ n > 0 /\ Len(stack') = n
      /\ DOMAIN stack = 1 .. n /\ DOMAIN stack' = 1 .. n
      /\ stack'[n].pc = "scan" /\ stack'[n].tid = FirstTid + 1
      /\ \A k \in 1 .. (n - 1) : stack'[k] = stack[k]
      /\ Top' = stack'[n]
  <2>1. FirstTid + 1 \in (FirstTid + 1) .. (NUMST + 1)
    BY <1>1, NumstAssumption, FirstTidAssumption, TopFacts DEF SubRates
  <2>2. Goto("scan", FirstTid + 1) /\ "scan" \in Pcs
    BY <1>1 DEF BaseDone, Pcs
  <2> QED
    BY <1>1, <2>1, <2>2, GotoFacts DEF Top
<1>4. /\ OverrunFlags' \in [Tids -> 0 .. (FlagMod - 1)]
      /\ \A i \in SubRates : OverrunFlags'[i] = OverrunFlags[i]
      /\ OverrunFlags[0] = 1 => OverrunFlags'[0] = 0
      /\ errorStatus' \in Statuses /\ stopRequested' \in BOOLEAN
      /\ errorStatus' = None => errorStatus = None
  <2>1. OverrunFlags[0] \in 0 .. (FlagMod - 1)
    BY <1>2 DEF TypeOK
  <2>2. /\ Dec(OverrunFlags[0]) \in 0 .. (FlagMod - 1)
        /\ OverrunFlags[0] = 1 => Dec(OverrunFlags[0]) = 0
    BY <2>1, FlagArithmetic
  <2>3. OverrunFlags' = [OverrunFlags EXCEPT ![0] = Dec(OverrunFlags[0])]
    BY DEF BaseDone
  <2> QED
    BY <1>2, <2>2, <2>3 DEF TypeOK, BaseDone, ModelStepEffects, Statuses, None
<1>5. /\ eventFlags' = eventFlags /\ taskCounter' = taskCounter
      /\ driver' = driver /\ main' = main /\ model' = model
      /\ logging' = logging /\ exitCode' = exitCode
  BY DEF BaseDone, mainVars
<1>6. TypeOK' /\ OnlyInLoop' /\ Lifecycle'
  BY <1>1, <1>3, <1>4, <1>5 DEF TypeOK, OnlyInLoop, Lifecycle
<1>7. OnSubrate'
  BY <1>1, <1>3 DEF OnSubrate
<1>8. Innermost'
  BY <1>3 DEF Innermost, Entering, Masked
<1>9. Nesting'
  BY <1>1, <1>2, <1>3, FirstTidAssumption, NumstAssumption DEF Nesting, Entering, OnSubrate, SubRates
<1>10. BaseFlag'
  BY <1>1, <1>3, <1>4 DEF BaseFlag, At
<1>11. RunFlag'
  BY <1>1, <1>3, <1>4 DEF RunFlag, OnSubrate
<1>12. SingleFlags'
  BY <1>1, <1>3, <1>4, <1>5 DEF SingleFlags, Calm, At
<1>13. FlaggedRuns'
  BY <1>1, <1>3, <1>4 DEF FlaggedRuns
<1>14. EventUp'
  BY <1>1, <1>2, <1>3, <1>5 DEF EventUp
<1>15. Cover'
  BY <1>1, <1>3, <1>4, <1>5, FirstTidAssumption, NumstAssumption DEF Cover, Entering, SubRates
<1> QED
  BY <1>6, <1>7, <1>8, <1>9, <1>10, <1>11, <1>12, <1>13, <1>14, <1>15

\* Line 284: a running subrate ends the scan, its activation covers the rest.
LEMMA ScanBlockedStep == ASSUME IInv, ScanBlocked PROVE IInv'
<1> DEFINE n == Len(stack)
           t == Top.tid
<1> USE DEF IInv
<1>1. stack \in Seq(Frame) /\ stack # <<>> /\ Top.pc = "scan" /\ Top = stack[n] /\ t \in SubRates
      /\ OverrunFlags[t] # 0
  BY TopFacts DEF TypeOK, ScanBlocked, At
<1>2. 0 \in Tids /\ \A i \in SubRates : i \in Tids /\ i \in Nat /\ i # 0
  BY TaskIds
<1>3. /\ stack' \in Seq(Frame) /\ n \in Nat /\ n > 0 /\ Len(stack') = n - 1
      /\ DOMAIN stack = 1 .. n /\ DOMAIN stack' = 1 .. (n - 1)
      /\ \A k \in 1 .. (n - 1) : stack'[k] = stack[k]
      /\ stack' # <<>> => n - 1 \in 1 .. (n - 1) /\ Top' = stack[n - 1]
  <2>1. stack' = Pop
    BY <1>1 DEF ScanBlocked
  <2>2. /\ stack' \in Seq(Frame) /\ n \in Nat /\ n > 0 /\ Len(stack') = n - 1
        /\ DOMAIN stack = 1 .. n /\ DOMAIN stack' = 1 .. (n - 1)
        /\ \A k \in 1 .. (n - 1) : stack'[k] = stack[k]
    BY <1>1, <2>1, PopFacts
  <2>3. stack' # <<>> => Len(stack') > 0
    BY <2>2, EmptySeq
  <2> QED
    BY <2>2, <2>3 DEF Top
<1>5. /\ OverrunFlags' = OverrunFlags /\ eventFlags' = eventFlags /\ taskCounter' = taskCounter /\ errorStatus' = errorStatus /\ stopRequested' = stopRequested
      /\ driver' = driver /\ main' = main /\ model' = model
      /\ logging' = logging /\ exitCode' = exitCode
  BY DEF ScanBlocked, mainVars
<1>6. TypeOK' /\ OnlyInLoop' /\ Lifecycle'
  BY <1>1, <1>3, <1>5 DEF TypeOK, OnlyInLoop, Lifecycle
<1>7. OnSubrate'
  BY <1>1, <1>3 DEF OnSubrate
<1>8. Innermost'
  BY <1>1, <1>3 DEF Innermost, Entering, Masked
<1>9. Nesting'
  BY <1>1, <1>3 DEF Nesting, Entering
<1>10. BaseFlag'
  BY <1>1, <1>3, <1>5 DEF BaseFlag, At, Innermost, Entering
<1>11. RunFlag'
  BY <1>1, <1>2, <1>3, <1>5 DEF RunFlag, OnSubrate, Innermost, Masked
<1>12. SingleFlags'
  BY <1>1, <1>3, <1>5 DEF SingleFlags, Calm, At, Innermost, Entering
<1>13. FlaggedRuns'
  BY <1>1, <1>3, <1>5 DEF FlaggedRuns
<1>14. EventUp'
  BY <1>1, <1>2, <1>3, <1>5 DEF EventUp
<1>15. Cover'
  <2> SUFFICES ASSUME errorStatus' = None, NEW i \in SubRates, eventFlags'[i] # 0
               PROVE  \E k \in 1 .. (n - 1) : Entering(stack[k]) \/ stack[k].tid <= i
    BY <1>3 DEF Cover, Entering
  <2>1. PICK k \in 1 .. n : Entering(stack[k]) \/ stack[k].tid <= i
    BY <1>3, <1>5 DEF Cover
  <2>2. PICK j \in 1 .. n : stack[j].pc = "run" /\ stack[j].tid = t
    BY <1>1, <1>3, <1>5 DEF FlaggedRuns
  <2>3. j \in 1 .. (n - 1)
    BY <1>1, <1>3, <2>2
  <2>4. CASE k = n
    BY <1>1, <2>1, <2>2, <2>3, <2>4 DEF Entering
  <2>5. CASE k # n
    BY <1>3, <2>1, <2>5
  <2> QED
    BY <2>4, <2>5
<1> QED
  BY <1>6, <1>7, <1>8, <1>9, <1>10, <1>11, <1>12, <1>13, <1>14, <1>15

\* Line 284: a subrate that is not running is looked at.
LEMMA ScanStep == ASSUME IInv, Scan PROVE IInv'
<1> DEFINE n == Len(stack)
           t == Top.tid
<1> USE DEF IInv
<1>1. stack \in Seq(Frame) /\ stack # <<>> /\ Top.pc = "scan" /\ Top = stack[n] /\ t \in SubRates
      /\ OverrunFlags[t] = 0
  BY TopFacts DEF TypeOK, Scan, At
<1>2. 0 \in Tids /\ \A i \in SubRates : i \in Tids /\ i \in Nat /\ i # 0
  BY TaskIds
<1>3. /\ stack' \in Seq(Frame) /\ stack' # <<>> /\ n \in Nat /\ n > 0 /\ Len(stack') = n
      /\ DOMAIN stack = 1 .. n /\ DOMAIN stack' = 1 .. n
      /\ stack'[n].pc = "event" /\ stack'[n].tid = t
      /\ \A k \in 1 .. (n - 1) : stack'[k] = stack[k]
      /\ Top' = stack'[n]
  <2>1. t \in (FirstTid + 1) .. (NUMST + 1)
    BY <1>1, NumstAssumption, FirstTidAssumption, TopFacts DEF SubRates
  <2>2. Goto("event", t) /\ "event" \in Pcs
    BY <1>1 DEF Scan, Pcs
  <2> QED
    BY <1>1, <2>1, <2>2, GotoFacts DEF Top
<1>5. /\ OverrunFlags' = OverrunFlags /\ eventFlags' = eventFlags /\ taskCounter' = taskCounter /\ errorStatus' = errorStatus /\ stopRequested' = stopRequested
      /\ driver' = driver /\ main' = main /\ model' = model
      /\ logging' = logging /\ exitCode' = exitCode
  BY DEF Scan, mainVars
<1>6. TypeOK' /\ OnlyInLoop' /\ Lifecycle'
  BY <1>1, <1>3, <1>5 DEF TypeOK, OnlyInLoop, Lifecycle
<1>7. OnSubrate'
  BY <1>1, <1>3 DEF OnSubrate
<1>8. Innermost'
  BY <1>3 DEF Innermost, Entering, Masked
<1>9. Nesting'
  <2> SUFFICES ASSUME NEW j \in 1 .. (n - 1), stack[j].pc = "run"
               PROVE  t < stack[j].tid
    BY <1>1, <1>3 DEF Nesting, Entering
  <2>1. stack[j].tid \in SubRates /\ stack[j].tid # t
    BY <1>1, <1>3 DEF OnSubrate, RunFlag
  <2>2. t <= stack[j].tid
    BY <1>1, <1>2, <1>3, <2>1 DEF Nesting, Entering
  <2> QED
    BY <1>1, <1>2, <2>1, <2>2
<1>10. BaseFlag'
  BY <1>1, <1>2, <1>3, <1>5 DEF BaseFlag, At
<1>11. RunFlag'
  BY <1>1, <1>2, <1>3, <1>5 DEF RunFlag, OnSubrate, Innermost, Masked
<1>12. SingleFlags'
  BY <1>1, <1>2, <1>3, <1>5 DEF SingleFlags, Calm, At
<1>13. FlaggedRuns'
  BY <1>1, <1>2, <1>3, <1>5, TopFacts DEF FlaggedRuns
<1>14. EventUp'
  BY <1>1, <1>2, <1>3, <1>5 DEF EventUp
<1>15. Cover'
  BY <1>1, <1>2, <1>3, <1>5, TopFacts DEF Cover, Entering
<1> QED
  BY <1>6, <1>7, <1>8, <1>9, <1>10, <1>11, <1>12, <1>13, <1>14, <1>15

\* Line 287: the subrate is marked running.
LEMMA ClaimStep == ASSUME IInv, Claim PROVE IInv'
<1> DEFINE n == Len(stack)
           t == Top.tid
<1> USE DEF IInv
<1>1. stack \in Seq(Frame) /\ stack # <<>> /\ Top.pc = "claim" /\ Top = stack[n]
      /\ t \in SubRates
      /\ OverrunFlags[t] = 0 /\ eventFlags[t] # 0
  BY TopFacts DEF TypeOK, Claim, At, OnSubrate, RunFlag, EventUp
<1>2. 0 \in Tids /\ \A i \in SubRates : i \in Tids /\ i \in Nat /\ i # 0
  BY TaskIds
<1>3. /\ stack' \in Seq(Frame) /\ stack' # <<>> /\ n \in Nat /\ n > 0 /\ Len(stack') = n
      /\ DOMAIN stack = 1 .. n /\ DOMAIN stack' = 1 .. n
      /\ stack'[n].pc = "run" /\ stack'[n].tid = t
      /\ \A k \in 1 .. (n - 1) : stack'[k] = stack[k]
      /\ Top' = stack'[n]
  BY <1>1, TopFacts, GotoFacts DEF Claim, Pcs, Top
<1>4. /\ OverrunFlags' \in [Tids -> 0 .. (FlagMod - 1)]
      /\ OverrunFlags'[t] = 1
      /\ \A i \in Tids : i # t => OverrunFlags'[i] = OverrunFlags[i]
  <2>1. Inc(0) = 1 /\ 1 \in 0 .. (FlagMod - 1)
    BY FlagArithmetic, FlagModAssumption
  <2>2. OverrunFlags' = [OverrunFlags EXCEPT ![t] = 1]
    BY <1>1, <2>1 DEF Claim
  <2> QED
    BY <1>1, <1>2, <2>1, <2>2 DEF TypeOK
<1>5. /\ eventFlags' = eventFlags /\ taskCounter' = taskCounter /\ errorStatus' = errorStatus
      /\ stopRequested' = stopRequested /\ driver' = driver /\ main' = main
      /\ model' = model /\ logging' = logging /\ exitCode' = exitCode
  BY DEF Claim, mainVars
<1>6. TypeOK' /\ OnlyInLoop' /\ Lifecycle'
  BY <1>1, <1>3, <1>4, <1>5 DEF TypeOK, OnlyInLoop, Lifecycle
<1>7. OnSubrate'
  BY <1>1, <1>3 DEF OnSubrate
<1>8. Innermost'
  BY <1>3 DEF Innermost, Entering, Masked
<1>9. Nesting'
  BY <1>1, <1>3, TopFacts DEF Nesting, Entering
<1>10. BaseFlag'
  BY <1>1, <1>2, <1>3, <1>4, <1>5 DEF BaseFlag, At
<1>11. RunFlag'
  <2> SUFFICES ASSUME NEW k \in 1 .. (n - 1)
               PROVE  /\ stack[k].pc = "run" => OverrunFlags'[stack[k].tid] # 0
                      /\ stack[k].pc \notin {"event", "claim"}
    BY <1>3, <1>4 DEF RunFlag
  <2>1. stack[k].pc \notin {"event", "claim"}
    BY <1>3 DEF Innermost, Masked
  <2>2. stack[k].pc = "run" => stack[k].tid \in SubRates /\ OverrunFlags[stack[k].tid] # 0
    BY <1>3 DEF OnSubrate, RunFlag
  <2> QED
    BY <1>2, <1>4, <2>1, <2>2
<1>12. SingleFlags'
  <2> SUFFICES ASSUME errorStatus = None, NEW i \in SubRates
               PROVE  OverrunFlags'[i] <= 1 /\ eventFlags'[i] <= 1
    BY <1>3, <1>5 DEF SingleFlags, Calm, At
  <2>1. OverrunFlags[i] <= 1 /\ eventFlags[i] <= 1
    BY DEF SingleFlags, Calm
  <2> QED
    BY <1>2, <1>4, <1>5, <2>1
<1>13. FlaggedRuns'
  <2> SUFFICES ASSUME errorStatus = None, NEW i \in SubRates, OverrunFlags'[i] # 0
               PROVE  \E k \in 1 .. n : stack'[k].pc = "run" /\ stack'[k].tid = i
    BY <1>3, <1>5 DEF FlaggedRuns
  <2>1. CASE i = t
    BY <1>3, <2>1
  <2>2. CASE i # t
    <3>1. PICK k \in 1 .. n : stack[k].pc = "run" /\ stack[k].tid = i
      BY <1>2, <1>3, <1>4, <2>2 DEF FlaggedRuns
    <3>2. k \in 1 .. (n - 1)
      BY <1>1, <1>3, <3>1
    <3> QED
      BY <1>3, <3>1, <3>2
  <2> QED
    BY <2>1, <2>2
<1>14. EventUp'
  BY <1>1, <1>3, <1>5 DEF EventUp
<1>15. Cover'
  BY <1>1, <1>3, <1>5, TopFacts DEF Cover, Entering
<1> QED
  BY <1>6, <1>7, <1>8, <1>9, <1>10, <1>11, <1>12, <1>13, <1>14, <1>15
\* Line 301: the subrate is no longer running.
LEMMA SubrateDoneStep == ASSUME IInv, SubrateDone PROVE IInv'
<1> DEFINE n == Len(stack)
           t == Top.tid
<1> USE DEF IInv
<1>1. stack \in Seq(Frame) /\ stack # <<>> /\ Top.pc = "run" /\ Top = stack[n] /\ t \in SubRates
      /\ OverrunFlags[t] # 0 /\ eventFlags[t] # 0
  <2>1. stack \in Seq(Frame) /\ stack # <<>> /\ Top.pc = "run" /\ Top = stack[n]
        /\ n \in DOMAIN stack
    BY TopFacts DEF TypeOK, SubrateDone, At
  <2> QED
    BY <2>1 DEF OnSubrate, RunFlag, EventUp
<1>2. 0 \in Tids /\ \A i \in SubRates : i \in Tids /\ i \in Nat /\ i # 0
  BY TaskIds
<1>3. /\ stack' \in Seq(Frame) /\ stack' # <<>> /\ n \in Nat /\ n > 0 /\ Len(stack') = n
      /\ DOMAIN stack = 1 .. n /\ DOMAIN stack' = 1 .. n
      /\ stack'[n].pc = "done" /\ stack'[n].tid = t
      /\ \A k \in 1 .. (n - 1) : stack'[k] = stack[k]
      /\ Top' = stack'[n]
  <2>1. t \in (FirstTid + 1) .. (NUMST + 1)
    BY <1>1, NumstAssumption, FirstTidAssumption, TopFacts DEF SubRates
  <2>2. Goto("done", t) /\ "done" \in Pcs
    BY <1>1 DEF SubrateDone, Pcs
  <2> QED
    BY <1>1, <2>1, <2>2, GotoFacts DEF Top
<1>4. /\ OverrunFlags' \in [Tids -> 0 .. (FlagMod - 1)]
      /\ OverrunFlags'[t] = OverrunFlags[t] - 1
      /\ \A i \in Tids : i # t => OverrunFlags'[i] = OverrunFlags[i]
      /\ errorStatus' \in Statuses /\ stopRequested' \in BOOLEAN
      /\ errorStatus' = None => errorStatus = None
  <2>1. OverrunFlags[t] \in 0 .. (FlagMod - 1)
    BY <1>1, <1>2 DEF TypeOK
  <2>2. /\ Dec(OverrunFlags[t]) \in 0 .. (FlagMod - 1)
        /\ Dec(OverrunFlags[t]) = OverrunFlags[t] - 1
    BY <1>1, <2>1, FlagArithmetic
  <2>3. OverrunFlags' = [OverrunFlags EXCEPT ![t] = Dec(OverrunFlags[t])]
    BY DEF SubrateDone
  <2> QED
    BY <1>1, <1>2, <2>2, <2>3 DEF TypeOK, SubrateDone, ModelStepEffects, Statuses, None
<1>5. /\ eventFlags' = eventFlags /\ taskCounter' = taskCounter
      /\ driver' = driver /\ main' = main /\ model' = model
      /\ logging' = logging /\ exitCode' = exitCode
  BY DEF SubrateDone, mainVars
<1>6. TypeOK' /\ OnlyInLoop' /\ Lifecycle'
  BY <1>1, <1>3, <1>4, <1>5 DEF TypeOK, OnlyInLoop, Lifecycle
<1>7. OnSubrate'
  BY <1>1, <1>3 DEF OnSubrate
<1>8. Innermost'
  BY <1>3 DEF Innermost, Entering, Masked
<1>9. Nesting'
  BY <1>1, <1>3 DEF Nesting, Entering
<1>10. BaseFlag'
  BY <1>1, <1>2, <1>3, <1>4 DEF BaseFlag, At
<1>11. RunFlag'
  <2> SUFFICES ASSUME NEW k \in 1 .. (n - 1)
               PROVE  /\ stack[k].pc = "run" => OverrunFlags'[stack[k].tid] # 0
                      /\ stack[k].pc \notin {"event", "claim"}
    BY <1>3 DEF RunFlag
  <2>1. stack[k].pc \notin {"event", "claim"}
    BY <1>3 DEF Innermost, Masked
  <2>2. stack[k].pc = "run" => stack[k].tid \in SubRates /\ OverrunFlags[stack[k].tid] # 0
    BY <1>3 DEF OnSubrate, RunFlag
  <2>3. stack[k].pc = "run" => stack[k].tid # t
    BY <1>1, <1>2, <1>3, <2>2 DEF Nesting, Entering
  <2> QED
    BY <1>2, <1>4, <2>1, <2>2, <2>3
<1>12. SingleFlags'
  BY <1>1, <1>2, <1>3, <1>4, <1>5 DEF SingleFlags, Calm, At, TypeOK
<1>13. FlaggedRuns'
  <2> SUFFICES ASSUME errorStatus = None, NEW i \in SubRates, OverrunFlags'[i] # 0
               PROVE  \E k \in 1 .. n : stack'[k].pc = "run" /\ stack'[k].tid = i
    BY <1>3, <1>4 DEF FlaggedRuns
  <2>1. OverrunFlags[t] <= 1 /\ OverrunFlags[t] \in 0 .. (FlagMod - 1)
    BY <1>1, <1>2 DEF SingleFlags, Calm, TypeOK
  <2>2. i # t
    BY <1>1, <1>4, <2>1
  <2>3. PICK k \in 1 .. n : stack[k].pc = "run" /\ stack[k].tid = i
    BY <1>2, <1>3, <1>4, <2>2 DEF FlaggedRuns
  <2>4. k # n
    BY <1>1, <2>2, <2>3
  <2> QED
    BY <1>3, <2>3, <2>4
<1>14. EventUp'
  BY <1>1, <1>2, <1>3, <1>5 DEF EventUp
<1>15. Cover'
  <2> SUFFICES ASSUME errorStatus = None, NEW i \in SubRates, eventFlags[i] # 0
               PROVE  \E k \in 1 .. n : Entering(stack'[k]) \/ stack'[k].tid <= i
    BY <1>3, <1>4, <1>5 DEF Cover, Entering
  <2>1. PICK k \in 1 .. n : Entering(stack[k]) \/ stack[k].tid <= i
    BY <1>3 DEF Cover
  <2>2. CASE k = n
    BY <1>1, <1>3, <2>1, <2>2 DEF Entering
  <2>3. CASE k # n
    <3>1. k \in 1 .. (n - 1)
      BY <1>3, <2>3, BelowTop
    <3> QED
      BY <1>3, <2>1, <3>1 DEF Entering
  <2> QED
    BY <2>2, <2>3
<1> QED
  BY <1>6, <1>7, <1>8, <1>9, <1>10, <1>11, <1>12, <1>13, <1>14, <1>15

\* Line 302: its release is handed back.
LEMMA ClearEventStep == ASSUME IInv, ClearEvent PROVE IInv'
<1> DEFINE n == Len(stack)
           t == Top.tid
<1> USE DEF IInv
<1>1. stack \in Seq(Frame) /\ stack # <<>> /\ Top.pc = "done" /\ Top = stack[n] /\ t \in SubRates
      /\ eventFlags[t] # 0
  BY TopFacts DEF TypeOK, ClearEvent, At, OnSubrate, EventUp
<1>2. 0 \in Tids /\ \A i \in SubRates : i \in Tids /\ i \in Nat /\ i # 0
  BY TaskIds
<1>3. /\ stack' \in Seq(Frame) /\ stack' # <<>> /\ n \in Nat /\ n > 0 /\ Len(stack') = n
      /\ DOMAIN stack = 1 .. n /\ DOMAIN stack' = 1 .. n
      /\ stack'[n].pc = "scan" /\ stack'[n].tid = t + 1
      /\ \A k \in 1 .. (n - 1) : stack'[k] = stack[k]
      /\ Top' = stack'[n]
  <2>1. t + 1 \in (FirstTid + 1) .. (NUMST + 1)
    BY <1>1, NumstAssumption, FirstTidAssumption, TopFacts DEF SubRates
  <2>2. Goto("scan", t + 1) /\ "scan" \in Pcs
    BY <1>1 DEF ClearEvent, Pcs
  <2> QED
    BY <1>1, <2>1, <2>2, GotoFacts DEF Top
<1>4. /\ eventFlags' \in [Tids -> 0 .. (FlagMod - 1)]
      /\ eventFlags'[t] = eventFlags[t] - 1
      /\ \A i \in Tids : i # t => eventFlags'[i] = eventFlags[i]
  <2>1. eventFlags[t] \in 0 .. (FlagMod - 1)
    BY <1>1, <1>2 DEF TypeOK
  <2>2. /\ Dec(eventFlags[t]) \in 0 .. (FlagMod - 1)
        /\ Dec(eventFlags[t]) = eventFlags[t] - 1
    BY <1>1, <2>1, FlagArithmetic
  <2>3. eventFlags' = [eventFlags EXCEPT ![t] = Dec(eventFlags[t])]
    BY DEF ClearEvent
  <2> QED
    BY <1>1, <1>2, <2>2, <2>3 DEF TypeOK
<1>5. /\ OverrunFlags' = OverrunFlags /\ taskCounter' = taskCounter /\ errorStatus' = errorStatus /\ stopRequested' = stopRequested
      /\ driver' = driver /\ main' = main /\ model' = model
      /\ logging' = logging /\ exitCode' = exitCode
  BY DEF ClearEvent, mainVars
<1>6. TypeOK' /\ OnlyInLoop' /\ Lifecycle'
  BY <1>1, <1>3, <1>4, <1>5 DEF TypeOK, OnlyInLoop, Lifecycle
<1>7. OnSubrate'
  BY <1>1, <1>3 DEF OnSubrate
<1>8. Innermost'
  BY <1>3 DEF Innermost, Entering, Masked
<1>9. Nesting'
  <2> SUFFICES ASSUME NEW j \in 1 .. (n - 1), stack[j].pc = "run"
               PROVE  t + 1 <= stack[j].tid
    BY <1>3 DEF Nesting, Entering
  <2>1. stack[j].tid \in SubRates
    BY <1>3 DEF OnSubrate
  <2>2. t < stack[j].tid
    BY <1>1, <1>2, <1>3 DEF Nesting, Entering
  <2> QED
    BY <1>1, <1>2, <2>1, <2>2
<1>10. BaseFlag'
  BY <1>1, <1>2, <1>3, <1>5 DEF BaseFlag, At
<1>11. RunFlag'
  BY <1>1, <1>3, <1>5 DEF RunFlag
<1>12. SingleFlags'
  <2> SUFFICES ASSUME errorStatus = None, NEW i \in SubRates
               PROVE  OverrunFlags'[i] <= 1 /\ eventFlags'[i] <= 1
    BY <1>3, <1>5 DEF SingleFlags, Calm, At
  <2>1. OverrunFlags[i] <= 1 /\ eventFlags[i] <= 1
    BY DEF SingleFlags, Calm
  <2>2. eventFlags[i] \in 0 .. (FlagMod - 1)
    BY <1>2 DEF TypeOK
  <2> QED
    BY <1>2, <1>4, <1>5, <2>1, <2>2
<1>13. FlaggedRuns'
  BY <1>1, <1>3, <1>5 DEF FlaggedRuns
<1>14. EventUp'
  <2> SUFFICES ASSUME NEW k \in 1 .. (n - 1), stack[k].pc \in {"claim", "run", "done"}
               PROVE  eventFlags'[stack[k].tid] # 0
    BY <1>3 DEF EventUp
  <2>1. stack[k].pc = "run" /\ stack[k].tid \in SubRates /\ eventFlags[stack[k].tid] # 0
    BY <1>3 DEF Innermost, Masked, OnSubrate, EventUp
  <2>2. t < stack[k].tid
    BY <1>1, <1>3, <2>1 DEF Nesting, Entering
  <2> QED
    BY <1>1, <1>2, <1>4, <2>1, <2>2
<1>15. Cover'
  <2> SUFFICES ASSUME errorStatus = None, NEW i \in SubRates, eventFlags'[i] # 0
               PROVE  \E k \in 1 .. n : Entering(stack'[k]) \/ stack'[k].tid <= i
    BY <1>3, <1>5 DEF Cover, Entering
  <2>1. eventFlags[t] <= 1 /\ eventFlags[t] \in 0 .. (FlagMod - 1)
    BY <1>1, <1>2 DEF SingleFlags, Calm, TypeOK
  <2>2. i # t
    BY <1>1, <1>4, <2>1
  <2>3. PICK k \in 1 .. n : Entering(stack[k]) \/ stack[k].tid <= i
    BY <1>2, <1>3, <1>4, <2>2 DEF Cover
  <2>4. CASE k = n
    BY <1>1, <1>2, <1>3, <2>2, <2>3, <2>4 DEF Entering
  <2>5. CASE k # n
    BY <1>3, <2>3, <2>5
  <2> QED
    BY <2>4, <2>5
<1> QED
  BY <1>6, <1>7, <1>8, <1>9, <1>10, <1>11, <1>12, <1>13, <1>14, <1>15

\* Lines 304-311: the scan is over.
LEMMA ReturnStep == ASSUME IInv, Return PROVE IInv'
<1> DEFINE n == Len(stack)
           t == Top.tid
<1> USE DEF IInv
<1>1. stack \in Seq(Frame) /\ stack # <<>> /\ Top.pc = "scan" /\ Top = stack[n] /\ t \notin SubRates
  BY TopFacts DEF TypeOK, Return, At
<1>2. 0 \in Tids /\ \A i \in SubRates : i \in Tids /\ i \in Nat /\ i # 0
  BY TaskIds
<1>3. /\ stack' \in Seq(Frame) /\ n \in Nat /\ n > 0 /\ Len(stack') = n - 1
      /\ DOMAIN stack = 1 .. n /\ DOMAIN stack' = 1 .. (n - 1)
      /\ \A k \in 1 .. (n - 1) : stack'[k] = stack[k]
      /\ stack' # <<>> => n - 1 \in 1 .. (n - 1) /\ Top' = stack[n - 1]
  <2>1. stack' = Pop
    BY <1>1 DEF Return
  <2>2. /\ stack' \in Seq(Frame) /\ n \in Nat /\ n > 0 /\ Len(stack') = n - 1
        /\ DOMAIN stack = 1 .. n /\ DOMAIN stack' = 1 .. (n - 1)
        /\ \A k \in 1 .. (n - 1) : stack'[k] = stack[k]
    BY <1>1, <2>1, PopFacts
  <2>3. stack' # <<>> => Len(stack') > 0
    BY <2>2, EmptySeq
  <2> QED
    BY <2>2, <2>3 DEF Top
<1>5. /\ OverrunFlags' = OverrunFlags /\ eventFlags' = eventFlags /\ taskCounter' = taskCounter /\ errorStatus' = errorStatus /\ stopRequested' = stopRequested
      /\ driver' = driver /\ main' = main /\ model' = model
      /\ logging' = logging /\ exitCode' = exitCode
  BY DEF Return, mainVars
<1>6. TypeOK' /\ OnlyInLoop' /\ Lifecycle'
  BY <1>1, <1>3, <1>5 DEF TypeOK, OnlyInLoop, Lifecycle
<1>7. OnSubrate'
  BY <1>1, <1>3 DEF OnSubrate
<1>8. Innermost'
  BY <1>1, <1>3 DEF Innermost, Entering, Masked
<1>9. Nesting'
  BY <1>1, <1>3 DEF Nesting, Entering
<1>10. BaseFlag'
  BY <1>1, <1>3, <1>5 DEF BaseFlag, At, Innermost, Entering
<1>11. RunFlag'
  BY <1>1, <1>2, <1>3, <1>5 DEF RunFlag, OnSubrate, Innermost, Masked
<1>12. SingleFlags'
  BY <1>1, <1>3, <1>5 DEF SingleFlags, Calm, At, Innermost, Entering
<1>13. FlaggedRuns'
  BY <1>1, <1>3, <1>5 DEF FlaggedRuns
<1>14. EventUp'
  BY <1>1, <1>2, <1>3, <1>5 DEF EventUp
<1>15. Cover'
  <2> SUFFICES ASSUME errorStatus = None, NEW i \in SubRates, eventFlags[i] # 0
               PROVE  \E k \in 1 .. (n - 1) : Entering(stack'[k]) \/ stack'[k].tid <= i
    BY <1>3, <1>5 DEF Cover, Entering
  <2>1. PICK k \in 1 .. n : Entering(stack[k]) \/ stack[k].tid <= i
    BY <1>3 DEF Cover
  <2>2. i < t
    BY <1>1, TopFacts, NumstAssumption, FirstTidAssumption DEF SubRates
  <2>3. k \in 1 .. (n - 1)
    BY <1>1, <1>2, <1>3, <2>1, <2>2, TopFacts DEF Entering
  <2> QED
    BY <1>3, <2>1, <2>3 DEF Entering
<1> QED
  BY <1>6, <1>7, <1>8, <1>9, <1>10, <1>11, <1>12, <1>13, <1>14, <1>15

\* Line 286: only a released subrate is claimed.
LEMMA TestEventStep == ASSUME IInv, TestEvent PROVE IInv'
<1> DEFINE n == Len(stack)
           t == Top.tid
           pc == IF eventFlags[t] # 0 THEN "claim" ELSE "scan"
           tid == IF eventFlags[t] # 0 THEN t ELSE t + 1
<1> USE DEF IInv
<1>1. stack \in Seq(Frame) /\ stack # <<>> /\ Top.pc = "event" /\ Top = stack[n]
      /\ t \in SubRates /\ OverrunFlags[t] = 0
  <2>1. stack \in Seq(Frame) /\ stack # <<>> /\ Top.pc = "event" /\ Top = stack[n]
        /\ n \in DOMAIN stack
    BY TopFacts DEF TypeOK, TestEvent, At
  <2> QED
    BY <2>1 DEF OnSubrate, RunFlag
<1>2. 0 \in Tids /\ \A i \in SubRates : i \in Tids /\ i \in Nat /\ i # 0
  BY TaskIds
<1>3. /\ stack' \in Seq(Frame) /\ stack' # <<>> /\ n \in Nat /\ n > 0 /\ Len(stack') = n
      /\ DOMAIN stack = 1 .. n /\ DOMAIN stack' = 1 .. n
      /\ stack'[n].pc = pc /\ stack'[n].tid = tid
      /\ \A k \in 1 .. (n - 1) : stack'[k] = stack[k]
      /\ Top' = stack'[n]
  <2>1. tid \in (FirstTid + 1) .. (NUMST + 1)
    BY <1>1, NumstAssumption, FirstTidAssumption DEF SubRates
  <2>2. Goto(pc, tid) /\ pc \in Pcs
    BY <1>1 DEF TestEvent, Pcs
  <2> HIDE DEF pc, tid
  <2> QED
    BY <1>1, <2>1, <2>2, GotoFacts DEF Top
<1>4. \/ pc = "claim" /\ tid = t /\ eventFlags[t] # 0
      \/ pc = "scan" /\ tid = t + 1 /\ eventFlags[t] = 0
  OBVIOUS
<1> HIDE DEF pc, tid
<1>5. /\ OverrunFlags' = OverrunFlags /\ eventFlags' = eventFlags /\ taskCounter' = taskCounter
      /\ errorStatus' = errorStatus /\ stopRequested' = stopRequested
      /\ driver' = driver /\ main' = main /\ model' = model
      /\ logging' = logging /\ exitCode' = exitCode
  BY DEF TestEvent, mainVars
<1>6. TypeOK' /\ OnlyInLoop' /\ Lifecycle'
  BY <1>1, <1>3, <1>5 DEF TypeOK, OnlyInLoop, Lifecycle
<1>7. OnSubrate'
  BY <1>1, <1>3, <1>4 DEF OnSubrate
<1>8. Innermost'
  BY <1>3, <1>4 DEF Innermost, Entering, Masked
<1>9. Nesting'
  <2> SUFFICES ASSUME NEW j \in 1 .. (n - 1), stack[j].pc = "run"
               PROVE  t < stack[j].tid /\ t + 1 <= stack[j].tid
    BY <1>3, <1>4 DEF Nesting, Entering
  <2>1. stack[j].tid \in SubRates
    BY <1>3 DEF OnSubrate
  <2>2. t < stack[j].tid
    BY <1>1, <1>2, <1>3 DEF Nesting, Entering
  <2> QED
    BY <1>1, <1>2, <2>1, <2>2
<1>10. BaseFlag'
  BY <1>1, <1>2, <1>3, <1>4, <1>5 DEF BaseFlag, At
<1>11. RunFlag'
  BY <1>1, <1>2, <1>3, <1>4, <1>5 DEF RunFlag, OnSubrate, Innermost, Masked
<1>12. SingleFlags'
  BY <1>1, <1>2, <1>3, <1>4, <1>5 DEF SingleFlags, Calm, At
<1>13. FlaggedRuns'
  BY <1>1, <1>2, <1>3, <1>4, <1>5, TopFacts DEF FlaggedRuns
<1>14. EventUp'
  BY <1>1, <1>2, <1>3, <1>4, <1>5 DEF EventUp
<1>15. Cover'
  <2> SUFFICES ASSUME errorStatus = None, NEW i \in SubRates, eventFlags[i] # 0
               PROVE  \E k \in 1 .. n : Entering(stack'[k]) \/ stack'[k].tid <= i
    BY <1>3, <1>5 DEF Cover, Entering
  <2>1. PICK k \in 1 .. n : Entering(stack[k]) \/ stack[k].tid <= i
    BY <1>2, <1>3 DEF Cover
  <2>2. CASE k = n
    <3>1. t <= i
      BY <1>1, <2>1, <2>2 DEF Entering
    <3>2. tid <= i
      BY <1>1, <1>2, <1>4, <3>1
    <3> QED
      BY <1>3, <3>2
  <2>3. CASE k # n
    <3>1. k \in 1 .. (n - 1)
      BY <1>3, <2>3, BelowTop
    <3> QED
      BY <1>3, <2>1, <3>1 DEF Entering
  <2> QED
    BY <2>2, <2>3
<1> QED
  BY <1>6, <1>7, <1>8, <1>9, <1>10, <1>11, <1>12, <1>13, <1>14, <1>15

\* Lines 250-260: a due subrate is released, or its overrun reported.
LEMMA ReleaseSubrateStep == ASSUME IInv, ReleaseSubrate PROVE IInv'
<1> DEFINE n == Len(stack)
           t == Top.tid
           overrun == StepTask(t) /\ eventFlags[t] # 0
<1> USE DEF IInv
<1>1. stack \in Seq(Frame) /\ stack # <<>> /\ Top.pc = "release" /\ Top = stack[n]
      /\ t \in SubRates
  BY TopFacts DEF TypeOK, ReleaseSubrate, At
<1>2. 0 \in Tids /\ \A i \in SubRates : i \in Tids /\ i \in Nat /\ i # 0
  BY TaskIds
<1>3. \A i \in SubRates : /\ OverrunFlags[i] \in 0 .. (FlagMod - 1) /\ OverrunFlags[i] <= 1
                          /\ eventFlags[i] \in 0 .. (FlagMod - 1) /\ eventFlags[i] <= 1
  BY <1>1, <1>2 DEF SingleFlags, Calm, At, TypeOK
<1>4. /\ stopRequested' = stopRequested /\ driver' = driver /\ main' = main
      /\ model' = model /\ logging' = logging /\ exitCode' = exitCode
  BY DEF ReleaseSubrate, mainVars
<1>5. /\ eventFlags' \in [Tids -> 0 .. (FlagMod - 1)]
      /\ eventFlags'[t] = IF StepTask(t) THEN eventFlags[t] + 1 ELSE eventFlags[t]
      /\ \A i \in Tids : i # t => eventFlags'[i] = eventFlags[i]
  <2>1. Inc(eventFlags[t]) = eventFlags[t] + 1 /\ Inc(eventFlags[t]) \in 0 .. (FlagMod - 1)
    BY <1>1, <1>3, FlagArithmetic
  <2>2. eventFlags' = [eventFlags EXCEPT ![t] = IF StepTask(t) THEN Inc(eventFlags[t])
                                                 ELSE eventFlags[t]]
    BY DEF ReleaseSubrate
  <2> QED
    BY <1>1, <1>2, <1>3, <2>1, <2>2 DEF TypeOK
<1>6. CASE overrun
  <2>1. stack' = Pop /\ errorStatus' = "Overrun" /\ taskCounter' = taskCounter
        /\ OverrunFlags' = [OverrunFlags EXCEPT ![0] = Dec(OverrunFlags[0]),
                                                 ![t] = Inc(OverrunFlags[t])]
    BY <1>6 DEF ReleaseSubrate
  <2>2. /\ stack' \in Seq(Frame) /\ n \in Nat /\ n > 0 /\ Len(stack') = n - 1
        /\ DOMAIN stack = 1 .. n /\ DOMAIN stack' = 1 .. (n - 1)
        /\ \A k \in 1 .. (n - 1) : stack'[k] = stack[k]
    BY <1>1, <2>1, PopFacts
  <2>3. \A k \in 1 .. (n - 1) : ~Entering(stack[k]) /\ ~Masked(stack[k])
    BY <2>2 DEF Innermost
  <2>4. ~Calm'
    <3>1. ASSUME stack' # <<>> PROVE Top'.pc # "release"
      <4>1. Len(stack') > 0
        BY <2>2, <3>1, EmptySeq
      <4>2. n - 1 \in 1 .. (n - 1) /\ Top' = stack'[n - 1]
        BY <2>2, <4>1 DEF Top
      <4> QED
        BY <2>2, <2>3, <4>2 DEF Entering
    <3> QED
      BY <2>1, <3>1 DEF Calm, At, None
  <2>5. /\ OverrunFlags' \in [Tids -> 0 .. (FlagMod - 1)]
        /\ OverrunFlags'[t] # 0
        /\ \A i \in SubRates : i # t => OverrunFlags'[i] = OverrunFlags[i]
    <3>1. OverrunFlags[0] \in 0 .. (FlagMod - 1)
      BY <1>2 DEF TypeOK
    <3>2. /\ Dec(OverrunFlags[0]) \in 0 .. (FlagMod - 1)
          /\ Inc(OverrunFlags[t]) \in 0 .. (FlagMod - 1)
          /\ Inc(OverrunFlags[t]) = OverrunFlags[t] + 1
      BY <1>1, <1>3, <3>1, FlagArithmetic
    <3>3. Inc(OverrunFlags[t]) # 0
      BY <1>1, <1>3, <3>2
    <3> QED
      BY <1>1, <1>2, <2>1, <3>2, <3>3 DEF TypeOK
  <2>6. eventFlags'[t] # 0
    BY <1>1, <1>3, <1>5, <1>6
  <2>7. TypeOK' /\ OnlyInLoop' /\ Lifecycle'
    BY <1>1, <1>4, <1>5, <2>1, <2>2, <2>5
    DEF TypeOK, OnlyInLoop, Lifecycle, Statuses
  <2>8. OnSubrate' /\ Innermost' /\ Nesting'
    BY <2>2, <2>3 DEF OnSubrate, Innermost, Nesting, Entering, Masked
  <2>9. RunFlag'
    <3> SUFFICES ASSUME NEW k \in 1 .. (n - 1), stack[k].pc = "run"
                 PROVE  OverrunFlags'[stack[k].tid] # 0
      BY <2>2, <2>3 DEF RunFlag, Masked
    <3>1. stack[k].tid \in SubRates /\ OverrunFlags[stack[k].tid] # 0
      BY <2>2 DEF RunFlag, OnSubrate
    <3> QED
      BY <2>5, <3>1
  <2>10. EventUp'
    BY <1>2, <1>5, <2>2, <2>6 DEF EventUp, OnSubrate
  <2>11. BaseFlag' /\ SingleFlags' /\ FlaggedRuns' /\ Cover'
    BY <2>1, <2>4 DEF BaseFlag, SingleFlags, FlaggedRuns, Cover, None, Calm
  <2> QED
    BY <2>7, <2>8, <2>9, <2>10, <2>11
<1>7. CASE ~overrun
  <2>1. /\ stack' \in Seq(Frame) /\ stack' # <<>> /\ n \in Nat /\ n > 0 /\ Len(stack') = n
        /\ DOMAIN stack = 1 .. n /\ DOMAIN stack' = 1 .. n
        /\ stack'[n].pc = "release" /\ stack'[n].tid = t + 1
        /\ \A k \in 1 .. (n - 1) : stack'[k] = stack[k]
        /\ Top' = stack'[n]
    <3>1. t + 1 \in (FirstTid + 1) .. (NUMST + 1)
      BY <1>1, NumstAssumption, FirstTidAssumption DEF SubRates
    <3>2. Goto("release", t + 1) /\ "release" \in Pcs
      BY <1>1, <1>7 DEF ReleaseSubrate, Pcs
    <3> QED
      BY <1>1, <3>1, <3>2, GotoFacts DEF Top
  <2>2. OverrunFlags' = OverrunFlags /\ errorStatus' = errorStatus
    BY <1>7 DEF ReleaseSubrate
  <2>3. taskCounter' \in [SubRates -> Nat]
    <3>1. taskCounter' = [taskCounter EXCEPT ![t] =
                            IF taskCounter[t] + 1 = CounterLimit[t] THEN 0 ELSE taskCounter[t] + 1]
      BY <1>7 DEF ReleaseSubrate
    <3> QED
      BY <1>1, <3>1 DEF TypeOK
  <2>4. \A i \in SubRates : eventFlags'[i] <= 1
    BY <1>1, <1>2, <1>3, <1>5, <1>7
  <2>5. \A i \in SubRates : eventFlags[i] # 0 => eventFlags'[i] # 0
    BY <1>1, <1>2, <1>3, <1>5, <1>7
  <2>6. TypeOK' /\ OnlyInLoop' /\ Lifecycle'
    BY <1>1, <1>4, <1>5, <2>1, <2>2, <2>3 DEF TypeOK, OnlyInLoop, Lifecycle
  <2>7. OnSubrate' /\ Innermost'
    BY <1>1, <2>1 DEF OnSubrate, Innermost, Entering, Masked
  <2>8. Nesting'
    BY <2>1 DEF Nesting, Entering
  <2>9. BaseFlag' /\ RunFlag'
    BY <1>1, <2>1, <2>2 DEF BaseFlag, At, RunFlag
  <2>10. SingleFlags'
    BY <1>3, <2>2, <2>4 DEF SingleFlags
  <2>11. FlaggedRuns'
    BY <1>1, <2>1, <2>2 DEF FlaggedRuns
  <2>12. EventUp'
    BY <2>1, <2>5 DEF EventUp, OnSubrate
  <2>13. Cover'
    BY <2>1 DEF Cover, Entering
  <2> QED
    BY <2>6, <2>7, <2>8, <2>9, <2>10, <2>11, <2>12, <2>13
<1> QED
  BY <1>6, <1>7

\* The entry of rt_OneStep, by the loop of main or by an interrupt that no
\* masked activation is exposed to.
LEMMA EnterStep ==
    ASSUME IInv, Enter, main = "loop", stopRequested' \in BOOLEAN, UNCHANGED mainVars,
           ~At("event") /\ ~At("claim") /\ ~At("done")
    PROVE  IInv'
<1> DEFINE n == Len(stack)
           f == [pc |-> "release", tid |-> FirstTid + 1]
           status == IF OverrunFlags[0] # 0 THEN "Overrun" ELSE errorStatus
<1> USE DEF IInv
<1>1. stack \in Seq(Frame) /\ n \in Nat /\ DOMAIN stack = 1 .. n
  BY LenProperties DEF TypeOK
<1>2. 0 \in Tids /\ \A i \in SubRates : i \in Tids /\ i \in Nat /\ i # 0
  BY TaskIds
<1>3. /\ eventFlags' = eventFlags /\ taskCounter' = taskCounter
      /\ driver' = driver /\ main' = main /\ model' = model
      /\ logging' = logging /\ exitCode' = exitCode
  BY DEF Enter, mainVars
<1>4. /\ OverrunFlags' \in [Tids -> 0 .. (FlagMod - 1)]
      /\ \A i \in SubRates : OverrunFlags'[i] = OverrunFlags[i]
      /\ OverrunFlags[0] = 0 => OverrunFlags'[0] = 1
  <2>1. OverrunFlags[0] \in 0 .. (FlagMod - 1)
    BY <1>2 DEF TypeOK
  <2>2. /\ Inc(OverrunFlags[0]) \in 0 .. (FlagMod - 1)
        /\ OverrunFlags[0] = 0 => Inc(OverrunFlags[0]) = 1
    BY <2>1, FlagArithmetic
  <2>3. OverrunFlags' = [OverrunFlags EXCEPT ![0] = Inc(OverrunFlags[0])]
    BY DEF Enter
  <2> QED
    BY <1>2, <2>2, <2>3 DEF TypeOK
<1>5. errorStatus' = status /\ status \in Statuses
  BY DEF Enter, TypeOK, Statuses
<1>6. CASE status = None
  <2>1. errorStatus = None /\ OverrunFlags[0] = 0 /\ errorStatus' = None
    BY <1>5, <1>6 DEF None
  <2>2. f \in Frame
    BY NumstAssumption, FirstTidAssumption DEF Frame, Pcs
  <2>3. /\ stack' \in Seq(Frame) /\ Len(stack') = n + 1 /\ DOMAIN stack' = 1 .. (n + 1)
        /\ stack'[n + 1].pc = "release"
        /\ \A k \in 1 .. n : stack'[k] = stack[k]
    <3>1. stack' = Append(stack, f)
      BY <1>6 DEF Enter
    <3> HIDE DEF f
    <3>2. f.pc = "release"
      BY DEF f
    <3> QED
      BY <1>1, <2>2, <3>1, <3>2, PushFacts
  <2>4. \A k \in 1 .. n : ~Entering(stack[k]) /\ ~Masked(stack[k])
    <3> SUFFICES ASSUME NEW k \in 1 .. n, Entering(stack[k]) \/ Masked(stack[k])
                 PROVE  FALSE
      OBVIOUS
    <3>1. k = n /\ stack # <<>> /\ Top = stack[n]
      <4>1. k = n
        BY <1>1 DEF Innermost
      <4>2. Len(stack) # 0
        BY <1>1, <4>1
      <4> QED
        BY <4>1, <4>2, EmptySeq DEF Top
    <3> QED
      BY <2>1, <3>1 DEF Entering, Masked, At, BaseFlag
  <2>5. stack' # <<>> /\ Top' = stack'[n + 1]
    BY <1>1, <2>3, EmptySeq DEF Top
  <2>6. TypeOK' /\ OnlyInLoop' /\ Lifecycle'
    BY <1>3, <1>4, <1>5, <2>3 DEF TypeOK, OnlyInLoop, Lifecycle
  <2>7. OnSubrate' /\ Innermost'
    BY <1>1, <2>3, <2>4 DEF OnSubrate, Innermost, Entering, Masked
  <2>8. Nesting'
    BY <1>1, <2>3 DEF Nesting, Entering
  <2>9. BaseFlag'
    BY <1>4, <2>1, <2>3, <2>5 DEF BaseFlag, At
  <2>10. RunFlag'
    <3> SUFFICES ASSUME NEW k \in 1 .. n, stack[k].pc = "run"
                 PROVE  OverrunFlags'[stack[k].tid] # 0
      BY <1>1, <2>3, <2>4 DEF RunFlag, Masked
    <3> QED
      BY <1>1, <1>4 DEF RunFlag, OnSubrate
  <2>11. SingleFlags'
    BY <1>3, <1>4, <2>1 DEF SingleFlags, Calm
  <2>12. FlaggedRuns'
    BY <1>1, <1>4, <2>1, <2>3 DEF FlaggedRuns
  <2>13. EventUp'
    BY <1>1, <1>3, <2>3 DEF EventUp
  <2>14. Cover'
    BY <1>1, <2>3 DEF Cover, Entering
  <2> QED
    BY <2>6, <2>7, <2>8, <2>9, <2>10, <2>11, <2>12, <2>13, <2>14
<1>7. CASE status # None
  <2>1. stack' = stack /\ errorStatus' # None
    BY <1>5, <1>7 DEF Enter
  <2>2. Calm' => Calm
    BY <2>1 DEF Calm, At, Top
  <2>3. TypeOK' /\ OnlyInLoop' /\ Lifecycle' /\ OnSubrate' /\ Innermost' /\ Nesting' /\ EventUp'
    BY <1>3, <1>4, <1>5, <2>1
    DEF TypeOK, OnlyInLoop, Lifecycle, OnSubrate, Innermost, Nesting, EventUp
  <2>4. RunFlag'
    BY <1>4, <2>1 DEF RunFlag, OnSubrate
  <2>5. SingleFlags'
    BY <1>3, <1>4, <2>2 DEF SingleFlags
  <2>6. BaseFlag' /\ FlaggedRuns' /\ Cover'
    BY <2>1 DEF BaseFlag, FlaggedRuns, Cover
  <2> QED
    BY <2>3, <2>4, <2>5, <2>6
<1> QED
  BY <1>6, <1>7

\* main outside of rt_OneStep: nothing is on the stack, or only the wish to
\* stop changes.
LEMMA MainStep ==
    ASSUME IInv,
           \/ RegisterFails \/ Register \/ StartDataLoggingFails \/ StartDataLogging
           \/ rt_InitModel \/ StopRequest \/ Finish
    PROVE  IInv'
<1> USE DEF IInv
<1>1. Tids = DOMAIN OverrunFlags /\ 0 \in Tids /\ \A i \in SubRates : i \in Tids
  BY TaskIds DEF TypeOK
<1>2. CASE StopRequest
  BY <1>2 DEF StopRequest, taskVars, mainVars, TypeOK, OnlyInLoop, OnSubrate, Innermost, Nesting,
     BaseFlag, RunFlag, SingleFlags, Calm, At, Top, FlaggedRuns, EventUp, Cover, Lifecycle
<1>3. CASE rt_InitModel
  <2>1. /\ OverrunFlags' = [i \in Tids |-> 0] /\ eventFlags' = [i \in Tids |-> 0]
        /\ stack = <<>> /\ stack' = <<>>
    BY <1>3 DEF rt_InitModel, OnlyInLoop
  <2>2. /\ OverrunFlags' \in [Tids -> 0 .. (FlagMod - 1)]
        /\ eventFlags' \in [Tids -> 0 .. (FlagMod - 1)]
    BY <2>1, FlagModAssumption
  <2>3. errorStatus' \in Statuses
    BY <1>3 DEF rt_InitModel, TypeOK, Statuses
  <2>4. TypeOK' /\ Lifecycle'
    BY <1>3, <2>1, <2>2, <2>3 DEF rt_InitModel, TypeOK, Lifecycle
  <2> QED
    BY <1>1, <2>1, <2>4 DEF OnlyInLoop, OnSubrate, Innermost, Nesting, RunFlag, EventUp,
       BaseFlag, SingleFlags, At, FlaggedRuns, Cover
<1>4. CASE RegisterFails \/ Register \/ StartDataLoggingFails \/ StartDataLogging \/ Finish
  <2>1. /\ stack = <<>> /\ stack' = <<>> /\ driver' = driver /\ taskCounter' = taskCounter
        /\ OverrunFlags' = OverrunFlags /\ eventFlags' = eventFlags
        /\ errorStatus' = None => errorStatus = None
    <3>1. stack = <<>>
      BY <1>4 DEF RegisterFails, Register, StartDataLoggingFails, StartDataLogging, Finish,
         OnlyInLoop
    <3>2. CASE Register
      BY <1>1, <3>1, <3>2 DEF Register, taskVars, None, Lifecycle
    <3>3. CASE RegisterFails \/ StartDataLoggingFails \/ StartDataLogging \/ Finish
      BY <3>1, <3>3 DEF RegisterFails, StartDataLoggingFails, StartDataLogging, Finish, taskVars
    <3> QED
      BY <1>4, <3>2, <3>3
  <2>2. errorStatus' \in Statuses /\ stopRequested' \in BOOLEAN /\ exitCode' \in {-1, 0, 1}
    BY <1>4 DEF RegisterFails, Register, StartDataLoggingFails, StartDataLogging, Finish,
       TypeOK, Statuses
  <2>3. /\ main' \in {"register", "log", "init", "loop", "exit"}
        /\ model' \in {"none", "registered", "initialized", "terminated"}
        /\ logging' \in {"off", "on", "saved"}
    BY <1>4 DEF RegisterFails, Register, StartDataLoggingFails, StartDataLogging, Finish, TypeOK
  <2>4. TypeOK'
    BY <2>1, <2>2, <2>3 DEF TypeOK
  <2>5. Lifecycle'
    BY <1>4 DEF RegisterFails, Register, StartDataLoggingFails, StartDataLogging, Finish, Lifecycle
  <2> QED
    BY <1>1, <2>1, <2>4, <2>5 DEF OnlyInLoop, OnSubrate, Innermost, Nesting, RunFlag, EventUp,
       BaseFlag, SingleFlags, Calm, At, FlaggedRuns, Cover
<1> QED
  BY <1>2, <1>3, <1>4

-----------------------------------------------------------------------------
(* Builds whose flags are protected                                         *)

\* The build is one in which no activation is interrupted between the test of a
\* flag and its effect.
FlagsProtected == MaskFlags \/ Drivers = {"loop"}

\* The invariant holds when main starts.
LEMMA InitIInv == Init => IInv
<1> SUFFICES ASSUME Init PROVE IInv
  OBVIOUS
<1>1. 0 \in Tids /\ \A i \in SubRates : i \in Tids
  BY TaskIds
<1>2. TypeOK
  <2>1. stack \in Seq(Frame) /\ taskCounter \in [SubRates -> Nat]
    BY DEF Init
  <2>2. /\ OverrunFlags \in [Tids -> 0 .. (FlagMod - 1)]
        /\ eventFlags \in [Tids -> 0 .. (FlagMod - 1)]
    BY FlagModAssumption DEF Init
  <2>3. driver \in Drivers /\ errorStatus \in Statuses /\ stopRequested \in BOOLEAN
        /\ exitCode \in {-1, 0, 1}
    BY DEF Init, Statuses
  <2> QED
    BY <2>1, <2>2, <2>3 DEF Init, TypeOK
<1> QED
  BY <1>1, <1>2 DEF Init, IInv, OnlyInLoop, OnSubrate, Innermost, Nesting, BaseFlag, RunFlag,
     SingleFlags, At, FlaggedRuns, EventUp, Cover, Lifecycle

\* Every step preserves the invariant.
LEMMA NextIInv == ASSUME FlagsProtected, IInv, [Next]_vars PROVE IInv'
<1>1. CASE rt_OneStep
  BY <1>1, ReleaseSubrateStep, StepBaseStep, BaseDoneStep, ScanBlockedStep, ScanStep,
     TestEventStep, ClaimStep, SubrateDoneStep, ClearEventStep, ReturnStep DEF rt_OneStep
<1>2. CASE LoopTurn
  BY <1>2, EnterStep DEF LoopTurn, At
<1>3. CASE Interrupt
  <2>1. MaskFlags
    BY <1>3 DEF FlagsProtected, Interrupt, IInv, TypeOK
  <2>2. stopRequested' \in BOOLEAN
    BY <1>3 DEF Interrupt, IInv, TypeOK
  <2> QED
    BY <1>3, <2>1, <2>2, EnterStep DEF Interrupt, Interruptible
<1>4. CASE \/ RegisterFails \/ Register \/ StartDataLoggingFails \/ StartDataLogging
           \/ rt_InitModel \/ StopRequest \/ Finish
  BY <1>4, MainStep
<1>5. CASE UNCHANGED vars
  BY <1>5 DEF vars, taskVars, mainVars, IInv, TypeOK, OnlyInLoop, OnSubrate, Innermost, Nesting,
     BaseFlag, RunFlag, SingleFlags, Calm, At, Top, FlaggedRuns, EventUp, Cover, Lifecycle
<1> QED
  BY <1>1, <1>2, <1>3, <1>4, <1>5 DEF Next, Terminated

\* The invariant holds in every state of every run.
LEMMA Inductive == ASSUME FlagsProtected PROVE Spec => []IInv
<1>1. IInv /\ [Next]_vars => IInv'
  BY NextIInv
<1> QED
  BY InitIInv, <1>1, PTL DEF Spec

-----------------------------------------------------------------------------
(* What holds in every build, whether or not interrupts are masked          *)

\* Only the innermost activation enters: another one would find the base flag.
EntryOnTop == \A k \in DOMAIN stack : Entering(stack[k]) => k = Len(stack)

\* The overrun flag of a subrate counts the activation that steps it, and one
\* more once an overrun of it was reported: after that nothing is released.
FlagsCount ==
    \A i \in SubRates :
        /\ Executing(i) => OverrunFlags[i] \in {1, 2}
        /\ ~Executing(i) => OverrunFlags[i] \in {0, 1}
        /\ Calm => OverrunFlags[i] = IF Executing(i) THEN 1 ELSE 0

\* The invariant of every build: what it says of positions and of the flags of
\* line 284 does not depend on the flags of line 286.
AnyInv ==
    /\ TypeOK /\ OnlyInLoop /\ OnSubrate /\ EntryOnTop /\ Nesting /\ BaseFlag
    /\ FlagsCount /\ Lifecycle

\* An activation that was preempted steps subrate i.
Held(i) == \E k \in 1 .. (Len(stack) - 1) : stack[k].pc = "run" /\ stack[k].tid = i

\* The activations, without the flags.
Activations == stack \in Seq(Frame) /\ OnSubrate /\ EntryOnTop /\ Nesting

\* What the invariant says of the innermost activation and those below it.
LEMMA TopOfAny ==
    ASSUME Activations, stack # <<>>
    PROVE  /\ Len(stack) \in Nat /\ Len(stack) > 0
           /\ DOMAIN stack = 1 .. Len(stack) /\ Top = stack[Len(stack)]
           /\ \A i : Executing(i) <=> Held(i) \/ (Top.pc = "run" /\ Top.tid = i)
           /\ Top.pc \in {"event", "claim", "run", "done"} => Top.tid \in SubRates
           /\ \A i : Held(i) =>
                /\ i \in SubRates
                /\ Entering(Top) \/ (Top.pc = "scan" /\ Top.tid <= i) \/ Top.tid < i
<1>1. /\ Len(stack) \in Nat /\ Len(stack) > 0
      /\ DOMAIN stack = 1 .. Len(stack) /\ Top = stack[Len(stack)]
  BY TopFacts DEF Activations
<1>2. 1 .. Len(stack) = (1 .. (Len(stack) - 1)) \cup {Len(stack)}
  BY <1>1
<1>3. \A i : Executing(i) <=> Held(i) \/ (Top.pc = "run" /\ Top.tid = i)
  BY <1>1, <1>2 DEF Executing, Held
<1>4. Top.pc \in {"event", "claim", "run", "done"} => Top.tid \in SubRates
  BY <1>1 DEF Activations, OnSubrate
<1>5. ASSUME NEW i, Held(i)
      PROVE  /\ i \in SubRates
             /\ Entering(Top) \/ (Top.pc = "scan" /\ Top.tid <= i) \/ Top.tid < i
  <2>1. PICK k \in 1 .. (Len(stack) - 1) : stack[k].pc = "run" /\ stack[k].tid = i
    BY <1>5 DEF Held
  <2>2. k \in DOMAIN stack /\ Len(stack) \in DOMAIN stack /\ k < Len(stack)
    BY <1>1
  <2> QED
    BY <1>1, <2>1, <2>2 DEF Activations, OnSubrate, Nesting
<1> QED
  BY <1>1, <1>3, <1>4, <1>5

\* The innermost activation goes on where it is not ahead of one it preempted.
LEMMA GotoOfAny ==
    ASSUME Activations, stack # <<>>,
           NEW pc \in Pcs, NEW tid \in (FirstTid + 1) .. (NUMST + 1), Goto(pc, tid),
           pc \in {"event", "claim", "run", "done"} => tid \in SubRates,
           \A i \in SubRates : Held(i) =>
               pc \in {"release", "base"} \/ (pc = "scan" /\ tid <= i) \/ tid < i
    PROVE  /\ Activations' /\ stack' # <<>>
           /\ \A i : Executing(i)' <=> Held(i) \/ (pc = "run" /\ tid = i)
           /\ \A p : At(p)' <=> pc = p
<1> DEFINE n == Len(stack)
<1>1. /\ stack \in Seq(Frame) /\ n \in Nat /\ n > 0 /\ DOMAIN stack = 1 .. n
      /\ \A i : Held(i) => i \in SubRates
  BY TopOfAny DEF Activations
<1>2. /\ stack' \in Seq(Frame) /\ Len(stack') = n /\ DOMAIN stack' = 1 .. n
      /\ stack'[n].pc = pc /\ stack'[n].tid = tid
      /\ \A k \in 1 .. (n - 1) : stack'[k] = stack[k]
  BY <1>1, GotoFacts
<1>3. stack' # <<>> /\ Top' = stack'[n]
  BY <1>1, <1>2 DEF Top
<1>4. 1 .. n = (1 .. (n - 1)) \cup {n} /\ \A k \in 1 .. (n - 1) : k < n
  BY <1>1
<1>5. \A i : Executing(i)' <=> Held(i) \/ (pc = "run" /\ tid = i)
  BY <1>2, <1>4 DEF Executing, Held
<1>6. OnSubrate'
  BY <1>1, <1>2, <1>4 DEF Activations, OnSubrate
<1>7. EntryOnTop'
  BY <1>1, <1>2, <1>4 DEF Activations, EntryOnTop, Entering
<1>8. Nesting'
  <2> SUFFICES ASSUME NEW j \in 1 .. n, NEW k \in 1 .. n, j < k, stack'[j].pc = "run"
               PROVE  \/ Entering(stack'[k])
                      \/ stack'[k].pc = "scan" /\ stack'[k].tid <= stack'[j].tid
                      \/ stack'[k].tid < stack'[j].tid
    BY <1>2 DEF Nesting, Entering
  <2>1. j \in 1 .. (n - 1) /\ stack'[j] = stack[j]
    BY <1>1, <1>2
  <2>2. CASE k = n
    <3>1. Held(stack[j].tid) /\ stack[j].tid \in SubRates
      BY <1>1, <2>1 DEF Held
    <3> QED
      BY <1>2, <2>1, <2>2, <3>1 DEF Entering
  <2>3. CASE k # n
    <3>1. k \in 1 .. (n - 1) /\ stack'[k] = stack[k]
      BY <1>2, <1>4, <2>3
    <3> QED
      BY <1>1, <2>1, <3>1 DEF Activations, Nesting, Entering
  <2> QED
    BY <2>2, <2>3
<1> QED
  BY <1>2, <1>3, <1>5, <1>6, <1>7, <1>8 DEF Activations, At

\* The innermost activation returns.
LEMMA PopOfAny ==
    ASSUME Activations, stack # <<>>, stack' = Pop
    PROVE  /\ Activations'
           /\ \A i : Executing(i)' <=> Held(i)
           /\ ~At("release")' /\ ~At("base")'
<1> DEFINE n == Len(stack)
<1>1. stack \in Seq(Frame) /\ n \in Nat /\ n > 0 /\ DOMAIN stack = 1 .. n
  BY TopOfAny DEF Activations
<1>2. /\ stack' \in Seq(Frame) /\ Len(stack') = n - 1 /\ DOMAIN stack' = 1 .. (n - 1)
      /\ \A k \in 1 .. (n - 1) : stack'[k] = stack[k]
  BY <1>1, PopFacts
<1>3. \A k \in 1 .. (n - 1) : k \in DOMAIN stack /\ ~Entering(stack[k])
  BY <1>1 DEF Activations, EntryOnTop
<1>4. stack' # <<>> => ~Entering(Top')
  <2> SUFFICES ASSUME stack' # <<>> PROVE ~Entering(Top')
    OBVIOUS
  <2>1. n - 1 \in 1 .. (n - 1)
    BY <1>1, <1>2, EmptySeq
  <2> QED
    BY <1>1, <1>2, <1>3, <2>1 DEF Top
<1>5. \A i : Executing(i)' <=> Held(i)
  BY <1>2 DEF Executing, Held
<1>6. OnSubrate' /\ EntryOnTop'
  BY <1>2, <1>3 DEF Activations, OnSubrate, EntryOnTop, Entering
<1>7. Nesting'
  BY <1>2, <1>3 DEF Activations, Nesting, Entering
<1> QED
  BY <1>2, <1>4, <1>5, <1>6, <1>7 DEF Activations, At, Entering

\* Between two steps of the model the flags of line 284 stay as they are.
LEMMA QuietOfAny ==
    ASSUME AnyInv, StepBase \/ ScanBlocked \/ Scan \/ TestEvent \/ ClearEvent \/ Return
    PROVE  AnyInv'
<1> DEFINE t == Top.tid
<1>1. /\ Activations /\ stack # <<>>
      /\ Top.pc \in {"release", "scan", "event", "done"}
      /\ OverrunFlags' = OverrunFlags /\ taskCounter' = taskCounter
      /\ errorStatus' = errorStatus /\ stopRequested' = stopRequested
      /\ driver' = driver /\ main' = main /\ model' = model
      /\ logging' = logging /\ exitCode' = exitCode
  BY DEF AnyInv, TypeOK, Activations, StepBase, ScanBlocked, Scan, TestEvent, ClearEvent, Return,
     mainVars, At
<1>2. \A i : Executing(i) <=> Held(i)
  BY <1>1, TopOfAny
<1>3. eventFlags' \in [Tids -> 0 .. (FlagMod - 1)]
  <2>1. CASE ClearEvent
    <3>1. t \in SubRates
      BY <1>1, <2>1, TopOfAny DEF ClearEvent, At
    <3>2. t \in Tids /\ eventFlags[t] \in 0 .. (FlagMod - 1)
      BY <3>1, TaskIds DEF AnyInv, TypeOK
    <3>3. Dec(eventFlags[t]) \in 0 .. (FlagMod - 1)
      BY <3>2, FlagArithmetic
    <3>4. eventFlags' = [eventFlags EXCEPT ![t] = Dec(eventFlags[t])]
      BY <2>1 DEF ClearEvent
    <3> QED
      BY <3>2, <3>3, <3>4 DEF AnyInv, TypeOK
  <2>2. CASE ~ClearEvent
    BY <2>2 DEF AnyInv, TypeOK, StepBase, ScanBlocked, Scan, TestEvent, Return
  <2> QED
    BY <2>1, <2>2
<1>4. /\ Activations'
      /\ \A i : Executing(i)' <=> Held(i)
      /\ ~At("release")'
      /\ At("base")' <=> At("release")
  <2>1. /\ {"base", "event", "claim", "scan"} \subseteq Pcs
        /\ FirstTid + 1 \in (FirstTid + 1) .. (NUMST + 1)
        /\ t \in SubRates => /\ t \in (FirstTid + 1) .. (NUMST + 1)
                             /\ t + 1 \in (FirstTid + 1) .. (NUMST + 1)
                             /\ t \in Nat
        /\ SubRates \subseteq Nat
    BY NumstAssumption, FirstTidAssumption DEF Pcs, SubRates
  <2>2. /\ Top.pc \in {"event", "done"} => t \in SubRates
        /\ \A i : Held(i) =>
             i \in SubRates /\ (Entering(Top) \/ (Top.pc = "scan" /\ t <= i) \/ t < i)
    BY <1>1, TopOfAny
  <2>3. CASE StepBase
    <3>1. Goto("base", FirstTid + 1) /\ At("release")
      BY <2>3 DEF StepBase
    <3> QED
      BY <1>1, <2>1, <3>1, GotoOfAny
  <2>4. CASE Scan
    <3>1. Goto("event", t) /\ Top.pc = "scan" /\ t \in SubRates /\ OverrunFlags[t] = 0
      BY <2>4 DEF Scan, At
    <3>2. ~Held(t)
      <4>1. ~Executing(t)
        BY <3>1 DEF AnyInv, FlagsCount
      <4> QED
        BY <1>2, <4>1
    <3>3. \A i \in SubRates : Held(i) => t < i
      <4> SUFFICES ASSUME NEW i \in SubRates, Held(i) PROVE t < i
        OBVIOUS
      <4>1. t # i /\ t <= i
        BY <2>1, <2>2, <3>1, <3>2 DEF Entering
      <4> QED
        BY <2>1, <3>1, <4>1
    <3> QED
      BY <1>1, <2>1, <3>1, <3>3, GotoOfAny DEF At
  <2>5. CASE TestEvent
    <3>1. Top.pc = "event" /\ t \in SubRates /\ \A i : Held(i) => i \in SubRates /\ t < i
      BY <2>2, <2>5 DEF TestEvent, At, Entering
    <3>2. \A i \in SubRates : Held(i) => t + 1 <= i
      BY <2>1, <3>1
    <3>3. CASE Goto("claim", t)
      <4>1. /\ "claim" \in Pcs /\ t \in (FirstTid + 1) .. (NUMST + 1) /\ t \in SubRates
            /\ \A i \in SubRates : Held(i) => t < i
        BY <2>1, <3>1
      <4>2. /\ Activations'
            /\ \A i : Executing(i)' <=> Held(i)
            /\ \A p : At(p)' <=> "claim" = p
        BY <1>1, <3>3, <4>1, GotoOfAny
      <4> QED
        BY <3>1, <4>2 DEF At
    <3>4. CASE Goto("scan", t + 1)
      <4>1. /\ "scan" \in Pcs /\ t + 1 \in (FirstTid + 1) .. (NUMST + 1)
            /\ \A i \in SubRates : Held(i) => t + 1 <= i
        BY <2>1, <3>1, <3>2
      <4>2. /\ Activations'
            /\ \A i : Executing(i)' <=> Held(i)
            /\ \A p : At(p)' <=> "scan" = p
        BY <1>1, <3>4, <4>1, GotoOfAny
      <4> QED
        BY <3>1, <4>2 DEF At
    <3> QED
      BY <2>5, <3>3, <3>4 DEF TestEvent
  <2>6. CASE ClearEvent
    <3>1. Top.pc = "done" /\ t \in SubRates /\ \A i : Held(i) => i \in SubRates /\ t < i
      BY <2>2, <2>6 DEF ClearEvent, At, Entering
    <3>2. \A i \in SubRates : Held(i) => t + 1 <= i
      BY <2>1, <3>1
    <3>3. /\ "scan" \in Pcs /\ t + 1 \in (FirstTid + 1) .. (NUMST + 1)
          /\ \A i \in SubRates : Held(i) => t + 1 <= i
          /\ Goto("scan", t + 1)
      BY <2>1, <2>6, <3>1, <3>2 DEF ClearEvent
    <3>4. /\ Activations'
          /\ \A i : Executing(i)' <=> Held(i)
          /\ \A p : At(p)' <=> "scan" = p
      BY <1>1, <3>3, GotoOfAny
    <3> QED
      BY <3>1, <3>4 DEF At
  <2>7. CASE ScanBlocked \/ Return
    BY <1>1, <2>7, PopOfAny DEF ScanBlocked, Return, At
  <2> QED
    BY <2>3, <2>4, <2>5, <2>6, <2>7
<1>5. TypeOK' /\ OnlyInLoop' /\ Lifecycle'
  BY <1>1, <1>3, <1>4 DEF AnyInv, TypeOK, OnlyInLoop, Lifecycle, Activations
<1>6. BaseFlag'
  <2>1. (At("release") \/ At("base")) <=> (At("release") \/ At("base"))'
    BY <1>1, <1>4 DEF At
  <2> QED
    BY <1>1, <2>1 DEF AnyInv, BaseFlag
<1>7. FlagsCount'
  BY <1>1, <1>2, <1>4 DEF AnyInv, FlagsCount, Calm
<1> QED
  BY <1>4, <1>5, <1>6, <1>7 DEF AnyInv, Activations

\* Line 287: a subrate that is claimed is not being stepped, even if its flag
\* was tested before another activation stepped it.
LEMMA ClaimOfAny == ASSUME AnyInv, Claim PROVE AnyInv'
<1>0. Activations /\ stack # <<>> /\ Top.pc = "claim"
  BY DEF AnyInv, TypeOK, Activations, Claim, At
<1>1. PICK t \in SubRates : t = Top.tid
  BY <1>0, TopOfAny
<1>2. t \in Tids /\ \A i \in SubRates : i \in Tids /\ i \in Nat /\ i # 0
  BY TaskIds
<1>3. /\ \A i : Executing(i) <=> Held(i)
      /\ \A i : Held(i) => i \in SubRates /\ t < i
      /\ ~At("release") /\ ~At("base")
  BY <1>0, <1>1, TopOfAny DEF Entering, At
<1>4. ~Held(t)
  BY <1>2, <1>3
<1>5. /\ Activations'
      /\ \A i : Executing(i)' <=> Held(i) \/ i = t
      /\ ~At("release")' /\ ~At("base")'
  <2>1. t \in (FirstTid + 1) .. (NUMST + 1) /\ "run" \in Pcs /\ Goto("run", t)
    BY <1>1, NumstAssumption, FirstTidAssumption DEF Claim, Pcs, SubRates
  <2> QED
    BY <1>0, <1>3, <2>1, GotoOfAny
<1>6. /\ OverrunFlags' \in [Tids -> 0 .. (FlagMod - 1)]
      /\ OverrunFlags'[t] = OverrunFlags[t] + 1
      /\ OverrunFlags[t] \in {0, 1}
      /\ \A i \in Tids : i # t => OverrunFlags'[i] = OverrunFlags[i]
  <2>1. OverrunFlags[t] \in {0, 1} /\ OverrunFlags[t] \in 0 .. (FlagMod - 1)
    BY <1>2, <1>3, <1>4 DEF AnyInv, FlagsCount, TypeOK
  <2>2. /\ Inc(OverrunFlags[t]) = OverrunFlags[t] + 1
        /\ Inc(OverrunFlags[t]) \in 0 .. (FlagMod - 1)
    BY <2>1, FlagArithmetic
  <2>3. OverrunFlags' = [OverrunFlags EXCEPT ![t] = Inc(OverrunFlags[t])]
    BY <1>1 DEF Claim
  <2> QED
    BY <1>2, <2>1, <2>2, <2>3 DEF AnyInv, TypeOK
<1>7. /\ eventFlags' = eventFlags /\ taskCounter' = taskCounter /\ errorStatus' = errorStatus
      /\ stopRequested' = stopRequested /\ driver' = driver /\ main' = main
      /\ model' = model /\ logging' = logging /\ exitCode' = exitCode
  BY DEF Claim, mainVars
<1>8. TypeOK' /\ OnlyInLoop' /\ Lifecycle'
  BY <1>0, <1>5, <1>6, <1>7 DEF AnyInv, TypeOK, OnlyInLoop, Lifecycle, Activations
<1>9. BaseFlag'
  <2>1. 0 \in Tids /\ OverrunFlags'[0] = OverrunFlags[0]
    BY <1>2, <1>6, TaskIds
  <2> QED
    BY <1>3, <1>5, <1>7, <2>1 DEF AnyInv, BaseFlag
<1>10. FlagsCount'
  <2>1. /\ Executing(t)' /\ OverrunFlags'[t] \in {1, 2}
        /\ Calm' => OverrunFlags'[t] = 1
    <3>1. Calm' => OverrunFlags[t] = 0
      BY <1>3, <1>4, <1>5, <1>7 DEF AnyInv, FlagsCount, Calm
    <3> QED
      BY <1>5, <1>6, <3>1
  <2>2. ASSUME NEW i \in SubRates, i # t
        PROVE  /\ Executing(i)' <=> Executing(i)
               /\ OverrunFlags'[i] = OverrunFlags[i]
    BY <1>2, <1>3, <1>5, <1>6, <2>2
  <2>3. Calm' => Calm
    BY <1>5, <1>7 DEF Calm
  <2>4. ASSUME NEW i \in SubRates
        PROVE  /\ Executing(i)' => OverrunFlags'[i] \in {1, 2}
               /\ ~Executing(i)' => OverrunFlags'[i] \in {0, 1}
               /\ Calm' => OverrunFlags'[i] = IF Executing(i)' THEN 1 ELSE 0
    BY <2>1, <2>2, <2>3 DEF AnyInv, FlagsCount
  <2> QED
    BY <2>4 DEF FlagsCount
<1> QED
  BY <1>5, <1>8, <1>9, <1>10 DEF AnyInv, Activations

\* Line 302: after the step of a subrate its flag counts no activation.
LEMMA SubrateDoneOfAny == ASSUME AnyInv, SubrateDone PROVE AnyInv'
<1>0. Activations /\ stack # <<>> /\ Top.pc = "run"
  BY DEF AnyInv, TypeOK, Activations, SubrateDone, At
<1>1. PICK t \in SubRates : t = Top.tid
  BY <1>0, TopOfAny
<1>2. t \in Tids /\ \A i \in SubRates : i \in Tids /\ i \in Nat /\ i # 0
  BY TaskIds
<1>3. /\ \A i : Executing(i) <=> Held(i) \/ i = t
      /\ \A i : Held(i) => i \in SubRates /\ t < i
      /\ ~At("release") /\ ~At("base")
  BY <1>0, <1>1, TopOfAny DEF Entering, At
<1>4. ~Held(t)
  BY <1>2, <1>3
<1>5. /\ Activations'
      /\ \A i : Executing(i)' <=> Held(i)
      /\ ~At("release")' /\ ~At("base")'
  <2>1. t \in (FirstTid + 1) .. (NUMST + 1) /\ "done" \in Pcs /\ Goto("done", t)
    BY <1>1, NumstAssumption, FirstTidAssumption DEF SubrateDone, Pcs, SubRates
  <2> QED
    BY <1>0, <1>3, <2>1, GotoOfAny
<1>6. /\ OverrunFlags' \in [Tids -> 0 .. (FlagMod - 1)]
      /\ OverrunFlags'[t] = OverrunFlags[t] - 1
      /\ OverrunFlags[t] \in {1, 2}
      /\ \A i \in Tids : i # t => OverrunFlags'[i] = OverrunFlags[i]
  <2>1. OverrunFlags[t] \in {1, 2} /\ OverrunFlags[t] \in 0 .. (FlagMod - 1)
    BY <1>2, <1>3 DEF AnyInv, FlagsCount, TypeOK
  <2>2. /\ Dec(OverrunFlags[t]) = OverrunFlags[t] - 1
        /\ Dec(OverrunFlags[t]) \in 0 .. (FlagMod - 1)
    BY <2>1, FlagArithmetic
  <2>3. OverrunFlags' = [OverrunFlags EXCEPT ![t] = Dec(OverrunFlags[t])]
    BY <1>1 DEF SubrateDone
  <2> QED
    BY <1>2, <2>1, <2>2, <2>3 DEF AnyInv, TypeOK
<1>7. /\ eventFlags' = eventFlags /\ taskCounter' = taskCounter
      /\ errorStatus' \in Statuses /\ (errorStatus' = None => errorStatus = None)
      /\ stopRequested' \in BOOLEAN /\ driver' = driver /\ main' = main
      /\ model' = model /\ logging' = logging /\ exitCode' = exitCode
  BY DEF AnyInv, TypeOK, SubrateDone, ModelStepEffects, mainVars, Statuses, None
<1>8. TypeOK' /\ OnlyInLoop' /\ Lifecycle'
  BY <1>0, <1>5, <1>6, <1>7 DEF AnyInv, TypeOK, OnlyInLoop, Lifecycle, Activations
<1>9. BaseFlag'
  <2>1. 0 \in Tids /\ OverrunFlags'[0] = OverrunFlags[0]
    BY <1>2, <1>6, TaskIds
  <2> QED
    BY <1>3, <1>5, <1>7, <2>1 DEF AnyInv, BaseFlag
<1>10. FlagsCount'
  <2>1. Calm' => Calm
    BY <1>5, <1>7 DEF Calm
  <2>2. /\ ~Executing(t)' /\ OverrunFlags'[t] \in {0, 1}
        /\ Calm' => OverrunFlags'[t] = 0
    <3>1. Calm' => OverrunFlags[t] = 1
      BY <1>3, <2>1 DEF AnyInv, FlagsCount
    <3> QED
      BY <1>4, <1>5, <1>6, <3>1
  <2>3. ASSUME NEW i \in SubRates, i # t
        PROVE  /\ Executing(i)' <=> Executing(i)
               /\ OverrunFlags'[i] = OverrunFlags[i]
    BY <1>2, <1>3, <1>5, <1>6, <2>3
  <2>4. ASSUME NEW i \in SubRates
        PROVE  /\ Executing(i)' => OverrunFlags'[i] \in {1, 2}
               /\ ~Executing(i)' => OverrunFlags'[i] \in {0, 1}
               /\ Calm' => OverrunFlags'[i] = IF Executing(i)' THEN 1 ELSE 0
    BY <2>1, <2>2, <2>3 DEF AnyInv, FlagsCount
  <2> QED
    BY <2>4 DEF FlagsCount
<1> QED
  BY <1>5, <1>8, <1>9, <1>10 DEF AnyInv, Activations

\* Line 275: the base rate is done, and only its flag changes.
LEMMA BaseDoneOfAny == ASSUME AnyInv, BaseDone PROVE AnyInv'
<1>0. Activations /\ stack # <<>> /\ Top.pc = "base" /\ At("base") /\ ~At("release")
  BY DEF AnyInv, TypeOK, Activations, BaseDone, At
<1>1. 0 \in Tids /\ \A i \in SubRates : i \in Tids /\ i \in Nat /\ i # 0
  BY TaskIds
<1>2. \A i : Executing(i) <=> Held(i)
  BY <1>0, TopOfAny
<1>3. /\ Activations'
      /\ \A i : Executing(i)' <=> Held(i)
      /\ ~At("release")' /\ ~At("base")'
  <2>1. /\ FirstTid + 1 \in (FirstTid + 1) .. (NUMST + 1) /\ "scan" \in Pcs
        /\ \A i \in SubRates : FirstTid + 1 <= i
        /\ Goto("scan", FirstTid + 1)
    BY NumstAssumption, FirstTidAssumption DEF BaseDone, Pcs, SubRates
  <2> QED
    BY <1>0, <2>1, GotoOfAny
<1>4. /\ OverrunFlags' \in [Tids -> 0 .. (FlagMod - 1)]
      /\ \A i \in SubRates : OverrunFlags'[i] = OverrunFlags[i]
      /\ OverrunFlags[0] = 1 => OverrunFlags'[0] = 0
  <2>1. OverrunFlags[0] \in 0 .. (FlagMod - 1)
    BY <1>1 DEF AnyInv, TypeOK
  <2>2. /\ Dec(OverrunFlags[0]) \in 0 .. (FlagMod - 1)
        /\ OverrunFlags[0] = 1 => Dec(OverrunFlags[0]) = 0
    BY <2>1, FlagArithmetic
  <2>3. OverrunFlags' = [OverrunFlags EXCEPT ![0] = Dec(OverrunFlags[0])]
    BY DEF BaseDone
  <2> QED
    BY <1>1, <2>2, <2>3 DEF AnyInv, TypeOK
<1>5. /\ eventFlags' = eventFlags /\ taskCounter' = taskCounter
      /\ errorStatus' \in Statuses /\ (errorStatus' = None => errorStatus = None)
      /\ stopRequested' \in BOOLEAN /\ driver' = driver /\ main' = main
      /\ model' = model /\ logging' = logging /\ exitCode' = exitCode
  BY DEF AnyInv, TypeOK, BaseDone, ModelStepEffects, mainVars, Statuses, None
<1>6. TypeOK' /\ OnlyInLoop' /\ Lifecycle'
  BY <1>0, <1>3, <1>4, <1>5 DEF AnyInv, TypeOK, OnlyInLoop, Lifecycle, Activations
<1>7. BaseFlag'
  BY <1>0, <1>3, <1>4, <1>5 DEF AnyInv, BaseFlag
<1>8. FlagsCount'
  BY <1>2, <1>3, <1>4, <1>5 DEF AnyInv, FlagsCount, Calm
<1> QED
  BY <1>3, <1>6, <1>7, <1>8 DEF AnyInv, Activations

\* Lines 250-260: an overrun leaves one more in the flag of the subrate, once.
LEMMA ReleaseSubrateOfAny == ASSUME AnyInv, ReleaseSubrate PROVE AnyInv'
<1>0. Activations /\ stack # <<>> /\ Top.pc = "release" /\ At("release") /\ Calm
  BY DEF AnyInv, TypeOK, Activations, ReleaseSubrate, At, Calm
<1>1. PICK t \in SubRates : t = Top.tid
  BY DEF ReleaseSubrate
<1>2. 0 \in Tids /\ t \in Tids /\ t # 0 /\ \A i \in SubRates : i \in Tids /\ i # 0
  BY TaskIds
<1>3. \A i : Executing(i) <=> Held(i)
  BY <1>0, TopOfAny
<1>4. /\ stopRequested' = stopRequested /\ driver' = driver /\ main' = main
      /\ model' = model /\ logging' = logging /\ exitCode' = exitCode
  BY DEF ReleaseSubrate, mainVars
<1>5. eventFlags' \in [Tids -> 0 .. (FlagMod - 1)]
  <2>1. eventFlags[t] \in 0 .. (FlagMod - 1)
    BY <1>2 DEF AnyInv, TypeOK
  <2>2. Inc(eventFlags[t]) \in 0 .. (FlagMod - 1)
    BY <2>1, FlagArithmetic
  <2>3. eventFlags' = [eventFlags EXCEPT ![t] = IF StepTask(t) THEN Inc(eventFlags[t])
                                                 ELSE eventFlags[t]]
    BY <1>1 DEF ReleaseSubrate
  <2> QED
    BY <1>2, <2>1, <2>2, <2>3 DEF AnyInv, TypeOK
<1>6. CASE StepTask(t) /\ eventFlags[t] # 0
  <2>1. /\ stack' = Pop /\ errorStatus' = "Overrun" /\ taskCounter' = taskCounter
        /\ OverrunFlags' = [OverrunFlags EXCEPT ![0] = Dec(OverrunFlags[0]),
                                                 ![t] = Inc(OverrunFlags[t])]
    BY <1>1, <1>6 DEF ReleaseSubrate
  <2>2. /\ Activations'
        /\ \A i : Executing(i)' <=> Held(i)
        /\ ~At("release")'
    BY <1>0, <2>1, PopOfAny
  <2>3. /\ OverrunFlags' \in [Tids -> 0 .. (FlagMod - 1)]
        /\ OverrunFlags'[t] = OverrunFlags[t] + 1
        /\ \A i \in SubRates : i # t => OverrunFlags'[i] = OverrunFlags[i]
    <3>1. OverrunFlags[0] \in 0 .. (FlagMod - 1) /\ OverrunFlags[t] \in 0 .. (FlagMod - 1)
      BY <1>2 DEF AnyInv, TypeOK
    <3>2. OverrunFlags[t] <= 1
      BY <1>0 DEF AnyInv, FlagsCount
    <3>3. /\ Dec(OverrunFlags[0]) \in 0 .. (FlagMod - 1)
          /\ Inc(OverrunFlags[t]) \in 0 .. (FlagMod - 1)
          /\ Inc(OverrunFlags[t]) = OverrunFlags[t] + 1
      BY <3>1, <3>2, FlagArithmetic
    <3> QED
      BY <1>2, <2>1, <3>3 DEF AnyInv, TypeOK
  <2>4. TypeOK' /\ OnlyInLoop' /\ Lifecycle'
    BY <1>0, <1>4, <1>5, <2>1, <2>2, <2>3
    DEF AnyInv, TypeOK, OnlyInLoop, Lifecycle, Activations, Statuses
  <2>5. BaseFlag' /\ ~Calm'
    BY <2>1, <2>2 DEF BaseFlag, Calm, None
  <2>6. FlagsCount'
    <3> SUFFICES ASSUME NEW i \in SubRates
                 PROVE  /\ Executing(i)' => OverrunFlags'[i] \in {1, 2}
                        /\ ~Executing(i)' => OverrunFlags'[i] \in {0, 1}
      BY <2>5 DEF FlagsCount
    <3>1. /\ OverrunFlags[i] = IF Executing(i) THEN 1 ELSE 0
          /\ Executing(i)' <=> Executing(i)
      BY <1>0, <1>3, <2>2 DEF AnyInv, FlagsCount
    <3>2. OverrunFlags'[i] = OverrunFlags[i] \/ OverrunFlags'[i] = OverrunFlags[i] + 1
      BY <2>3
    <3> QED
      BY <3>1, <3>2
  <2> QED
    BY <2>2, <2>4, <2>5, <2>6 DEF AnyInv, Activations
<1>7. CASE ~(StepTask(t) /\ eventFlags[t] # 0)
  <2>1. Goto("release", t + 1) /\ OverrunFlags' = OverrunFlags /\ errorStatus' = errorStatus
    BY <1>1, <1>7 DEF ReleaseSubrate
  <2>2. /\ Activations'
        /\ \A i : Executing(i)' <=> Held(i)
        /\ At("release")'
    <3>1. t + 1 \in (FirstTid + 1) .. (NUMST + 1) /\ "release" \in Pcs
      BY NumstAssumption, FirstTidAssumption DEF Pcs, SubRates
    <3> QED
      BY <1>0, <2>1, <3>1, GotoOfAny
  <2>3. taskCounter' \in [SubRates -> Nat]
    <3>1. taskCounter' = [taskCounter EXCEPT ![t] =
                            IF taskCounter[t] + 1 = CounterLimit[t] THEN 0 ELSE taskCounter[t] + 1]
      BY <1>1, <1>7 DEF ReleaseSubrate
    <3> QED
      BY <3>1 DEF AnyInv, TypeOK
  <2>4. TypeOK' /\ OnlyInLoop' /\ Lifecycle'
    BY <1>0, <1>4, <1>5, <2>1, <2>2, <2>3
    DEF AnyInv, TypeOK, OnlyInLoop, Lifecycle, Activations
  <2>5. BaseFlag'
    BY <1>0, <2>1, <2>2 DEF AnyInv, BaseFlag
  <2>6. FlagsCount'
    BY <1>0, <1>3, <2>1, <2>2 DEF AnyInv, FlagsCount
  <2> QED
    BY <2>2, <2>4, <2>5, <2>6 DEF AnyInv, Activations
<1> QED
  BY <1>6, <1>7

\* A call enters only if no activation is entering, wherever it interrupts.
LEMMA EnterOfAny ==
    ASSUME AnyInv, Enter, main = "loop", stopRequested' \in BOOLEAN, UNCHANGED mainVars
    PROVE  AnyInv'
<1> DEFINE n == Len(stack)
           f == [pc |-> "release", tid |-> FirstTid + 1]
           status == IF OverrunFlags[0] # 0 THEN "Overrun" ELSE errorStatus
<1>1. stack \in Seq(Frame) /\ n \in Nat /\ DOMAIN stack = 1 .. n
  BY LenProperties DEF AnyInv, TypeOK
<1>2. 0 \in Tids /\ \A i \in SubRates : i \in Tids /\ i # 0
  BY TaskIds
<1>3. /\ eventFlags' = eventFlags /\ taskCounter' = taskCounter
      /\ driver' = driver /\ main' = main /\ model' = model
      /\ logging' = logging /\ exitCode' = exitCode
  BY DEF Enter, mainVars
<1>4. /\ OverrunFlags' \in [Tids -> 0 .. (FlagMod - 1)]
      /\ \A i \in SubRates : OverrunFlags'[i] = OverrunFlags[i]
      /\ OverrunFlags[0] = 0 => OverrunFlags'[0] = 1
  <2>1. OverrunFlags[0] \in 0 .. (FlagMod - 1)
    BY <1>2 DEF AnyInv, TypeOK
  <2>2. /\ Inc(OverrunFlags[0]) \in 0 .. (FlagMod - 1)
        /\ OverrunFlags[0] = 0 => Inc(OverrunFlags[0]) = 1
    BY <2>1, FlagArithmetic
  <2>3. OverrunFlags' = [OverrunFlags EXCEPT ![0] = Inc(OverrunFlags[0])]
    BY DEF Enter
  <2> QED
    BY <1>2, <2>2, <2>3 DEF AnyInv, TypeOK
<1>5. errorStatus' = status /\ status \in Statuses
  BY DEF AnyInv, Enter, TypeOK, Statuses
<1>6. CASE status = None
  <2>1. errorStatus = None /\ OverrunFlags[0] = 0 /\ errorStatus' = None
    BY <1>5, <1>6 DEF None
  <2>2. f \in Frame /\ f.pc = "release"
    BY NumstAssumption, FirstTidAssumption DEF Frame, Pcs
  <2>3. stack' = Append(stack, f)
    BY <1>6 DEF Enter
  <2> HIDE DEF f
  <2>4. /\ stack' \in Seq(Frame) /\ Len(stack') = n + 1 /\ DOMAIN stack' = 1 .. (n + 1)
        /\ stack'[n + 1].pc = "release"
        /\ \A k \in 1 .. n : stack'[k] = stack[k]
    BY <1>1, <2>2, <2>3, PushFacts
  <2>5. 1 .. (n + 1) = (1 .. n) \cup {n + 1} /\ \A k \in 1 .. n : k < n + 1
    BY <1>1
  <2>6. \A k \in 1 .. n : ~Entering(stack[k])
    <3> SUFFICES ASSUME NEW k \in 1 .. n, Entering(stack[k]) PROVE FALSE
      OBVIOUS
    <3>1. k = n /\ stack # <<>> /\ Top = stack[n]
      <4>1. k = n
        BY <1>1 DEF AnyInv, EntryOnTop
      <4>2. Len(stack) # 0
        BY <1>1, <4>1
      <4> QED
        BY <4>1, <4>2, EmptySeq DEF Top
    <3> QED
      BY <2>1, <3>1 DEF AnyInv, Entering, At, BaseFlag
  <2>7. stack' # <<>> /\ Top' = stack'[n + 1]
    BY <1>1, <2>4, EmptySeq DEF Top
  <2>8. \A i : Executing(i)' <=> Executing(i)
    BY <1>1, <2>4, <2>5 DEF Executing
  <2>9. TypeOK' /\ OnlyInLoop' /\ Lifecycle'
    BY <1>3, <1>4, <1>5, <2>4 DEF AnyInv, TypeOK, OnlyInLoop, Lifecycle
  <2>10. OnSubrate' /\ EntryOnTop'
    BY <1>1, <2>4, <2>5, <2>6 DEF AnyInv, OnSubrate, EntryOnTop, Entering
  <2>11. Nesting'
    BY <1>1, <2>4, <2>5 DEF AnyInv, Nesting, Entering
  <2>12. BaseFlag'
    BY <1>4, <2>1, <2>4, <2>7 DEF BaseFlag, At
  <2>13. FlagsCount'
    BY <1>4, <2>1, <2>8 DEF AnyInv, FlagsCount, Calm
  <2> QED
    BY <2>9, <2>10, <2>11, <2>12, <2>13 DEF AnyInv
<1>7. CASE status # None
  <2>1. stack' = stack /\ errorStatus' # None
    BY <1>5, <1>7 DEF Enter
  <2>2. (Calm' => Calm) /\ \A i : Executing(i)' <=> Executing(i)
    BY <2>1 DEF Calm, At, Top, Executing
  <2>3. TypeOK' /\ OnlyInLoop' /\ Lifecycle' /\ OnSubrate' /\ EntryOnTop' /\ Nesting'
    BY <1>3, <1>4, <1>5, <2>1
    DEF AnyInv, TypeOK, OnlyInLoop, Lifecycle, OnSubrate, EntryOnTop, Nesting
  <2>4. BaseFlag' /\ FlagsCount'
    BY <1>4, <2>1, <2>2 DEF AnyInv, BaseFlag, FlagsCount
  <2> QED
    BY <2>3, <2>4 DEF AnyInv
<1> QED
  BY <1>6, <1>7

\* main outside of rt_OneStep.
LEMMA MainOfAny ==
    ASSUME AnyInv,
           \/ RegisterFails \/ Register \/ StartDataLoggingFails \/ StartDataLogging
           \/ rt_InitModel \/ StopRequest \/ Finish
    PROVE  AnyInv'
<1>1. 0 \in Tids /\ \A i \in SubRates : i \in Tids
  BY TaskIds
<1>2. CASE StopRequest
  BY <1>2 DEF StopRequest, taskVars, mainVars, AnyInv, TypeOK, OnlyInLoop, OnSubrate, EntryOnTop,
     Nesting, BaseFlag, FlagsCount, Executing, Calm, At, Top, Lifecycle
<1>3. CASE rt_InitModel
  <2>1. /\ OverrunFlags' = [i \in Tids |-> 0] /\ eventFlags' = [i \in Tids |-> 0]
        /\ stack = <<>> /\ stack' = <<>>
    BY <1>3 DEF rt_InitModel, AnyInv, OnlyInLoop
  <2>2. /\ OverrunFlags' \in [Tids -> 0 .. (FlagMod - 1)]
        /\ eventFlags' \in [Tids -> 0 .. (FlagMod - 1)]
    BY <2>1, FlagModAssumption
  <2>3. errorStatus' \in Statuses
    BY <1>3 DEF rt_InitModel, AnyInv, TypeOK, Statuses
  <2>4. TypeOK' /\ Lifecycle'
    BY <1>3, <2>1, <2>2, <2>3 DEF rt_InitModel, AnyInv, TypeOK, Lifecycle
  <2> QED
    BY <1>1, <2>1, <2>4 DEF AnyInv, OnlyInLoop, OnSubrate, EntryOnTop, Nesting, BaseFlag,
       FlagsCount, Executing, At
<1>4. CASE RegisterFails \/ Register \/ StartDataLoggingFails \/ StartDataLogging \/ Finish
  <2>1. /\ stack = <<>> /\ stack' = <<>> /\ driver' = driver /\ taskCounter' = taskCounter
        /\ OverrunFlags' = OverrunFlags /\ eventFlags' = eventFlags
        /\ errorStatus' = None => errorStatus = None
    <3>1. stack = <<>>
      BY <1>4 DEF RegisterFails, Register, StartDataLoggingFails, StartDataLogging, Finish,
         AnyInv, OnlyInLoop
    <3>2. CASE Register
      BY <3>1, <3>2 DEF Register, taskVars, None, AnyInv, Lifecycle
    <3>3. CASE RegisterFails \/ StartDataLoggingFails \/ StartDataLogging \/ Finish
      BY <3>1, <3>3 DEF RegisterFails, StartDataLoggingFails, StartDataLogging, Finish, taskVars
    <3> QED
      BY <1>4, <3>2, <3>3
  <2>2. errorStatus' \in Statuses /\ stopRequested' \in BOOLEAN /\ exitCode' \in {-1, 0, 1}
    BY <1>4 DEF RegisterFails, Register, StartDataLoggingFails, StartDataLogging, Finish,
       AnyInv, TypeOK, Statuses
  <2>3. /\ main' \in {"register", "log", "init", "loop", "exit"}
        /\ model' \in {"none", "registered", "initialized", "terminated"}
        /\ logging' \in {"off", "on", "saved"}
    BY <1>4 DEF RegisterFails, Register, StartDataLoggingFails, StartDataLogging, Finish,
       AnyInv, TypeOK
  <2>4. TypeOK'
    BY <2>1, <2>2, <2>3 DEF AnyInv, TypeOK
  <2>5. Lifecycle'
    BY <1>4 DEF RegisterFails, Register, StartDataLoggingFails, StartDataLogging, Finish,
       AnyInv, Lifecycle
  <2> QED
    BY <2>1, <2>4, <2>5 DEF AnyInv, OnlyInLoop, OnSubrate, EntryOnTop, Nesting, BaseFlag,
       FlagsCount, Executing, Calm, At
<1> QED
  BY <1>2, <1>3, <1>4

\* The invariant of every build holds in every state of every run.
LEMMA AnyBuild == Spec => []AnyInv
<1>1. ASSUME Init PROVE AnyInv
  <2>1. IInv
    BY <1>1, InitIInv
  <2>2. \A i \in SubRates : OverrunFlags[i] = 0
    BY <1>1, TaskIds DEF Init
  <2>3. stack = <<>>
    BY <1>1 DEF Init
  <2> QED
    BY <2>1, <2>2, <2>3 DEF IInv, AnyInv, EntryOnTop, FlagsCount, Executing
<1>2. ASSUME AnyInv, [Next]_vars PROVE AnyInv'
  <2>1. CASE rt_OneStep
    BY <1>2, <2>1, ReleaseSubrateOfAny, QuietOfAny, BaseDoneOfAny, ClaimOfAny, SubrateDoneOfAny
    DEF rt_OneStep
  <2>2. CASE LoopTurn \/ Interrupt
    <3>1. stopRequested' \in BOOLEAN
      BY <1>2, <2>2 DEF LoopTurn, Interrupt, AnyInv, TypeOK
    <3> QED
      BY <1>2, <2>2, <3>1, EnterOfAny DEF LoopTurn, Interrupt
  <2>3. CASE \/ RegisterFails \/ Register \/ StartDataLoggingFails \/ StartDataLogging
             \/ rt_InitModel \/ StopRequest \/ Finish
    BY <1>2, <2>3, MainOfAny
  <2>4. CASE UNCHANGED vars
    BY <1>2, <2>4 DEF vars, taskVars, mainVars, AnyInv, TypeOK, OnlyInLoop, OnSubrate, EntryOnTop,
       Nesting, BaseFlag, FlagsCount, Executing, Calm, At, Top, Lifecycle
  <2> QED
    BY <1>2, <2>1, <2>2, <2>3, <2>4 DEF Next, Terminated
<1>3. (Init => AnyInv) /\ (AnyInv /\ [Next]_vars => AnyInv')
  BY <1>1, <1>2
<1> QED
  BY <1>3, PTL DEF Spec

-----------------------------------------------------------------------------
(* The theorems                                                             *)

\* Every state of every run is well typed, for every number of rates.
THEOREM TypeCorrect == Spec => []TypeOK
<1>1. AnyInv => TypeOK
  BY DEF AnyInv
<1> QED
  BY AnyBuild, <1>1, PTL

\* Preemption is rate monotonic at every depth: no subrate is stepped by two
\* activations at once, none is preempted by a slower one (lines 281-284), and
\* the base step by none at all.
THEOREM PreemptionIsRateMonotonic == Spec => []RateMonotonic
<1>1. AnyInv => RateMonotonic
  <2> SUFFICES ASSUME AnyInv, NEW j \in DOMAIN stack, NEW k \in DOMAIN stack, j < k
               PROVE  /\ stack[j].pc \notin {"release", "base"}
                      /\ stack[j].pc = "run" /\ stack[k].pc = "run"
                             => stack[k].tid < stack[j].tid
    BY DEF RateMonotonic
  <2>1. ~Entering(stack[j])
    <3>1. stack \in Seq(Frame) /\ k <= Len(stack) /\ j \in Nat /\ k \in Nat
      BY DEF AnyInv, TypeOK
    <3>2. j # Len(stack)
      BY <3>1
    <3> QED BY <3>2 DEF AnyInv, EntryOnTop
  <2>2. stack[j].pc = "run" /\ stack[k].pc = "run" => stack[k].tid < stack[j].tid
    BY DEF AnyInv, Nesting, Entering
  <2> QED BY <2>1, <2>2 DEF Entering
<1> QED
  BY AnyBuild, <1>1, PTL

\* A subrate is stepped only for a release that was not served (lines 286-302).
THEOREM OnlyReleasedRatesRun == ASSUME FlagsProtected PROVE Spec => []RunsOnlyReleased
<1>1. IInv => RunsOnlyReleased
  BY DEF IInv, RunsOnlyReleased, EventUp
<1> QED
  BY Inductive, <1>1, PTL

\* What an activation leaves to the one it preempted (the return of line 284)
\* is served before the processor is idle, unless an error is reported.
THEOREM NoReleaseIsLost == ASSUME FlagsProtected PROVE Spec => []NoLostRelease
<1>1. IInv => NoLostRelease
  BY DEF IInv, NoLostRelease, Cover
<1> QED
  BY Inductive, <1>1, PTL

\* Every exit of main terminates the instance and saves the log (lines 400-479).
THEOREM EveryExitIsClean == Spec => []CleanExit
<1>1. AnyInv => CleanExit
  BY DEF AnyInv, CleanExit, Lifecycle
<1> QED
  BY AnyBuild, <1>1, PTL
=============================================================================
