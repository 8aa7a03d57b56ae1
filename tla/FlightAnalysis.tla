---------------------------- MODULE FlightAnalysis -----------------------------
(***************************************************************************)
(* A flight that publishes its poses, the phase space warping analyzer and *)
(* the drone plotter, which listen to the same topic from any moment on.   *)
(* The flight waits for neither: a slow reader loses poses.                *)
(***************************************************************************)
EXTENDS Rclcpp, Integers, FiniteSets, SequencesExt

CONSTANTS
    QueueDepth, BufferSize, Interval, EmbDim, Delay, RefNum, RefDen, Dims,
    PlotDepth, MaxBlanks,
    MaxSent,        \* bound: poses of the flight
    MaxAnalyzers,   \* bound: starts of the analyzer
    MaxWindows      \* bound: starts of the plotter

ASSUME DepthsAssumption == {QueueDepth, PlotDepth} \subseteq Nat \ {0}
ASSUME WindowAssumption == {BufferSize, Interval, EmbDim, Delay} \subseteq Nat \ {0}
ASSUME FractionAssumption == RefNum \in Nat /\ RefDen \in Nat \ {0} /\ RefNum <= RefDen
ASSUME DimsAssumption == Dims \subseteq Nat \ {0}
ASSUME LimitsAssumption == {MaxBlanks, MaxSent, MaxAnalyzers, MaxWindows} \subseteq Nat

VARIABLES
    sent,           \* poses published so far
    listening, inbox, pose_buffer, step_counter, analysis_ready, reference_established,
    reference, psw_history, results, raised,
    spinning, fignum_exists, poses, position, current_orientation, drawn, blanks,
    analyzers,      \* starts of the analyzer so far
    windows,        \* starts of the plotter so far
    handed          \* history: the last pose handed to the plotter, 0 for none

pswVars == <<listening, inbox, pose_buffer, step_counter, analysis_ready, reference_established,
             reference, psw_history, results, raised>>
plotVars == <<spinning, fignum_exists, poses, position, current_orientation, drawn, blanks>>
vars == <<sent, pswVars, plotVars, analyzers, windows, handed>>

Psw == INSTANCE PswAnalyzer
Plot == INSTANCE DronePlotter

Init ==
    /\ sent = 0
    /\ Psw!Init /\ Plot!Init
    /\ analyzers = 0 /\ windows = 0 /\ handed = 0

\* One of the publisher blocks publishes a pose.  To the analyzer all are alike,
\* as it counts them; to the plotter they are numbered.
Fly ==
    /\ sent < MaxSent /\ sent' = sent + 1
    /\ Psw!Deliver("pose") /\ Plot!Deliver(sent')
    /\ handed' = IF spinning THEN sent' ELSE handed
    /\ UNCHANGED <<listening, pose_buffer, step_counter, analysis_ready, reference_established,
                   reference, psw_history, results, raised, spinning, fignum_exists, position,
                   current_orientation, drawn, blanks, analyzers, windows>>

StartAnalyzer ==
    /\ analyzers < MaxAnalyzers /\ analyzers' = analyzers + 1
    /\ Psw!Listen
    /\ UNCHANGED <<sent, plotVars, windows, handed>>

Analyze == Psw!pose_callback /\ UNCHANGED <<sent, plotVars, analyzers, windows, handed>>

StopAnalyzer == Psw!Quit /\ UNCHANGED <<sent, plotVars, analyzers, windows, handed>>

OpenPlot ==
    /\ windows < MaxWindows /\ windows' = windows + 1
    /\ Plot!Open
    /\ handed' = 0
    /\ UNCHANGED <<sent, pswVars, analyzers>>

Collect == Plot!pose_callback /\ UNCHANGED <<sent, pswVars, analyzers, windows, handed>>

Draw == Plot!update_plot /\ UNCHANGED <<sent, pswVars, analyzers, windows, handed>>

ClosePlot ==
    /\ Plot!on_close \/ Plot!Quit
    /\ UNCHANGED <<sent, pswVars, analyzers, windows, handed>>

Next ==
    \/ Fly
    \/ StartAnalyzer \/ Analyze \/ StopAnalyzer
    \/ OpenPlot \/ Collect \/ Draw \/ ClosePlot

\* A node that spins serves its subscription and its timer.
Fairness == WF_vars(Analyze) /\ WF_vars(Collect) /\ WF_vars(Draw)

Spec == Init /\ [][Next]_vars /\ Fairness

-----------------------------------------------------------------------------
(* Correctness                                                              *)

Poses == 1 .. MaxSent
Steps == 0 .. MaxSent

\* Type correctness of the analyzer, the plotter and the bounds.
TypeOK ==
    /\ sent \in Steps /\ handed \in Steps
    /\ listening \in BOOLEAN /\ analysis_ready \in BOOLEAN /\ reference_established \in BOOLEAN
    /\ inbox \in Seq({"pose"}) /\ Len(inbox) <= QueueDepth
    /\ pose_buffer \in Seq({"pose"}) /\ Len(pose_buffer) <= BufferSize
    /\ step_counter \in Steps
    /\ reference \in [data : Steps, nn : Steps, successors : Steps, statistics : Steps,
                      dim : Dims \cup {0}]
    /\ psw_history \in Seq(Steps) /\ results \in Seq(Steps) /\ raised \subseteq Steps
    /\ spinning \in BOOLEAN /\ fignum_exists \in BOOLEAN
    /\ poses \in Seq(Poses) /\ Len(poses) <= PlotDepth
    /\ {position, current_orientation} \subseteq Steps
    /\ drawn \in [marker : Steps, arrow : Steps]
    /\ blanks \in 0 .. MaxBlanks /\ analyzers \in 0 .. MaxAnalyzers /\ windows \in 0 .. MaxWindows

\* Once it is established, all parts of the reference come from one analysis,
\* although attempts that raised in the middle have left parts of theirs.
ReferenceFromOneAnalysis ==
    reference_established =>
        /\ reference.statistics # 0
        /\ {reference.data, reference.nn, reference.successors} = {reference.statistics}

\* The reference is never tested on its own samples but by the analyses that come
\* at least an interval, but less than the span of an embedded point after it; there
\* are none when the interval is no shorter (15 and 12 in the code, 10 in its README).
TestDisjointFromReference ==
    \A k \in DOMAIN results :
        LET made == reference.statistics
        IN  \/ Psw!TestSamples(results[k]) \cap Psw!ReferenceSamples(made) = {}
            \/ made + Interval <= results[k] /\ results[k] < made + (EmbDim - 1) * Delay

\* Every interval from the first full buffer on is analysed exactly once: it
\* made the reference, went into the history, or raised.  What was published is
\* in the history, in its order.
AnalysesAccounted ==
    LET due == {c \in BufferSize .. step_counter : c % Interval = 0}
        made == IF reference_established THEN {reference.statistics} ELSE {}
    IN  /\ due = made \cup raised \cup ToSet(psw_history)
        /\ Cardinality(due) = Cardinality(made) + Cardinality(raised) + Len(psw_history)
        /\ \A i, j \in DOMAIN psw_history : i < j => psw_history[i] < psw_history[j]
        /\ \A i, j \in DOMAIN results : i < j => results[i] < results[j]
        /\ ToSet(results) \subseteq ToSet(psw_history)

\* When the flight pauses, an open window comes to show marker and arrow at the
\* last pose handed to the plotter, although drawings fail and poses are lost.
LastPosePlotted ==
    <>[]fignum_exists =>
        <>[](handed # 0 => drawn.marker = handed /\ drawn.arrow = handed)
==============================================================================
