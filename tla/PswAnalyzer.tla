----------------------------- MODULE PswAnalyzer ------------------------------
(***************************************************************************)
(* The phase space warping analyzer: a ring buffer of poses, a reference   *)
(* model made from the oldest part of the first full window, and an        *)
(* analysis of the newest part of the window every Interval poses.         *)
(*                                                                         *)
(* Numbers are left out, those of the poses too: what counts is from which *)
(* analysis (step_counter) each part of the reference comes, in how many   *)
(* dimensions PCA has projected it, and where a computation raises.        *)
(***************************************************************************)
EXTENDS Rclcpp, Integers

CONSTANTS
    QueueDepth,     \* KEEP_LAST depth of the subscription (10)
    BufferSize,     \* buffer_size (100)
    Interval,       \* analysis_interval_steps (15)
    EmbDim,         \* embedding_dimension (4)
    Delay,          \* time_delay (4)
    RefNum, RefDen, \* reference_percentage as a fraction (1/4)
    Dims            \* numbers of dimensions PCA may keep

\* Points of the embedding, and those of them that make the reference.
N == BufferSize - (EmbDim - 1) * Delay
ref_size == (N * RefNum) \div RefDen

VARIABLES
    listening,      \* the node exists
    inbox,          \* messages waiting at the subscription
    pose_buffer, step_counter, analysis_ready,
    reference_established,
    reference,      \* its parts, each from the analysis at that step, 0 for none
    psw_history,    \* steps of the analyses whose tracking went in
    results,        \* what was published
    raised          \* steps of the analyses that ended in an exception

pswVars == <<listening, inbox, pose_buffer, step_counter, analysis_ready, reference_established,
             reference, psw_history, results, raised>>

NoReference == [data |-> 0, nn |-> 0, successors |-> 0, statistics |-> 0, dim |-> 0]

Init ==
    /\ listening = FALSE
    /\ inbox = <<>>
    /\ pose_buffer = <<>> /\ step_counter = 0 /\ analysis_ready = FALSE
    /\ reference_established = FALSE /\ reference = NoReference
    /\ psw_history = <<>> /\ results = <<>> /\ raised = {}

\* __init__ of a new process
Listen ==
    /\ ~listening /\ listening' = TRUE
    /\ inbox' = <<>>
    /\ pose_buffer' = <<>> /\ step_counter' = 0 /\ analysis_ready' = FALSE
    /\ reference_established' = FALSE /\ reference' = NoReference
    /\ psw_history' = <<>> /\ results' = <<>> /\ raised' = {}

\* Ctrl-C, and the cleanup of main
Quit ==
    /\ listening /\ listening' = FALSE
    /\ inbox' = <<>>
    /\ UNCHANGED <<pose_buffer, step_counter, analysis_ready, reference_established, reference,
                   psw_history, results, raised>>

Deliver(n) == inbox' = IF listening THEN Enqueue(inbox, n, QueueDepth) ELSE inbox

\* Steps of the samples in points first .. last of the window at step c, whose
\* oldest sample is that of step c - BufferSize.
Samples(c, first, last) ==
    {c - BufferSize + i + j * Delay : i \in first .. last, j \in 0 .. EmbDim - 1}

ReferenceSamples(c) == Samples(c, 0, ref_size - 1)
TestSamples(c) == Samples(c, ref_size, N - 1)

-----------------------------------------------------------------------------
(* The analysis at step c, in dim dimensions                                *)

Raise(c) ==
    /\ raised' = raised \cup {c}
    /\ UNCHANGED <<psw_history, results>>

\* The parts are assigned one after the other; a computation in between raises:
\* the neighbour search without a point to fit, the covariance on bad numbers,
\* which is not computed for fewer than two transitions.
establish_reference_manifold(c, dim) ==
    LET data == [reference EXCEPT !.data = c, !.dim = dim]
        fitted == [data EXCEPT !.nn = c, !.successors = c]
    IN  \/ reference' = data /\ UNCHANGED reference_established /\ Raise(c)
        \/ /\ ref_size > 1
           /\ \/ /\ ref_size > 2
                 /\ reference' = fitted /\ UNCHANGED reference_established /\ Raise(c)
              \/ /\ reference' = [fitted EXCEPT !.statistics = c]
                 /\ reference_established' = TRUE
                 /\ UNCHANGED <<psw_history, results, raised>>

\* The neighbour search raises on points of another dimension, the extremes of
\* the tracking norms without a tested point that has a successor.
\* publish_results catches its own exceptions: the history has the result then.
track(c, dim) ==
    /\ UNCHANGED <<reference, reference_established>>
    /\ \/ Raise(c)
       \/ /\ dim = reference.dim /\ N - ref_size > 1
          /\ psw_history' = Append(psw_history, c)
          /\ results' \in {results, Append(results, c)}
          /\ UNCHANGED raised

\* Mutation of perform_psw_analysis: established before it is done.
performEager(c) ==
    \/ Raise(c) /\ UNCHANGED <<reference, reference_established>>
    \/ \E dim \in Dims :
           IF reference_established THEN track(c, dim)
           ELSE /\ reference_established' = TRUE
                /\ \/ reference' = [data |-> c, nn |-> c, successors |-> c, statistics |-> c,
                                    dim |-> dim]
                      /\ UNCHANGED <<psw_history, results, raised>>
                   \/ reference' = [reference EXCEPT !.data = c, !.dim = dim] /\ Raise(c)

\* Mutation of perform_psw_analysis: the window of the reference is tracked too.
performThrough(c) ==
    \E dim \in Dims :
        IF reference_established THEN track(c, dim)
        ELSE /\ reference_established' = TRUE
             /\ reference' = [data |-> c, nn |-> c, successors |-> c, statistics |-> c,
                              dim |-> dim]
             /\ psw_history' = Append(psw_history, c)
             /\ results' = Append(results, c)
             /\ UNCHANGED raised

\* The embedding or PCA raises, or one of the two branches runs.
perform_psw_analysis(c) ==
    \/ Raise(c) /\ UNCHANGED <<reference, reference_established>>
    \/ \E dim \in Dims :
           IF reference_established THEN track(c, dim)
           ELSE establish_reference_manifold(c, dim)

\* Mutation of Due: the pose that fills the buffer comes too late for its interval.
DueLate(buffer, c) == analysis_ready /\ c % Interval = 0

\* After step c the buffer is or was full, and the interval is over.
Due(buffer, c) ==
    (analysis_ready \/ Len(buffer) = BufferSize) /\ c % Interval = 0

\* Mutation of pose_callback: a list for the deque, which never drops a sample.
pose_callback_list ==
    /\ listening /\ inbox # <<>>
    /\ inbox' = Tail(inbox)
    /\ pose_buffer' = Append(pose_buffer, Head(inbox))
    /\ step_counter' = step_counter + 1
    /\ analysis_ready' = (analysis_ready \/ Len(pose_buffer') = BufferSize)
    /\ IF Due(pose_buffer', step_counter')
       THEN perform_psw_analysis(step_counter')
       ELSE UNCHANGED <<reference, reference_established, psw_history, results, raised>>
    /\ UNCHANGED listening

\* deque(maxlen) drops its oldest sample; the callback is one step, as nothing
\* else runs on the thread of rclpy.spin.
pose_callback ==
    /\ listening /\ inbox # <<>>
    /\ inbox' = Tail(inbox)
    /\ pose_buffer' = Enqueue(pose_buffer, Head(inbox), BufferSize)
    /\ step_counter' = step_counter + 1
    /\ analysis_ready' = (analysis_ready \/ Len(pose_buffer') = BufferSize)
    /\ IF Due(pose_buffer', step_counter')
       THEN perform_psw_analysis(step_counter')
       ELSE UNCHANGED <<reference, reference_established, psw_history, results, raised>>
    /\ UNCHANGED listening
==============================================================================
