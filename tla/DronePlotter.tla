----------------------------- MODULE DronePlotter ------------------------------
(***************************************************************************)
(* The plotter of the own ship: pose_callback collects every pose it is    *)
(* handed, a timer draws the trajectory, a marker at its end and an arrow  *)
(* in the direction of the orientation.  Both run on the thread of         *)
(* rclpy.spin.  Of the trajectory only its end is kept, as the number of   *)
(* the pose it comes from; so it is with the marker and the arrow.         *)
(***************************************************************************)
EXTENDS Rclcpp

CONSTANTS
    PlotDepth,      \* KEEP_LAST depth of the subscription (10 in the code)
    MaxBlanks       \* bound: drawings that fail

VARIABLES
    spinning,       \* the node exists
    fignum_exists,  \* the window is open
    poses,          \* messages waiting at the subscription
    position, current_orientation,
    drawn,          \* what the axes show
    blanks          \* drawings that failed

plotVars == <<spinning, fignum_exists, poses, position, current_orientation, drawn, blanks>>

NoPlot == [marker |-> 0, arrow |-> 0]

Init ==
    /\ spinning = FALSE /\ fignum_exists = FALSE
    /\ poses = <<>> /\ position = 0 /\ current_orientation = 0
    /\ drawn = NoPlot
    /\ blanks = 0

\* __init__: a new node, figure and subscription.
Open ==
    /\ ~spinning
    /\ spinning' = TRUE /\ fignum_exists' = TRUE
    /\ poses' = <<>> /\ position' = 0 /\ current_orientation' = 0
    /\ drawn' = NoPlot
    /\ UNCHANGED blanks

\* Mutation of pose_callback: the orientation is kept from the first pose.
pose_callback_once ==
    /\ spinning /\ poses # <<>>
    /\ position' = Head(poses)
    /\ current_orientation' = IF current_orientation = 0 THEN Head(poses)
                              ELSE current_orientation
    /\ poses' = Tail(poses)
    /\ UNCHANGED <<spinning, fignum_exists, drawn, blanks>>

pose_callback ==
    /\ spinning /\ poses # <<>>
    /\ position' = Head(poses)
    /\ current_orientation' = Head(poses)
    /\ poses' = Tail(poses)
    /\ UNCHANGED <<spinning, fignum_exists, drawn, blanks>>

\* timer_callback and update_plot, when the last drawing is old enough; an
\* error after ax.clear leaves the axes blank until the next drawing.
update_plot ==
    /\ spinning /\ fignum_exists /\ position # 0
    /\ \/ /\ drawn' = [marker |-> position, arrow |-> current_orientation]
          /\ UNCHANGED blanks
       \/ /\ blanks < MaxBlanks /\ blanks' = blanks + 1
          /\ drawn' = NoPlot
    /\ UNCHANGED <<spinning, fignum_exists, poses, position, current_orientation>>

on_close ==
    /\ fignum_exists
    /\ fignum_exists' = FALSE
    /\ UNCHANGED <<spinning, poses, position, current_orientation, drawn, blanks>>

\* SIGINT, and the cleanup of main.
Quit ==
    /\ spinning
    /\ spinning' = FALSE /\ fignum_exists' = FALSE
    /\ poses' = <<>>
    /\ UNCHANGED <<position, current_orientation, drawn, blanks>>

Deliver(n) == poses' = IF spinning THEN Enqueue(poses, n, PlotDepth) ELSE poses
==============================================================================
