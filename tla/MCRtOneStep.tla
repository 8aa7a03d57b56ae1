----------------------------- MODULE MCRtOneStep -----------------------------
(* Three rates: subrate 1 every second base step, subrate 2 every third.    *)
EXTENDS RtOneStep

MCLimit == [i \in SubRates |-> i + 1]
==============================================================================
