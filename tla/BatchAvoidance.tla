---------------------------- MODULE BatchAvoidance ----------------------------
(***************************************************************************)
(* EBK_AVOIDANCE.m: flies N_runs pairs of trajectories, one after the      *)
(* other, with one model and one workspace that the runs reuse, and        *)
(* summarises how many collisions were avoided; or flies one pair as a     *)
(* demonstration.  The script may be run again in the same workspace.      *)
(***************************************************************************)
EXTENDS Integers, Sequences, FiniteSets, SequencesExt

CONSTANTS
    N_runs, start_pair,     \* the batch: pairs start_pair .. start_pair + N_runs - 1
    DemoPair,               \* demo_own_traj and demo_bball_traj
    LastPair,               \* rows of the two trajectory files
    R_safe,
    Distances,              \* miss distances a simulation may have
    Inf,                    \* that of a simulation that never sees the ball fly
    MaxSessions             \* bound: executions of the script in one workspace

ASSUME PairsAssumption ==
    /\ {N_runs, start_pair, DemoPair, LastPair} \subseteq Nat \ {0}
    /\ DemoPair <= LastPair
ASSUME DistancesAssumption ==
    Distances \subseteq Nat /\ {R_safe, Inf} \subseteq Nat /\ R_safe < Inf /\ \A d \in Distances : d < Inf
ASSUME SessionsAssumption == MaxSessions \in Nat

Runs == 1 .. N_runs
traj_indices == [r \in Runs |-> start_pair + r - 1]

\* A trajectory is the number of its pair; 0 stands for none.
Pairs == 0 .. (start_pair + N_runs + DemoPair)
NaN == -1
FileStop == 0           \* the StopTime saved in the model
WarmupStop == -1        \* '0.01'

VARIABLES
    pc,
    session,            \* executions of the script so far
    mode,               \* run_mode: batch or demo
    run_idx,
    userStruct,         \* own-ship path, ball path, stop time, trim state
    full_userStruct,
    SimIn, SimPar,      \* reference path, ball path, initial conditions, stop time
    bball_pwcurve,      \* the ball curve of the current run
    simIn,              \* the overrides of the current run: EKF seed, StopTime
    simout,             \* miss distance in the output of the last simulation
    modelStop,          \* StopTime of the loaded model
    warmup_stop,
    results,
    flown,              \* history: what each run flew with; run 0 is the demo
    summary

vars == <<pc, session, mode, run_idx, userStruct, full_userStruct, SimIn, SimPar,
          bball_pwcurve, simIn, simout, modelStop, warmup_stop, results, flown, summary>>

runVars == <<bball_pwcurve, simIn, simout>>
modelVars == <<modelStop, warmup_stop>>
outVars == <<results, flown, summary>>

NoInputs == [ref |-> 0, ball |-> 0, ic |-> 0, stop |-> 0]
NoUser == [own |-> 0, ball |-> 0, stop |-> 0, trim |-> 0]
NoFlight == [ref |-> 0, ball |-> 0, ic |-> 0, ekf |-> 0, stop |-> 0, dist |-> NaN]
NoResults == [min_dist |-> [r \in Runs |-> NaN], avoided |-> [r \in Runs |-> FALSE],
              errored |-> [r \in Runs |-> FALSE]]
NoSummary == [n_avoided |-> 0, n_collision |-> 0, n_errors |-> 0, cases |-> <<>>]

-----------------------------------------------------------------------------
(* The functions the script calls                                           *)

load_trajectory_pair(u, pair) == [u EXCEPT !.own = pair, !.ball = pair, !.stop = pair]

\* The trim state is that of the own-ship path, unless there is one already.
setupDefaults(u) == [u EXCEPT !.trim = IF @ = 0 THEN u.own ELSE @]

setupRefInputs(s, u) == [s EXCEPT !.ref = u.own]

\* Mutation of setupBballRefInputs: taken for the same in all runs.
setupBballOnce(s, u) == IF s.ball = 0 THEN [s EXCEPT !.ball = u.ball] ELSE s

setupBballRefInputs(s, u) == [s EXCEPT !.ball = u.ball]
setupIC(s, u) == [s EXCEPT !.ic = u.trim]
setupParams(s, u) == [s EXCEPT !.stop = u.stop]

\* SimIn after each of these statements, from before the first one on.
SetupSteps(s, u) ==
    LET ref == setupRefInputs(s, u)
        ball == setupBballRefInputs(ref, u)
        ic == setupIC(ball, u)
    IN  <<s, ref, ball, ic, setupParams(ic, u)>>

\* setup.m, for what depends on the trajectories: it begins with an empty SimIn.
setup(u) == Last(SetupSteps(NoInputs, setupDefaults(u)))

\* The least distance while the ball is in flight, Inf when no sample is in its
\* time window.
compute_miss_distance == Distances \cup {Inf}

valid == {r \in Runs : ~results.errored[r]}

\* The i-th is the one that i of them do not exceed.
find(S) == [i \in 1 .. Cardinality(S) |-> CHOOSE r \in S : Cardinality({q \in S : q <= r}) = i]

valid_indices == find(valid)
valid_dists_vec == [i \in DOMAIN valid_indices |-> results.min_dist[valid_indices[i]]]

\* [~, i] = max(d) and min(d): the first of the largest and of the smallest.
ArgMax(d) == CHOOSE i \in DOMAIN d :
    \A j \in DOMAIN d : d[j] < d[i] \/ (d[j] = d[i] /\ i <= j)
ArgMin(d) == ArgMax([i \in DOMAIN d |-> -d[i]])

avoided_local_idx == find({i \in DOMAIN valid_indices : results.avoided[valid_indices[i]]})
avoided_dists == [i \in DOMAIN avoided_local_idx |-> valid_dists_vec[avoided_local_idx[i]]]

\* Mutation of tight_idx: the index into the avoided runs taken for one into
\* the valid runs.
tightUnmapped(best) ==
    IF avoided_dists = <<>> THEN best ELSE valid_indices[ArgMin(avoided_dists)]

tight_idx(best) ==
    IF avoided_dists = <<>> THEN best
    ELSE valid_indices[avoided_local_idx[ArgMin(avoided_dists)]]

\* Best Avoidance, Tightest Dodge and Closest Approach of figure 4.
case_indices ==
    IF valid = {} THEN <<>>
    ELSE LET best == valid_indices[ArgMax(valid_dists_vec)]
         IN  <<best, tight_idx(best), valid_indices[ArgMin(valid_dists_vec)]>>

-----------------------------------------------------------------------------
(* The script                                                               *)

Init ==
    /\ pc = "idle" /\ session = 0 /\ mode = "batch" /\ run_idx = 0
    /\ userStruct = NoUser /\ full_userStruct = NoUser
    /\ SimIn = NoInputs /\ SimPar = NoInputs
    /\ bball_pwcurve = 0 /\ simIn = [ekf |-> 0, stop |-> 0] /\ simout = NaN
    /\ modelStop = FileStop /\ warmup_stop = FileStop
    /\ results = NoResults /\ flown = [r \in {0} \cup Runs |-> NoFlight]
    /\ summary = NoSummary

\* Mutation of StartScript: userStruct is not cleared.
StartUncleared ==
    /\ pc = "idle" /\ session < MaxSessions
    /\ session' = session + 1
    /\ mode' \in {"batch", "demo"}
    /\ pc' = IF mode' = "demo" THEN "demo" ELSE "build"
    /\ run_idx' = 0
    /\ results' = NoResults /\ flown' = [r \in {0} \cup Runs |-> NoFlight]
    /\ summary' = NoSummary
    /\ UNCHANGED <<userStruct, full_userStruct, SimIn, SimPar, runVars, modelVars>>

\* clear userStruct; everything else stays in the workspace.
StartScript ==
    /\ pc = "idle" /\ session < MaxSessions
    /\ session' = session + 1
    /\ mode' \in {"batch", "demo"}
    /\ pc' = IF mode' = "demo" THEN "demo" ELSE "build"
    /\ userStruct' = NoUser
    /\ run_idx' = 0
    /\ results' = NoResults /\ flown' = [r \in {0} \cup Runs |-> NoFlight]
    /\ summary' = NoSummary
    /\ UNCHANGED <<full_userStruct, SimIn, SimPar, runVars, modelVars>>

\* The script ends: it is through, Ctrl-C, or an error outside the try of the loop.
EndScript ==
    /\ pc # "idle"
    /\ pc' = "idle"
    /\ UNCHANGED <<session, mode, run_idx, userStruct, full_userStruct, SimIn, SimPar,
                   runVars, modelVars, outVars>>

FullSetup(pair) ==
    /\ pair <= LastPair
    /\ userStruct' = setupDefaults(load_trajectory_pair(userStruct, pair))
    /\ SimIn' = setup(load_trajectory_pair(userStruct, pair))
    /\ SimPar' = SimIn'

DemoSetup ==
    /\ pc = "demo"
    /\ FullSetup(DemoPair)
    /\ pc' = "demoSim"
    /\ UNCHANGED <<session, mode, run_idx, full_userStruct, runVars, modelVars, outVars>>

\* The demo seeds no EKF and leaves StopTime to the model.
DemoSim ==
    /\ pc = "demoSim"
    /\ simout' \in compute_miss_distance
    /\ flown' = [flown EXCEPT ![0] = [ref |-> SimPar.ref, ball |-> SimPar.ball, ic |-> SimPar.ic,
                                      ekf |-> 0, stop |-> modelStop, dist |-> simout']]
    /\ pc' = "idle"
    /\ UNCHANGED <<session, mode, run_idx, userStruct, full_userStruct, SimIn, SimPar,
                   bball_pwcurve, simIn, modelVars, results, summary>>

\* One full setup, of the first pair; then the model is made to stop at once.
BuildOnce ==
    /\ pc = "build"
    /\ FullSetup(traj_indices[1])
    /\ warmup_stop' = modelStop
    /\ modelStop' = WarmupStop
    /\ pc' = "warmup"
    /\ UNCHANGED <<session, mode, run_idx, full_userStruct, runVars, outVars>>

WarmedUp ==
    /\ pc = "warmup"
    /\ modelStop' = warmup_stop
    /\ full_userStruct' = userStruct
    /\ pc' = "next"
    /\ UNCHANGED <<session, mode, run_idx, userStruct, SimIn, SimPar, runVars, warmup_stop,
                   outVars>>

\* Mutation of NextRun: one run too many.
NextRunPast ==
    /\ pc = "next" /\ run_idx <= N_runs
    /\ run_idx' = run_idx + 1
    /\ SimPar' = NoInputs /\ simout' = NaN
    /\ userStruct' = full_userStruct
    /\ pc' = "load"
    /\ UNCHANGED <<session, mode, full_userStruct, SimIn, bball_pwcurve, simIn, modelVars,
                   outVars>>

NextRun ==
    /\ pc = "next" /\ run_idx < N_runs
    /\ run_idx' = run_idx + 1
    /\ SimPar' = NoInputs /\ simout' = NaN
    /\ userStruct' = full_userStruct
    /\ pc' = "load"
    /\ UNCHANGED <<session, mode, full_userStruct, SimIn, bball_pwcurve, simIn, modelVars,
                   outVars>>

LoadPair ==
    /\ pc = "load"
    /\ IF traj_indices[run_idx] <= LastPair
       THEN pc' = "setup" /\ userStruct' = load_trajectory_pair(userStruct, traj_indices[run_idx])
       ELSE pc' = "catch" /\ UNCHANGED userStruct
    /\ UNCHANGED <<session, mode, run_idx, full_userStruct, SimIn, SimPar, runVars, modelVars,
                   outVars>>

\* Any of the statements may fail; what the ones before did to SimIn stays.
SetupRun ==
    /\ pc = "setup"
    /\ LET steps == SetupSteps(SimIn, userStruct) IN
       \/ \E done \in 1 .. 4 : SimIn' = steps[done] /\ pc' = "catch" /\ UNCHANGED SimPar
       \/ SimIn' = Last(steps) /\ SimPar' = Last(steps) /\ pc' = "seed"
    /\ UNCHANGED <<session, mode, run_idx, userStruct, full_userStruct, runVars, modelVars,
                   outVars>>

\* The EKF starts from the launch of the ball, the model stops with the path.
SeedEkf ==
    /\ pc = "seed"
    /\ bball_pwcurve' = userStruct.ball
    /\ simIn' = [ekf |-> userStruct.ball, stop |-> userStruct.stop]
    /\ pc' \in {"simulate", "catch"}
    /\ UNCHANGED <<session, mode, run_idx, userStruct, full_userStruct, SimIn, SimPar, simout,
                   modelVars, outVars>>

Simulate ==
    /\ pc = "simulate"
    /\ \/ /\ simout' \in compute_miss_distance
          /\ flown' = [flown EXCEPT ![run_idx] =
                         [ref |-> SimPar.ref, ball |-> SimPar.ball, ic |-> SimPar.ic,
                          ekf |-> simIn.ekf, stop |-> simIn.stop, dist |-> simout']]
          /\ pc' = "record"
       \/ pc' = "catch" /\ UNCHANGED <<simout, flown>>
    /\ UNCHANGED <<session, mode, run_idx, userStruct, full_userStruct, SimIn, SimPar,
                   bball_pwcurve, simIn, modelVars, results, summary>>

RecordRun ==
    /\ pc = "record"
    /\ results' = [results EXCEPT !.min_dist[run_idx] = simout,
                                  !.avoided[run_idx] = simout > R_safe]
    /\ pc' = "next"
    /\ UNCHANGED <<session, mode, run_idx, userStruct, full_userStruct, SimIn, SimPar, runVars,
                   modelVars, flown, summary>>

\* Mutation of Catch: the run is not marked.
CatchUnmarked ==
    /\ pc = "catch"
    /\ pc' = "next"
    /\ UNCHANGED <<session, mode, run_idx, userStruct, full_userStruct, SimIn, SimPar, runVars,
                   modelVars, outVars>>

Catch ==
    /\ pc = "catch"
    /\ results' = [results EXCEPT !.errored[run_idx] = TRUE]
    /\ pc' = "next"
    /\ UNCHANGED <<session, mode, run_idx, userStruct, full_userStruct, SimIn, SimPar, runVars,
                   modelVars, flown, summary>>

Summarise ==
    /\ pc = "next" /\ run_idx = N_runs
    /\ LET n_valid == Cardinality(valid)
           n_avoided == Cardinality({r \in valid : results.avoided[r]})
       IN  summary' = [n_avoided |-> n_avoided, n_collision |-> n_valid - n_avoided,
                       n_errors |-> N_runs - n_valid, cases |-> case_indices]
    /\ pc' = "done"
    /\ UNCHANGED <<session, mode, run_idx, userStruct, full_userStruct, SimIn, SimPar, runVars,
                   modelVars, results, flown>>

Next ==
    \/ StartScript \/ EndScript \/ DemoSetup \/ DemoSim \/ BuildOnce \/ WarmedUp \/ NextRun
    \/ LoadPair \/ SetupRun \/ SeedEkf \/ Simulate \/ RecordRun \/ Catch \/ Summarise

Spec == Init /\ [][Next]_vars

-----------------------------------------------------------------------------
(* Correctness                                                              *)

\* Type correctness of the workspace of the script.
TypeOK ==
    /\ pc \in {"idle", "demo", "demoSim", "build", "warmup", "next", "load", "setup", "seed",
               "simulate", "record", "catch", "done"}
    /\ session \in 0 .. MaxSessions /\ mode \in {"batch", "demo"} /\ run_idx \in 0 .. N_runs
    /\ {userStruct, full_userStruct} \subseteq [own : Pairs, ball : Pairs, stop : Pairs, trim : Pairs]
    /\ {SimIn, SimPar} \subseteq [ref : Pairs, ball : Pairs, ic : Pairs, stop : Pairs]
    /\ bball_pwcurve \in Pairs /\ simIn \in [ekf : Pairs, stop : Pairs]
    /\ simout \in Distances \cup {Inf, NaN}
    /\ {modelStop, warmup_stop} \subseteq {FileStop, WarmupStop}
    /\ results \in [min_dist : [Runs -> Distances \cup {Inf, NaN}],
                    avoided : [Runs -> BOOLEAN], errored : [Runs -> BOOLEAN]]
    /\ summary.cases \in {<<>>} \cup (Runs \X Runs \X Runs)

\* However the runs before it failed, each run of a batch follows the path,
\* avoids the ball, seeds the EKF and stops as its own pair says (lines 199-229).
OwnTrajectories ==
    \A r \in Runs : flown[r] # NoFlight =>
        LET pair == traj_indices[r] IN
        flown[r].ref = pair /\ flown[r].ball = pair /\ flown[r].ekf = pair /\ flown[r].stop = pair

\* A demonstration starts on its own path, also in the workspace of a batch
\* (line 29).
DemoStartsOnPath ==
    flown[0] # NoFlight => flown[0].ic = DemoPair /\ flown[0].ref = DemoPair

\* The summary counts each run once: as avoided or not by the distance it flew,
\* as an error when it did not fly to the end (lines 237-256, 271-275).
CountsAddUp ==
    pc = "done" =>
        LET ended == {r \in Runs : flown[r] # NoFlight} IN
        /\ summary.n_avoided = Cardinality({r \in ended : flown[r].dist > R_safe})
        /\ summary.n_collision = Cardinality({r \in ended : flown[r].dist <= R_safe})
        /\ summary.n_errors = N_runs - Cardinality(ended)

\* The cases of figure 4 are runs that were flown: the one with the largest
\* distance, the one avoided by the least if any was, the one with the smallest
\* distance (lines 404-430).
CasesChosen ==
    summary.cases # <<>> =>
        LET ended == {r \in Runs : flown[r] # NoFlight}
            dodged == {r \in ended : flown[r].dist > R_safe}
            Least(r, S) == r \in S /\ \A q \in S : flown[r].dist <= flown[q].dist
        IN  /\ summary.cases[1] \in ended
            /\ \A q \in ended : flown[q].dist <= flown[summary.cases[1]].dist
            /\ dodged # {} => Least(summary.cases[2], dodged)
            /\ Least(summary.cases[3], ended)

\* "Only trajectory-dependent steps (ref inputs, baseball inputs, ICs, params)
\* need to re-run per iteration" (lines 152-153): the initial conditions of a
\* run are those of its own trajectory.
OwnInitialConditions ==
    \A r \in Runs : flown[r] # NoFlight => flown[r].ic = traj_indices[r]
==============================================================================
