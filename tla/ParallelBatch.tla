----------------------------- MODULE ParallelBatch -----------------------------
(***************************************************************************)
(* A batch of simulations: example_batch_runme writes a parameter file per *)
(* run, has aRunParallel.sh run the executable on every *.bin of the data  *)
(* directory, at most N at a time, and loads the outputs.  The directory   *)
(* outlives the sessions; executables may outlive an interrupted script.   *)
(*                                                                         *)
(* A parameter file is the number of the session that wrote it, an output  *)
(* the input and the parameters it was computed from.                      *)
(***************************************************************************)
EXTENDS Integers, FiniteSets

CONSTANTS
    N,              \* concurrent executables, the second argument of the script
    NRuns,          \* N_runs
    Others,         \* *.bin files that other batches may have left
    MaxSessions,    \* bound: runs of example_batch_runme
    MaxInterrupted, \* bound: the last of them that may be interrupted
    MaxFailures     \* bound: executables with their input that fail in a session

\* An input is its name without the digits, and the digits: n stands for those of
\* run n.  Where no file matches the script runs its pattern, which has no digits.
pFile(n) == <<"pFile", n>>
Glob == <<"*", -1>>
Inputs == {pFile(n) : n \in 1 .. NRuns} \cup Others \cup {Glob}
NUM(f) == f[2]
Numbers == {NUM(f) : f \in Inputs}

ASSUME CountsAssumption ==
    {N, NRuns} \subseteq Nat \ {0} /\ {MaxSessions, MaxInterrupted, MaxFailures} \subseteq Nat
ASSUME OthersAssumption == Others \subseteq STRING \X Nat /\ IsFiniteSet(Others)

VARIABLES
    phase,          \* position of example_batch_runme and of the script
    session,
    next,           \* n of the loops that write and load
    bin,            \* parameter files
    mat,            \* bam_out<number>.mat
    todo,           \* inputs the loop of the script has not come to
    procs,          \* subshells with their executables
    said,           \* the script has said "all done"
    sim_data,
    shared,         \* history: numbers this session shares with other inputs or
                    \* with executables of earlier sessions
    excused         \* history: numbers without a result of this session

vars == <<phase, session, next, bin, mat, todo, procs, said, sim_data, shared, excused>>

Absent == -1
Empty == 0
NoMat == [state |-> "absent", input |-> <<"none", 0>>, params |-> Empty]
Mixed == [NoMat EXCEPT !.state = "mixed"]
Output(state, p) == [state |-> state, input |-> p.input, params |-> p.params]

Script == {"loop", "count", "wait"}
Ends == {"idle", "done", "error", "interrupted"}
Phases == {"write", "load"} \cup Script \cup Ends

\* jobs -r of the script
Jobs == {p.input : p \in {q \in procs : q.born = session}}

\* Two inputs with the digits of a run write the same output.
Twins == {NUM(f) : f \in {g \in Inputs : g # pFile(NUM(g)) /\ bin[g] # Absent}}

Init ==
    /\ phase = "idle" /\ session = 0 /\ next = 0
    /\ bin \in [Inputs -> {Absent, Empty}]
    /\ \A f \in Inputs \ Others : bin[f] = Absent
    /\ mat = [n \in Numbers |-> NoMat]
    /\ todo = {} /\ procs = {} /\ said = FALSE
    /\ sim_data = [n \in 1 .. NRuns |-> NoMat]
    /\ shared = {} /\ excused = {}

-----------------------------------------------------------------------------
(* example_batch_runme                                                      *)

\* Only warns of old files, and knows nothing of old executables.
StartSession ==
    /\ phase \in Ends /\ session < MaxSessions
    /\ phase' = "write" /\ session' = session + 1 /\ next' = 1
    /\ said' = FALSE
    /\ sim_data' = [n \in 1 .. NRuns |-> NoMat]
    /\ shared' = Twins \cup {NUM(p.input) : p \in procs}
    /\ excused' = {}
    /\ UNCHANGED <<bin, mat, todo, procs>>

\* Mutation of writePfile: one file too many.
writeOneMore ==
    /\ phase = "write" /\ next <= NRuns + 1
    /\ bin' = [bin EXCEPT ![pFile(next)] = session]
    /\ next' = next + 1
    /\ UNCHANGED <<phase, session, mat, todo, procs, said, sim_data, shared, excused>>

\* A file that cannot be opened keeps its old parameters and is run with them.
\* An error ends the session: before fopen the file is untouched, after it, as
\* for parameters found invalid, it is empty.
writePfile ==
    /\ phase = "write" /\ next <= NRuns
    /\ \/ /\ bin' = [bin EXCEPT ![pFile(next)] = session]
          /\ next' = next + 1
          /\ UNCHANGED <<phase, excused>>
       \/ /\ next' = next + 1
          /\ excused' = excused \cup {next}
          /\ UNCHANGED <<phase, bin>>
       \/ /\ bin' \in {bin, [bin EXCEPT ![pFile(next)] = Empty]}
          /\ phase' = "error"
          /\ UNCHANGED <<next, excused>>
    /\ UNCHANGED <<session, mat, todo, procs, said, sim_data, shared>>

\* system(command_str), whose errors are not sent to matlab
system ==
    /\ phase = "write" /\ next > NRuns
    /\ \/ /\ phase' = "loop"
          /\ LET found == {f \in Inputs : bin[f] # Absent}
             IN  todo' = IF found = {} THEN {Glob} ELSE found
          /\ UNCHANGED <<next, excused>>
       \/ /\ phase' = "load" /\ next' = 1
          /\ excused' = Numbers
          /\ UNCHANGED todo
    /\ UNCHANGED <<session, bin, mat, procs, said, sim_data, shared>>

\* Mixed outputs may load or not.
convertArrayToStruct ==
    /\ phase = "load" /\ next <= NRuns
    /\ \/ /\ mat[next].state \in {"whole", "mixed"}
          /\ sim_data' = [sim_data EXCEPT ![next] = mat[next]]
          /\ next' = next + 1
          /\ UNCHANGED phase
       \/ /\ mat[next].state # "whole"
          /\ phase' = "error"
          /\ UNCHANGED <<next, sim_data>>
    /\ UNCHANGED <<session, bin, mat, todo, procs, said, shared, excused>>

Plot ==
    /\ phase = "load" /\ next > NRuns
    /\ phase' = "done"
    /\ UNCHANGED <<session, next, bin, mat, todo, procs, said, sim_data, shared, excused>>

-----------------------------------------------------------------------------
(* aRunParallel.sh                                                          *)

Subshell(f) == [input |-> f, born |-> session, pc |-> "forked", params |-> Empty]

\* Mutation of Fork: the loop comes to the same input again.
ForkAgain ==
    /\ phase = "loop" /\ phase' = "count"
    /\ \E f \in todo :
           procs' = procs \cup {Subshell(f)}
    /\ UNCHANGED <<session, next, bin, mat, todo, said, sim_data, shared, excused>>

Fork ==
    /\ phase = "loop" /\ phase' = "count"
    /\ \E f \in todo :
           /\ todo' = todo \ {f}
           /\ procs' = procs \cup {Subshell(f)}
    /\ UNCHANGED <<session, next, bin, mat, said, sim_data, shared, excused>>

\* Mutation of Count: -gt for -ge.
CountMore ==
    /\ phase = "count"
    /\ phase' = IF Cardinality(Jobs) > N THEN "wait" ELSE "loop"
    /\ UNCHANGED <<session, next, bin, mat, todo, procs, said, sim_data, shared, excused>>

Count ==
    /\ phase = "count"
    /\ phase' = IF Cardinality(Jobs) >= N THEN "wait" ELSE "loop"
    /\ UNCHANGED <<session, next, bin, mat, todo, procs, said, sim_data, shared, excused>>

\* wait waits for all jobs, not for the next.
Wait ==
    /\ phase = "wait" /\ Jobs = {}
    /\ phase' = "loop"
    /\ UNCHANGED <<session, next, bin, mat, todo, procs, said, sim_data, shared, excused>>

\* Mutation of AllDone: the last wait is forgotten.
AllForked ==
    /\ phase = "loop" /\ todo = {}
    /\ said' = TRUE /\ phase' = "load" /\ next' = 1
    /\ UNCHANGED <<session, bin, mat, todo, procs, sim_data, shared, excused>>

AllDone ==
    /\ phase = "loop" /\ todo = {} /\ Jobs = {}
    /\ said' = TRUE /\ phase' = "load" /\ next' = 1
    /\ UNCHANGED <<session, bin, mat, todo, procs, sim_data, shared, excused>>

\* Ctrl-C: jobs in the background of a script ignore it, unless they are killed
\* with the terminal.  Where it reaches MATLAB only, the script goes on and forks
\* what is left to do; when it does so no longer matters, as nobody waits.
Interrupt ==
    /\ phase \notin Ends /\ session <= MaxInterrupted
    /\ phase' = "interrupted"
    /\ todo' = {}
    /\ procs' \in {procs, {p \in procs : p.born # session},
                   procs \cup {Subshell(f) : f \in todo}}
    /\ UNCHANGED <<session, next, bin, mat, said, sim_data, shared, excused>>

-----------------------------------------------------------------------------
(* An executable                                                            *)

Becomes(p, pc, params) == procs' = (procs \ {p}) \cup {[p EXCEPT !.pc = pc, !.params = params]}

\* Parameters come from stdin when the model is initialised.
rt_InitModel(p) ==
    /\ p.pc = "forked" /\ bin[p.input] # Absent
    /\ Becomes(p, "simulating", bin[p.input])
    /\ UNCHANGED <<mat, excused>>

\* The output is created when the simulation is over.
rt_StopDataLogging(p) ==
    LET d == NUM(p.input)
        collides == \E q \in procs \ {p} : q.pc = "saving" /\ NUM(q.input) = d
    IN  \/ /\ p.pc = "simulating"
           /\ Becomes(p, "saving", p.params)
           /\ mat' = [mat EXCEPT ![d] = IF collides THEN Mixed ELSE Output("torn", p)]
           /\ UNCHANGED excused
        \/ /\ p.pc = "saving"
           /\ procs' = procs \ {p}
           /\ mat' = [mat EXCEPT ![d] = IF @ = Output("torn", p) THEN Output("whole", p) ELSE @]
           /\ UNCHANGED excused

\* It may fail at any time, and must without its input; nobody looks at its exit
\* status.
Fail(p) ==
    /\ bin[p.input] = Absent \/ Cardinality(excused) < MaxFailures
    /\ procs' = procs \ {p}
    /\ excused' = excused \cup {NUM(p.input)}
    /\ UNCHANGED mat

BAM_app ==
    /\ \E p \in procs : rt_InitModel(p) \/ rt_StopDataLogging(p) \/ Fail(p)
    /\ UNCHANGED <<phase, session, next, bin, todo, said, sim_data, shared>>

-----------------------------------------------------------------------------

Matlab == StartSession \/ writePfile \/ system \/ convertArrayToStruct \/ Plot
aRunParallel == Fork \/ Count \/ Wait \/ AllDone

Next == Matlab \/ aRunParallel \/ Interrupt \/ BAM_app

\* Simulations end (their stop time is set) or fail; the scripts go on while
\* they are not waiting.
Fairness == WF_vars(writePfile \/ system \/ convertArrayToStruct \/ Plot)
            /\ WF_vars(aRunParallel) /\ WF_vars(BAM_app)

Safety == Init /\ [][Next]_vars
Spec == Safety /\ Fairness

-----------------------------------------------------------------------------
(* Correctness                                                              *)

Params == {Absent, Empty} \cup 1 .. MaxSessions
Mats == [state : {"torn", "whole"}, input : Inputs, params : Params] \cup {NoMat, Mixed}

\* Type correctness of the scripts, the directory and the processes.
TypeOK ==
    /\ phase \in Phases /\ session \in 0 .. MaxSessions /\ next \in 0 .. NRuns + 1
    /\ bin \in [Inputs -> Params] /\ mat \in [Numbers -> Mats]
    /\ todo \subseteq Inputs /\ said \in BOOLEAN
    /\ procs \subseteq [input : Inputs, born : 1 .. MaxSessions,
                        pc : {"forked", "simulating", "saving"}, params : Params]
    /\ sim_data \in [1 .. NRuns -> Mats]
    /\ shared \subseteq Numbers /\ excused \subseteq Numbers

\* Batches in a directory full of old files and old executables.  Where nothing
\* else shares the number of a run, what is plotted as the run was computed from
\* its own parameters: those of this session, if its file was written and its
\* executable did not fail.  Otherwise a whole output of an earlier session may
\* be in its place, but then too it is the run's own.
OwnResults ==
    phase = "done" =>
        \A n \in (1 .. NRuns) \ shared :
            /\ sim_data[n].state = "whole" => sim_data[n].input = pFile(n)
            /\ n \notin excused =>
                   sim_data[n] = [state |-> "whole", input |-> pFile(n), params |-> session]

\* A session that is not interrupted comes to an end.
SessionEnds == phase \notin Ends ~> phase \in Ends

Pool == INSTANCE WorkerPool WITH
    state <- IF phase \in Script THEN "busy" ELSE IF said THEN "all done" ELSE "idle",
    running <- IF phase \in Script THEN Jobs ELSE {}

\* The script runs each input once, at most N at a time, and says "all done"
\* when they are.
ImplementsPool == Pool!Spec
==============================================================================
