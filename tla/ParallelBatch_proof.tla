-------------------------- MODULE ParallelBatch_proof --------------------------
(***************************************************************************)
(* Proofs about the parallel batch for any number of runs, of concurrent   *)
(* executables, of sessions and any files in the data directory: what is   *)
(* plotted belongs to its run, and the script implements the worker pool.  *)
(***************************************************************************)
EXTENDS ParallelBatch, FiniteSetTheorems, TLAPS

\* The output a run should have.
Result(n) == [state |-> "whole", input |-> pFile(n), params |-> session]

\* One executable per input and session, none from the future.
OneEach ==
    /\ phase # "idle" => session >= 1
    /\ phase \in {"write", "load"} => next >= 1
    /\ \A p \in procs : p.born <= session
    /\ \A p, q \in procs : p.input = q.input /\ p.born = q.born => p = q

\* Executables that live while parameters are written are old and counted.
OnlyOldOnes ==
    phase = "write" => \A p \in procs : p.born # session /\ NUM(p.input) \in shared

\* The script is what the pool says.
Pooled ==
    /\ phase \notin Script => todo = {}
    /\ phase \in Script \cup {"write"} => said = FALSE
    /\ \A f \in todo : f \notin Jobs
    /\ phase = "loop" => Cardinality(Jobs) < N
    /\ phase = "count" => Cardinality(Jobs) <= N

\* No other input is run under the number of a run.
OwnInput(n) ==
    /\ \A g \in Inputs : NUM(g) = n /\ g # pFile(n) => bin[g] = Absent
    /\ phase # "write" \/ n < next => bin[pFile(n)] = session
    /\ \A f \in todo : NUM(f) = n => f = pFile(n)

\* No other executable writes the output of a run, which is there in the end.
OwnOutput(n) ==
    /\ \A p \in procs : NUM(p.input) = n =>
           /\ p.input = pFile(n) /\ p.born = session
           /\ p.pc # "forked" => p.params = session
           /\ p.pc = "saving" => mat[n] = Output("torn", p)
    /\ pFile(n) \in todo \/ pFile(n) \in Jobs \/ mat[n] = Result(n)

\* Once the loop of the script is over nothing of a run is under way.
OwnData(n) ==
    /\ \A p \in procs : NUM(p.input) # n
    /\ n < next => sim_data[n] = Result(n)

Runs == 1 .. NRuns

Owned ==
    \A n \in Runs \ (shared \cup excused) :
        /\ phase \in {"write", "load"} \cup Script => OwnInput(n)
        /\ phase \in {"load"} \cup Script => OwnOutput(n)
        /\ phase = "load" => OwnData(n)
        /\ phase = "done" => sim_data[n] = Result(n)

\* Inputs never vanish: what an executable or an output came from is there.
Origins ==
    /\ \A p \in procs : p.pc # "forked" => bin[p.input] # Absent
    /\ \A n \in Numbers : mat[n].state \in {"torn", "whole"} =>
           NUM(mat[n].input) = n /\ bin[mat[n].input] # Absent

\* Only its own input has the number of a run that is not shared.
OwnNumber ==
    phase # "idle" =>
        \A n \in Runs \ shared :
            /\ \A g \in Inputs : NUM(g) = n /\ g # pFile(n) => bin[g] = Absent
            /\ sim_data[n].state = "whole" => sim_data[n].input = pFile(n)

IInv == TypeOK /\ OneEach /\ OnlyOldOnes /\ Pooled /\ Origins /\ OwnNumber /\ Owned

-----------------------------------------------------------------------------
(* Names, numbers and jobs                                                  *)

\* The parameter files of the runs are inputs, numbered by their run.
LEMMA RunFiles ==
    /\ \A n \in Runs : pFile(n) \in Inputs /\ NUM(pFile(n)) = n /\ n \in Numbers
    /\ \A f \in Inputs : NUM(f) \in Numbers
    /\ \A m, n \in Runs : pFile(m) = pFile(n) => m = n
    /\ Glob \in Inputs /\ NUM(Glob) \notin Runs
<1>1. \A n \in Runs : pFile(n) \in Inputs /\ NUM(pFile(n)) = n
  BY DEF Runs, pFile, NUM, Inputs
<1>2. Glob \in Inputs /\ NUM(Glob) = -1
  BY DEF Glob, Inputs, NUM
<1>3. -1 \notin Runs
  BY CountsAssumption DEF Runs
<1> QED BY <1>1, <1>2, <1>3 DEF Numbers

\* There are finitely many inputs.
LEMMA FiniteInputs == IsFiniteSet(Inputs)
<1> DEFINE files == {pFile(n) : n \in Runs}
           file == [n \in Runs |-> pFile(n)]
<1>1. IsFiniteSet(Runs)
  BY FS_Interval, CountsAssumption DEF Runs
<1>2. file \in Surjection(Runs, files)
  BY DEF Surjection
<1>3. IsFiniteSet(files)
  BY <1>1, <1>2, FS_Surjection
<1>4. IsFiniteSet(files \cup Others) /\ IsFiniteSet({Glob})
  BY <1>3, OthersAssumption, FS_Union, FS_Singleton
<1>5. IsFiniteSet((files \cup Others) \cup {Glob})
  BY <1>4, FS_Union
<1> QED BY <1>5 DEF Inputs, Runs

\* So there are of the jobs.
LEMMA FiniteJobs ==
    ASSUME TypeOK
    PROVE  Jobs \subseteq Inputs /\ IsFiniteSet(Jobs) /\ Cardinality(Jobs) \in Nat
<1>1. Jobs \subseteq Inputs
  BY DEF Jobs, TypeOK
<1> QED BY <1>1, FiniteInputs, FS_Subset, FS_CardinalityType

\* An element added to a finite set counts for one at most.
LEMMA OneMore ==
    ASSUME NEW S, NEW x, IsFiniteSet(S)
    PROVE  /\ Cardinality(S \cup {x}) \in Nat
           /\ Cardinality(S \cup {x}) <= Cardinality(S) + 1
<1>1. Cardinality(S) \in Nat /\ IsFiniteSet(S \cup {x})
  BY FS_AddElement, FS_CardinalityType
<1>2. Cardinality(S \cup {x}) \in Nat
  BY <1>1, FS_CardinalityType
<1>3. Cardinality(S \cup {x}) = IF x \in S THEN Cardinality(S) ELSE Cardinality(S) + 1
  BY FS_AddElement
<1> QED BY <1>1, <1>2, <1>3

\* A step of an executable is no business of the script.
LEMMA BecomesKeepsJobs ==
    ASSUME NEW p \in procs, NEW pc, NEW params, TypeOK, Becomes(p, pc, params),
           session' = session
    PROVE  Jobs' = Jobs
<1> DEFINE r == [p EXCEPT !.pc = pc, !.params = params]
<1>1. r.input = p.input /\ r.born = p.born
  BY DEF TypeOK
<1> HIDE DEF r
<1>2. procs' = (procs \ {p}) \cup {r}
  BY DEF Becomes, r
<1> QED BY <1>1, <1>2 DEF Jobs

\* The end of one of its executables is the end of a job.
LEMMA EndRemovesJob ==
    ASSUME NEW p \in procs, OneEach, procs' = procs \ {p}, session' = session
    PROVE  Jobs' = IF p.born = session THEN Jobs \ {p.input} ELSE Jobs
BY DEF Jobs, OneEach

\* A fork is a new job.
LEMMA ForkAddsJob ==
    ASSUME NEW f, session' = session,
           procs' = procs \cup {Subshell(f)}
    PROVE  Jobs' = Jobs \cup {f}
<1> DEFINE r == Subshell(f)
<1>1. r.input = f /\ r.born = session
  BY DEF Subshell
<1> HIDE DEF r
<1>2. procs' = procs \cup {r}
  BY DEF r
<1> QED BY <1>1, <1>2 DEF Jobs

-----------------------------------------------------------------------------
(* Every step keeps the invariant                                           *)

\* The steps of an executable, one by one.
LEMMA ExecutableSteps ==
    ASSUME NEW p \in procs, rt_InitModel(p) \/ rt_StopDataLogging(p) \/ Fail(p)
    PROVE  \/ /\ p.pc = "forked" /\ bin[p.input] # Absent
              /\ Becomes(p, "simulating", bin[p.input])
              /\ mat' = mat /\ excused' = excused
           \/ /\ p.pc = "simulating" /\ Becomes(p, "saving", p.params)
              /\ \/ /\ \A q \in procs \ {p} : q.pc = "saving" => NUM(q.input) # NUM(p.input)
                    /\ mat' = [mat EXCEPT ![NUM(p.input)] = Output("torn", p)]
                 \/ /\ \E q \in procs \ {p} : q.pc = "saving" /\ NUM(q.input) = NUM(p.input)
                    /\ mat' = [mat EXCEPT ![NUM(p.input)] = Mixed]
              /\ excused' = excused
           \/ /\ p.pc = "saving" /\ procs' = procs \ {p}
              /\ \/ /\ mat[NUM(p.input)] = Output("torn", p)
                    /\ mat' = [mat EXCEPT ![NUM(p.input)] = Output("whole", p)]
                 \/ /\ mat[NUM(p.input)] # Output("torn", p)
                    /\ mat' = [mat EXCEPT ![NUM(p.input)] = mat[NUM(p.input)]]
              /\ excused' = excused
           \/ /\ procs' = procs \ {p} /\ mat' = mat
              /\ excused' = excused \cup {NUM(p.input)}
BY DEF rt_InitModel, rt_StopDataLogging, Fail

\* What an executable may become is again one.
LEMMA BecomesTyped ==
    ASSUME TypeOK, NEW p \in procs, NEW pc \in {"simulating", "saving"}, NEW params \in Params,
           Becomes(p, pc, params)
    PROVE  procs' \subseteq [input : Inputs, born : 1 .. MaxSessions,
                             pc : {"forked", "simulating", "saving"}, params : Params]
<1>1. [p EXCEPT !.pc = pc, !.params = params]
          \in [input : Inputs, born : 1 .. MaxSessions,
               pc : {"forked", "simulating", "saving"}, params : Params]
  BY DEF TypeOK
<1> QED BY <1>1 DEF TypeOK, Becomes

\* Type correctness is kept.
LEMMA TypeStep ==
    ASSUME TypeOK, OneEach, [Next]_vars
    PROVE  TypeOK'
<1> USE CountsAssumption
<1>1. CASE Matlab
  <2>1. CASE StartSession
    <3>1. shared' \subseteq Numbers /\ excused' \subseteq Numbers
      BY <2>1, RunFiles DEF StartSession, TypeOK, Twins
    <3>2. sim_data' \in [1 .. NRuns -> Mats]
      BY <2>1 DEF StartSession, Mats
    <3>3. session' \in 0 .. MaxSessions
      BY <2>1 DEF StartSession, TypeOK
    <3>4. next' \in 0 .. NRuns + 1
      BY <2>1 DEF StartSession
    <3>5. phase' \in Phases /\ said' \in BOOLEAN
      BY <2>1 DEF StartSession, Phases
    <3>6. UNCHANGED <<bin, mat, todo, procs>>
      BY <2>1 DEF StartSession
    <3> QED BY <3>1, <3>2, <3>3, <3>4, <3>5, <3>6 DEF TypeOK
  <2>2. CASE writePfile
    <3>1. next \in Runs
      BY <2>2 DEF writePfile, TypeOK, OneEach, Runs
    <3>2. bin' \in [Inputs -> Params] /\ next' \in 0 .. NRuns + 1
      BY <2>2, <3>1, RunFiles DEF writePfile, TypeOK, OneEach, Params, Runs
    <3>3. excused' \subseteq Numbers /\ phase' \in Phases
      BY <2>2, <3>1, RunFiles DEF writePfile, TypeOK, Phases, Ends
    <3> QED BY <2>2, <3>2, <3>3 DEF writePfile, TypeOK
  <2>3. CASE system
    BY <2>3, RunFiles DEF system, TypeOK, Phases, Script
  <2>4. CASE convertArrayToStruct
    <3>1. next \in Runs
      BY <2>4 DEF convertArrayToStruct, TypeOK, OneEach, Runs
    <3> QED BY <2>4, <3>1, RunFiles
            DEF convertArrayToStruct, TypeOK, Phases, Ends, Runs
  <2>5. CASE Plot
    BY <2>5 DEF Plot, TypeOK, Phases, Ends
  <2> QED BY <1>1, <2>1, <2>2, <2>3, <2>4, <2>5 DEF Matlab
<1>2. CASE aRunParallel
  <2>1. CASE Fork
    <3>1. PICK f \in todo :
              procs' = procs \cup {Subshell(f)}
      BY <2>1 DEF Fork
    <3>2. session \in 1 .. MaxSessions /\ f \in Inputs
      BY <2>1 DEF Fork, TypeOK, OneEach
    <3>3. procs' \subseteq [input : Inputs, born : 1 .. MaxSessions,
                            pc : {"forked", "simulating", "saving"}, params : Params]
      BY <3>1, <3>2 DEF TypeOK, Params, Subshell
    <3> QED BY <2>1, <3>3 DEF Fork, TypeOK, Phases, Script
  <2>2. CASE Count
    BY <2>2 DEF Count, TypeOK, Phases, Script
  <2>3. CASE Wait
    BY <2>3 DEF Wait, TypeOK, Phases, Script
  <2>4. CASE AllDone
    BY <2>4 DEF AllDone, TypeOK, Phases, Script
  <2> QED BY <1>2, <2>1, <2>2, <2>3, <2>4 DEF aRunParallel
<1>3. CASE Interrupt
  <2>1. session \in 1 .. MaxSessions
    BY <1>3 DEF Interrupt, TypeOK, OneEach, Ends
  <2>2. {Subshell(f) : f \in todo}
            \subseteq [input : Inputs, born : 1 .. MaxSessions,
                       pc : {"forked", "simulating", "saving"}, params : Params]
    BY <2>1 DEF TypeOK, Params, Subshell
  <2>3. procs' \subseteq [input : Inputs, born : 1 .. MaxSessions,
                          pc : {"forked", "simulating", "saving"}, params : Params]
    BY <1>3, <2>2 DEF Interrupt, TypeOK
  <2> QED BY <1>3, <2>3 DEF Interrupt, TypeOK, Phases, Ends
<1>4. CASE BAM_app
  <2>1. PICK p \in procs : rt_InitModel(p) \/ rt_StopDataLogging(p) \/ Fail(p)
    BY <1>4 DEF BAM_app
  <2>2. p.input \in Inputs /\ NUM(p.input) \in Numbers /\ p.params \in Params
        /\ bin[p.input] \in Params
    BY RunFiles DEF TypeOK
  <2>3. procs' \subseteq [input : Inputs, born : 1 .. MaxSessions,
                          pc : {"forked", "simulating", "saving"}, params : Params]
    BY <2>1, <2>2, ExecutableSteps, BecomesTyped DEF TypeOK
  <2>4. /\ Output("torn", p) \in Mats /\ Output("whole", p) \in Mats
        /\ Mixed \in Mats /\ mat[NUM(p.input)] \in Mats
    BY <2>2 DEF Output, Mats, TypeOK
  <2>5. mat' \in [Numbers -> Mats] /\ excused' \subseteq Numbers
    BY <2>1, <2>2, <2>4, ExecutableSteps DEF TypeOK
  <2> QED BY <1>4, <2>3, <2>5 DEF BAM_app, TypeOK
<1>5. CASE UNCHANGED vars
  BY <1>5 DEF vars, TypeOK
<1> QED BY <1>1, <1>2, <1>3, <1>4, <1>5 DEF Next

\* One executable per input and session is kept.
LEMMA OneEachStep ==
    ASSUME TypeOK, OneEach, Pooled, [Next]_vars
    PROVE  OneEach'
<1> USE CountsAssumption
<1>1. CASE Matlab
  <2>1. CASE StartSession
    <3>1. session \in Nat /\ \A p \in procs : p.born \in Int
      BY DEF TypeOK
    <3> QED BY <2>1, <3>1 DEF StartSession, OneEach
  <2>2. CASE writePfile \/ system \/ convertArrayToStruct \/ Plot
    BY <2>2 DEF writePfile, system, convertArrayToStruct, Plot, OneEach, TypeOK, Ends
  <2> QED BY <1>1, <2>1, <2>2 DEF Matlab
<1>2. CASE aRunParallel
  <2>1. CASE Fork
    <3>1. PICK f \in todo :
              procs' = procs \cup {Subshell(f)}
      BY <2>1 DEF Fork
    <3> DEFINE r == Subshell(f)
    <3>2. r.input = f /\ r.born = session
      BY DEF Subshell
    <3>3. \A p \in procs : p.input = f => p.born # session
      BY DEF Pooled, Jobs
    <3>4. procs' = procs \cup {r}
      BY <3>1
    <3>5. session' = session /\ phase = "loop" /\ phase' = "count" /\ session \in Int
      BY <2>1 DEF Fork, TypeOK
    <3> HIDE DEF r
    <3> QED BY <3>2, <3>3, <3>4, <3>5 DEF OneEach
  <2>2. CASE Count \/ Wait \/ AllDone
    BY <2>2 DEF Count, Wait, AllDone, OneEach
  <2> QED BY <1>2, <2>1, <2>2 DEF aRunParallel
<1>3. CASE Interrupt
  <2>1. UNCHANGED session /\ phase' = "interrupted" /\ session >= 1 /\ session \in Int
    BY <1>3 DEF Interrupt, OneEach, Ends, TypeOK
  <2>2. CASE procs' \subseteq procs
    BY <2>1, <2>2 DEF OneEach
  <2>3. CASE procs' = procs \cup {Subshell(f) : f \in todo}
    <3>1. \A f \in todo : Subshell(f).input = f /\ Subshell(f).born = session
      BY DEF Subshell
    <3>2. \A f \in todo : \A p \in procs : p.input = f => p.born # session
      BY DEF Pooled, Jobs
    <3>3. \A p \in procs' : p \in procs \/ \E f \in todo : p = Subshell(f)
      BY <2>3
    <3> QED BY <2>1, <3>1, <3>2, <3>3 DEF OneEach
  <2> QED BY <1>3, <2>2, <2>3 DEF Interrupt
<1>4. CASE BAM_app
  <2>1. PICK p \in procs : rt_InitModel(p) \/ rt_StopDataLogging(p) \/ Fail(p)
    BY <1>4 DEF BAM_app
  <2>2. UNCHANGED <<phase, session, next>>
    BY <1>4 DEF BAM_app
  <2>3. CASE procs' = procs \ {p}
    BY <2>2, <2>3 DEF OneEach
  <2>4. CASE \E pc, params : Becomes(p, pc, params)
    <3>1. PICK pc, params : Becomes(p, pc, params)
      BY <2>4
    <3> DEFINE r == [p EXCEPT !.pc = pc, !.params = params]
    <3>2. r.input = p.input /\ r.born = p.born
      BY DEF TypeOK
    <3>3. procs' = (procs \ {p}) \cup {r}
      BY <3>1 DEF Becomes
    <3> HIDE DEF r
    <3> QED BY <2>2, <3>2, <3>3 DEF OneEach
  <2> QED BY <2>1, <2>3, <2>4, ExecutableSteps
<1>5. CASE UNCHANGED vars
  BY <1>5 DEF vars, OneEach
<1> QED BY <1>1, <1>2, <1>3, <1>4, <1>5 DEF Next

\* Executables of earlier sessions stay counted.
LEMMA OnlyOldOnesStep ==
    ASSUME TypeOK, OneEach, OnlyOldOnes, [Next]_vars
    PROVE  OnlyOldOnes'
<1>1. CASE Matlab
  <2>1. CASE StartSession
    <3>1. \A p \in procs : p.born # session + 1
      BY DEF TypeOK, OneEach
    <3> QED BY <2>1, <3>1 DEF StartSession, OnlyOldOnes
  <2>2. CASE writePfile \/ system \/ convertArrayToStruct \/ Plot
    BY <2>2 DEF writePfile, system, convertArrayToStruct, Plot, OnlyOldOnes
  <2> QED BY <1>1, <2>1, <2>2 DEF Matlab
<1>2. CASE aRunParallel \/ Interrupt
  BY <1>2 DEF aRunParallel, Fork, Count, Wait, AllDone, Interrupt, OnlyOldOnes
<1>3. CASE BAM_app
  <2>1. PICK p \in procs : rt_InitModel(p) \/ rt_StopDataLogging(p) \/ Fail(p)
    BY <1>3 DEF BAM_app
  <2>2. UNCHANGED <<phase, session, shared>>
    BY <1>3 DEF BAM_app
  <2>3. CASE procs' = procs \ {p}
    BY <2>2, <2>3 DEF OnlyOldOnes
  <2>4. CASE \E pc, params : Becomes(p, pc, params)
    <3>1. PICK pc, params : Becomes(p, pc, params)
      BY <2>4
    <3> DEFINE r == [p EXCEPT !.pc = pc, !.params = params]
    <3>2. r.input = p.input /\ r.born = p.born
      BY DEF TypeOK
    <3>3. procs' = (procs \ {p}) \cup {r}
      BY <3>1 DEF Becomes
    <3> HIDE DEF r
    <3> QED BY <2>2, <3>2, <3>3 DEF OnlyOldOnes
  <2> QED BY <2>1, <2>3, <2>4, ExecutableSteps
<1>4. CASE UNCHANGED vars
  BY <1>4 DEF vars, OnlyOldOnes
<1> QED BY <1>1, <1>2, <1>3, <1>4 DEF Next

\* Without a job the script may start the next.
LEMMA RoomAtFirst == Cardinality({}) < N
BY FS_EmptySet, CountsAssumption

\* The script stays within the pool.
LEMMA PooledStep ==
    ASSUME TypeOK, OneEach, OnlyOldOnes, Pooled, [Next]_vars
    PROVE  Pooled'
<1> USE CountsAssumption
<1>1. CASE StartSession
  BY <1>1 DEF StartSession, Pooled, Script, Ends
<1>2. CASE writePfile
  BY <1>2 DEF writePfile, Pooled, Script, Jobs
<1>3. CASE system
  <2>1. Jobs = {} /\ Jobs' = {}
    BY <1>3 DEF system, Jobs, OnlyOldOnes
  <2> QED BY <1>3, <2>1, RoomAtFirst DEF system, Pooled, Script
<1>4. CASE convertArrayToStruct \/ Plot
  BY <1>4 DEF convertArrayToStruct, Plot, Pooled, Script, Jobs
<1>5. CASE Fork
  <2>1. PICK f \in todo :
            /\ todo' = todo \ {f}
            /\ procs' = procs \cup {Subshell(f)}
    BY <1>5 DEF Fork
  <2>2. Jobs' = Jobs \cup {f}
    BY <1>5, <2>1, ForkAddsJob DEF Fork
  <2>3. Cardinality(Jobs \cup {f}) <= Cardinality(Jobs) + 1
    BY FiniteJobs, OneMore
  <2>4. Cardinality(Jobs') \in Nat
    BY <2>2, FiniteJobs, OneMore
  <2> QED BY <1>5, <2>1, <2>2, <2>3, <2>4, FiniteJobs DEF Fork, Pooled, Script
<1>6. CASE Count
  <2>1. Jobs' = Jobs
    BY <1>6 DEF Count, Jobs
  <2> QED BY <1>6, <2>1, FiniteJobs DEF Count, Pooled, Script
<1>7. CASE Wait
  <2>1. Jobs' = {}
    BY <1>7 DEF Wait, Jobs
  <2> QED BY <1>7, <2>1, RoomAtFirst DEF Wait, Pooled, Script
<1>8. CASE AllDone
  BY <1>8 DEF AllDone, Pooled, Script, Jobs
<1>9. CASE Interrupt
  BY <1>9 DEF Interrupt, Pooled, Script
<1>10. CASE BAM_app
  <2>1. PICK p \in procs : rt_InitModel(p) \/ rt_StopDataLogging(p) \/ Fail(p)
    BY <1>10 DEF BAM_app
  <2>2. UNCHANGED <<phase, session, todo, said>>
    BY <1>10 DEF BAM_app
  <2>3. Jobs' = Jobs \/ Jobs' = Jobs \ {p.input}
    BY <2>1, <2>2, ExecutableSteps, BecomesKeepsJobs, EndRemovesJob
  <2>4. Cardinality(Jobs') <= Cardinality(Jobs) /\ Cardinality(Jobs') \in Nat
    BY <2>3, FiniteJobs, FS_RemoveElement, FS_CardinalityType, FS_Subset
  <2> QED BY <2>2, <2>3, <2>4, FiniteJobs DEF Pooled
<1>11. CASE UNCHANGED vars
  BY <1>11 DEF vars, Pooled, Jobs
<1> QED BY <1>1, <1>2, <1>3, <1>4, <1>5, <1>6, <1>7, <1>8, <1>9, <1>10, <1>11
        DEF Next, Matlab, aRunParallel

\* An executable of a number leaves the other numbers alone.
LEMMA OthersUntouched ==
    ASSUME TypeOK, OneEach, NEW p \in procs, NEW n \in Runs, NUM(p.input) # n, OwnOutput(n),
           rt_InitModel(p) \/ rt_StopDataLogging(p) \/ Fail(p),
           UNCHANGED <<phase, session, todo>>
    PROVE  OwnOutput(n)'
<1>1. mat'[n] = mat[n]
  BY ExecutableSteps, RunFiles DEF TypeOK
<1>2. pFile(n) \in Jobs => pFile(n) \in Jobs'
  BY ExecutableSteps, BecomesKeepsJobs, EndRemovesJob, RunFiles
<1>3. \A q \in procs' : NUM(q.input) = n => q \in procs
  <2>1. CASE procs' = procs \ {p}
    BY <2>1
  <2>2. CASE \E pc, params : Becomes(p, pc, params)
    <3>1. PICK pc, params : Becomes(p, pc, params)
      BY <2>2
    <3> DEFINE r == [p EXCEPT !.pc = pc, !.params = params]
    <3>2. r.input = p.input
      BY DEF TypeOK
    <3>3. procs' = (procs \ {p}) \cup {r}
      BY <3>1 DEF Becomes
    <3> HIDE DEF r
    <3> QED BY <3>2, <3>3
  <2> QED BY <2>1, <2>2, ExecutableSteps
<1> QED BY <1>1, <1>2, <1>3 DEF OwnOutput, Result, Output

\* The executable of a run brings it to its output, or fails.
LEMMA OwnExecutable ==
    ASSUME TypeOK, OneEach, NEW p \in procs, NEW n \in Runs, NUM(p.input) = n,
           n \notin excused', OwnInput(n), OwnOutput(n), phase # "write",
           rt_InitModel(p) \/ rt_StopDataLogging(p) \/ Fail(p),
           UNCHANGED <<phase, session, todo>>
    PROVE  OwnOutput(n)'
<1>1. /\ p.input = pFile(n) /\ p.born = session
      /\ p.pc # "forked" => p.params = session
      /\ p.pc = "saving" => mat[n] = Output("torn", p)
  BY DEF OwnOutput
<1>2. \A q \in procs : NUM(q.input) = n => q = p
  BY <1>1 DEF OwnOutput, OneEach
<1>3. n \in Numbers /\ mat \in [Numbers -> Mats]
  BY RunFiles DEF TypeOK
<1>4. ASSUME NEW pc, NEW params, Becomes(p, pc, params), params = session,
             pc = "saving" => mat'[n] = Output("torn", [p EXCEPT !.pc = pc, !.params = params])
      PROVE  OwnOutput(n)'
  <2> DEFINE r == [p EXCEPT !.pc = pc, !.params = params]
  <2>1. r.input = p.input /\ r.born = p.born /\ r.pc = pc /\ r.params = params
    BY DEF TypeOK
  <2>2. procs' = (procs \ {p}) \cup {r}
    BY <1>4 DEF Becomes
  <2>3. pFile(n) \in Jobs'
    BY <1>1, <1>4, BecomesKeepsJobs DEF Jobs
  <2>4. r.pc = "saving" => mat'[n] = Output("torn", r)
    BY <1>4, <2>1
  <2> HIDE DEF r
  <2>5. \A q \in procs' : NUM(q.input) = n => q = r
    BY <1>2, <2>2
  <2> QED BY <1>1, <1>4, <2>1, <2>3, <2>4, <2>5 DEF OwnOutput, Output
<1>5. CASE p.pc = "forked" /\ Becomes(p, "simulating", bin[p.input])
  BY <1>1, <1>4, <1>5 DEF OwnInput
<1>6. CASE p.pc = "simulating" /\ Becomes(p, "saving", p.params)
           /\ mat' = [mat EXCEPT ![n] = Output("torn", p)]
  <2> DEFINE r == [p EXCEPT !.pc = "saving", !.params = p.params]
  <2>1. r.input = p.input /\ r.params = p.params
    BY DEF TypeOK
  <2>2. mat'[n] = Output("torn", r)
    BY <1>3, <1>6, <2>1 DEF Output
  <2> QED BY <1>1, <1>4, <1>6, <2>2
<1>7. CASE p.pc = "saving" /\ procs' = procs \ {p}
           /\ mat' = [mat EXCEPT ![n] = Output("whole", p)]
  <2>1. mat'[n] = Result(n)'
    BY <1>1, <1>3, <1>7 DEF Output, Result
  <2>2. \A q \in procs' : NUM(q.input) # n
    BY <1>2, <1>7
  <2> QED BY <2>1, <2>2 DEF OwnOutput
<1> QED BY <1>1, <1>2, <1>5, <1>6, <1>7, ExecutableSteps

\* No step makes an input vanish.
LEMMA InputsStay ==
    ASSUME TypeOK, OneEach, [Next]_vars, NEW f \in Inputs, bin[f] # Absent
    PROVE  bin'[f] # Absent
<1>1. CASE writePfile
  <2>1. session # Absent /\ Empty # Absent
    BY <1>1 DEF writePfile, OneEach, TypeOK, Absent, Empty
  <2>2. \/ bin' = bin \/ bin' = [bin EXCEPT ![pFile(next)] = session]
        \/ bin' = [bin EXCEPT ![pFile(next)] = Empty]
    BY <1>1 DEF writePfile
  <2> QED BY <2>1, <2>2 DEF TypeOK
<1>2. CASE ~writePfile
  BY <1>2 DEF Next, Matlab, StartSession, system, convertArrayToStruct, Plot, aRunParallel,
              Fork, Count, Wait, AllDone, Interrupt, BAM_app, vars
<1> QED BY <1>1, <1>2

\* Outputs come from inputs that are there.
LEMMA OriginsStep ==
    ASSUME TypeOK, OneEach, Origins, [Next]_vars
    PROVE  Origins'
<1>1. \A p \in procs : p.input \in Inputs
  BY DEF TypeOK
<1>2. \A n \in Numbers : mat[n].state \in {"torn", "whole"} => mat[n].input \in Inputs
  BY DEF TypeOK, Mats, NoMat, Mixed
<1>3. CASE BAM_app
  <2>1. PICK p \in procs : rt_InitModel(p) \/ rt_StopDataLogging(p) \/ Fail(p)
    BY <1>3 DEF BAM_app
  <2>2. bin' = bin
    BY <1>3 DEF BAM_app
  <2>3. \A q \in procs' : q.pc # "forked" => bin[q.input] # Absent
    <3>1. CASE procs' = procs \ {p}
      BY <3>1 DEF Origins
    <3>2. CASE \E pc, params : Becomes(p, pc, params) /\ bin[p.input] # Absent
      <4>1. PICK pc, params : Becomes(p, pc, params) /\ bin[p.input] # Absent
        BY <3>2
      <4> DEFINE r == [p EXCEPT !.pc = pc, !.params = params]
      <4>2. r.input = p.input
        BY DEF TypeOK
      <4>3. procs' = (procs \ {p}) \cup {r}
        BY <4>1 DEF Becomes
      <4> HIDE DEF r
      <4> QED BY <4>1, <4>2, <4>3 DEF Origins
    <3> QED BY <2>1, <3>1, <3>2, ExecutableSteps DEF Origins
  <2>4. ASSUME NEW n \in Numbers, mat'[n].state \in {"torn", "whole"}
        PROVE  NUM(mat'[n].input) = n /\ bin[mat'[n].input] # Absent
    <3>1. CASE mat'[n] = mat[n]
      BY <2>4, <3>1 DEF Origins
    <3>2. CASE mat'[n] = Mixed
      BY <2>4, <3>2 DEF Mixed, NoMat
    <3>3. CASE /\ n = NUM(p.input) /\ p.pc # "forked"
               /\ mat'[n].input = p.input
      BY <3>3 DEF Origins
    <3>4. \/ mat'[n] = mat[n] \/ mat'[n] = Mixed
          \/ n = NUM(p.input) /\ p.pc # "forked" /\ mat'[n].input = p.input
      <4>1. mat \in [Numbers -> Mats] /\ n \in Numbers
        BY DEF TypeOK
      <4>2. \A state : Output(state, p).input = p.input
        BY DEF Output
      <4>3. CASE mat' = mat
        BY <4>3
      <4>4. CASE p.pc # "forked" /\ \E m : mat' = [mat EXCEPT ![NUM(p.input)] = m]
                                         /\ (m = mat[NUM(p.input)] \/ m = Mixed
                                             \/ \E state : m = Output(state, p))
        BY <4>1, <4>2, <4>4
      <4> QED BY <2>1, <4>3, <4>4, ExecutableSteps
    <3> QED BY <3>1, <3>2, <3>3, <3>4
  <2> QED BY <2>2, <2>3, <2>4 DEF Origins
<1>4. CASE ~BAM_app
  <2>1. mat' = mat
    BY <1>4 DEF Next, Matlab, StartSession, writePfile, system, convertArrayToStruct, Plot,
                aRunParallel, Fork, Count, Wait, AllDone, Interrupt, vars
  <2>2. \A q \in procs' : q \in procs \/ q.pc = "forked"
    <3>1. \A f : Subshell(f).pc = "forked"
      BY DEF Subshell
    <3> QED BY <1>4, <3>1
            DEF Next, Matlab, StartSession, writePfile, system, convertArrayToStruct, Plot,
                aRunParallel, Fork, Count, Wait, AllDone, Interrupt, vars
  <2> QED BY <1>1, <1>2, <2>1, <2>2, InputsStay DEF Origins
<1> QED BY <1>3, <1>4

\* No input with the number of a run comes into being in its session.
LEMMA OwnNumberStep ==
    ASSUME TypeOK, OneEach, Origins, OwnNumber, [Next]_vars
    PROVE  OwnNumber'
<1> USE CountsAssumption
<1>1. CASE StartSession
  <2>1. \A n \in Runs : sim_data'[n] = NoMat
    BY <1>1 DEF StartSession, Runs
  <2>2. \A n \in Runs \ shared' : \A g \in Inputs :
            NUM(g) = n /\ g # pFile(n) => bin'[g] = Absent
    BY <1>1 DEF StartSession, Twins
  <2> QED BY <2>1, <2>2 DEF OwnNumber, NoMat
<1>2. CASE writePfile
  <2>1. next \in Runs
    BY <1>2 DEF writePfile, TypeOK, OneEach, Runs
  <2>2. \A g \in Inputs : g # pFile(next) => bin'[g] = bin[g]
    BY <1>2 DEF writePfile, TypeOK
  <2>3. phase # "idle" /\ UNCHANGED <<sim_data, shared>>
    BY <1>2 DEF writePfile
  <2>4. NUM(pFile(next)) = next
    BY <2>1, RunFiles
  <2> QED BY <2>2, <2>3, <2>4 DEF OwnNumber
<1>3. CASE convertArrayToStruct
  <2>1. phase = "load" /\ UNCHANGED <<bin, shared>> /\ next \in Runs
    BY <1>3 DEF convertArrayToStruct, TypeOK, OneEach, Runs
  <2>2. mat[next].state = "whole" /\ next \notin shared => mat[next].input = pFile(next)
    <3>1. next \in Numbers
      BY <2>1, RunFiles
    <3>2. mat[next].state = "whole" => mat[next].input \in Inputs
      BY <3>1 DEF TypeOK, Mats, NoMat, Mixed
    <3> QED BY <2>1, <3>1, <3>2 DEF Origins, OwnNumber
  <2>3. \A n \in Runs : sim_data'[n] = sim_data[n] \/ (n = next /\ sim_data'[n] = mat[next])
    BY <1>3 DEF convertArrayToStruct, TypeOK, Runs
  <2> QED BY <2>1, <2>2, <2>3 DEF OwnNumber
<1>4. CASE UNCHANGED <<bin, sim_data, shared>> /\ (phase' # "idle" => phase # "idle")
  BY <1>4 DEF OwnNumber
<1>5. CASE system \/ Plot \/ aRunParallel \/ Interrupt \/ BAM_app
  BY <1>4, <1>5 DEF system, Plot, aRunParallel, Fork, Count, Wait, AllDone, Interrupt, BAM_app,
                    Ends
<1>6. CASE UNCHANGED vars
  BY <1>4, <1>6 DEF vars
<1> QED BY <1>1, <1>2, <1>3, <1>5, <1>6 DEF Next, Matlab

\* What belongs to the runs is kept.
LEMMA OwnedStep ==
    ASSUME IInv, [Next]_vars
    PROVE  Owned'
<1> USE CountsAssumption DEF IInv
<1> SUFFICES ASSUME NEW n \in Runs, n \notin shared', n \notin excused'
             PROVE  /\ phase' \in {"write", "load"} \cup Script => OwnInput(n)'
                    /\ phase' \in {"load"} \cup Script => OwnOutput(n)'
                    /\ phase' = "load" => OwnData(n)'
                    /\ phase' = "done" => sim_data'[n] = Result(n)'
  BY DEF Owned, Runs
<1>1. CASE StartSession
  <2>1. \A g \in Inputs : NUM(g) = n /\ g # pFile(n) => bin[g] = Absent
    BY <1>1 DEF StartSession, Twins
  <2>2. todo' = {} /\ n \in Nat /\ n >= 1
    BY <1>1 DEF StartSession, Pooled, Script, Ends, Runs
  <2> QED BY <1>1, <2>1, <2>2 DEF StartSession, OwnInput, Script
<1>2. CASE writePfile
  <2>1. next \in Runs /\ n \in Int /\ todo' = todo
    BY <1>2 DEF writePfile, OneEach, TypeOK, Runs
  <2>2. n \notin excused /\ OwnInput(n)
    BY <1>2 DEF writePfile, Owned
  <2>3. CASE bin' = [bin EXCEPT ![pFile(next)] = session] /\ next' = next + 1
    BY <1>2, <2>1, <2>2, <2>3, RunFiles DEF writePfile, OwnInput, TypeOK, Script
  <2>4. CASE next' = next + 1 /\ excused' = excused \cup {next} /\ bin' = bin
    BY <1>2, <2>1, <2>2, <2>4 DEF writePfile, OwnInput, Script
  <2>5. CASE phase' = "error"
    BY <2>5 DEF Script
  <2> QED BY <1>2, <2>3, <2>4, <2>5 DEF writePfile
<1>3. CASE system
  <2>1. CASE phase' = "loop"
    <3>1. n \notin excused /\ OwnInput(n)
      BY <1>3, <2>1 DEF system, Owned
    <3>2. bin[pFile(n)] = session /\ session # Absent
      BY <1>3, <3>1 DEF system, OwnInput, OneEach, TypeOK, Absent, Runs
    <3>3. todo' = {f \in Inputs : bin[f] # Absent}
      BY <1>3, <2>1, <3>2, RunFiles DEF system
    <3>4. OwnInput(n)'
      BY <1>3, <2>1, <3>1, <3>2, <3>3 DEF system, OwnInput
    <3>5. \A p \in procs : NUM(p.input) # n
      BY <1>3, <3>1 DEF system, OnlyOldOnes
    <3>6. OwnOutput(n)'
      BY <1>3, <3>2, <3>3, <3>5, RunFiles DEF system, OwnOutput
    <3> QED BY <2>1, <3>4, <3>6
  <2>2. CASE excused' = Numbers
    BY <2>2, RunFiles
  <2> QED BY <1>3, <2>1, <2>2 DEF system
<1>4. CASE convertArrayToStruct
  <2>1. n \notin excused /\ OwnInput(n) /\ OwnOutput(n) /\ OwnData(n)
    BY <1>4 DEF convertArrayToStruct, Owned
  <2>2. mat[n] = Result(n)
    BY <1>4, <2>1, RunFiles DEF convertArrayToStruct, Pooled, Script, OwnOutput, OwnData, Jobs
  <2>3. OwnInput(n)' /\ OwnOutput(n)'
    BY <1>4, <2>1 DEF convertArrayToStruct, OwnInput, OwnOutput, Output, Result, Jobs
  <2>4. CASE sim_data' = [sim_data EXCEPT ![next] = mat[next]] /\ next' = next + 1
    <3>1. next \in Runs /\ n \in Int /\ Result(n)' = Result(n)
      BY <1>4 DEF convertArrayToStruct, OneEach, TypeOK, Runs, Result
    <3>2. OwnData(n)'
      BY <1>4, <2>1, <2>2, <2>4, <3>1 DEF convertArrayToStruct, OwnData, TypeOK, Runs
    <3>3. phase' = "load"
      BY <1>4, <2>4, <3>1 DEF convertArrayToStruct, Runs
    <3> QED BY <2>3, <3>2, <3>3
  <2>5. CASE phase' = "error"
    BY <2>5 DEF Script
  <2> QED BY <1>4, <2>4, <2>5 DEF convertArrayToStruct
<1>5. CASE Plot
  <2>1. n \notin excused /\ OwnData(n) /\ n < next
    BY <1>5 DEF Plot, Owned, Runs, TypeOK
  <2> QED BY <1>5, <2>1 DEF Plot, OwnData, Result, Script
<1>6. CASE aRunParallel
  <2>1. n \notin excused /\ OwnInput(n) /\ OwnOutput(n)
    BY <1>6 DEF aRunParallel, Fork, Count, Wait, AllDone, Owned, Script
  <2>2. OwnInput(n)'
    BY <1>6, <2>1 DEF aRunParallel, Fork, Count, Wait, AllDone, OwnInput
  <2>3. CASE Fork
    <3>1. PICK f \in todo :
              /\ todo' = todo \ {f}
              /\ procs' = procs \cup {Subshell(f)}
      BY <2>3 DEF Fork
    <3> DEFINE r == Subshell(f)
    <3>2. r.input = f /\ r.born = session /\ r.pc = "forked"
      BY DEF Subshell
    <3>3. procs' = procs \cup {r}
      BY <3>1
    <3>4. Jobs' = Jobs \cup {f}
      BY <2>3, <3>1, ForkAddsJob DEF Fork
    <3>5. UNCHANGED <<session, mat>> /\ phase' = "count"
      BY <2>3 DEF Fork
    <3> HIDE DEF r
    <3>6. OwnOutput(n)'
      BY <2>1, <3>1, <3>2, <3>3, <3>4, <3>5 DEF OwnInput, OwnOutput, Output, Result
    <3> QED BY <2>2, <3>5, <3>6
  <2>4. CASE Count \/ Wait
    <3>1. OwnOutput(n)' /\ phase' \notin {"load", "done"}
      BY <2>1, <2>4 DEF Count, Wait, OwnOutput, Output, Result, Jobs
    <3> QED BY <2>2, <3>1
  <2>5. CASE AllDone
    <3>1. OwnOutput(n)'
      BY <2>1, <2>5 DEF AllDone, OwnOutput, Output, Result, Jobs
    <3>2. \A p \in procs : NUM(p.input) # n
      BY <2>1, <2>5 DEF AllDone, OwnOutput, Jobs
    <3>3. OwnData(n)' /\ phase' = "load"
      BY <2>5, <3>2 DEF AllDone, OwnData, Runs
    <3> QED BY <2>2, <3>1, <3>3
  <2> QED BY <1>6, <2>3, <2>4, <2>5 DEF aRunParallel
<1>7. CASE Interrupt
  BY <1>7 DEF Interrupt, Script
<1>8. CASE BAM_app
  <2>1. PICK p \in procs : rt_InitModel(p) \/ rt_StopDataLogging(p) \/ Fail(p)
    BY <1>8 DEF BAM_app
  <2>2. UNCHANGED <<phase, session, next, bin, todo, said, sim_data, shared>>
    BY <1>8 DEF BAM_app
  <2>3. n \notin shared /\ n \notin excused
    BY <2>1, <2>2, ExecutableSteps
  <2>4. OwnInput(n) => OwnInput(n)'
    BY <2>2 DEF OwnInput
  <2>5. phase \in {"load"} \cup Script => OwnOutput(n)'
    <3> SUFFICES ASSUME phase \in {"load"} \cup Script PROVE OwnOutput(n)'
      OBVIOUS
    <3>1. OwnInput(n) /\ OwnOutput(n) /\ phase # "write"
      BY <2>3 DEF Owned, Script
    <3> QED BY <2>1, <2>2, <3>1, OthersUntouched, OwnExecutable
  <2>6. phase = "load" => OwnData(n)'
    <3> SUFFICES ASSUME phase = "load" PROVE OwnData(n)'
      OBVIOUS
    <3>1. OwnData(n)
      BY <2>3 DEF Owned
    <3>2. \A q \in procs' : NUM(q.input) # n
      <4>1. CASE procs' = procs \ {p}
        BY <3>1, <4>1 DEF OwnData
      <4>2. CASE \E pc, params : Becomes(p, pc, params)
        <5>1. PICK pc, params : Becomes(p, pc, params)
          BY <4>2
        <5> DEFINE r == [p EXCEPT !.pc = pc, !.params = params]
        <5>2. r.input = p.input
          BY DEF TypeOK
        <5>3. procs' = (procs \ {p}) \cup {r}
          BY <5>1 DEF Becomes
        <5> HIDE DEF r
        <5> QED BY <3>1, <5>2, <5>3 DEF OwnData
      <4> QED BY <2>1, <4>1, <4>2, ExecutableSteps
    <3> QED BY <2>2, <3>1, <3>2 DEF OwnData, Result
  <2>7. phase = "done" => sim_data'[n] = Result(n)'
    BY <2>2, <2>3 DEF Owned, Result
  <2> QED BY <2>2, <2>3, <2>4, <2>5, <2>6, <2>7 DEF Owned
<1>9. CASE UNCHANGED vars
  BY <1>9 DEF vars, Owned, OwnInput, OwnOutput, OwnData, Result, Output, Jobs
<1> QED BY <1>1, <1>2, <1>3, <1>4, <1>5, <1>6, <1>7, <1>8, <1>9
        DEF Next, Matlab

-----------------------------------------------------------------------------
(* The theorems                                                             *)

\* The invariant holds at the start.
LEMMA InitInv == Init => IInv
<1> SUFFICES ASSUME Init PROVE IInv
  OBVIOUS
<1> USE CountsAssumption DEF Init
<1>1. TypeOK
  <2>1. NoMat \in Mats /\ phase \in Phases /\ next \in 0 .. NRuns + 1 /\ session \in 0 .. MaxSessions
    BY DEF Mats, Phases, Ends
  <2>2. bin \in [Inputs -> Params]
    BY DEF Params, Absent, Empty
  <2> QED BY <2>1, <2>2 DEF TypeOK
<1>2. OneEach /\ OnlyOldOnes
  BY DEF OneEach, OnlyOldOnes
<1>3. Pooled /\ Owned
  BY DEF Pooled, Owned, Script
<1>4. Origins /\ OwnNumber
  BY DEF Origins, OwnNumber, NoMat
<1> QED BY <1>1, <1>2, <1>3, <1>4 DEF IInv

\* IInv is inductive.
LEMMA StepInv == IInv /\ [Next]_vars => IInv'
BY TypeStep, OneEachStep, OnlyOldOnesStep, PooledStep, OriginsStep, OwnNumberStep, OwnedStep
   DEF IInv

\* Every reachable state satisfies the inductive invariant.
LEMMA Invariance == Safety => []IInv
BY InitInv, StepInv, PTL DEF Safety

\* The state of the scripts, the directory and the processes is type correct.
THEOREM TypeCorrect == Spec => []TypeOK
BY Invariance, PTL DEF IInv, Spec

\* What is plotted as a run was computed in this session from the parameters of
\* the run, unless that is excused (convertArrayToStruct after system).
THEOREM ResultsAreOwn == Spec => []OwnResults
<1>1. IInv => OwnResults
  BY DEF IInv, OwnNumber, Owned, OwnResults, Runs, Result
<1> QED BY <1>1, Invariance, PTL DEF Spec

\* The pool counts as the script does.
LEMMA SameCardinality == \A S : Pool!Cardinality(S) = Cardinality(S)
BY DEF Pool!Cardinality, Cardinality

\* The script runs each of its inputs once, at most N at a time, and says "all
\* done" when they are (the jobs and the waits of aRunParallel.sh).
THEOREM ScriptIsAPool == Safety => Pool!Safety
<1>1. Init => Pool!Init
  BY DEF Init, Pool!Init, Script
<1>2. IInv /\ [Next]_vars => [Pool!Next]_(Pool!poolVars)
  <2> SUFFICES ASSUME IInv, [Next]_vars PROVE [Pool!Next]_(Pool!poolVars)
    OBVIOUS
  <2> USE DEF IInv
  <2>1. CASE StartSession
    <3>1. phase \notin Script /\ phase' \notin Script /\ todo = {} /\ todo' = {} /\ said' = FALSE
      BY <2>1 DEF StartSession, Script, Ends, Pooled
    <3> QED BY <3>1 DEF Pool!Next, Pool!Abort
  <2>2. CASE writePfile
    <3>1. phase \notin Script /\ phase' \notin Script /\ todo' = todo /\ said' = said
      BY <2>2 DEF writePfile, Script
    <3> QED BY <3>1 DEF Pool!poolVars
  <2>3. CASE system
    <3>1. phase \notin Script /\ said = FALSE /\ said' = said
      BY <2>3 DEF system, Script, Pooled
    <3>2. CASE phase' = "loop"
      <4>1. Jobs' = {}
        BY <2>3 DEF system, Jobs, OnlyOldOnes
      <4>2. todo' \in SUBSET Inputs
        BY <2>3, <3>2, RunFiles DEF system
      <4> QED BY <3>1, <3>2, <4>1, <4>2 DEF Pool!Next, Pool!Begin, Script
    <3>3. CASE phase' = "load"
      BY <2>3, <3>1, <3>3 DEF system, Script, Pool!poolVars
    <3> QED BY <2>3, <3>2, <3>3 DEF system
  <2>4. CASE convertArrayToStruct \/ Plot
    <3>1. phase \notin Script /\ phase' \notin Script /\ todo' = todo /\ said' = said
      BY <2>4 DEF convertArrayToStruct, Plot, Script
    <3> QED BY <3>1 DEF Pool!poolVars
  <2>5. CASE Fork
    <3>1. PICK f \in todo :
              /\ todo' = todo \ {f}
              /\ procs' = procs \cup {Subshell(f)}
      BY <2>5 DEF Fork
    <3>2. Jobs' = Jobs \cup {f}
      BY <2>5, <3>1, ForkAddsJob DEF Fork
    <3>3. phase \in Script /\ phase' \in Script /\ Cardinality(Jobs) < N
      BY <2>5 DEF Fork, Script, Pooled
    <3>4. Pool!Start
      BY <3>1, <3>2, <3>3, SameCardinality DEF Pool!Start
    <3> QED BY <3>4 DEF Pool!Next
  <2>6. CASE Count \/ Wait
    <3>1. phase \in Script /\ phase' \in Script /\ todo' = todo /\ Jobs' = Jobs
      BY <2>6 DEF Count, Wait, Script, Jobs
    <3> QED BY <3>1 DEF Pool!poolVars
  <2>7. CASE AllDone
    <3>1. /\ phase \in Script /\ phase' \notin Script /\ said' = TRUE
          /\ todo = {} /\ Jobs = {} /\ todo' = todo
      BY <2>7 DEF AllDone, Script
    <3> QED BY <3>1 DEF Pool!Next, Pool!AllDone
  <2>8. CASE Interrupt
    <3>1. phase' \notin Script /\ todo' = {} /\ said' = said
      BY <2>8 DEF Interrupt, Script
    <3>2. CASE phase \in Script
      BY <3>1, <3>2 DEF Pooled, Pool!Next, Pool!Abort
    <3>3. CASE phase \notin Script
      BY <3>1, <3>3 DEF Pooled, Pool!poolVars
    <3> QED BY <3>2, <3>3
  <2>9. CASE BAM_app
    <3>1. PICK p \in procs : rt_InitModel(p) \/ rt_StopDataLogging(p) \/ Fail(p)
      BY <2>9 DEF BAM_app
    <3>2. UNCHANGED <<phase, session, todo, said>>
      BY <2>9 DEF BAM_app
    <3>3. p.born = session => p.input \in Jobs
      BY DEF Jobs
    <3>4. Jobs' = Jobs \/ (p.input \in Jobs /\ Jobs' = Jobs \ {p.input})
      BY <3>1, <3>2, <3>3, ExecutableSteps, BecomesKeepsJobs, EndRemovesJob
    <3> QED BY <3>2, <3>4 DEF Pool!Next, Pool!Finish, Pool!poolVars
  <2>10. CASE UNCHANGED vars
    BY <2>10 DEF vars, Pool!poolVars, Jobs
  <2> QED BY <2>1, <2>2, <2>3, <2>4, <2>5, <2>6, <2>7, <2>8, <2>9, <2>10
          DEF Next, Matlab, aRunParallel
<1> QED BY <1>1, <1>2, Invariance, PTL DEF Safety, Pool!Safety
==============================================================================
