------------------------- MODULE BatchAvoidance_proof -------------------------
(***************************************************************************)
(* Proofs about BatchAvoidance for any batch, any trajectory files and     *)
(* distances, and any number of sessions: each run flies its own pair, the *)
(* summary counts each run once and its cases are the extreme ones.        *)
(***************************************************************************)
EXTENDS BatchAvoidance, FiniteSetTheorems, FunctionTheorems, WellFoundedInduction, TLAPS

(* The inductive invariant                                                  *)

\* The values of SimIn and SimPar, of userStruct, of flown and of results.
Inputs == [ref : Pairs, ball : Pairs, ic : Pairs, stop : Pairs]
Users == [own : Pairs, ball : Pairs, stop : Pairs, trim : Pairs]
Flights == [ref : Pairs, ball : Pairs, ic : Pairs, ekf : Pairs,
            stop : Pairs \cup {WarmupStop}, dist : Distances \cup {Inf, NaN}]
Results == [min_dist : [Runs -> Distances \cup {Inf, NaN}],
            avoided : [Runs -> BOOLEAN], errored : [Runs -> BOOLEAN]]

\* The statements of one run of the loop.
Body == {"load", "setup", "seed", "simulate", "record", "catch"}

\* The workspace has its types; summary.cases are runs, run_idx is one in the body.
Typed ==
    /\ pc \in {"idle", "demo", "demoSim", "build", "warmup", "next", "done"} \cup Body
    /\ session \in 0 .. MaxSessions /\ mode \in {"batch", "demo"} /\ run_idx \in 0 .. N_runs
    /\ userStruct \in Users /\ full_userStruct \in Users
    /\ SimIn \in Inputs /\ SimPar \in Inputs
    /\ bball_pwcurve \in Pairs /\ simIn \in [ekf : Pairs, stop : Pairs]
    /\ simout \in Distances \cup {Inf, NaN}
    /\ modelStop \in {FileStop, WarmupStop} /\ warmup_stop \in {FileStop, WarmupStop}
    /\ results \in Results
    /\ summary.cases \in {<<>>} \cup (Runs \X Runs \X Runs)
    /\ flown \in [{0} \cup Runs -> Flights]
    /\ pc \in Body => run_idx \in Runs

\* What is set up for a trajectory is set up for this one, by the statement
\* that reads it.
SetUp ==
    /\ pc = "demo" => userStruct = NoUser
    /\ pc = "demoSim" => SimPar.ref = DemoPair /\ SimPar.ic = DemoPair
    /\ LET pair == traj_indices[run_idx] IN
       /\ pc \in {"setup", "seed", "simulate"} =>
            userStruct.own = pair /\ userStruct.ball = pair /\ userStruct.stop = pair
       /\ pc \in {"seed", "simulate"} => SimPar.ref = pair /\ SimPar.ball = pair
       /\ pc = "simulate" => simIn.ekf = pair /\ simIn.stop = pair

\* The loop is through with run r.
Through(r) == r < run_idx \/ (r = run_idx /\ pc \in {"next", "done"})

\* The results say of each run whether it flew, and how near the ball came.
Recorded(r) ==
    /\ results.errored[r] => Through(r) /\ flown[r] = NoFlight
    /\ flown[r] # NoFlight =>
         /\ Through(r) \/ (r = run_idx /\ pc = "record")
         /\ flown[r].dist = IF Through(r) THEN results.min_dist[r] ELSE simout
    /\ Through(r) /\ ~results.errored[r] =>
         flown[r] # NoFlight /\ (results.avoided[r] <=> results.min_dist[r] > R_safe)
    /\ pc = "record" /\ r = run_idx => flown[r] # NoFlight

\* A batch that was set up has recorded each run the loop is through with.
Consistent ==
    /\ pc \notin {"idle", "demo", "demoSim"} => \A r \in Runs : Recorded(r)
    /\ pc \in {"build", "warmup"} => run_idx = 0

\* The summary is right, and is made once the loop is through with every run.
Reported ==
    /\ CountsAddUp /\ CasesChosen
    /\ summary.cases # <<>> => pc \in {"done", "idle"}
    /\ pc = "done" => run_idx = N_runs

\* The inductive invariant.
IInv == Typed /\ SetUp /\ OwnTrajectories /\ DemoStartsOnPath /\ Consistent /\ Reported

-----------------------------------------------------------------------------
(* Types                                                                    *)

\* The constants are natural numbers, and run r flies pair start_pair + r - 1.
LEMMA Numbers ==
    /\ N_runs \in Nat \ {0} /\ start_pair \in Nat \ {0} /\ DemoPair \in Nat \ {0}
    /\ LastPair \in Nat /\ R_safe \in Nat /\ Inf \in Nat /\ Distances \subseteq Nat
    /\ Runs = 1 .. N_runs /\ 0 \notin Runs /\ 1 \in Runs
    /\ \A r \in Runs : traj_indices[r] = start_pair + r - 1 /\ traj_indices[r] \in Pairs
    /\ 0 \in Pairs /\ DemoPair \in Pairs
BY PairsAssumption, DistancesAssumption DEF Runs, traj_indices, Pairs

\* The statements of the setup stay within the types, and all of them give
\* what the trajectories and the trim state of userStruct say.
LEMMA SetupTypes ==
    ASSUME NEW s \in Inputs, NEW u \in Users
    PROVE  /\ \A done \in 1 .. 4 : SetupSteps(s, u)[done] \in Inputs
           /\ Last(SetupSteps(s, u)) \in Inputs
           /\ Last(SetupSteps(s, u)) = [ref |-> u.own, ball |-> u.ball, ic |-> u.trim, stop |-> u.stop]
<1> DEFINE ref == [s EXCEPT !.ref = u.own]
           ball == [ref EXCEPT !.ball = u.ball]
           ic == [ball EXCEPT !.ic = u.trim]
           all == [ic EXCEPT !.stop = u.stop]
<1>1. ref \in Inputs /\ ball \in Inputs /\ ic \in Inputs /\ all \in Inputs
  BY DEF Inputs, Users
<1>2. all = [ref |-> u.own, ball |-> u.ball, ic |-> u.trim, stop |-> u.stop]
  <2>1. all.ref = u.own /\ all.ball = u.ball /\ all.ic = u.trim /\ all.stop = u.stop
    BY DEF Inputs, Users
  <2> HIDE DEF all
  <2> QED BY <1>1, <2>1 DEF Inputs
<1>3. SetupSteps(s, u) = <<s, ref, ball, ic, all>>
  BY DEF SetupSteps, setupRefInputs, setupBballRefInputs, setupIC, setupParams
<1> HIDE DEF ref, ball, ic, all
<1>4. /\ \A done \in 1 .. 4 : <<s, ref, ball, ic, all>>[done] \in Inputs
      /\ Last(<<s, ref, ball, ic, all>>) = all
  BY <1>1 DEF Last
<1> QED BY <1>1, <1>2, <1>3, <1>4

\* Loading a pair sets all but the trim state, which the defaults set once.
LEMMA LoadTypes ==
    ASSUME NEW u \in Users, NEW pair \in Pairs
    PROVE  /\ load_trajectory_pair(u, pair) \in Users
           /\ setupDefaults(load_trajectory_pair(u, pair)) \in Users
           /\ load_trajectory_pair(u, pair) = [own |-> pair, ball |-> pair, stop |-> pair, trim |-> u.trim]
           /\ setupDefaults(load_trajectory_pair(u, pair)) =
                [own |-> pair, ball |-> pair, stop |-> pair,
                 trim |-> IF u.trim = 0 THEN pair ELSE u.trim]
<1> DEFINE v == load_trajectory_pair(u, pair)
<1>1. v = [own |-> pair, ball |-> pair, stop |-> pair, trim |-> u.trim]
  <2>1. v \in Users /\ v.own = pair /\ v.ball = pair /\ v.stop = pair /\ v.trim = u.trim
    BY DEF load_trajectory_pair, Users
  <2> HIDE DEF v
  <2> QED BY <2>1 DEF Users
<1> HIDE DEF v
<1>2. setupDefaults(v) =
        [own |-> pair, ball |-> pair, stop |-> pair, trim |-> IF u.trim = 0 THEN pair ELSE u.trim]
  BY <1>1 DEF setupDefaults
<1>3. u.trim \in Pairs
  BY DEF Users
<1> QED BY <1>1, <1>2, <1>3 DEF Users, v

\* The one-time setup of a pair.
LEMMA FullSetupEffect ==
    ASSUME userStruct \in Users, NEW pair \in Pairs, FullSetup(pair)
    PROVE  /\ userStruct' \in Users /\ SimIn' \in Inputs /\ SimPar' \in Inputs
           /\ SimPar'.ref = pair /\ SimPar'.ic = (IF userStruct.trim = 0 THEN pair ELSE userStruct.trim)
<1> DEFINE u == setupDefaults(load_trajectory_pair(userStruct, pair))
<1>1. /\ u \in Users
      /\ u = [own |-> pair, ball |-> pair, stop |-> pair,
              trim |-> IF userStruct.trim = 0 THEN pair ELSE userStruct.trim]
  BY LoadTypes
<1>2. u.own = pair /\ u.trim = IF userStruct.trim = 0 THEN pair ELSE userStruct.trim
  BY <1>1
<1>3. NoInputs \in Inputs
  BY Numbers DEF NoInputs, Inputs
<1> HIDE DEF u
<1>4. userStruct' = u /\ SimIn' = Last(SetupSteps(NoInputs, u)) /\ SimPar' = SimIn'
  BY DEF FullSetup, setup, u
<1>5. /\ Last(SetupSteps(NoInputs, u)) \in Inputs
      /\ Last(SetupSteps(NoInputs, u)) = [ref |-> u.own, ball |-> u.ball, ic |-> u.trim, stop |-> u.stop]
  BY <1>1, <1>3, SetupTypes
<1> QED BY <1>1, <1>2, <1>4, <1>5

\* What the actions write whose values are records.
LEMMA Blanks ==
    /\ NoUser \in Users /\ NoInputs \in Inputs /\ NoFlight \in Flights /\ NoResults \in Results
    /\ [r \in {0} \cup Runs |-> NoFlight] \in [{0} \cup Runs -> Flights]
BY Numbers DEF NoUser, Users, NoInputs, Inputs, NoFlight, Flights, NoResults, Results

-----------------------------------------------------------------------------
(* The functions of the summary                                             *)

\* A set of naturals has a least element.
LEMMA LeastNatural ==
    ASSUME NEW T, T \subseteq Nat, T # {}
    PROVE  \E x \in T : \A y \in T : x <= y
<1>1. PICK x \in T : \A y \in T : <<y, x>> \notin OpToRel(<, Nat)
  BY NatLessThanWellFounded, WFMin
<1>2. \A y \in T : ~(y < x)
  BY <1>1 DEF OpToRel
<1> QED BY <1>2

\* find lists the members of a set, all of them.
LEMMA FindFacts ==
    ASSUME NEW n \in Nat, NEW S, S \subseteq 1 .. n
    PROVE  /\ Cardinality(S) \in Nat /\ (S # {} => Cardinality(S) # 0)
           /\ find(S) \in [1 .. Cardinality(S) -> S]
           /\ \A r \in S : \E i \in 1 .. Cardinality(S) : find(S)[i] = r
<1> DEFINE upTo(r) == {q \in S : q <= r}
           c == Cardinality(S)
           rank == [r \in S |-> Cardinality(upTo(r))]
<1>1. IsFiniteSet(S) /\ c \in Nat /\ (S # {} => c # 0)
  <2>1. IsFiniteSet(1 .. n) /\ S \in SUBSET (1 .. n)
    BY FS_Interval
  <2>2. IsFiniteSet(S)
    BY <2>1, FS_Subset
  <2> QED BY <2>2, FS_CardinalityType, FS_EmptySet
<1>2. ASSUME NEW r \in S PROVE upTo(r) \in SUBSET S /\ IsFiniteSet(upTo(r)) /\ r \in upTo(r)
  BY <1>1, FS_Subset
<1>3. ASSUME NEW r \in S PROVE Cardinality(upTo(r)) \in 1 .. c
  <2>1. Cardinality(upTo(r)) \in Nat /\ Cardinality(upTo(r)) <= c
    BY <1>1, <1>2, FS_Subset, FS_CardinalityType
  <2>2. Cardinality(upTo(r)) # 0
    BY <1>2, FS_EmptySet
  <2> QED BY <1>1, <2>1, <2>2
<1>4. ASSUME NEW r \in S, NEW q \in S, r < q
      PROVE  Cardinality(upTo(r)) # Cardinality(upTo(q))
  <2>1. upTo(r) \in SUBSET upTo(q) /\ q \notin upTo(r) /\ q \in upTo(q)
    <3>1. S \subseteq Int /\ r \in Int /\ q \in Int
      OBVIOUS
    <3>2. \A x \in S : x <= r => x <= q
      BY <1>4, <3>1
    <3>3. ~(q <= r) /\ q <= q
      BY <1>4, <3>1
    <3> QED BY <3>2, <3>3
  <2> HIDE DEF upTo
  <2>2. Cardinality(upTo(q)) = Cardinality(upTo(r)) => upTo(q) = upTo(r)
    BY <1>2, <2>1, FS_Subset
  <2> QED BY <2>1, <2>2
<1>5. \A r, q \in S : Cardinality(upTo(r)) = Cardinality(upTo(q)) => r = q
  <2> SUFFICES ASSUME NEW r \in S, NEW q \in S, r # q
               PROVE  Cardinality(upTo(r)) # Cardinality(upTo(q))
    OBVIOUS
  <2>1. r < q \/ q < r
    OBVIOUS
  <2> HIDE DEF upTo
  <2> QED BY <1>4, <2>1
<1> HIDE DEF upTo
<1>6. rank \in Injection(S, 1 .. c)
  BY <1>3, <1>5 DEF Injection, IsInjective
<1>7. IsFiniteSet(1 .. c) /\ Cardinality(1 .. c) = c
  BY <1>1, FS_Interval
<1>8. rank \in Surjection(S, 1 .. c)
  BY <1>6, <1>7, FS_Injection
<1>9. \A i \in 1 .. c : \E r \in S : Cardinality(upTo(r)) = i
  BY <1>8 DEF Surjection
<1>10. find(S) = [i \in 1 .. c |-> CHOOSE r \in S : Cardinality(upTo(r)) = i]
  BY DEF find, upTo
<1>11. \A i \in 1 .. c : find(S)[i] \in S /\ Cardinality(upTo(find(S)[i])) = i
  BY <1>9, <1>10
<1>12. ASSUME NEW r \in S PROVE \E i \in 1 .. c : find(S)[i] = r
  BY <1>3, <1>5, <1>11
<1> HIDE DEF c
<1>13. find(S) \in [1 .. c -> S]
  BY <1>10, <1>11
<1> QED BY <1>1, <1>12, <1>13 DEF c

\* The index of the largest of some numbers, and of the smallest.
LEMMA ArgMaxFacts ==
    ASSUME NEW n \in Nat \ {0}, NEW b \in Nat, NEW d \in [1 .. n -> (-b) .. b]
    PROVE  ArgMax(d) \in 1 .. n /\ \A j \in 1 .. n : d[j] <= d[ArgMax(d)]
<1> DEFINE T == {b - d[i] : i \in 1 .. n}
<1>1. \A i \in 1 .. n : d[i] \in Int /\ b - d[i] \in Nat
  OBVIOUS
<1>2. T \subseteq Nat /\ T # {}
  BY <1>1
<1>3. PICK m \in T : \A y \in T : m <= y
  BY <1>2, LeastNatural
<1>4. PICK k \in 1 .. n : m = b - d[k]
  OBVIOUS
<1>5. \A j \in 1 .. n : d[j] <= d[k]
  <2> SUFFICES ASSUME NEW j \in 1 .. n PROVE d[j] <= d[k]
    OBVIOUS
  <2>1. b - d[k] <= b - d[j]
    BY <1>3, <1>4
  <2>2. \A x, y \in Int : b - x <= b - y => y <= x
    OBVIOUS
  <2>3. d[j] \in Int /\ d[k] \in Int
    BY <1>1
  <2> QED BY <2>1, <2>2, <2>3
<1> DEFINE I == {i \in 1 .. n : d[i] = d[k]}
<1>6. I \subseteq Nat /\ I # {}
  OBVIOUS
<1>7. PICK i \in I : \A y \in I : i <= y
  BY <1>6, LeastNatural
<1>8. \A j \in 1 .. n : d[j] < d[i] \/ (d[j] = d[i] /\ i <= j)
  <2> SUFFICES ASSUME NEW j \in 1 .. n PROVE d[j] < d[i] \/ (d[j] = d[i] /\ i <= j)
    OBVIOUS
  <2>1. d[i] = d[k] /\ d[j] <= d[k] /\ d[j] \in Int /\ d[k] \in Int
    BY <1>1, <1>5
  <2>2. d[j] = d[k] => i <= j
    BY <1>7
  <2> QED BY <2>1, <2>2
<1>9. DOMAIN d = 1 .. n /\ i \in DOMAIN d
  OBVIOUS
<1>10. /\ ArgMax(d) \in DOMAIN d
       /\ \A j \in DOMAIN d : d[j] < d[ArgMax(d)] \/ (d[j] = d[ArgMax(d)] /\ ArgMax(d) <= j)
  <2> HIDE DEF I, T
  <2> QED BY <1>8, <1>9, Zenon DEF ArgMax
<1> HIDE DEF I, T
<1>11. ArgMax(d) \in 1 .. n
  BY <1>9, <1>10
<1>12. ASSUME NEW j \in 1 .. n PROVE d[j] <= d[ArgMax(d)]
  <2>1. \A x, y \in Int : x < y \/ x = y => x <= y
    OBVIOUS
  <2>2. d[j] \in Int /\ d[ArgMax(d)] \in Int
    BY <1>1, <1>11
  <2> QED BY <1>9, <1>10, <2>1, <2>2
<1> QED BY <1>11, <1>12

\* ArgMin is the index of a least element: ArgMax of the negated ones.
LEMMA ArgMinFacts ==
    ASSUME NEW n \in Nat \ {0}, NEW b \in Nat, NEW d \in [1 .. n -> (-b) .. b]
    PROVE  ArgMin(d) \in 1 .. n /\ \A j \in 1 .. n : d[ArgMin(d)] <= d[j]
<1> DEFINE e == [i \in 1 .. n |-> -d[i]]
<1>1. \A i \in 1 .. n : e[i] = -d[i] /\ d[i] \in Int /\ e[i] \in (-b) .. b
  OBVIOUS
<1>2. ArgMin(d) = ArgMax(e)
  BY DEF ArgMin
<1>3. e \in [1 .. n -> (-b) .. b]
  BY <1>1
<1> HIDE DEF e
<1>4. ArgMax(e) \in 1 .. n /\ \A j \in 1 .. n : e[j] <= e[ArgMax(e)]
  BY <1>3, ArgMaxFacts
<1>5. ASSUME NEW j \in 1 .. n PROVE d[ArgMax(e)] <= d[j]
  <2>1. -d[j] <= -d[ArgMax(e)] /\ d[j] \in Int /\ d[ArgMax(e)] \in Int
    BY <1>1, <1>4
  <2> QED BY <2>1
<1> QED BY <1>2, <1>4, <1>5

\* The cases are runs without an error: with the largest distance, avoided by
\* the least, and with the smallest distance.
LEMMA CaseFacts ==
    ASSUME results \in Results, valid # {}
    PROVE  \E best, tight, worst \in valid :
             /\ case_indices = <<best, tight, worst>>
             /\ \A q \in valid : /\ results.min_dist[q] <= results.min_dist[best]
                                 /\ results.min_dist[worst] <= results.min_dist[q]
             /\ \A q \in valid : results.avoided[q] =>
                    results.avoided[tight] /\ results.min_dist[tight] <= results.min_dist[q]
<1> DEFINE dist == results.min_dist
           n == Cardinality(valid)
           b == Inf + 1
           best == valid_indices[ArgMax(valid_dists_vec)]
           worst == valid_indices[ArgMin(valid_dists_vec)]
           A == {i \in 1 .. n : results.avoided[valid_indices[i]]}
           m == Cardinality(A)
           tight == tight_idx(best)
<1>1. valid \subseteq 1 .. N_runs /\ N_runs \in Nat
  BY Numbers DEF valid
<1>2. /\ n \in Nat \ {0} /\ valid_indices \in [1 .. n -> valid]
      /\ \A r \in valid : \E i \in 1 .. n : valid_indices[i] = r
  BY <1>1, FindFacts DEF valid_indices
<1>3. b \in Nat /\ \A r \in valid : dist[r] \in (-b) .. b
  <2>1. \A r \in valid : dist[r] \in Distances \cup {Inf, NaN}
    BY DEF valid, Results
  <2>2. Inf \in Nat /\ Distances \subseteq Nat /\ \A d \in Distances : d < Inf
    BY DistancesAssumption
  <2>3. Distances \cup {Inf, NaN} \subseteq (-b) .. b
    BY <2>2 DEF NaN
  <2> QED BY <2>1, <2>2, <2>3
<1> HIDE DEF n, b, dist
<1>4. valid_dists_vec \in [1 .. n -> (-b) .. b]
      /\ \A i \in 1 .. n : valid_dists_vec[i] = dist[valid_indices[i]]
  <2>1. valid_dists_vec = [i \in 1 .. n |-> dist[valid_indices[i]]]
    BY <1>2 DEF valid_dists_vec, dist
  <2>2. \A i \in 1 .. n : dist[valid_indices[i]] \in (-b) .. b
    BY <1>2, <1>3
  <2> QED BY <2>1, <2>2
<1>5. /\ ArgMax(valid_dists_vec) \in 1 .. n /\ ArgMin(valid_dists_vec) \in 1 .. n
      /\ \A j \in 1 .. n : /\ valid_dists_vec[j] <= valid_dists_vec[ArgMax(valid_dists_vec)]
                           /\ valid_dists_vec[ArgMin(valid_dists_vec)] <= valid_dists_vec[j]
  BY <1>2, <1>3, <1>4, ArgMaxFacts, ArgMinFacts
<1>6. /\ best \in valid /\ worst \in valid
      /\ \A q \in valid : dist[q] <= dist[best] /\ dist[worst] <= dist[q]
  <2>1. best \in valid /\ worst \in valid
    BY <1>2, <1>5
  <2>2. ASSUME NEW q \in valid PROVE dist[q] <= dist[best] /\ dist[worst] <= dist[q]
    <3>1. PICK j \in 1 .. n : valid_indices[j] = q
      BY <1>2
    <3> QED BY <1>4, <1>5, <3>1
  <2> QED BY <2>1, <2>2
<1>7. /\ m \in Nat /\ (A # {} => m # 0) /\ avoided_local_idx \in [1 .. m -> A]
      /\ \A i \in A : \E j \in 1 .. m : avoided_local_idx[j] = i
  <2>1. A \subseteq 1 .. n /\ n \in Nat
    BY <1>2
  <2>2. avoided_local_idx = find(A)
    BY <1>2 DEF avoided_local_idx
  <2> HIDE DEF A
  <2> QED BY <2>1, <2>2, FindFacts
<1>8. A \subseteq 1 .. n /\ \A i \in A : results.avoided[valid_indices[i]]
  OBVIOUS
<1>9. \A q \in valid : results.avoided[q] => \E i \in A : valid_indices[i] = q
  BY <1>2
<1> HIDE DEF A, best, worst
<1>10. /\ avoided_dists = [j \in 1 .. m |-> valid_dists_vec[avoided_local_idx[j]]]
       /\ DOMAIN avoided_dists = 1 .. m
  BY <1>7 DEF avoided_dists
<1> HIDE DEF m
<1>11. CASE m = 0
  <2>1. avoided_dists = <<>>
    BY <1>10, <1>11
  <2>2. tight = best /\ A = {}
    BY <1>7, <1>11, <2>1 DEF tight_idx
  <2>3. \A q \in valid : ~results.avoided[q]
    BY <1>9, <2>2
  <2>4. case_indices = <<best, tight, worst>>
    BY DEF case_indices, best, worst
  <2> QED BY <1>6, <2>2, <2>3, <2>4 DEF dist
<1>12. CASE m # 0
  <2>1. avoided_dists # <<>>
    BY <1>7, <1>10, <1>12
  <2> DEFINE k == ArgMin(avoided_dists)
  <2>2. tight = valid_indices[avoided_local_idx[k]]
    BY <2>1 DEF tight_idx
  <2>3. avoided_dists \in [1 .. m -> (-b) .. b] /\ m \in Nat \ {0}
    BY <1>4, <1>7, <1>8, <1>10, <1>12
  <2>4. k \in 1 .. m /\ \A j \in 1 .. m : avoided_dists[k] <= avoided_dists[j]
    BY <1>3, <2>3, ArgMinFacts
  <2> HIDE DEF k, tight
  <2>5. /\ tight \in valid /\ results.avoided[tight]
        /\ avoided_dists[k] = dist[tight]
    BY <1>2, <1>4, <1>7, <1>8, <1>10, <2>2, <2>4
  <2>6. ASSUME NEW q \in valid, results.avoided[q] PROVE dist[tight] <= dist[q]
    <3>1. PICK i \in A : valid_indices[i] = q
      BY <1>9, <2>6
    <3>2. PICK j \in 1 .. m : avoided_local_idx[j] = i
      BY <1>7
    <3>3. avoided_dists[j] = dist[q]
      BY <1>4, <1>8, <1>10, <3>1, <3>2
    <3> QED BY <2>4, <2>5, <3>3
  <2>7. case_indices = <<best, tight, worst>>
    BY DEF case_indices, best, worst, tight
  <2> QED BY <1>6, <2>5, <2>6, <2>7 DEF dist
<1> QED BY <1>11, <1>12

-----------------------------------------------------------------------------
(* The steps                                                                *)

\* Typed is at least as strong as TypeOK.
LEMMA TypedImplies == Typed => TypeOK
BY DEF Typed, TypeOK, Users, Inputs, Results, Body

\* The trajectories of the run are loaded.
LEMMA LoadEffect ==
    ASSUME Typed, LoadPair
    PROVE  /\ userStruct' \in Users /\ run_idx \in Runs
           /\ \/ pc' = "catch"
              \/ /\ pc' = "setup" /\ userStruct'.own = traj_indices[run_idx]
                 /\ userStruct'.ball = traj_indices[run_idx]
                 /\ userStruct'.stop = traj_indices[run_idx]
<1>1. userStruct \in Users /\ run_idx \in Runs
  BY DEF LoadPair, Typed, Body
<1> DEFINE pair == traj_indices[run_idx]
<1>2. pair \in Pairs
  BY <1>1, Numbers
<1> DEFINE u == load_trajectory_pair(userStruct, pair)
<1>3. (pc' = "catch" /\ userStruct' = userStruct) \/ (pc' = "setup" /\ userStruct' = u)
  BY DEF LoadPair
<1> HIDE DEF pair, u
<1>4. u \in Users /\ u = [own |-> pair, ball |-> pair, stop |-> pair, trim |-> userStruct.trim]
  BY <1>1, <1>2, LoadTypes DEF u
<1>5. u.own = pair /\ u.ball = pair /\ u.stop = pair
  BY <1>4
<1> QED BY <1>1, <1>3, <1>4, <1>5 DEF pair

\* The inputs are set up, or some of them before an error.
LEMMA SetupEffect ==
    ASSUME Typed, SetupRun
    PROVE  /\ SimIn' \in Inputs /\ SimPar' \in Inputs
           /\ \/ pc' = "catch"
              \/ pc' = "seed" /\ SimPar'.ref = userStruct.own /\ SimPar'.ball = userStruct.ball
<1>1. SimIn \in Inputs /\ SimPar \in Inputs /\ userStruct \in Users
  BY DEF Typed
<1> DEFINE steps == SetupSteps(SimIn, userStruct)
<1>2. \/ \E done \in 1 .. 4 : SimIn' = steps[done] /\ pc' = "catch" /\ SimPar' = SimPar
      \/ SimIn' = Last(steps) /\ SimPar' = Last(steps) /\ pc' = "seed"
  BY DEF SetupRun
<1>3. /\ \A done \in 1 .. 4 : steps[done] \in Inputs
      /\ Last(steps) \in Inputs
      /\ Last(steps) = [ref |-> userStruct.own, ball |-> userStruct.ball,
                        ic |-> userStruct.trim, stop |-> userStruct.stop]
  BY <1>1, SetupTypes
<1> HIDE DEF steps
<1>4. Last(steps).ref = userStruct.own /\ Last(steps).ball = userStruct.ball
  BY <1>3
<1> QED BY <1>1, <1>2, <1>3, <1>4

\* The distance of the run is recorded.
LEMMA RecordEffect ==
    ASSUME Typed, RecordRun
    PROVE  /\ results' \in Results /\ results'.errored = results.errored
           /\ results'.min_dist = [results.min_dist EXCEPT ![run_idx] = simout]
           /\ results'.avoided = [results.avoided EXCEPT ![run_idx] = (simout > R_safe)]
<1>1. results \in Results /\ run_idx \in Runs /\ simout \in Distances \cup {Inf, NaN}
  BY DEF Typed, RecordRun, Body
<1> DEFINE m == [results.min_dist EXCEPT ![run_idx] = simout]
           a == [results.avoided EXCEPT ![run_idx] = (simout > R_safe)]
<1>2. m \in [Runs -> Distances \cup {Inf, NaN}]
  BY <1>1 DEF Results
<1>3. (simout > R_safe) \in BOOLEAN
  OBVIOUS
<1>4. a \in [Runs -> BOOLEAN]
  BY <1>1, <1>3 DEF Results
<1>5. results = [min_dist |-> results.min_dist, avoided |-> results.avoided,
                 errored |-> results.errored]
  BY <1>1 DEF Results
<1>6. results' = [min_dist |-> m, avoided |-> a, errored |-> results.errored]
  BY <1>5 DEF RecordRun
<1> HIDE DEF m, a
<1>7. results.errored \in [Runs -> BOOLEAN]
  BY <1>1 DEF Results
<1>8. results' \in Results
  BY <1>2, <1>4, <1>6, <1>7 DEF Results
<1>9. results'.min_dist = m /\ results'.avoided = a /\ results'.errored = results.errored
  BY <1>6
<1> QED BY <1>8, <1>9 DEF m, a

\* No step leaves the types.
LEMMA TypedStep == Typed /\ [Next]_vars => Typed'
<1> SUFFICES ASSUME Typed, [Next]_vars PROVE Typed'
  OBVIOUS
<1> USE DEF Typed, runVars, modelVars, outVars, Body
<1>1. CASE StartScript
  BY <1>1, Blanks, Numbers, SessionsAssumption DEF StartScript, NoSummary
<1>2. CASE EndScript
  BY <1>2 DEF EndScript
<1>3. CASE DemoSetup
  <2>1. userStruct' \in Users /\ SimIn' \in Inputs /\ SimPar' \in Inputs
    BY <1>3, FullSetupEffect, Numbers DEF DemoSetup
  <2> QED BY <1>3, <2>1 DEF DemoSetup
<1>4. CASE BuildOnce
  <2>1. userStruct' \in Users /\ SimIn' \in Inputs /\ SimPar' \in Inputs
    BY <1>4, FullSetupEffect, Numbers DEF BuildOnce
  <2> QED BY <1>4, <2>1 DEF BuildOnce
<1>5. CASE DemoSim \/ Simulate
  <2> DEFINE flight == [ref |-> SimPar.ref, ball |-> SimPar.ball, ic |-> SimPar.ic,
                        ekf |-> IF pc = "demoSim" THEN 0 ELSE simIn.ekf,
                        stop |-> IF pc = "demoSim" THEN modelStop ELSE simIn.stop,
                        dist |-> simout']
  <2>1. simout' \in Distances \cup {Inf, NaN}
    BY <1>5 DEF DemoSim, Simulate, compute_miss_distance
  <2>2. flight \in Flights
    BY <2>1, Numbers DEF Flights, Inputs, FileStop
  <2>3. \/ flown' = flown
        \/ \E r \in {0} \cup Runs : flown' = [flown EXCEPT ![r] = flight]
    BY <1>5 DEF DemoSim, Simulate
  <2>4. flown' \in [{0} \cup Runs -> Flights]
    BY <2>2, <2>3
  <2> QED BY <1>5, <2>1, <2>4 DEF DemoSim, Simulate
<1>6. CASE WarmedUp
  BY <1>6 DEF WarmedUp
<1>7. CASE NextRun
  BY <1>7, Blanks, Numbers DEF NextRun
<1>8. CASE LoadPair
  <2>1. userStruct' \in Users
    BY <1>8, LoadEffect
  <2> QED BY <1>8, <2>1 DEF LoadPair
<1>9. CASE SetupRun
  <2>1. SimIn' \in Inputs /\ SimPar' \in Inputs
    BY <1>9, SetupEffect
  <2> QED BY <1>9, <2>1 DEF SetupRun
<1>10. CASE SeedEkf
  <2>1. userStruct.ball \in Pairs /\ userStruct.stop \in Pairs
    BY DEF Users
  <2>2. bball_pwcurve' \in Pairs /\ simIn' \in [ekf : Pairs, stop : Pairs]
    BY <1>10, <2>1 DEF SeedEkf
  <2> QED BY <1>10, <2>2 DEF SeedEkf
<1>11. CASE RecordRun
  <2>1. results' \in Results
    BY <1>11, RecordEffect
  <2> QED BY <1>11, <2>1 DEF RecordRun
<1>12. CASE Catch
  <2>1. results' \in Results
    BY <1>12 DEF Catch, Results
  <2> QED BY <1>12, <2>1 DEF Catch
<1>13. CASE Summarise
  <2>1. case_indices \in {<<>>} \cup (Runs \X Runs \X Runs)
    <3>1. valid \subseteq Runs
      BY DEF valid
    <3>2. CASE valid = {}
      BY <3>2 DEF case_indices
    <3>3. CASE valid # {}
      BY <3>1, <3>3, CaseFacts
    <3> QED BY <3>2, <3>3
  <2>2. summary'.cases = case_indices
    BY <1>13 DEF Summarise
  <2> QED BY <1>13, <2>1, <2>2 DEF Summarise
<1>14. CASE UNCHANGED vars
  BY <1>14 DEF vars
<1> QED BY <1>1, <1>2, <1>3, <1>4, <1>5, <1>6, <1>7, <1>8, <1>9, <1>10, <1>11, <1>12, <1>13, <1>14
        DEF Next

\* What one statement of a run sets up is what the next one reads.
LEMMA SetUpStep == Typed /\ SetUp /\ [Next]_vars => SetUp'
<1> SUFFICES ASSUME Typed, SetUp, [Next]_vars PROVE SetUp'
  OBVIOUS
<1> USE DEF runVars, modelVars, outVars
<1>1. CASE StartScript
  BY <1>1 DEF StartScript, SetUp
<1>2. CASE DemoSetup
  <2>1. SimPar'.ref = DemoPair /\ SimPar'.ic = DemoPair
    <3>1. userStruct = NoUser /\ userStruct \in Users /\ DemoPair \in Pairs /\ FullSetup(DemoPair)
      BY <1>2, Numbers DEF DemoSetup, SetUp, Typed
    <3>2. userStruct.trim = 0
      BY <3>1 DEF NoUser
    <3> QED BY <3>1, <3>2, FullSetupEffect
  <2> QED BY <1>2, <2>1 DEF DemoSetup, SetUp
<1>3. CASE EndScript \/ DemoSim \/ BuildOnce \/ WarmedUp \/ NextRun
  BY <1>3 DEF EndScript, DemoSim, BuildOnce, WarmedUp, NextRun, SetUp
<1>4. CASE LoadPair
  BY <1>4, LoadEffect DEF LoadPair, SetUp
<1>5. CASE SetupRun
  BY <1>5, SetupEffect DEF SetupRun, SetUp
<1>6. CASE SeedEkf
  <2>1. simIn'.ekf = userStruct.ball /\ simIn'.stop = userStruct.stop
    BY <1>6 DEF SeedEkf
  <2> QED BY <1>6, <2>1 DEF SeedEkf, SetUp
<1>7. CASE Simulate \/ RecordRun \/ Catch \/ Summarise
  BY <1>7 DEF Simulate, RecordRun, Catch, Summarise, SetUp
<1>8. CASE UNCHANGED vars
  BY <1>8 DEF vars, SetUp
<1> QED BY <1>1, <1>2, <1>3, <1>4, <1>5, <1>6, <1>7, <1>8 DEF Next

\* What a simulation that ends adds to the history.
LEMMA SimulateEffect ==
    ASSUME Typed, SetUp, Simulate
    PROVE  \/ UNCHANGED <<simout, flown>> /\ pc' = "catch"
           \/ /\ pc' = "record" /\ simout' \in Distances \cup {Inf} /\ flown'[run_idx] # NoFlight
              /\ flown'[run_idx].dist = simout'
              /\ LET pair == traj_indices[run_idx] IN
                 /\ flown'[run_idx].ref = pair /\ flown'[run_idx].ball = pair
                 /\ flown'[run_idx].ekf = pair /\ flown'[run_idx].stop = pair
              /\ \A r \in {0} \cup Runs : r # run_idx => flown'[r] = flown[r]
<1> SUFFICES ASSUME ~(UNCHANGED <<simout, flown>> /\ pc' = "catch")
             PROVE  /\ pc' = "record" /\ simout' \in Distances \cup {Inf} /\ flown'[run_idx] # NoFlight
                    /\ flown'[run_idx].dist = simout'
                    /\ LET pair == traj_indices[run_idx] IN
                       /\ flown'[run_idx].ref = pair /\ flown'[run_idx].ball = pair
                       /\ flown'[run_idx].ekf = pair /\ flown'[run_idx].stop = pair
                    /\ \A r \in {0} \cup Runs : r # run_idx => flown'[r] = flown[r]
  OBVIOUS
<1> DEFINE flight == [ref |-> SimPar.ref, ball |-> SimPar.ball, ic |-> SimPar.ic,
                      ekf |-> simIn.ekf, stop |-> simIn.stop, dist |-> simout']
           pair == traj_indices[run_idx]
<1>1. /\ pc = "simulate" /\ pc' = "record" /\ simout' \in Distances \cup {Inf}
      /\ flown' = [flown EXCEPT ![run_idx] = flight]
  BY DEF Simulate, compute_miss_distance
<1>2. run_idx \in Runs /\ flown \in [{0} \cup Runs -> Flights]
  BY <1>1 DEF Typed, Body
<1>3. /\ flight.ref = pair /\ flight.ball = pair /\ flight.ekf = pair /\ flight.stop = pair
      /\ flight.dist = simout'
  BY <1>1 DEF SetUp
<1>4. flight # NoFlight
  <2>1. simout' \in Nat /\ NoFlight.dist = -1
    BY <1>1, Numbers DEF NoFlight, NaN
  <2>2. flight.dist # NoFlight.dist
    BY <1>3, <2>1
  <2> HIDE DEF flight
  <2> QED BY <2>2
<1> HIDE DEF flight
<1>5. flown'[run_idx] = flight /\ \A r \in {0} \cup Runs : r # run_idx => flown'[r] = flown[r]
  BY <1>1, <1>2
<1> QED BY <1>1, <1>3, <1>4, <1>5

\* A run flies with what was set up for it.
LEMMA FlownStep ==
    Typed /\ SetUp /\ OwnTrajectories /\ DemoStartsOnPath /\ [Next]_vars
      => OwnTrajectories' /\ DemoStartsOnPath'
<1> SUFFICES ASSUME Typed, SetUp, OwnTrajectories, DemoStartsOnPath, [Next]_vars
             PROVE  OwnTrajectories' /\ DemoStartsOnPath'
  OBVIOUS
<1> USE DEF runVars, modelVars, outVars
<1>0. 0 \notin Runs /\ flown \in [{0} \cup Runs -> Flights]
  BY Numbers DEF Typed
<1>1. CASE UNCHANGED flown
  BY <1>1 DEF OwnTrajectories, DemoStartsOnPath
<1>2. CASE StartScript
  <2>1. \A r \in {0} \cup Runs : flown'[r] = NoFlight
    BY <1>2 DEF StartScript
  <2> QED BY <2>1 DEF OwnTrajectories, DemoStartsOnPath
<1>3. CASE DemoSim
  <2> DEFINE flight == [ref |-> SimPar.ref, ball |-> SimPar.ball, ic |-> SimPar.ic,
                        ekf |-> 0, stop |-> modelStop, dist |-> simout']
  <2>1. flown' = [flown EXCEPT ![0] = flight] /\ flight.ic = DemoPair /\ flight.ref = DemoPair
    BY <1>3 DEF DemoSim, SetUp
  <2> HIDE DEF flight
  <2>2. flown'[0] = flight /\ \A r \in Runs : flown'[r] = flown[r]
    BY <1>0, <2>1
  <2> QED BY <2>1, <2>2 DEF OwnTrajectories, DemoStartsOnPath
<1>4. CASE Simulate
  <2>1. run_idx \in Runs
    BY <1>4 DEF Simulate, Typed, Body
  <2> QED BY <1>0, <1>1, <1>4, <2>1, SimulateEffect DEF OwnTrajectories, DemoStartsOnPath
<1>5. CASE EndScript \/ DemoSetup \/ BuildOnce \/ WarmedUp \/ NextRun \/ LoadPair
  BY <1>1, <1>5 DEF EndScript, DemoSetup, BuildOnce, WarmedUp, NextRun, LoadPair
<1>6. CASE SetupRun \/ SeedEkf \/ RecordRun \/ Catch \/ Summarise \/ UNCHANGED vars
  BY <1>1, <1>6 DEF SetupRun, SeedEkf, RecordRun, Catch, Summarise, vars
<1> QED BY <1>2, <1>3, <1>4, <1>5, <1>6 DEF Next

\* A run is recorded once, as it flew or as errored.
LEMMA ConsistentStep == Typed /\ SetUp /\ Consistent /\ [Next]_vars => Consistent'
<1> SUFFICES ASSUME Typed, SetUp, Consistent, [Next]_vars PROVE Consistent'
  OBVIOUS
<1> USE DEF runVars, modelVars, outVars
<1>0. /\ run_idx \in 0 .. N_runs /\ N_runs \in Nat /\ \A r \in Runs : r \in 1 .. N_runs
      /\ flown \in [{0} \cup Runs -> Flights] /\ results \in Results
      /\ (pc \in Body => run_idx \in Runs)
  BY Numbers DEF Typed
<1>1. CASE StartScript
  <2>1. /\ run_idx' = 0 /\ pc' \in {"demo", "build"}
        /\ \A r \in Runs : flown'[r] = NoFlight /\ ~results'.errored[r]
    BY <1>1 DEF StartScript, NoResults
  <2>2. \A r \in Runs : ~Through(r)'
    BY <1>0, <2>1 DEF Through
  <2> QED BY <2>1, <2>2 DEF Consistent, Recorded
<1>2. CASE EndScript \/ DemoSetup \/ DemoSim
  BY <1>2 DEF EndScript, DemoSetup, DemoSim, Consistent
<1>3. CASE BuildOnce \/ WarmedUp
  <2>1. /\ UNCHANGED <<run_idx, results, flown, simout>> /\ run_idx = 0
        /\ pc \in {"build", "warmup"} /\ pc' \in {"warmup", "next"}
    BY <1>3 DEF BuildOnce, WarmedUp, Consistent
  <2>2. \A r \in Runs : Through(r)' = Through(r)
    BY <1>0, <2>1 DEF Through
  <2> QED BY <1>0, <2>1, <2>2 DEF Consistent, Recorded
<1>4. CASE NextRun
  <2>1. /\ UNCHANGED <<results, flown>> /\ run_idx' = run_idx + 1
        /\ pc = "next" /\ pc' = "load"
    BY <1>4 DEF NextRun
  <2>2. \A r \in Runs : Through(r)' <=> Through(r)
    BY <1>0, <2>1 DEF Through
  <2> QED BY <2>1, <2>2 DEF Consistent, Recorded
<1>5. CASE LoadPair \/ SetupRun \/ SeedEkf \/ Summarise
  <2>1. /\ UNCHANGED <<run_idx, results, flown, simout>>
        /\ \/ pc \in {"load", "setup", "seed"} /\ pc' \in {"setup", "seed", "simulate", "catch"}
           \/ pc = "next" /\ pc' = "done"
    BY <1>5 DEF LoadPair, SetupRun, SeedEkf, Summarise
  <2>2. \A r \in Runs : Through(r)' <=> Through(r)
    BY <2>1 DEF Through
  <2> QED BY <2>1, <2>2 DEF Consistent, Recorded
<1>6. CASE Simulate
  <2>1. UNCHANGED <<run_idx, results>> /\ pc = "simulate" /\ pc' \in {"record", "catch"}
    BY <1>6 DEF Simulate
  <2>2. \A r \in Runs : (Through(r)' <=> Through(r)) /\ ~(Through(r) /\ r = run_idx)
    BY <1>0, <2>1 DEF Through
  <2>3. run_idx \in Runs /\ \A r \in Runs : Recorded(r)
    BY <1>0, <2>1 DEF Body, Consistent
  <2> SUFFICES ASSUME NEW r \in Runs PROVE Recorded(r)'
    BY <2>1 DEF Consistent
  <2>4. CASE r # run_idx
    <3>1. flown'[r] = flown[r]
      BY <1>6, <2>4, SimulateEffect
    <3>2. flown[r] # NoFlight => Through(r)
      BY <2>1, <2>3, <2>4 DEF Recorded
    <3> QED BY <2>1, <2>2, <2>3, <2>4, <3>1, <3>2 DEF Recorded
  <2>5. CASE r = run_idx
    <3>1. ~Through(r) /\ ~Through(r)' /\ ~results.errored[r] /\ flown[r] = NoFlight
      BY <2>1, <2>2, <2>3, <2>5 DEF Recorded
    <3>2. \/ flown'[r] = NoFlight /\ pc' = "catch"
          \/ flown'[r] # NoFlight /\ pc' = "record" /\ flown'[r].dist = simout'
      BY <1>6, <2>5, <3>1, SimulateEffect
    <3> QED BY <2>1, <2>5, <3>1, <3>2 DEF Recorded
  <2> QED BY <2>4, <2>5
<1>7. CASE RecordRun
  <2>1. UNCHANGED <<run_idx, flown, simout>> /\ pc = "record" /\ pc' = "next"
    BY <1>7 DEF RecordRun
  <2>2. run_idx \in Runs /\ \A r \in Runs : Recorded(r)
    BY <1>0, <2>1 DEF Body, Consistent
  <2>3. \A r \in Runs : (Through(r)' <=> Through(r) \/ r = run_idx) /\ ~(Through(r) /\ r = run_idx)
    BY <1>0, <2>1 DEF Through
  <2>4. /\ results'.errored = results.errored
        /\ results'.min_dist[run_idx] = simout
        /\ results'.avoided[run_idx] <=> simout > R_safe
        /\ \A r \in Runs : r # run_idx => /\ results'.min_dist[r] = results.min_dist[r]
                                          /\ results'.avoided[r] = results.avoided[r]
    BY <1>0, <1>7, <2>2, RecordEffect DEF Results
  <2> SUFFICES ASSUME NEW r \in Runs PROVE Recorded(r)'
    BY <2>1 DEF Consistent
  <2>5. CASE r # run_idx
    BY <2>1, <2>2, <2>3, <2>4, <2>5 DEF Recorded
  <2>6. CASE r = run_idx
    <3>1. flown[r] # NoFlight /\ flown[r].dist = simout /\ ~results.errored[r]
      BY <2>1, <2>2, <2>3, <2>6 DEF Recorded
    <3> QED BY <2>1, <2>3, <2>4, <2>6, <3>1 DEF Recorded
  <2> QED BY <2>5, <2>6
<1>8. CASE Catch
  <2>1. /\ UNCHANGED <<run_idx, flown, simout>> /\ pc = "catch" /\ pc' = "next"
        /\ results' = [results EXCEPT !.errored[run_idx] = TRUE]
    BY <1>8 DEF Catch
  <2>2. run_idx \in Runs /\ \A r \in Runs : Recorded(r)
    BY <1>0, <2>1 DEF Body, Consistent
  <2>3. \A r \in Runs : (Through(r)' <=> Through(r) \/ r = run_idx) /\ ~(Through(r) /\ r = run_idx)
    BY <1>0, <2>1 DEF Through
  <2>4. /\ results'.min_dist = results.min_dist /\ results'.avoided = results.avoided
        /\ results'.errored[run_idx]
        /\ \A r \in Runs : r # run_idx => results'.errored[r] = results.errored[r]
    BY <1>0, <2>1, <2>2 DEF Results
  <2> SUFFICES ASSUME NEW r \in Runs PROVE Recorded(r)'
    BY <2>1 DEF Consistent
  <2>5. CASE r # run_idx
    BY <2>1, <2>2, <2>3, <2>4, <2>5 DEF Recorded
  <2>6. CASE r = run_idx
    <3>1. flown[r] = NoFlight
      BY <2>1, <2>2, <2>3, <2>6 DEF Recorded
    <3> QED BY <2>1, <2>3, <2>4, <2>6, <3>1 DEF Recorded
  <2> QED BY <2>5, <2>6
<1>9. CASE UNCHANGED vars
  BY <1>9 DEF vars, Consistent, Recorded, Through
<1> QED BY <1>1, <1>2, <1>3, <1>4, <1>5, <1>6, <1>7, <1>8, <1>9 DEF Next

-----------------------------------------------------------------------------
(* The summary                                                              *)

\* When the loop is over the runs without an error are those that were flown.
LEMMA AllRecorded ==
    ASSUME Typed, Consistent, pc = "next", run_idx = N_runs
    PROVE  /\ valid = {r \in Runs : flown[r] # NoFlight}
           /\ \A r \in valid : /\ results.min_dist[r] = flown[r].dist /\ flown[r].dist \in Int
                               /\ results.avoided[r] <=> flown[r].dist > R_safe
<1>1. \A r \in Runs : Through(r) /\ Recorded(r)
  BY Numbers DEF Consistent, Through
<1>2. \A r \in Runs : ~results.errored[r] <=> flown[r] # NoFlight
  BY <1>1 DEF Recorded
<1>3. \A r \in Runs : flown[r] # NoFlight => results.min_dist[r] = flown[r].dist
  BY <1>1 DEF Recorded
<1>4. \A r \in Runs : ~results.errored[r] => (results.avoided[r] <=> results.min_dist[r] > R_safe)
  BY <1>1 DEF Recorded
<1>5. \A r \in Runs : flown[r] \in Flights
  BY DEF Typed
<1>6. \A r \in Runs : flown[r].dist \in Int
  <2>1. Distances \cup {Inf, NaN} \subseteq Int
    BY Numbers DEF NaN
  <2>2. \A r \in Runs : flown[r].dist \in Distances \cup {Inf, NaN}
    BY <1>5 DEF Flights
  <2> QED BY <2>1, <2>2
<1> QED BY <1>2, <1>3, <1>4, <1>6 DEF valid

\* The summary of consistent results is right.
LEMMA SummariseReports ==
    ASSUME Typed, Consistent, Summarise
    PROVE  CountsAddUp' /\ CasesChosen'
<1> DEFINE ended == {r \in Runs : flown[r] # NoFlight}
           hit == {r \in ended : flown[r].dist <= R_safe}
           dodged == {r \in ended : flown[r].dist > R_safe}
<1>1. /\ pc = "next" /\ run_idx = N_runs /\ UNCHANGED <<results, flown>>
      /\ summary' = [n_avoided |-> Cardinality({r \in valid : results.avoided[r]}),
                     n_collision |-> Cardinality(valid) - Cardinality({r \in valid : results.avoided[r]}),
                     n_errors |-> N_runs - Cardinality(valid), cases |-> case_indices]
  BY DEF Summarise, outVars
<1>2. /\ valid = ended
      /\ \A r \in ended : /\ results.min_dist[r] = flown[r].dist /\ flown[r].dist \in Int
                          /\ results.avoided[r] <=> flown[r].dist > R_safe
  BY <1>1, AllRecorded
<1>3. {r \in valid : results.avoided[r]} = dodged
  BY <1>2
<1>4. Cardinality(ended) - Cardinality(dodged) = Cardinality(hit)
  <2>1. IsFiniteSet(Runs) /\ ended \in SUBSET Runs
    <3>1. IsFiniteSet(1 .. N_runs)
      BY Numbers, FS_Interval
    <3> QED BY <3>1 DEF Runs
  <2>2. IsFiniteSet(ended)
    BY <2>1, FS_Subset
  <2>3. \A r \in ended : flown[r].dist <= R_safe <=> ~(flown[r].dist > R_safe)
    BY <1>2, Numbers
  <2>4. ended \ dodged = hit /\ ended \cap dodged = dodged
    BY <2>3
  <2> HIDE DEF ended, hit, dodged
  <2>5. /\ Cardinality(ended \ dodged) = Cardinality(ended) - Cardinality(ended \cap dodged)
        /\ Cardinality(ended) \in Nat
    BY <2>2, FS_Difference, FS_CardinalityType
  <2> QED BY <2>4, <2>5
<1> HIDE DEF hit, dodged
<1>5. /\ summary'.n_avoided = Cardinality(dodged) /\ summary'.n_collision = Cardinality(hit)
      /\ summary'.n_errors = N_runs - Cardinality(ended) /\ summary'.cases = case_indices
  BY <1>1, <1>2, <1>3, <1>4
<1>6. CountsAddUp'
  BY <1>1, <1>5 DEF CountsAddUp, dodged, hit
<1>7. CASE valid = {}
  <2>1. summary'.cases = <<>>
    BY <1>5, <1>7 DEF case_indices
  <2> QED BY <1>6, <2>1 DEF CasesChosen
<1>8. CASE valid # {}
  <2>1. results \in Results
    BY DEF Typed
  <2>2. PICK best, tight, worst \in valid :
          /\ case_indices = <<best, tight, worst>>
          /\ \A q \in valid : /\ results.min_dist[q] <= results.min_dist[best]
                              /\ results.min_dist[worst] <= results.min_dist[q]
          /\ \A q \in valid : results.avoided[q] =>
                 results.avoided[tight] /\ results.min_dist[tight] <= results.min_dist[q]
    BY <1>8, <2>1, CaseFacts
  <2>3. summary'.cases[1] = best /\ summary'.cases[2] = tight /\ summary'.cases[3] = worst
    BY <1>5, <2>2
  <2>4. /\ best \in ended /\ worst \in ended
        /\ \A q \in ended : flown[q].dist <= flown[best].dist /\ flown[worst].dist <= flown[q].dist
    BY <1>2, <2>2
  <2>5. dodged # {} => tight \in dodged /\ \A q \in dodged : flown[tight].dist <= flown[q].dist
    BY <1>2, <2>2 DEF dodged
  <2>6. CasesChosen'
    BY <1>1, <2>3, <2>4, <2>5 DEF CasesChosen, dodged
  <2> QED BY <1>6, <2>6
<1> QED BY <1>7, <1>8

\* The summary stays right, and a new session clears it with its results.
LEMMA ReportedStep == Typed /\ Consistent /\ Reported /\ [Next]_vars => Reported'
<1> SUFFICES ASSUME Typed, Consistent, Reported, [Next]_vars PROVE Reported'
  OBVIOUS
<1> USE DEF runVars, modelVars, outVars
<1>1. CASE StartScript
  <2>1. summary'.cases = <<>> /\ pc' # "done"
    BY <1>1 DEF StartScript, NoSummary
  <2> QED BY <2>1 DEF Reported, CountsAddUp, CasesChosen
<1>2. CASE EndScript
  BY <1>2 DEF EndScript, Reported, CountsAddUp, CasesChosen
<1>3. CASE DemoSetup \/ DemoSim \/ BuildOnce \/ WarmedUp \/ NextRun \/ LoadPair
  <2>1. UNCHANGED summary /\ pc \notin {"idle", "done"} /\ pc' # "done"
    BY <1>3 DEF DemoSetup, DemoSim, BuildOnce, WarmedUp, NextRun, LoadPair
  <2> QED BY <2>1 DEF Reported, CountsAddUp, CasesChosen
<1>4. CASE SetupRun \/ SeedEkf \/ Simulate \/ RecordRun \/ Catch
  <2>1. UNCHANGED summary /\ pc \notin {"idle", "done"} /\ pc' # "done"
    BY <1>4 DEF SetupRun, SeedEkf, Simulate, RecordRun, Catch
  <2> QED BY <2>1 DEF Reported, CountsAddUp, CasesChosen
<1>5. CASE Summarise
  <2>1. pc' = "done" /\ run_idx' = N_runs
    BY <1>5 DEF Summarise
  <2> QED BY <1>5, <2>1, SummariseReports DEF Reported
<1>6. CASE UNCHANGED vars
  BY <1>6 DEF vars, Reported, CountsAddUp, CasesChosen
<1> QED BY <1>1, <1>2, <1>3, <1>4, <1>5, <1>6 DEF Next

-----------------------------------------------------------------------------
(* Results                                                                  *)

\* The invariant holds in a new workspace.
LEMMA InitInv == Init => IInv
<1> SUFFICES ASSUME Init PROVE IInv
  OBVIOUS
<1>1. Typed
  <2>1. /\ userStruct \in Users /\ full_userStruct \in Users /\ SimIn \in Inputs
        /\ SimPar \in Inputs /\ results \in Results /\ flown \in [{0} \cup Runs -> Flights]
    BY Blanks DEF Init
  <2>2. /\ 0 \in 0 .. MaxSessions /\ 0 \in 0 .. N_runs
    BY Numbers, SessionsAssumption
  <2>3. simIn \in [ekf : Pairs, stop : Pairs] /\ bball_pwcurve \in Pairs
    BY Numbers DEF Init
  <2>4. summary.cases = <<>>
    BY DEF Init, NoSummary
  <2>5. pc = "idle" /\ session = 0 /\ mode = "batch" /\ run_idx = 0 /\ simout = NaN
        /\ modelStop = FileStop /\ warmup_stop = FileStop
    BY DEF Init
  <2>6. pc \notin Body
    BY <2>5 DEF Body
  <2> QED BY <2>1, <2>2, <2>3, <2>4, <2>5, <2>6, Zenon DEF Typed
<1>2. SetUp /\ Consistent
  BY DEF Init, SetUp, Consistent
<1>3. Reported
  <2>1. summary.cases = <<>> /\ pc = "idle"
    BY DEF Init, NoSummary
  <2> QED BY <2>1 DEF Reported, CountsAddUp, CasesChosen
<1>4. OwnTrajectories /\ DemoStartsOnPath
  <2>1. \A r \in {0} \cup Runs : flown[r] = NoFlight
    BY DEF Init
  <2> QED BY <2>1 DEF OwnTrajectories, DemoStartsOnPath
<1> QED BY <1>1, <1>2, <1>3, <1>4 DEF IInv

\* The inductive invariant holds in every state of every session.
LEMMA Invariance == Spec => []IInv
<1>1. IInv /\ [Next]_vars => IInv'
  BY TypedStep, SetUpStep, FlownStep, ConsistentStep, ReportedStep DEF IInv
<1> QED BY InitInv, <1>1, PTL DEF Spec

\* The workspace of the script has its types.
THEOREM TypeCorrect == Spec => []TypeOK
<1>1. IInv => TypeOK
  BY TypedImplies DEF IInv
<1> QED BY <1>1, Invariance, PTL

\* Each run of a batch flies, avoids and seeds what its own pair says.
THEOREM RunsFlyTheirOwnPair == Spec => []OwnTrajectories
<1>1. IInv => OwnTrajectories
  BY DEF IInv
<1> QED BY <1>1, Invariance, PTL

\* A demonstration starts on its own path whatever the workspace held before.
THEOREM DemonstrationStartsOnPath == Spec => []DemoStartsOnPath
<1>1. IInv => DemoStartsOnPath
  BY DEF IInv
<1> QED BY <1>1, Invariance, PTL

\* The summary counts each run once.
THEOREM CountsAreRight == Spec => []CountsAddUp
<1>1. IInv => CountsAddUp
  BY DEF IInv, Reported
<1> QED BY <1>1, Invariance, PTL

\* The cases of the figure are the extreme ones of the runs flown.
THEOREM CasesAreExtreme == Spec => []CasesChosen
<1>1. IInv => CasesChosen
  BY DEF IInv, Reported
<1> QED BY <1>1, Invariance, PTL
==============================================================================
