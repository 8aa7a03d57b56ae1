------------------------- MODULE FlightAnalysis_proof --------------------------
(***************************************************************************)
(* Proofs about the analyzer of a flight for any window, interval,         *)
(* embedding and fraction, any number of poses and restarts: its reference *)
(* comes from one analysis, is never tested against itself, and every      *)
(* analysis that was due is accounted for.                                 *)
(***************************************************************************)
EXTENDS FlightAnalysis, FiniteSetTheorems, SequenceTheorems, TLAPS

\* The analyzer counts no more poses than were sent, and its buffer is full
\* from the step on that fills it.
Counted ==
    /\ step_counter + Len(inbox) <= sent
    /\ Len(pose_buffer) = IF step_counter < BufferSize THEN step_counter ELSE BufferSize
    /\ analysis_ready <=> step_counter >= BufferSize

\* The analysis that made the reference was due, and earlier than those that
\* were tracked.
Referenced ==
    /\ ReferenceFromOneAnalysis
    /\ reference_established =>
           reference.statistics \in 1 .. step_counter /\ reference.statistics % Interval = 0
    /\ ~reference_established => psw_history = <<>> /\ results = <<>>
    /\ \A k \in DOMAIN psw_history :
           /\ psw_history[k] % Interval = 0
           /\ reference.statistics < psw_history[k] /\ psw_history[k] <= step_counter
    /\ \A k \in DOMAIN results :
           /\ results[k] % Interval = 0
           /\ reference.statistics < results[k] /\ results[k] <= step_counter

-----------------------------------------------------------------------------
(* Arithmetic, queues and histories                                         *)

\* Two multiples of n are at least n apart.
LEMMA Multiples ==
    ASSUME NEW n \in Nat \ {0}, NEW a \in Nat, NEW b \in Nat,
           a % n = 0, b % n = 0, a < b
    PROVE  a + n <= b
<1>1. a = n * (a \div n) + (a % n) /\ b = n * (b \div n) + (b % n)
  OBVIOUS
<1> DEFINE p == a \div n
           q == b \div n
<1>2. p \in Int /\ q \in Int /\ a = n * p /\ b = n * q
  BY <1>1
<1> HIDE DEF p, q
<1>3. p < q
  <2>1. SUFFICES ASSUME q <= p PROVE FALSE
    BY <1>2
  <2>2. n * q <= n * p
    BY <1>2, <2>1
  <2> QED BY <1>2, <2>2
<1>4. n * (p + 1) <= n * q
  BY <1>2, <1>3
<1>5. n * (p + 1) = n * p + n
  BY <1>2
<1> QED BY <1>2, <1>4, <1>5

\* Products grow with a factor.
LEMMA Products ==
    ASSUME NEW d \in Nat, NEW i \in Nat, NEW k \in Nat, i <= k
    PROVE  i * d <= k * d /\ i * d \in Nat /\ k * d \in Nat
OBVIOUS

\* A KEEP_LAST queue stays within its depth, and grows until it is full.
LEMMA EnqueueTypes ==
    ASSUME NEW M, NEW s \in Seq(M), NEW m \in M, NEW depth \in Nat \ {0}, Len(s) <= depth
    PROVE  LET e == Enqueue(s, m, depth)
           IN  /\ e \in Seq(M)
               /\ Len(e) = IF Len(s) < depth THEN Len(s) + 1 ELSE depth
<1>1. CASE Len(s) < depth
  <2>1. Enqueue(s, m, depth) = Append(s, m)
    BY <1>1 DEF Enqueue
  <2> QED BY <1>1, <2>1
<1>2. CASE ~(Len(s) < depth)
  <2>1. Enqueue(s, m, depth) = Append(Tail(s), m)
    BY <1>2 DEF Enqueue
  <2>2. s # <<>> /\ Tail(s) \in Seq(M) /\ Len(Tail(s)) = depth - 1
    BY <1>2
  <2> QED BY <1>2, <2>1, <2>2
<1> QED BY <1>1, <1>2

\* What taking the oldest message leaves.
LEMMA TailTypes ==
    ASSUME NEW M, NEW s \in Seq(M), s # <<>>
    PROVE  Tail(s) \in Seq(M) /\ Len(Tail(s)) = Len(s) - 1 /\ Len(s) \in Nat \ {0} /\ Head(s) \in M
OBVIOUS

\* A step that is later than all of a history keeps the history in order.
LEMMA HistoryGrows ==
    ASSUME NEW M, NEW s \in Seq(M), NEW c \in M, M \subseteq Nat,
           \A k \in DOMAIN s : s[k] < c,
           \A i, j \in DOMAIN s : i < j => s[i] < s[j]
    PROVE  LET e == Append(s, c)
           IN  /\ e \in Seq(M) /\ Len(e) = Len(s) + 1
               /\ \A k \in DOMAIN e : (k \in DOMAIN s /\ e[k] = s[k]) \/ e[k] = c
               /\ ToSet(e) = ToSet(s) \cup {c}
               /\ \A i, j \in DOMAIN e : i < j => e[i] < e[j]
<1> DEFINE e == Append(s, c)
<1>1. /\ e \in Seq(M) /\ Len(e) = Len(s) + 1 /\ Len(s) \in Nat
      /\ DOMAIN s = 1 .. Len(s) /\ DOMAIN e = 1 .. (Len(s) + 1)
      /\ e[Len(s) + 1] = c /\ \A k \in DOMAIN s : e[k] = s[k]
  OBVIOUS
<1> HIDE DEF e
<1>2. \A k \in DOMAIN e : (k \in DOMAIN s /\ e[k] = s[k]) \/ (k = Len(s) + 1 /\ e[k] = c)
  BY <1>1
<1>3. ToSet(e) = ToSet(s) \cup {c}
  BY <1>1, <1>2 DEF ToSet
<1>4. \A i, j \in DOMAIN e : i < j => e[i] < e[j]
  <2> SUFFICES ASSUME NEW i \in DOMAIN e, NEW j \in DOMAIN e, i < j PROVE e[i] < e[j]
    OBVIOUS
  <2>1. i \in DOMAIN s /\ e[i] = s[i]
    BY <1>1, <1>2
  <2> QED BY <1>2, <2>1
<1> QED BY <1>1, <1>2, <1>3, <1>4 DEF e

-----------------------------------------------------------------------------
(* What an analysis does                                                    *)

References ==
    [data : Steps, nn : Steps, successors : Steps, statistics : Steps, dim : Dims \cup {0}]

\* An analysis at step c raises, makes the reference, or tracks the window.
Raises(c) ==
    /\ raised' = raised \cup {c}
    /\ reference_established => reference' = reference
    /\ ~reference_established => reference'.statistics = reference.statistics
    /\ UNCHANGED <<reference_established, psw_history, results>>

Makes(c) ==
    /\ ~reference_established /\ reference_established'
    /\ reference'.data = c /\ reference'.nn = c /\ reference'.successors = c
    /\ reference'.statistics = c
    /\ UNCHANGED <<psw_history, results, raised>>

Tracks(c) ==
    /\ reference_established
    /\ psw_history' = Append(psw_history, c)
    /\ results' \in {results, Append(results, c)}
    /\ UNCHANGED <<reference, reference_established, raised>>

\* Every analysis is one of the three.
LEMMA AnalysisCases ==
    ASSUME TypeOK, NEW c \in Steps, Psw!perform_psw_analysis(c)
    PROVE  /\ Raises(c) \/ Makes(c) \/ Tracks(c)
           /\ reference' \in References
<1>1. reference \in References /\ reference_established \in BOOLEAN
  BY DEF TypeOK, References
<1>2. CASE Psw!Raise(c) /\ UNCHANGED <<reference, reference_established>>
  BY <1>1, <1>2 DEF Psw!Raise, Raises
<1>3. ASSUME NEW dim \in Dims, reference_established, Psw!track(c, dim)
      PROVE  (Raises(c) \/ Makes(c) \/ Tracks(c)) /\ reference' \in References
  BY <1>1, <1>3 DEF Psw!track, Psw!Raise, Raises, Tracks
<1>4. ASSUME NEW dim \in Dims, ~reference_established,
             Psw!establish_reference_manifold(c, dim)
      PROVE  (Raises(c) \/ Makes(c) \/ Tracks(c)) /\ reference' \in References
  <2> DEFINE data == [reference EXCEPT !.data = c, !.dim = dim]
             fitted == [data EXCEPT !.nn = c, !.successors = c]
             done == [fitted EXCEPT !.statistics = c]
  <2>1. data \in References /\ data.statistics = reference.statistics
    BY <1>1 DEF References
  <2>2. fitted \in References /\ fitted.statistics = reference.statistics
    BY <1>1 DEF References
  <2>3. /\ done \in References /\ done.data = c /\ done.nn = c /\ done.successors = c
        /\ done.statistics = c
    BY <1>1 DEF References
  <2>4. \/ reference' \in {data, fitted} /\ UNCHANGED reference_established /\ Psw!Raise(c)
        \/ /\ reference' = done /\ reference_established' = TRUE
           /\ UNCHANGED <<psw_history, results, raised>>
    BY <1>4 DEF Psw!establish_reference_manifold
  <2> HIDE DEF data, fitted, done
  <2> QED BY <1>4, <2>1, <2>2, <2>3, <2>4 DEF Psw!Raise, Raises, Makes
<1> QED BY <1>2, <1>3, <1>4 DEF Psw!perform_psw_analysis

\* The queues of the instances are the same.
LEMMA SameEnqueue ==
    \A s, m, depth : /\ Psw!Enqueue(s, m, depth) = Enqueue(s, m, depth)
                     /\ Plot!Enqueue(s, m, depth) = Enqueue(s, m, depth)
BY DEF Psw!Enqueue, Plot!Enqueue, Enqueue

\* What pose_callback does besides the analysis: it counts and buffers the pose.
LEMMA CallbackCounts ==
    ASSUME TypeOK, Counted, Psw!pose_callback
    PROVE  /\ step_counter' = step_counter + 1 /\ step_counter + 1 \in Steps
           /\ inbox' \in Seq({"pose"}) /\ Len(inbox') <= QueueDepth
           /\ pose_buffer' \in Seq({"pose"}) /\ Len(pose_buffer') <= BufferSize
           /\ analysis_ready' \in BOOLEAN
           /\ listening' = listening
           /\ sent' = sent => Counted'
<1>1. /\ inbox \in Seq({"pose"}) /\ inbox # <<>> /\ Len(inbox) <= QueueDepth
      /\ pose_buffer \in Seq({"pose"}) /\ Len(pose_buffer) <= BufferSize
      /\ inbox' = Tail(inbox)
      /\ pose_buffer' = Psw!Enqueue(pose_buffer, Head(inbox), BufferSize)
      /\ step_counter' = step_counter + 1 /\ listening' = listening
      /\ analysis_ready' = (analysis_ready \/ Len(pose_buffer') = BufferSize)
  BY DEF Psw!pose_callback, TypeOK
<1>2. /\ QueueDepth \in Nat \ {0} /\ BufferSize \in Nat \ {0} /\ MaxSent \in Nat
  BY DepthsAssumption, WindowAssumption, LimitsAssumption
<1>3. sent \in 0 .. MaxSent /\ step_counter \in 0 .. MaxSent /\ analysis_ready \in BOOLEAN
  BY DEF TypeOK, Steps
<1>4. /\ inbox' \in Seq({"pose"}) /\ Len(inbox') = Len(inbox) - 1 /\ Len(inbox) \in Nat \ {0}
      /\ Head(inbox) \in {"pose"}
  BY <1>1, TailTypes
<1>5. /\ pose_buffer' \in Seq({"pose"})
      /\ Len(pose_buffer') = IF Len(pose_buffer) < BufferSize THEN Len(pose_buffer) + 1
                             ELSE BufferSize
  BY <1>1, <1>2, <1>4, EnqueueTypes, SameEnqueue
<1>6. Len(pose_buffer) \in Nat /\ Len(inbox') \in Nat
  BY <1>1, <1>4
<1>7. Len(pose_buffer') <= BufferSize /\ Len(inbox') <= QueueDepth
  BY <1>1, <1>2, <1>4, <1>5, <1>6
<1>8. step_counter + 1 \in Steps
  BY <1>2, <1>3, <1>4 DEF Counted, Steps
<1>9. analysis_ready' \in BOOLEAN
  BY <1>1, <1>3
<1>10. Len(pose_buffer') = IF step_counter' < BufferSize THEN step_counter' ELSE BufferSize
  BY <1>1, <1>2, <1>3, <1>5, <1>6 DEF Counted
<1>13. /\ step_counter' >= BufferSize
              <=> step_counter >= BufferSize \/ Len(pose_buffer') = BufferSize
  BY <1>1, <1>2, <1>3, <1>5, <1>6 DEF Counted
<1>14. analysis_ready <=> step_counter >= BufferSize
  BY DEF Counted
<1>11. analysis_ready' <=> step_counter' >= BufferSize
  BY <1>1, <1>13, <1>14, Zenon
<1>12. sent' = sent => step_counter' + Len(inbox') <= sent'
  BY <1>1, <1>3, <1>4, <1>6 DEF Counted
<1> QED BY <1>1, <1>4, <1>5, <1>7, <1>8, <1>9, <1>10, <1>11, <1>12 DEF Counted

\* An analysis is due at a multiple of the interval from the first full buffer on.
LEMMA CallbackAnalyzes ==
    ASSUME TypeOK, Counted, Psw!pose_callback
    PROVE  LET c == step_counter + 1
           IN  IF c >= BufferSize /\ c % Interval = 0
               THEN Psw!perform_psw_analysis(c)
               ELSE UNCHANGED <<reference, reference_established, psw_history, results, raised>>
<1>1. step_counter' = step_counter + 1
  BY CallbackCounts
<1>2. /\ analysis_ready <=> step_counter >= BufferSize
      /\ step_counter \in Nat /\ BufferSize \in Nat /\ Len(pose_buffer) \in Nat
      /\ Len(pose_buffer) = IF step_counter < BufferSize THEN step_counter ELSE BufferSize
  BY WindowAssumption, LimitsAssumption DEF TypeOK, Counted, Steps
<1>5. Len(pose_buffer') = IF Len(pose_buffer) < BufferSize THEN Len(pose_buffer) + 1
                          ELSE BufferSize
  <2>1. /\ pose_buffer' = Psw!Enqueue(pose_buffer, Head(inbox), BufferSize)
        /\ inbox \in Seq({"pose"}) /\ inbox # <<>>
        /\ pose_buffer \in Seq({"pose"}) /\ Len(pose_buffer) <= BufferSize
        /\ BufferSize \in Nat \ {0}
    BY WindowAssumption DEF Psw!pose_callback, TypeOK
  <2> QED BY <2>1, TailTypes, EnqueueTypes, SameEnqueue
<1>6. step_counter' >= BufferSize
          <=> step_counter >= BufferSize \/ Len(pose_buffer') = BufferSize
  BY <1>1, <1>2, <1>5
<1>3. Psw!Due(pose_buffer', step_counter')
          <=> step_counter' >= BufferSize /\ step_counter' % Interval = 0
  BY <1>2, <1>6, Zenon DEF Psw!Due
<1>4. IF Psw!Due(pose_buffer', step_counter')
      THEN Psw!perform_psw_analysis(step_counter')
      ELSE UNCHANGED <<reference, reference_established, psw_history, results, raised>>
  BY DEF Psw!pose_callback
<1> QED BY <1>1, <1>3, <1>4

-----------------------------------------------------------------------------
(* The invariant of the analyzer                                            *)

Made == IF reference_established THEN {reference.statistics} ELSE {}
DueAt(n) == {c \in BufferSize .. n : c % Interval = 0}

\* AnalysesAccounted with names for its sets.
Accounted ==
    /\ DueAt(step_counter) = Made \cup raised \cup ToSet(psw_history)
    /\ Cardinality(DueAt(step_counter)) =
           Cardinality(Made) + Cardinality(raised) + Len(psw_history)

InOrder ==
    /\ \A i, j \in DOMAIN psw_history : i < j => psw_history[i] < psw_history[j]
    /\ \A i, j \in DOMAIN results : i < j => results[i] < results[j]
    /\ ToSet(results) \subseteq ToSet(psw_history)

\* The property is the account by sets and the order of the histories.
LEMMA AccountedParts == AnalysesAccounted <=> Accounted /\ InOrder
BY DEF AnalysesAccounted, Accounted, InOrder, Made, DueAt

\* The next step is due or not, and was not due before.
LEMMA DueGrows ==
    ASSUME NEW n \in Nat
    PROVE  /\ IsFiniteSet(DueAt(n)) /\ n + 1 \notin DueAt(n)
           /\ DueAt(n + 1) = IF n + 1 >= BufferSize /\ (n + 1) % Interval = 0
                             THEN DueAt(n) \cup {n + 1} ELSE DueAt(n)
<1>1. BufferSize \in Nat /\ n + 1 \in Nat
  BY WindowAssumption
<1>2. IsFiniteSet(BufferSize .. n)
  BY <1>1, FS_Interval
<1>3. DueAt(n) \subseteq BufferSize .. n
  BY DEF DueAt
<1>4. n + 1 >= BufferSize => BufferSize .. (n + 1) = (BufferSize .. n) \cup {n + 1}
  BY <1>1
<1>6. DueAt(n + 1) = IF n + 1 >= BufferSize /\ (n + 1) % Interval = 0
                    THEN DueAt(n) \cup {n + 1} ELSE DueAt(n)
  <2>1. CASE n + 1 >= BufferSize /\ (n + 1) % Interval = 0
    BY <1>4, <2>1 DEF DueAt
  <2>2. CASE n + 1 >= BufferSize /\ (n + 1) % Interval # 0
    BY <1>4, <2>2 DEF DueAt
  <2>3. CASE ~(n + 1 >= BufferSize)
    <3>1. BufferSize .. n = {} /\ BufferSize .. (n + 1) = {}
      BY <1>1, <2>3
    <3> QED BY <2>3, <3>1 DEF DueAt
  <2> QED BY <2>1, <2>2, <2>3
<1>7. IsFiniteSet(DueAt(n))
  BY <1>2, <1>3, FS_Subset
<1>8. n + 1 \notin DueAt(n)
  BY <1>1, <1>3
<1> QED BY <1>6, <1>7, <1>8

\* A step that is in no set of the account yet goes into one of them.
LEMMA AnalyzeAccounted ==
    ASSUME TypeOK, Counted, Referenced, Accounted, Psw!pose_callback
    PROVE  Accounted'
<1> DEFINE c == step_counter + 1
           Due == c >= BufferSize /\ c % Interval = 0
<1>1. /\ step_counter' = c /\ c \in Steps /\ step_counter \in Nat
  <2>1. step_counter' = c /\ c \in Steps
    BY CallbackCounts
  <2>2. step_counter \in 0 .. MaxSent /\ MaxSent \in Nat
    BY LimitsAssumption DEF TypeOK, Steps
  <2> QED BY <2>1, <2>2
<1>2. /\ IsFiniteSet(DueAt(step_counter)) /\ c \notin DueAt(step_counter)
      /\ DueAt(step_counter)' = IF Due THEN DueAt(step_counter) \cup {c} ELSE DueAt(step_counter)
  <2>1. DueAt(step_counter)' = DueAt(c)
    BY <1>1 DEF DueAt
  <2> QED BY <1>1, <2>1, DueGrows
<1>3. /\ IsFiniteSet(raised) /\ IsFiniteSet(Made) /\ c \notin raised
      /\ psw_history \in Seq(Steps)
  BY <1>2, FS_Subset DEF Accounted, TypeOK
<1>4. /\ Cardinality(DueAt(step_counter)) \in Nat /\ Cardinality(raised) \in Nat
      /\ Cardinality(Made) \in Nat /\ Len(psw_history) \in Nat
      /\ Cardinality(DueAt(step_counter) \cup {c}) = Cardinality(DueAt(step_counter)) + 1
      /\ Cardinality(raised \cup {c}) = Cardinality(raised) + 1
  <2>1. /\ Cardinality(DueAt(step_counter)) \in Nat /\ Cardinality(raised) \in Nat
        /\ Cardinality(Made) \in Nat
    BY <1>2, <1>3, FS_CardinalityType
  <2>2. Len(psw_history) \in Nat
    BY <1>3
  <2> HIDE DEF c
  <2>3. /\ Cardinality(DueAt(step_counter) \cup {c}) = Cardinality(DueAt(step_counter)) + 1
        /\ Cardinality(raised \cup {c}) = Cardinality(raised) + 1
    BY <1>2, <1>3, FS_AddElement
  <2> QED BY <2>1, <2>2, <2>3
<1> HIDE DEF c
<1>5. CASE ~Due
  <2>1. UNCHANGED <<reference, reference_established, psw_history, results, raised>>
    BY <1>5, CallbackAnalyzes DEF c
  <2> QED BY <1>2, <1>5, <2>1 DEF Accounted, Made
<1>6. CASE Due
  <2>1. Raises(c) \/ Makes(c) \/ Tracks(c)
    <3>1. Psw!perform_psw_analysis(c)
      BY <1>6, CallbackAnalyzes DEF c
    <3> QED BY <1>1, <3>1, AnalysisCases
  <2>2. DueAt(step_counter)' = DueAt(step_counter) \cup {c}
    BY <1>2, <1>6
  <2> HIDE DEF Due
  <2>3. CASE Raises(c)
    <3>1. Made' = Made /\ raised' = raised \cup {c} /\ psw_history' = psw_history
      BY <2>3 DEF Raises, Made
    <3> QED BY <1>4, <2>2, <3>1 DEF Accounted
  <2>4. CASE Makes(c)
    <3>1. Made = {} /\ Made' = {c} /\ raised' = raised /\ psw_history' = psw_history
      BY <2>4 DEF Makes, Made
    <3>2. Cardinality(Made) = 0 /\ Cardinality(Made') = 1
      BY <3>1, FS_EmptySet, FS_Singleton
    <3> QED BY <1>4, <2>2, <3>1, <3>2 DEF Accounted
  <2>5. CASE Tracks(c)
    <3>1. Made' = Made /\ raised' = raised /\ psw_history' = Append(psw_history, c)
      BY <2>5 DEF Tracks, Made
    <3>2. /\ Len(psw_history') = Len(psw_history) + 1
          /\ ToSet(psw_history') = ToSet(psw_history) \cup {c}
      <4>1. /\ Len(psw_history') = Len(psw_history) + 1
            /\ DOMAIN psw_history = 1 .. Len(psw_history)
            /\ DOMAIN psw_history' = 1 .. (Len(psw_history) + 1)
            /\ psw_history'[Len(psw_history) + 1] = c
            /\ \A k \in DOMAIN psw_history : psw_history'[k] = psw_history[k]
        BY <1>1, <1>3, <3>1
      <4> QED BY <1>4, <4>1 DEF ToSet
    <3> QED BY <1>4, <2>2, <3>1, <3>2 DEF Accounted
  <2> QED BY <2>1, <2>3, <2>4, <2>5
<1> QED BY <1>5, <1>6

\* What was analysed is older than the next step.
LEMMA Older ==
    ASSUME TypeOK, Referenced
    PROVE  LET c == step_counter + 1
           IN  /\ c \in Nat /\ step_counter \in Nat /\ reference.statistics \in Nat
               /\ reference_established =>
                      reference.statistics \in 1 .. c /\ reference.statistics < c
               /\ \A k \in DOMAIN psw_history :
                      psw_history[k] \in Nat /\ psw_history[k] < c /\ psw_history[k] <= c
               /\ \A k \in DOMAIN results :
                      results[k] \in Nat /\ results[k] < c /\ results[k] <= c
<1>1. /\ MaxSent \in Nat /\ Steps = 0 .. MaxSent /\ step_counter \in Steps
      /\ psw_history \in Seq(Steps) /\ results \in Seq(Steps)
  BY LimitsAssumption DEF TypeOK, Steps
<1>2. reference.statistics \in Steps
  BY DEF TypeOK
<1>3. \A k \in DOMAIN psw_history : psw_history[k] \in Steps /\ psw_history[k] <= step_counter
  BY <1>1 DEF Referenced
<1>4. \A k \in DOMAIN results : results[k] \in Steps /\ results[k] <= step_counter
  BY <1>1 DEF Referenced
<1>5. step_counter \in Nat /\ \A k \in Steps : k \in Nat /\ (k <= step_counter => k < step_counter + 1)
  BY <1>1
<1>6. reference_established => reference.statistics \in 1 .. step_counter
  BY DEF Referenced
<1>7. reference_established => /\ reference.statistics \in 1 .. (step_counter + 1)
                               /\ reference.statistics < step_counter + 1
  BY <1>5, <1>6
<1>8. \A k \in Nat : k < step_counter + 1 => k <= step_counter + 1
  BY <1>5
<1> QED BY <1>2, <1>3, <1>4, <1>5, <1>7, <1>8

\* Tracking appends to the histories; nothing else does.
LEMMA AnalyzeReferenced ==
    ASSUME TypeOK, Counted, Referenced, InOrder, Psw!pose_callback
    PROVE  /\ Referenced' /\ InOrder'
           /\ psw_history' \in Seq(Steps) /\ results' \in Seq(Steps) /\ raised' \subseteq Steps
           /\ reference' \in References /\ reference_established' \in BOOLEAN
<1> DEFINE c == step_counter + 1
           Due == c >= BufferSize /\ c % Interval = 0
<1>1. step_counter' = c /\ c \in Steps
  BY CallbackCounts
<1>2. /\ psw_history \in Seq(Steps) /\ results \in Seq(Steps) /\ raised \subseteq Steps
      /\ reference_established \in BOOLEAN
  BY DEF TypeOK
<1>3. reference \in References
  BY DEF TypeOK, References
<1>4. Steps \subseteq Nat
  BY LimitsAssumption DEF Steps
<1>5. /\ c \in Nat
      /\ reference_established => reference.statistics \in 1 .. c /\ reference.statistics < c
      /\ \A k \in DOMAIN psw_history :
             psw_history[k] \in Nat /\ psw_history[k] < c /\ psw_history[k] <= c
      /\ \A k \in DOMAIN results : results[k] \in Nat /\ results[k] < c /\ results[k] <= c
  BY Older
<1>6. ASSUME UNCHANGED <<psw_history, results, reference_established>>,
             reference_established => reference' = reference,
             reference'.statistics = reference.statistics
      PROVE  Referenced'
  <2> HIDE DEF c
  <2>1. ReferenceFromOneAnalysis'
    BY <1>6 DEF Referenced, ReferenceFromOneAnalysis
  <2>2. reference_established' => /\ reference'.statistics \in 1 .. step_counter'
                                  /\ reference'.statistics % Interval = 0
    BY <1>1, <1>5, <1>6 DEF Referenced
  <2> QED BY <1>1, <1>5, <1>6, <2>1, <2>2 DEF Referenced
<1>7. CASE ~Due
  <2>1. UNCHANGED <<reference, reference_established, psw_history, results, raised>>
    BY <1>7, CallbackAnalyzes
  <2> QED BY <1>2, <1>3, <1>6, <2>1 DEF InOrder
<1>8. CASE Due
  <2>1. Psw!perform_psw_analysis(c)
    BY <1>8, CallbackAnalyzes
  <2>2. (Raises(c) \/ Makes(c) \/ Tracks(c)) /\ reference' \in References
    BY <1>1, <2>1, AnalysisCases
  <2>4. c % Interval = 0 /\ c \in 1 .. c /\ c # 0 /\ c <= c
    BY <1>5, <1>8, WindowAssumption
  <2> HIDE DEF c, Due
  <2>5. CASE Raises(c)
    <3>1. /\ UNCHANGED <<reference_established, psw_history, results>>
          /\ raised' = raised \cup {c}
          /\ reference_established => reference' = reference
          /\ reference'.statistics = reference.statistics
      BY <2>5 DEF Raises
    <3>2. Referenced'
      BY <1>6, <3>1
    <3> QED BY <1>1, <1>2, <2>2, <3>1, <3>2 DEF InOrder
  <2>6. CASE Makes(c)
    <3>1. /\ ~reference_established /\ reference_established' = TRUE
          /\ reference'.data = c /\ reference'.nn = c /\ reference'.successors = c
          /\ reference'.statistics = c
          /\ UNCHANGED <<psw_history, results, raised>>
      BY <2>6 DEF Makes
    <3>2. psw_history' = <<>> /\ results' = <<>>
      BY <3>1 DEF Referenced
    <3>3. ReferenceFromOneAnalysis'
      BY <2>4, <3>1 DEF ReferenceFromOneAnalysis
    <3>4. Referenced'
      BY <1>1, <2>4, <3>1, <3>2, <3>3 DEF Referenced
    <3> QED BY <1>2, <2>2, <3>1, <3>2, <3>4 DEF InOrder
  <2>7. CASE Tracks(c)
    <3>1. /\ reference_established /\ psw_history' = Append(psw_history, c)
          /\ results' \in {results, Append(results, c)}
          /\ UNCHANGED <<reference, reference_established, raised>>
      BY <2>7 DEF Tracks
    <3>2. /\ \A i, j \in DOMAIN psw_history : i < j => psw_history[i] < psw_history[j]
          /\ \A i, j \in DOMAIN results : i < j => results[i] < results[j]
          /\ ToSet(results) \subseteq ToSet(psw_history)
      BY DEF InOrder
    <3>3. LET e == Append(psw_history, c)
          IN  /\ e \in Seq(Steps) /\ Len(e) = Len(psw_history) + 1
              /\ \A k \in DOMAIN e : (k \in DOMAIN psw_history /\ e[k] = psw_history[k]) \/ e[k] = c
              /\ ToSet(e) = ToSet(psw_history) \cup {c}
              /\ \A i, j \in DOMAIN e : i < j => e[i] < e[j]
      <4>1. c \in Steps /\ Steps \subseteq Nat /\ psw_history \in Seq(Steps)
        BY <1>1, <1>2, <1>4
      <4>2. \A k \in DOMAIN psw_history : psw_history[k] < c
        BY <1>5
      <4>3. \A i, j \in DOMAIN psw_history : i < j => psw_history[i] < psw_history[j]
        BY <3>2
      <4> QED BY <4>1, <4>2, <4>3, HistoryGrows
    <3>4. LET e == Append(results, c)
          IN  /\ e \in Seq(Steps) /\ Len(e) = Len(results) + 1
              /\ \A k \in DOMAIN e : (k \in DOMAIN results /\ e[k] = results[k]) \/ e[k] = c
              /\ ToSet(e) = ToSet(results) \cup {c}
              /\ \A i, j \in DOMAIN e : i < j => e[i] < e[j]
      <4>1. c \in Steps /\ Steps \subseteq Nat /\ results \in Seq(Steps)
        BY <1>1, <1>2, <1>4
      <4>2. \A k \in DOMAIN results : results[k] < c
        BY <1>5
      <4>3. \A i, j \in DOMAIN results : i < j => results[i] < results[j]
        BY <3>2
      <4> QED BY <4>1, <4>2, <4>3, HistoryGrows
    <3>6. psw_history' \in Seq(Steps) /\ results' \in Seq(Steps)
      BY <1>2, <3>1, <3>3, <3>4
    <3>7. InOrder'
      BY <3>1, <3>2, <3>3, <3>4 DEF InOrder
    <3>8. \A k \in DOMAIN psw_history' :
              /\ psw_history'[k] % Interval = 0
              /\ reference.statistics < psw_history'[k] /\ psw_history'[k] <= c
      BY <1>5, <2>4, <3>1, <3>3 DEF Referenced
    <3>9. \A k \in DOMAIN results' :
              /\ results'[k] % Interval = 0
              /\ reference.statistics < results'[k] /\ results'[k] <= c
      <4>1. CASE results' = results
        BY <1>5, <4>1 DEF Referenced
      <4>2. CASE results' = Append(results, c)
        BY <1>5, <2>4, <3>1, <3>4, <4>2 DEF Referenced
      <4> QED BY <3>1, <4>1, <4>2
    <3>10. reference_established => /\ reference.statistics \in 1 .. c
                                    /\ reference.statistics % Interval = 0
      BY <1>5 DEF Referenced
    <3>11. ReferenceFromOneAnalysis'
      BY <3>1 DEF Referenced, ReferenceFromOneAnalysis
    <3>12. Referenced'
      BY <1>1, <3>1, <3>8, <3>9, <3>10, <3>11 DEF Referenced
    <3> QED BY <1>2, <2>2, <3>1, <3>6, <3>7, <3>12
  <2> QED BY <2>2, <2>5, <2>6, <2>7
<1> QED BY <1>7, <1>8

\* A new process has analysed nothing.
LEMMA NothingAnalyzed ==
    ASSUME step_counter = 0, ~reference_established, psw_history = <<>>, results = <<>>,
           raised = {}, reference.statistics = 0
    PROVE  Referenced /\ Accounted /\ InOrder
<1>1. Referenced
  BY DEF Referenced, ReferenceFromOneAnalysis
<1>2. InOrder
  BY DEF InOrder, ToSet
<1>3. DueAt(0) = {}
  BY WindowAssumption DEF DueAt
<1>4. Cardinality({}) = 0 /\ Len(psw_history) = 0 /\ ToSet(psw_history) = {} /\ Made = {}
  BY FS_EmptySet DEF ToSet, Made
<1>5. Accounted
  BY <1>3, <1>4 DEF Accounted
<1> QED BY <1>1, <1>2, <1>5

-----------------------------------------------------------------------------
(* The steps                                                                *)

\* The parts of the type invariant.
AnalyzerTypes ==
    /\ listening \in BOOLEAN /\ analysis_ready \in BOOLEAN /\ reference_established \in BOOLEAN
    /\ inbox \in Seq({"pose"}) /\ Len(inbox) <= QueueDepth
    /\ pose_buffer \in Seq({"pose"}) /\ Len(pose_buffer) <= BufferSize
    /\ step_counter \in Steps
    /\ reference \in References
    /\ psw_history \in Seq(Steps) /\ results \in Seq(Steps) /\ raised \subseteq Steps
    /\ analyzers \in 0 .. MaxAnalyzers

PlotterTypes ==
    /\ spinning \in BOOLEAN /\ fignum_exists \in BOOLEAN
    /\ poses \in Seq(Poses) /\ Len(poses) <= PlotDepth
    /\ position \in Steps /\ current_orientation \in Steps
    /\ drawn \in [marker : Steps, arrow : Steps]
    /\ blanks \in 0 .. MaxBlanks /\ windows \in 0 .. MaxWindows
    /\ handed \in Steps

\* The type invariant splits into what the two programs can change.
LEMMA TypeParts == TypeOK <=> sent \in Steps /\ AnalyzerTypes /\ PlotterTypes
BY DEF TypeOK, AnalyzerTypes, PlotterTypes, References

\* The parts about the analyzer; the plotter only has types.
AnalyzerInv == AnalyzerTypes /\ Counted /\ Referenced /\ Accounted /\ InOrder

IInv == sent \in Steps /\ AnalyzerInv /\ PlotterTypes

\* What the inductive invariant implies.
LEMMA InvParts == IInv => TypeOK /\ Counted /\ Referenced /\ AnalysesAccounted
BY TypeParts, AccountedParts DEF IInv, AnalyzerInv

\* An empty queue is a queue of any depth.
LEMMA EmptyTypes ==
    ASSUME NEW M, NEW s, s = <<>>
    PROVE  s \in Seq(M) /\ Len(s) = 0 /\ \A depth \in Nat : Len(s) <= depth
OBVIOUS

\* What a step of the plotter or of the flight leaves alone.
LEMMA AnalyzerStill ==
    ASSUME AnalyzerInv, sent' = sent, UNCHANGED pswVars, analyzers' = analyzers
    PROVE  AnalyzerInv'
<1>1. UNCHANGED <<listening, inbox, pose_buffer, step_counter, analysis_ready,
                  reference_established, reference, psw_history, results, raised>>
  BY DEF pswVars
<1>2. DueAt(step_counter)' = DueAt(step_counter) /\ Made' = Made
  BY <1>1 DEF DueAt, Made
<1>3. Accounted'
  BY <1>1, <1>2 DEF AnalyzerInv, Accounted
<1>4. AnalyzerTypes' /\ Counted'
  BY <1>1 DEF AnalyzerInv, AnalyzerTypes, Counted
<1>5. Referenced' /\ InOrder'
  BY <1>1 DEF AnalyzerInv, Referenced, ReferenceFromOneAnalysis, InOrder
<1> QED BY <1>3, <1>4, <1>5 DEF AnalyzerInv

\* Steps of the analyzer leave the types of the plotter alone.
LEMMA PlotterStill ==
    ASSUME PlotterTypes, UNCHANGED <<plotVars, windows, handed>>
    PROVE  PlotterTypes'
BY DEF PlotterTypes, plotVars

\* A pose reaches the nodes that exist.
LEMMA FlyStep ==
    ASSUME IInv, Fly
    PROVE  IInv'
<1>1. sent \in Steps /\ AnalyzerInv /\ PlotterTypes /\ MaxSent \in Nat
  BY LimitsAssumption DEF IInv
<1>2. /\ sent < MaxSent /\ sent' = sent + 1
      /\ inbox' = IF listening THEN Psw!Enqueue(inbox, "pose", QueueDepth) ELSE inbox
      /\ poses' = IF spinning THEN Plot!Enqueue(poses, sent', PlotDepth) ELSE poses
      /\ handed' = IF spinning THEN sent' ELSE handed
      /\ UNCHANGED <<listening, pose_buffer, step_counter, analysis_ready,
                     reference_established, reference, psw_history, results, raised, spinning,
                     fignum_exists, position, current_orientation, drawn, blanks, analyzers,
                     windows>>
  BY DEF Fly, Psw!Deliver, Plot!Deliver
<1>3. sent \in Nat /\ sent' \in Steps /\ sent' \in Poses
  BY <1>1, <1>2 DEF Steps, Poses
<1>4. QueueDepth \in Nat \ {0} /\ PlotDepth \in Nat \ {0}
  BY DepthsAssumption
<1>5. /\ inbox' \in Seq({"pose"}) /\ Len(inbox') <= QueueDepth
      /\ Len(inbox') <= Len(inbox) + 1 /\ Len(inbox) \in Nat /\ Len(inbox') \in Nat
  <2>1. inbox \in Seq({"pose"}) /\ Len(inbox) <= QueueDepth /\ Len(inbox) \in Nat
    BY <1>1 DEF AnalyzerInv, AnalyzerTypes
  <2>2. CASE ~listening
    BY <1>2, <2>1, <2>2
  <2>3. CASE listening
    <3>1. inbox' = Enqueue(inbox, "pose", QueueDepth)
      BY <1>2, <2>3, SameEnqueue
    <3>2. /\ inbox' \in Seq({"pose"})
          /\ Len(inbox') = IF Len(inbox) < QueueDepth THEN Len(inbox) + 1 ELSE QueueDepth
      BY <1>4, <2>1, <3>1, EnqueueTypes
    <3> QED BY <1>4, <2>1, <3>2
  <2> QED BY <2>2, <2>3
<1>6. poses' \in Seq(Poses) /\ Len(poses') <= PlotDepth
  <2>1. poses \in Seq(Poses) /\ Len(poses) <= PlotDepth
    BY <1>1 DEF PlotterTypes
  <2>2. CASE ~spinning
    BY <1>2, <2>1, <2>2
  <2>3. CASE spinning
    <3>1. poses' = Enqueue(poses, sent', PlotDepth)
      BY <1>2, <2>3, SameEnqueue
    <3>2. /\ poses' \in Seq(Poses)
          /\ Len(poses') = IF Len(poses) < PlotDepth THEN Len(poses) + 1 ELSE PlotDepth
      BY <1>3, <1>4, <2>1, <3>1, EnqueueTypes
    <3> QED BY <1>4, <2>1, <3>2
  <2> QED BY <2>2, <2>3
<1>7. PlotterTypes'
  BY <1>1, <1>2, <1>3, <1>6 DEF PlotterTypes
<1>8. AnalyzerTypes'
  BY <1>1, <1>2, <1>5 DEF AnalyzerInv, AnalyzerTypes
<1>9. Counted'
  <2>1. step_counter \in Nat
    BY <1>1 DEF AnalyzerInv, AnalyzerTypes, Steps
  <2> QED BY <1>1, <1>2, <1>3, <1>5, <2>1 DEF AnalyzerInv, Counted
<1>10. DueAt(step_counter)' = DueAt(step_counter) /\ Made' = Made
  BY <1>2 DEF DueAt, Made
<1>11. Accounted'
  BY <1>1, <1>2, <1>10 DEF AnalyzerInv, Accounted
<1>12. Referenced' /\ InOrder'
  BY <1>1, <1>2 DEF AnalyzerInv, Referenced, ReferenceFromOneAnalysis, InOrder
<1> QED BY <1>3, <1>7, <1>8, <1>9, <1>11, <1>12 DEF AnalyzerInv, IInv

\* Starts, callbacks and the end of the analyzer.
LEMMA AnalyzerStep ==
    ASSUME IInv, StartAnalyzer \/ Analyze \/ StopAnalyzer
    PROVE  IInv'
<1>1. /\ sent \in Steps /\ AnalyzerInv /\ PlotterTypes
      /\ TypeOK /\ Counted /\ Referenced /\ Accounted /\ InOrder
  BY InvParts DEF IInv, AnalyzerInv
<1>2. sent' = sent /\ UNCHANGED <<plotVars, windows, handed>>
  BY DEF StartAnalyzer, Analyze, StopAnalyzer
<1>3. PlotterTypes'
  BY <1>1, <1>2, PlotterStill
<1>4. MaxSent \in Nat /\ MaxAnalyzers \in Nat /\ QueueDepth \in Nat /\ BufferSize \in Nat \ {0}
  BY LimitsAssumption, DepthsAssumption, WindowAssumption
<1>5. CASE StartAnalyzer
  <2>1. /\ listening' = TRUE /\ inbox' = <<>> /\ pose_buffer' = <<>> /\ step_counter' = 0
        /\ analysis_ready' = FALSE /\ reference_established' = FALSE
        /\ reference' = Psw!NoReference /\ psw_history' = <<>> /\ results' = <<>>
        /\ raised' = {} /\ analyzers < MaxAnalyzers /\ analyzers' = analyzers + 1
    BY <1>5 DEF StartAnalyzer, Psw!Listen
  <2>2. 0 \in Steps
    BY <1>4 DEF Steps
  <2>3. reference' \in References /\ reference'.statistics = 0
    BY <2>1, <2>2 DEF References, Psw!NoReference
  <2>4. analyzers' \in 0 .. MaxAnalyzers
    BY <1>1, <1>4, <2>1 DEF AnalyzerInv, AnalyzerTypes
  <2>8. /\ inbox' \in Seq({"pose"}) /\ Len(inbox') = 0 /\ Len(inbox') <= QueueDepth
        /\ pose_buffer' \in Seq({"pose"}) /\ Len(pose_buffer') = 0
        /\ Len(pose_buffer') <= BufferSize
        /\ psw_history' \in Seq(Steps) /\ Len(psw_history') = 0 /\ results' \in Seq(Steps)
    BY <1>4, <2>1, EmptyTypes
  <2>5. AnalyzerTypes'
    BY <2>1, <2>2, <2>3, <2>4, <2>8 DEF AnalyzerTypes
  <2>6. Counted'
    BY <1>1, <1>2, <1>4, <2>1, <2>8 DEF Counted, Steps
  <2>9. DueAt(step_counter)' = {} /\ Made' = {}
    BY <1>4, <2>1 DEF DueAt, Made
  <2>10. Accounted'
    BY <2>1, <2>8, <2>9, FS_EmptySet DEF Accounted, ToSet
  <2>7. Referenced' /\ Accounted' /\ InOrder'
    BY <2>1, <2>3, <2>10 DEF Referenced, ReferenceFromOneAnalysis, InOrder, ToSet
  <2> QED BY <1>1, <1>2, <1>3, <2>5, <2>6, <2>7 DEF AnalyzerInv, IInv
<1>6. CASE Analyze
  <2>1. Psw!pose_callback /\ analyzers' = analyzers
    BY <1>6 DEF Analyze
  <2>2. Counted'
    BY <1>1, <1>2, <2>1, CallbackCounts
  <2>3. Accounted'
    BY <1>1, <2>1, AnalyzeAccounted
  <2>4. Referenced' /\ InOrder'
    BY <1>1, <2>1, AnalyzeReferenced
  <2>5. AnalyzerTypes'
    BY <1>1, <2>1, CallbackCounts, AnalyzeReferenced DEF AnalyzerInv, AnalyzerTypes
  <2> QED BY <1>1, <1>2, <1>3, <2>2, <2>3, <2>4, <2>5 DEF AnalyzerInv, IInv
<1>7. CASE StopAnalyzer
  <2>1. /\ listening' = FALSE /\ inbox' = <<>> /\ analyzers' = analyzers
        /\ UNCHANGED <<pose_buffer, step_counter, analysis_ready, reference_established,
                       reference, psw_history, results, raised>>
    BY <1>7 DEF StopAnalyzer, Psw!Quit
  <2>7. inbox' \in Seq({"pose"}) /\ Len(inbox') = 0 /\ Len(inbox') <= QueueDepth
    BY <1>4, <2>1, EmptyTypes
  <2>2. AnalyzerTypes'
    BY <1>1, <2>1, <2>7 DEF AnalyzerInv, AnalyzerTypes
  <2>3. Counted'
    <3>1. Len(inbox) \in Nat /\ step_counter \in Nat /\ sent \in Nat
      BY <1>1 DEF AnalyzerInv, AnalyzerTypes, Steps
    <3> QED BY <1>1, <1>2, <2>1, <2>7, <3>1 DEF Counted
  <2>4. DueAt(step_counter)' = DueAt(step_counter) /\ Made' = Made
    BY <2>1 DEF DueAt, Made
  <2>5. Accounted'
    BY <1>1, <2>1, <2>4 DEF Accounted
  <2>6. Referenced' /\ InOrder'
    BY <1>1, <2>1 DEF Referenced, ReferenceFromOneAnalysis, InOrder
  <2> QED BY <1>1, <1>2, <1>3, <2>2, <2>3, <2>5, <2>6 DEF AnalyzerInv, IInv
<1> QED BY <1>5, <1>6, <1>7

\* The plotter.
LEMMA PlotterStep ==
    ASSUME IInv, OpenPlot \/ Collect \/ Draw \/ ClosePlot
    PROVE  IInv'
<1>1. sent \in Steps /\ AnalyzerInv /\ PlotterTypes
  BY DEF IInv
<1>2. sent' = sent /\ UNCHANGED pswVars /\ analyzers' = analyzers
  BY DEF OpenPlot, Collect, Draw, ClosePlot
<1>3. AnalyzerInv'
  BY <1>1, <1>2, AnalyzerStill
<1>4. /\ MaxSent \in Nat /\ MaxWindows \in Nat /\ MaxBlanks \in Nat /\ PlotDepth \in Nat
      /\ 0 \in Steps /\ Poses \subseteq Steps
  BY LimitsAssumption, DepthsAssumption DEF Steps, Poses
<1>5. Plot!NoPlot \in [marker : Steps, arrow : Steps]
  BY <1>4 DEF Plot!NoPlot
<1>6. CASE OpenPlot
  <2>1. /\ windows < MaxWindows /\ windows' = windows + 1 /\ handed' = 0
        /\ spinning' = TRUE /\ fignum_exists' = TRUE /\ poses' = <<>> /\ position' = 0
        /\ current_orientation' = 0 /\ drawn' = Plot!NoPlot /\ blanks' = blanks
    BY <1>6 DEF OpenPlot, Plot!Open
  <2>2. windows' \in 0 .. MaxWindows
    BY <1>1, <1>4, <2>1 DEF PlotterTypes
  <2>4. poses' \in Seq(Poses) /\ Len(poses') <= PlotDepth
    BY <1>4, <2>1, EmptyTypes
  <2>3. PlotterTypes'
    BY <1>1, <1>4, <1>5, <2>1, <2>2, <2>4 DEF PlotterTypes
  <2> QED BY <1>1, <1>2, <1>3, <2>3 DEF IInv
<1>7. CASE Collect
  <2>1. /\ poses \in Seq(Poses) /\ poses # <<>> /\ poses' = Tail(poses)
        /\ position' = Head(poses) /\ current_orientation' = Head(poses)
        /\ UNCHANGED <<spinning, fignum_exists, drawn, blanks, windows, handed>>
    BY <1>1, <1>7 DEF Collect, Plot!pose_callback, PlotterTypes
  <2>2. Tail(poses) \in Seq(Poses) /\ Len(Tail(poses)) = Len(poses) - 1 /\ Head(poses) \in Poses
        /\ Len(poses) \in Nat
    BY <2>1, TailTypes
  <2>3. PlotterTypes'
    BY <1>1, <1>4, <2>1, <2>2 DEF PlotterTypes
  <2> QED BY <1>1, <1>2, <1>3, <2>3 DEF IInv
<1>8. CASE Draw
  <2>1. /\ \/ drawn' = [marker |-> position, arrow |-> current_orientation] /\ blanks' = blanks
           \/ blanks < MaxBlanks /\ blanks' = blanks + 1 /\ drawn' = Plot!NoPlot
        /\ UNCHANGED <<spinning, fignum_exists, poses, position, current_orientation, windows,
                       handed>>
    BY <1>8 DEF Draw, Plot!update_plot
  <2>2. blanks' \in 0 .. MaxBlanks /\ drawn' \in [marker : Steps, arrow : Steps]
    BY <1>1, <1>4, <1>5, <2>1 DEF PlotterTypes
  <2>3. PlotterTypes'
    BY <1>1, <2>1, <2>2 DEF PlotterTypes
  <2> QED BY <1>1, <1>2, <1>3, <2>3 DEF IInv
<1>9. CASE ClosePlot
  <2>1. /\ spinning' \in {spinning, FALSE} /\ fignum_exists' = FALSE /\ poses' \in {poses, <<>>}
        /\ UNCHANGED <<position, current_orientation, drawn, blanks, windows, handed>>
    BY <1>9 DEF ClosePlot, Plot!on_close, Plot!Quit
  <2>2. poses' \in Seq(Poses) /\ Len(poses') <= PlotDepth
    BY <1>1, <1>4, <2>1, EmptyTypes DEF PlotterTypes
  <2>3. PlotterTypes'
    BY <1>1, <2>1, <2>2 DEF PlotterTypes
  <2> QED BY <1>1, <1>2, <1>3, <2>3 DEF IInv
<1> QED BY <1>6, <1>7, <1>8, <1>9

-----------------------------------------------------------------------------
(* The theorems                                                             *)

\* Nothing was sent, analysed or drawn at first.
LEMMA InitInv == Init => IInv
<1> SUFFICES ASSUME Init PROVE IInv
  OBVIOUS
<1>1. /\ sent = 0 /\ analyzers = 0 /\ windows = 0 /\ handed = 0
      /\ listening = FALSE /\ inbox = <<>> /\ pose_buffer = <<>> /\ step_counter = 0
      /\ analysis_ready = FALSE /\ reference_established = FALSE
      /\ reference = Psw!NoReference /\ psw_history = <<>> /\ results = <<>> /\ raised = {}
      /\ spinning = FALSE /\ fignum_exists = FALSE /\ poses = <<>> /\ position = 0
      /\ current_orientation = 0 /\ drawn = Plot!NoPlot /\ blanks = 0
  BY DEF Init, Psw!Init, Plot!Init
<1>2. /\ MaxSent \in Nat /\ MaxAnalyzers \in Nat /\ MaxWindows \in Nat /\ MaxBlanks \in Nat
      /\ QueueDepth \in Nat /\ PlotDepth \in Nat /\ BufferSize \in Nat \ {0}
  BY LimitsAssumption, DepthsAssumption, WindowAssumption
<1>3. 0 \in Steps
  BY <1>2 DEF Steps
<1>4. reference \in References /\ reference.statistics = 0
  BY <1>1, <1>3 DEF References, Psw!NoReference
<1>5. drawn \in [marker : Steps, arrow : Steps]
  BY <1>1, <1>3 DEF Plot!NoPlot
<1>10. /\ inbox \in Seq({"pose"}) /\ Len(inbox) <= QueueDepth /\ Len(inbox) = 0
       /\ pose_buffer \in Seq({"pose"}) /\ Len(pose_buffer) <= BufferSize /\ Len(pose_buffer) = 0
       /\ psw_history \in Seq(Steps) /\ results \in Seq(Steps)
       /\ poses \in Seq(Poses) /\ Len(poses) <= PlotDepth
  BY <1>1, <1>2, EmptyTypes
<1>11. /\ analyzers \in 0 .. MaxAnalyzers /\ windows \in 0 .. MaxWindows
       /\ blanks \in 0 .. MaxBlanks /\ step_counter \in Steps /\ handed \in Steps
       /\ position \in Steps /\ current_orientation \in Steps /\ raised \subseteq Steps
  BY <1>1, <1>2, <1>3
<1>12. /\ listening \in BOOLEAN /\ analysis_ready \in BOOLEAN
       /\ reference_established \in BOOLEAN /\ spinning \in BOOLEAN /\ fignum_exists \in BOOLEAN
  BY <1>1
<1>6. AnalyzerTypes
  BY <1>4, <1>10, <1>11, <1>12 DEF AnalyzerTypes
<1>7. PlotterTypes
  BY <1>5, <1>10, <1>11, <1>12 DEF PlotterTypes
<1>8. Counted
  BY <1>1, <1>2, <1>10 DEF Counted
<1>9. Referenced /\ Accounted /\ InOrder
  BY <1>1, <1>4, NothingAnalyzed
<1> QED BY <1>1, <1>3, <1>6, <1>7, <1>8, <1>9 DEF AnalyzerInv, IInv

\* Every step keeps the invariant.
LEMMA StepInv == IInv /\ [Next]_vars => IInv'
<1> SUFFICES ASSUME IInv, [Next]_vars PROVE IInv'
  OBVIOUS
<1>1. CASE UNCHANGED vars
  <2>1. UNCHANGED <<sent, pswVars, plotVars, analyzers, windows, handed>>
    BY <1>1 DEF vars
  <2> QED BY <2>1, AnalyzerStill, PlotterStill DEF IInv
<1>2. CASE Next
  BY <1>2, FlyStep, AnalyzerStep, PlotterStep DEF Next
<1> QED BY <1>1, <1>2

\* Every reachable state satisfies the inductive invariant.
LEMMA Invariance == Spec => []IInv
BY InitInv, StepInv, PTL DEF Spec

\* The type invariant (the run flight_analysis checks it on a small instance).
THEOREM TypeCorrect == Spec => []TypeOK
<1>1. IInv => TypeOK
  BY InvParts
<1> QED BY <1>1, Invariance, PTL

\* The parts of an established reference come from one analysis, whatever
\* earlier attempts have left when they raised.
THEOREM ReferenceIsWhole == Spec => []ReferenceFromOneAnalysis
<1>1. IInv => ReferenceFromOneAnalysis
  BY DEF IInv, AnalyzerInv, Referenced
<1> QED BY <1>1, Invariance, PTL

\* Every interval from the first full buffer on is analysed once, and what is
\* published keeps the order of the analyses.
THEOREM EveryAnalysisAccounted == Spec => []AnalysesAccounted
<1>1. IInv => AnalysesAccounted
  BY InvParts
<1> QED BY <1>1, Invariance, PTL

\* Windows that are the span of a point apart share no sample between the
\* reference of the first and the tested part of the second.
LEMMA WindowsApart ==
    ASSUME NEW s \in Nat, NEW c \in Nat, s + (EmbDim - 1) * Delay <= c
    PROVE  Psw!TestSamples(c) \cap Psw!ReferenceSamples(s) = {}
<1>1. /\ BufferSize \in Nat /\ EmbDim \in Nat \ {0} /\ Delay \in Nat
      /\ RefNum \in Nat /\ RefDen \in Nat \ {0}
  BY WindowAssumption, FractionAssumption
<1>2. (EmbDim - 1) * Delay \in Nat /\ EmbDim - 1 \in Nat
  <2>1. EmbDim - 1 \in Nat
    BY <1>1
  <2> QED BY <1>1, <2>1, Products
<1>3. Psw!N \in Int
  BY <1>1, <1>2 DEF Psw!N
<1>4. Psw!ref_size \in Int
  <2>1. Psw!N * RefNum \in Int
    BY <1>1, <1>3
  <2> QED BY <1>1, <2>1 DEF Psw!ref_size
<1> DEFINE span == (EmbDim - 1) * Delay
           r == Psw!ref_size
           n == Psw!N
<1>5. ASSUME NEW i \in r .. (n - 1), NEW j \in 0 .. (EmbDim - 1),
             NEW k \in 0 .. (r - 1), NEW l \in 0 .. (EmbDim - 1),
             c - BufferSize + i + j * Delay = s - BufferSize + k + l * Delay
      PROVE  FALSE
  <2>1. j \in Nat /\ l \in Nat /\ l <= EmbDim - 1
    BY <1>1
  <2>2. j * Delay \in Nat /\ l * Delay \in Nat /\ l * Delay <= span
    BY <1>1, <1>2, <2>1, Products
  <2>3. i \in Int /\ k \in Int /\ i >= r /\ k <= r - 1
    BY <1>3, <1>4
  <2> DEFINE jd == j * Delay
             ld == l * Delay
  <2>4. span \in Nat /\ s + span <= c
    BY <1>2
  <2> HIDE DEF jd, ld, span, r, n
  <2>5. jd \in Nat /\ ld \in Nat /\ ld <= span
    BY <2>2 DEF jd, ld
  <2>6. c - BufferSize + i + jd = s - BufferSize + k + ld
    BY <1>5 DEF jd, ld
  <2>7. r \in Int
    BY <1>4 DEF r
  <2> QED BY <1>1, <2>3, <2>4, <2>5, <2>6, <2>7
<1>6. ASSUME NEW x \in Psw!TestSamples(c) \cap Psw!ReferenceSamples(s)
      PROVE  FALSE
  <2>1. PICK i \in r .. (n - 1), j \in 0 .. (EmbDim - 1) :
            x = c - BufferSize + i + j * Delay
    BY <1>6 DEF Psw!TestSamples, Psw!Samples
  <2>2. PICK k \in 0 .. (r - 1), l \in 0 .. (EmbDim - 1) :
            x = s - BufferSize + k + l * Delay
    BY <1>6 DEF Psw!ReferenceSamples, Psw!Samples
  <2> QED BY <1>5, <2>1, <2>2
<1> QED BY <1>6

\* No result was tested on samples of the reference, except by analyses that come
\* an interval or more, but less than an embedded point after the reference.
THEOREM ReferenceIsNotTested == Spec => []TestDisjointFromReference
<1>1. IInv => TestDisjointFromReference
  <2> SUFFICES ASSUME IInv, NEW k \in DOMAIN results,
                      Psw!TestSamples(results[k])
                          \cap Psw!ReferenceSamples(reference.statistics) # {}
               PROVE  /\ reference.statistics + Interval <= results[k]
                      /\ results[k] < reference.statistics + (EmbDim - 1) * Delay
    BY DEF TestDisjointFromReference
  <2>1. TypeOK /\ Referenced
    BY InvParts
  <2>2. results[k] \in Nat /\ reference.statistics \in Nat
    BY <2>1, Older
  <2>3. reference_established
    <3>1. results # <<>>
      OBVIOUS
    <3> QED BY <2>1, <3>1 DEF Referenced
  <2>4. /\ reference.statistics % Interval = 0 /\ results[k] % Interval = 0
        /\ reference.statistics < results[k]
    BY <2>1, <2>3 DEF Referenced
  <2>5. Interval \in Nat \ {0}
    BY WindowAssumption
  <2>6. reference.statistics + Interval <= results[k]
    BY <2>2, <2>4, <2>5, Multiples
  <2>7. ~(reference.statistics + (EmbDim - 1) * Delay <= results[k])
    BY <2>2, WindowsApart
  <2>8. (EmbDim - 1) * Delay \in Nat
    <3>1. EmbDim - 1 \in Nat /\ Delay \in Nat
      BY WindowAssumption
    <3> QED BY <3>1, Products
  <2> DEFINE span == (EmbDim - 1) * Delay
  <2>9. results[k] < reference.statistics + span
    <3> HIDE DEF span
    <3>1. span \in Nat /\ ~(reference.statistics + span <= results[k])
      BY <2>7, <2>8 DEF span
    <3> QED BY <2>2, <3>1
  <2> QED BY <2>6, <2>9
<1> QED BY <1>1, Invariance, PTL
==============================================================================
