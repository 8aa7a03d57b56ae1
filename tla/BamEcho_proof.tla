----------------------------- MODULE BamEcho_proof -----------------------------
(***************************************************************************)
(* Proofs about BamEcho for any set of views, any length of the            *)
(* trajectories and any number of failing writers: the pictures show their *)
(* row, the videos are complete and no picture is lost.                    *)
(***************************************************************************)
EXTENDS BamEcho, TLAPS

(* The inductive invariant                                                  *)

\* The program counter before the first frame, while frames are flown, once all
\* the writers were joined, and once the run ended.
Before == {"arguments", "load", "folders", "connect", "place"}
Flying == {"drone", "ball", "capture"}
Joined == {"export", "cleanup", "summary"}
Over == {"closing", "exit"}

\* What was photographed and handed to a writer.
Taken == writers \cup written \cup failures

\* The ball is where its file puts it at row f, if it is shown at all.
BallAt(b, f) == options.skipBaseball \/ b = f

\* The loop: where t stands, and which poses were set for it.
Loop ==
    /\ pc \in Before => t = 0
    /\ pc \in {"ball", "capture"} => t < count /\ scene.drone = t
    /\ pc = "capture" => BallAt(scene.ball, t)
    /\ pc \in {"join"} \cup Joined => t = count

\* The pictures: one of each view and frame flown, and, when Ctrl-C came while
\* the threads of frame t were being started, some of that frame.
Photographed ==
    /\ files \subseteq written
    /\ \A p \in Taken :
        /\ options.doImageCapture /\ p.view \in views /\ p.frame <= t
        /\ p.drone = p.frame /\ BallAt(p.ball, p.frame)
    /\ options.doImageCapture =>
        \A v \in views : \A f \in 0 .. (t - 1) : \E p \in Taken : p.view = v /\ p.frame = f

\* The videos: exported after the last writer was joined, each with all the
\* pictures of its view up to the first that was not written.
Exported ==
    /\ pc \in Joined => writers = {}
    /\ \A v \in Views : videos[v] # {} =>
        /\ pc \in Joined \cup Over /\ t = count /\ writers = {}
        /\ \A p \in written : p.view = v =>
            p.frame \in videos[v] \/ FailedBy(v, p.frame - 1)

\* The pictures are on disk until each view has its video.
Removed ==
    /\ files # written => pc \in {"summary"} \cup Over
    /\ /\ options.doVideoExport
       /\ pc \in {"cleanup", "summary"} \/ status = "done" \/ files # written
       => \A v \in views : videos[v] # {}
    /\ status = "done" => pc \in Over /\ options.doVideoExport

\* The inductive invariant.
IInv == TypeOK /\ Loop /\ Photographed /\ Exported /\ Removed

\* The numbers of frames are natural, and Nowhere is none of them.
LEMMA Parameters ==
    /\ MaxCount \in Nat \ {0} /\ MaxFailures \in Nat
    /\ Frames \subseteq Nat /\ 0 \in Frames /\ Nowhere \notin Frames
    /\ \A n \in 0 .. MaxCount : 0 .. (n - 1) \subseteq Frames
BY BoundsAssumption DEF Frames, Nowhere

-----------------------------------------------------------------------------
(* Types                                                                    *)

\* What is on disk, and what ffmpeg encodes of it, are frames.
LEMMA OnDiskType ==
    ASSUME TypeOK, NEW v
    PROVE  OnDisk(v) \subseteq Frames /\ Encoded(v) \subseteq Frames
BY DEF TypeOK, OnDisk, Encoded, Pictures

\* No step leaves the types; t stays within the rows because of Loop.
LEMMA TypeStep == TypeOK /\ Loop /\ [Next]_vars => TypeOK'
<1> SUFFICES ASSUME TypeOK, Loop, [Next]_vars PROVE TypeOK'
  OBVIOUS
<1> USE DEF TypeOK, GoTo, End, diskVars, flightVars
<1>1. CASE CheckArguments \/ Connect \/ JoinWriters
  BY <1>1 DEF CheckArguments, Connect, JoinWriters
<1>2. CASE LoadTrajectories
  <2>1. t = 0 /\ count \in Nat
    BY <1>2 DEF LoadTrajectories, Loop, Before
  <2>2. count' \in 0 .. MaxCount /\ t' \in 0 .. count'
    BY <1>2, <2>1, Parameters DEF LoadTrajectories
  <2> QED BY <1>2, <2>2 DEF LoadTrajectories
<1>3. CASE buildOutputDirectoryStructure
  BY <1>3 DEF buildOutputDirectoryStructure
<1>4. CASE MoveToStart
  <2>1. scene' \in [drone : Frames \cup {Nowhere}, ball : Frames \cup {Nowhere}]
    BY <1>4, Parameters DEF MoveToStart
  <2> QED BY <1>4, <2>1 DEF MoveToStart
<1>5. CASE SetDronePose
  <2>1. scene' \in [drone : Frames \cup {Nowhere}, ball : Frames \cup {Nowhere}]
    BY <1>5, Parameters DEF SetDronePose, Frames
  <2> QED BY <1>5, <2>1 DEF SetDronePose
<1>6. CASE SetBallPose
  <2>1. t \in Frames
    BY <1>6, Parameters DEF SetBallPose, Loop, Frames
  <2>2. scene' \in [drone : Frames \cup {Nowhere}, ball : Frames \cup {Nowhere}]
    BY <1>6, <2>1 DEF SetBallPose
  <2> QED BY <1>6, <2>2 DEF SetBallPose
<1>7. CASE Capture
  <2>1. /\ t \in Frames /\ scene.drone \in Frames /\ scene.ball \in Frames \cup {Nowhere}
        /\ t + 1 \in 0 .. count
    BY <1>7, Parameters DEF Capture, Loop, Frames
  <2>2. \A v \in Views : [view |-> v, frame |-> t, drone |-> scene.drone, ball |-> scene.ball]
                            \in Pictures
    BY <2>1 DEF Pictures
  <2>3. writers' \subseteq Pictures
    <3>1. PICK started \in SUBSET views :
            writers' = IF options.doImageCapture
                       THEN writers \cup {[view |-> v, frame |-> t, drone |-> scene.drone,
                                           ball |-> scene.ball] : v \in started}
                       ELSE writers
      BY <1>7 DEF Capture
    <3> QED BY <2>2, <3>1
  <2> QED BY <1>7, <2>1, <2>3 DEF Capture
<1>8. CASE ExportVideos
  <2>1. videos' \in [Views -> SUBSET Frames]
    BY <1>8, OnDiskType DEF ExportVideos
  <2> QED BY <1>8, <2>1 DEF ExportVideos
<1>9. CASE ExportDone \/ Summary \/ on_exit \/ Interrupt
  BY <1>9 DEF ExportDone, Summary, on_exit, Interrupt
<1>10. CASE CleanupFrames
  BY <1>10 DEF CleanupFrames
<1>11. CASE Writers
  BY <1>11 DEF Writers, ProcessExport, ProcessExportFails
<1>12. CASE UNCHANGED vars
  BY <1>12 DEF vars
<1> QED BY <1>1, <1>2, <1>3, <1>4, <1>5, <1>6, <1>7, <1>8, <1>9, <1>10, <1>11, <1>12
        DEF Next, Main, Exited

-----------------------------------------------------------------------------
(* The loop                                                                 *)

\* The loop sets drone and ball for a frame before it takes the frame.
LEMMA LoopStep == TypeOK /\ Loop /\ [Next]_vars => Loop'
<1> SUFFICES ASSUME TypeOK, Loop, [Next]_vars PROVE Loop'
  OBVIOUS
<1>0. count \in Nat /\ t \in Nat /\ t <= count /\ scene.drone = scene["drone"]
  BY Parameters DEF TypeOK
<1> USE DEF Loop, Before, Joined, GoTo, End, BallAt
<1>1. CASE \/ CheckArguments \/ LoadTrajectories \/ buildOutputDirectoryStructure \/ Connect
  BY <1>1 DEF CheckArguments, LoadTrajectories, buildOutputDirectoryStructure, Connect, flightVars
<1>2. CASE MoveToStart
  BY <1>2 DEF MoveToStart
<1>3. CASE SetDronePose
  BY <1>0, <1>3 DEF SetDronePose, TypeOK
<1>4. CASE SetBallPose
  BY <1>0, <1>4 DEF SetBallPose, TypeOK
<1>5. CASE Capture
  BY <1>5 DEF Capture
<1>6. CASE JoinWriters \/ ExportVideos \/ ExportDone \/ CleanupFrames
  BY <1>6 DEF JoinWriters, ExportVideos, ExportDone, CleanupFrames, flightVars
<1>7. CASE Summary \/ on_exit \/ Interrupt
  BY <1>7 DEF Summary, on_exit, Interrupt, flightVars
<1>8. CASE Writers
  BY <1>8 DEF Writers, ProcessExport, ProcessExportFails, flightVars
<1>9. CASE UNCHANGED vars
  BY <1>9 DEF vars, flightVars
<1> QED BY <1>1, <1>2, <1>3, <1>4, <1>5, <1>6, <1>7, <1>8, <1>9 DEF Next, Main, Exited

-----------------------------------------------------------------------------
(* The pictures                                                             *)

\* A step that takes no picture and flies no frame.
NoShot ==
    /\ UNCHANGED <<options, views, t>>
    /\ Taken' = Taken /\ files' \subseteq files /\ written' = written

\* Only Capture takes pictures; cleanup removes files and nothing else does.
LEMMA NoShotActions ==
    ASSUME TypeOK, Main \/ Interrupt \/ Exited, ~Capture
    PROVE  NoShot
<1> USE DEF NoShot, Taken, flightVars, diskVars
<1>1. CASE \/ CheckArguments \/ LoadTrajectories \/ buildOutputDirectoryStructure \/ Connect
           \/ MoveToStart \/ SetDronePose \/ SetBallPose
  BY <1>1 DEF CheckArguments, LoadTrajectories, buildOutputDirectoryStructure, Connect,
              MoveToStart, SetDronePose, SetBallPose
<1>2. CASE JoinWriters \/ ExportVideos \/ ExportDone \/ CleanupFrames
  BY <1>2 DEF JoinWriters, ExportVideos, ExportDone, CleanupFrames
<1>3. CASE Summary \/ on_exit \/ Interrupt \/ Exited
  BY <1>3 DEF Summary, on_exit, Interrupt, Exited, vars
<1> QED BY <1>1, <1>2, <1>3 DEF Main

\* No picture is taken twice, forgotten or taken of other poses.
LEMMA PhotographedStep == TypeOK /\ Loop /\ Photographed /\ [Next]_vars => Photographed'
<1> SUFFICES ASSUME TypeOK, Loop, Photographed, [Next]_vars PROVE Photographed'
  OBVIOUS
<1>1. CASE NoShot
  BY <1>1 DEF NoShot, Photographed, BallAt
<1>2. CASE UNCHANGED vars
  BY <1>1, <1>2 DEF vars, NoShot, Taken, flightVars, diskVars
<1>3. CASE Writers
  <2>1. /\ UNCHANGED <<options, views, t>> /\ Taken' = Taken
        /\ files' \subseteq written'
    BY <1>3 DEF Writers, ProcessExport, ProcessExportFails, Taken, flightVars, Photographed
  <2> QED BY <2>1 DEF Photographed, BallAt
<1>4. CASE Capture
  <2> DEFINE Shot(v) == [view |-> v, frame |-> t, drone |-> scene.drone, ball |-> scene.ball]
  <2>1. PICK started \in SUBSET views :
          /\ options.doImageCapture => writers' = writers \cup {Shot(v) : v \in started}
          /\ ~options.doImageCapture => writers' = writers
          /\ t' = t \/ (t' = t + 1 /\ started = views)
    BY <1>4 DEF Capture
  <2>2. /\ UNCHANGED <<options, views, files, written, failures>> /\ t \in Nat
        /\ scene.drone = t /\ BallAt(scene.ball, t)
    BY <1>4 DEF Capture, diskVars, Loop, TypeOK
  <2>3. \A v : /\ Shot(v).view = v /\ Shot(v).frame = t
               /\ Shot(v).drone = scene.drone /\ Shot(v).ball = scene.ball
    OBVIOUS
  <2> HIDE DEF Shot
  <2>4. Taken \subseteq Pictures /\ \A p \in Taken : p.frame \in Nat
    BY Parameters DEF TypeOK, Taken, Pictures
  <2>5. ~options.doImageCapture => Taken' = Taken
    BY <2>1, <2>2 DEF Taken
  <2>6. options.doImageCapture => Taken' = Taken \cup {Shot(v) : v \in started}
    BY <2>1, <2>2 DEF Taken
  <2>7. files' \subseteq written'
    BY <2>2 DEF Photographed
  <2>8. \A p \in Taken' : /\ options'.doImageCapture /\ p.view \in views' /\ p.frame <= t'
                          /\ p.drone = p.frame /\ BallAt(p.ball, p.frame)'
    BY <2>1, <2>2, <2>3, <2>4, <2>5, <2>6 DEF Photographed, BallAt
  <2>9. ASSUME options'.doImageCapture, NEW v \in views', NEW f \in 0 .. (t' - 1)
        PROVE  \E p \in Taken' : p.view = v /\ p.frame = f
    <3>1. CASE f = t
      <4>1. started = views
        BY <2>1, <2>2, <3>1
      <4> QED BY <2>2, <2>3, <2>6, <2>9, <3>1, <4>1
    <3>2. CASE f # t
      <4>1. f \in 0 .. (t - 1)
        BY <2>1, <2>2, <3>2
      <4> QED BY <2>2, <2>6, <2>9, <4>1 DEF Photographed
    <3> QED BY <3>1, <3>2
  <2> QED BY <2>7, <2>8, <2>9 DEF Photographed
<1> QED BY <1>1, <1>2, <1>3, <1>4, NoShotActions DEF Next

-----------------------------------------------------------------------------
(* The videos                                                               *)

\* Once the writers are joined, the encoder leaves a picture out only behind a
\* gap, and a gap is a picture whose writer failed.
LEMMA GapIsFailure ==
    ASSUME TypeOK, Photographed, writers = {}, files = written, NEW v \in views,
           NEW p \in written, p.view = v, p.frame \notin Encoded(v)
    PROVE  FailedBy(v, p.frame - 1)
<1>1. /\ p \in Taken /\ p \in Pictures /\ p.frame \in Frames /\ t \in Nat
      /\ p.frame \in OnDisk(v)
  BY Parameters DEF Taken, TypeOK, Pictures, OnDisk
<1>2. PICK g \in Frames : g < p.frame /\ g \notin OnDisk(v)
  BY <1>1 DEF Encoded
<1>3. options.doImageCapture /\ g \in 0 .. (t - 1)
  <2>1. g \in Nat /\ p.frame \in Nat
    BY <1>1, Parameters
  <2>2. options.doImageCapture /\ p.frame <= t
    BY <1>1 DEF Photographed
  <2> QED BY <1>1, <1>2, <2>1, <2>2
<1>4. PICK q \in Taken : q.view = v /\ q.frame = g
  BY <1>3 DEF Photographed
<1>5. q \in failures
  BY <1>2, <1>4 DEF Taken, OnDisk
<1>6. q.frame <= p.frame - 1
  <2>1. g \in Nat /\ p.frame \in Nat
    BY <1>1, Parameters
  <2> QED BY <1>2, <1>4, <2>1
<1> QED BY <1>4, <1>5, <1>6 DEF FailedBy

\* ffmpeg finds all the pictures, since the writers were joined before.
LEMMA ExportedStep ==
    TypeOK /\ Loop /\ Photographed /\ Exported /\ Removed /\ [Next]_vars => Exported'
<1> SUFFICES ASSUME TypeOK, Loop, Photographed, Exported, Removed, [Next]_vars PROVE Exported'
  OBVIOUS
<1> USE DEF Joined, Over, GoTo, End, FailedBy
<1>1. CASE \/ CheckArguments \/ LoadTrajectories \/ buildOutputDirectoryStructure \/ Connect
           \/ MoveToStart \/ SetDronePose \/ SetBallPose \/ Capture
  <2>1. /\ pc \notin Joined \cup Over /\ UNCHANGED videos /\ pc' \notin Joined
    BY <1>1 DEF CheckArguments, LoadTrajectories, buildOutputDirectoryStructure, Connect,
                MoveToStart, SetDronePose, SetBallPose, Capture, diskVars
  <2> QED BY <2>1 DEF Exported
<1>2. CASE JoinWriters \/ ExportDone \/ CleanupFrames
  BY <1>2 DEF JoinWriters, ExportDone, CleanupFrames, flightVars, diskVars,
              Exported
<1>3. CASE ExportVideos
  <2>1. /\ pc = "export" /\ UNCHANGED <<writers, t, count, failures, files, written>>
        /\ pc' \in {"export", "closing"} /\ writers = {} /\ t = count /\ files = written
    BY <1>3 DEF ExportVideos, Exported, Removed, Loop, flightVars
  <2>2. \/ UNCHANGED videos
        \/ \E v \in views : videos' = [videos EXCEPT ![v] = Encoded(v)]
    BY <1>3 DEF ExportVideos
  <2>3. ASSUME NEW v \in views, videos' = [videos EXCEPT ![v] = Encoded(v)]
        PROVE  Exported'
    <3>1. \A p \in written : p.view = v =>
            p.frame \in Encoded(v) \/ FailedBy(v, p.frame - 1)
      BY <2>1, GapIsFailure
    <3>2. v \in Views /\ videos' = [w \in Views |-> IF w = v THEN Encoded(v) ELSE videos[w]]
      BY <2>3 DEF TypeOK
    <3>3. \A w, n : FailedBy(w, n)' <=> FailedBy(w, n)
      BY <2>1 DEF FailedBy
    <3>4. ASSUME NEW w \in Views, videos'[w] # {}, NEW p \in written', p.view = w
          PROVE  p.frame \in videos'[w] \/ FailedBy(w, p.frame - 1)'
      BY <2>1, <3>1, <3>2, <3>3, <3>4 DEF Exported
    <3> QED BY <2>1, <3>4 DEF Exported
  <2> QED BY <2>1, <2>2, <2>3 DEF Exported
<1>4. CASE Summary \/ on_exit \/ Interrupt
  BY <1>4 DEF Summary, on_exit, Interrupt, flightVars, diskVars, Exported
<1>5. CASE Writers
  <2>1. UNCHANGED <<pc, videos, t, count>> /\ writers # {}
    BY <1>5 DEF Writers, ProcessExport, ProcessExportFails, flightVars
  <2> QED BY <2>1 DEF Exported
<1>6. CASE UNCHANGED vars
  BY <1>6 DEF vars, flightVars, diskVars, Exported
<1> QED BY <1>1, <1>2, <1>3, <1>4, <1>5, <1>6 DEF Next, Main, Exited

\* The cleanup comes after the export.
LEMMA RemovedStep == TypeOK /\ Removed /\ [Next]_vars => Removed'
<1> SUFFICES ASSUME TypeOK, Removed, [Next]_vars PROVE Removed'
  OBVIOUS
<1> USE DEF Over, GoTo, End, Removed
<1>1. CASE \/ CheckArguments \/ LoadTrajectories \/ buildOutputDirectoryStructure \/ Connect
           \/ MoveToStart \/ SetDronePose \/ SetBallPose \/ Capture \/ JoinWriters
  <2>1. /\ pc \notin Over \cup {"cleanup", "summary"} /\ UNCHANGED <<options, views, files, written, videos>>
        /\ pc' \notin {"cleanup", "summary"} /\ status' # "done"
    BY <1>1 DEF CheckArguments, LoadTrajectories, buildOutputDirectoryStructure, Connect,
                MoveToStart, SetDronePose, SetBallPose, Capture, JoinWriters, flightVars, diskVars
  <2> QED BY <2>1
<1>2. CASE ExportVideos
  BY <1>2 DEF ExportVideos, flightVars
<1>3. CASE ExportDone
  BY <1>3 DEF ExportDone, flightVars, diskVars
<1>4. CASE CleanupFrames
  BY <1>4 DEF CleanupFrames, flightVars
<1>5. CASE Summary
  BY <1>5 DEF Summary, flightVars, diskVars
<1>6. CASE on_exit \/ Interrupt
  BY <1>6 DEF on_exit, Interrupt, flightVars, diskVars
<1>7. CASE Writers
  BY <1>7 DEF Writers, ProcessExport, ProcessExportFails, flightVars
<1>8. CASE UNCHANGED vars
  BY <1>8 DEF vars, flightVars, diskVars
<1> QED BY <1>1, <1>2, <1>3, <1>4, <1>5, <1>6, <1>7, <1>8 DEF Next, Main, Exited

-----------------------------------------------------------------------------
(* Results                                                                  *)

\* The invariant holds when the program starts.
LEMMA InitInv == Init => IInv
<1> SUFFICES ASSUME Init PROVE IInv
  OBVIOUS
<1> USE DEF Init
<1>1. TypeOK
  <2>1. 0 \in 0 .. MaxCount /\ 0 \in 0 .. 0
    BY Parameters
  <2>2. scene \in [drone : Frames \cup {Nowhere}, ball : Frames \cup {Nowhere}]
    OBVIOUS
  <2>3. videos \in [Views -> SUBSET Frames] /\ folders \in BOOLEAN /\ views \subseteq Views
    OBVIOUS
  <2>4. writers \cup files \cup written \cup failures \subseteq Pictures
    OBVIOUS
  <2> QED BY <2>1, <2>2, <2>3, <2>4, Zenon DEF TypeOK
<1>2. Loop /\ Exported /\ Removed
  BY DEF Loop, Before, Joined, Exported, Removed
<1>3. Photographed
  BY DEF Photographed, Taken
<1> QED BY <1>1, <1>2, <1>3 DEF IInv

\* The inductive invariant holds in every state of every run.
LEMMA Invariance == Spec => []IInv
<1>1. IInv /\ [Next]_vars => IInv'
  BY TypeStep, LoopStep, PhotographedStep, ExportedStep, RemovedStep DEF IInv
<1> QED BY InitInv, <1>1, PTL DEF Spec

\* The program's state, its threads and its output have their types.
THEOREM TypeCorrect == Spec => []TypeOK
<1>1. IInv => TypeOK
  BY DEF IInv
<1> QED BY <1>1, Invariance, PTL

\* Each picture shows the drone and the ball at its own row.
THEOREM PicturesShowTheirRow == Spec => []FramesShowTheirRow
<1>1. IInv => FramesShowTheirRow
  BY DEF IInv, Photographed, Taken, BallAt, FramesShowTheirRow
<1> QED BY <1>1, Invariance, PTL

\* A run that is done has, for each view, a video of every frame up to the first
\* that the view's own writers failed to write.
THEOREM VideosAreComplete == Spec => []VideosComplete
<1>1. ASSUME IInv, status = "done", options.doImageCapture,
             NEW v \in views, NEW f \in 0 .. (count - 1)
      PROVE  f \in videos[v] \/ FailedBy(v, f)
  <2>1. v \in Views /\ videos[v] # {} /\ f \in Int
    BY <1>1 DEF IInv, TypeOK, Removed
  <2>2. t = count /\ writers = {}
    BY <1>1, <2>1 DEF IInv, Exported
  <2>3. PICK p \in Taken : p.view = v /\ p.frame = f
    BY <1>1, <2>2 DEF IInv, Photographed
  <2>4. CASE p \in written
    BY <1>1, <2>1, <2>3, <2>4 DEF IInv, Exported, FailedBy, TypeOK, Pictures, Frames
  <2>5. CASE p \in failures
    BY <2>1, <2>3, <2>5 DEF FailedBy
  <2> QED BY <2>2, <2>3, <2>4, <2>5 DEF Taken
<1>2. IInv => VideosComplete
  BY <1>1 DEF VideosComplete
<1> QED BY <1>2, Invariance, PTL

\* Pictures to be exported are removed only when their video has them, or behind
\* a gap that a writer of their view left.
THEOREM PicturesAreKept == Spec => []NoPictureLost
<1>1. ASSUME IInv, options.doVideoExport, NEW p \in written, p \notin files
      PROVE  p.frame \in videos[p.view] \/ FailedBy(p.view, p.frame - 1)
  <2>1. p.view \in views /\ p.view \in Views
    BY <1>1 DEF IInv, TypeOK, Photographed, Taken
  <2>2. videos[p.view] # {}
    BY <1>1, <2>1 DEF IInv, Removed
  <2> QED BY <1>1, <2>1, <2>2 DEF IInv, Exported
<1>2. IInv => NoPictureLost
  BY <1>1 DEF NoPictureLost
<1> QED BY <1>2, Invariance, PTL
==============================================================================
