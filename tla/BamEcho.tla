------------------------------- MODULE BamEcho --------------------------------
(***************************************************************************)
(* BamEcho.py: replays the trajectories of the drone and of the baseball   *)
(* in the Unreal environment frame by frame, photographs each frame        *)
(* through the configured camera views, hands the pictures to one writer   *)
(* thread each, turns them into videos and removes them again.             *)
(***************************************************************************)
EXTENDS Integers, FiniteSets

CONSTANTS
    Views,          \* "camera-type" of the image requests a BamEcho.json may list
    MaxCount,       \* bound: time stamps in a trajectory file
    MaxFailures     \* bound: pictures a writer thread fails to write

ASSUME BoundsAssumption == MaxCount \in Nat \ {0} /\ MaxFailures \in Nat

VARIABLES
    pc,             \* where the main thread is
    options,        \* Options, as left by BamEcho.json and the command line
    views,          \* the requests that createImgRequests accepted
    count,          \* len(droneData['timeSec'])
    t,              \* the frame being flown
    scene,          \* the frames whose poses the drone and the ball have
    writers,        \* running threads, by the picture each one writes
    files,          \* pictures on disk
    written,        \* history: pictures that were on disk at some time
    failures,       \* pictures whose writer failed
    folders,        \* the folders of the views exist
    videos,         \* view -> frames in its video
    status          \* how the run ended: running, done, aborted (exit()),
                    \* crashed (uncaught exception), interrupted (Ctrl-C)

vars == <<pc, options, views, count, t, scene, writers, files, written, failures, folders,
          videos, status>>

diskVars == <<files, written, failures, folders, videos>>
flightVars == <<options, views, count, t, scene>>

Frames == 0 .. (MaxCount - 1)
Nowhere == -1

\* A picture taken through a view at frame t, and the poses it shows.
Pictures == [view : Views, frame : Frames, drone : Frames, ball : Frames \cup {Nowhere}]

\* -dt turns capture and export off together.
Init ==
    /\ pc = "arguments"
    /\ options \in [doImageCapture : BOOLEAN, doVideoExport : BOOLEAN,
                    skipBaseball : BOOLEAN, cleanupFrames : BOOLEAN]
    /\ views \in SUBSET Views
    /\ count = 0 /\ t = 0
    /\ scene = [drone |-> Nowhere, ball |-> Nowhere]
    /\ writers = {} /\ files = {} /\ written = {} /\ failures = {}
    /\ folders = FALSE
    /\ videos = [v \in Views |-> {}]
    /\ status = "running"

-----------------------------------------------------------------------------
(* The main thread                                                          *)

End(how) == pc' = "closing" /\ status' = how
GoTo(next) == pc' = next /\ UNCHANGED status

\* "imgReqCount =+ len(v)" is the length of the last key of the dictionary,
\* which is 'Drone', whatever views are configured.
imgReqCount == 5

\* Missing arguments or files, or no image request, end the program.
CheckArguments ==
    /\ pc = "arguments"
    /\ \/ End("aborted")
       \/ /\ ~((options.doImageCapture \/ options.doVideoExport) /\ imgReqCount = 0)
          /\ GoTo("load")
    /\ UNCHANGED <<flightVars, writers, diskVars>>

\* validateScenarioData refuses files without the columns, or whose time stamps
\* differ; it accepts files without a row.
LoadTrajectories ==
    /\ pc = "load"
    /\ \/ End("aborted") /\ UNCHANGED count
       \/ count' \in 0 .. MaxCount /\ GoTo("folders")
    /\ UNCHANGED <<options, views, t, scene, writers, diskVars>>

buildOutputDirectoryStructure ==
    /\ pc = "folders"
    /\ folders' = (views # {})
    /\ GoTo("connect")
    /\ UNCHANGED <<flightVars, writers, files, written, failures, videos>>

\* No environment, no vehicle 'Drone' or no asset 'BamBaseball': exit.
Connect ==
    /\ pc = "connect"
    /\ \/ End("aborted")
       \/ GoTo("place")
    /\ UNCHANGED <<flightVars, writers, diskVars>>

\* The first row is sent ahead of the loop; without one it is an IndexError.
MoveToStart ==
    /\ pc = "place"
    /\ IF count = 0
       THEN End("crashed") /\ UNCHANGED scene
       ELSE /\ scene' = [drone |-> 0, ball |-> IF options.skipBaseball THEN Nowhere ELSE 0]
            /\ GoTo("drone")
    /\ UNCHANGED <<options, views, count, t, writers, diskVars>>

\* Mutation of SetDronePose: one time stamp too many.
SetDronePosePast ==
    /\ pc = "drone"
    /\ IF t > count THEN GoTo("join") /\ UNCHANGED scene
       ELSE GoTo("ball") /\ scene' = [scene EXCEPT !.drone = t]
    /\ UNCHANGED <<options, views, count, t, writers, diskVars>>

SetDronePose ==
    /\ pc = "drone"
    /\ IF t = count THEN GoTo("join") /\ UNCHANGED scene
       ELSE GoTo("ball") /\ scene' = [scene EXCEPT !.drone = t]
    /\ UNCHANGED <<options, views, count, t, writers, diskVars>>

SetBallPose ==
    /\ pc = "ball"
    /\ scene' = IF options.skipBaseball THEN scene ELSE [scene EXCEPT !.ball = t]
    /\ GoTo("capture")
    /\ UNCHANGED <<options, views, count, t, writers, diskVars>>

\* Mutation of Capture: without capture the loop does not move on.
CaptureStuck ==
    /\ pc = "capture"
    /\ writers' = IF options.doImageCapture
                  THEN writers \cup {[view |-> v, frame |-> t, drone |-> scene.drone,
                                      ball |-> scene.ball] : v \in views}
                  ELSE writers
    /\ t' = IF options.doImageCapture THEN t + 1 ELSE t
    /\ GoTo("drone")
    /\ UNCHANGED <<options, views, count, scene, diskVars>>

\* One simGetImages for all views, then a thread for each picture, one after the
\* other: Ctrl-C may come before all have been started.
Capture ==
    /\ pc = "capture"
    /\ \E started \in SUBSET views :
        /\ writers' = IF options.doImageCapture
                      THEN writers \cup {[view |-> v, frame |-> t, drone |-> scene.drone,
                                          ball |-> scene.ball] : v \in started}
                      ELSE writers
        /\ \/ started = views /\ t' = t + 1 /\ GoTo("drone")
           \/ started # views /\ UNCHANGED t /\ End("interrupted")
    /\ UNCHANGED <<options, views, count, scene, diskVars>>

\* Mutation of JoinWriters: nothing is joined.
JoinNothing ==
    /\ pc = "join"
    /\ GoTo("export")
    /\ UNCHANGED <<flightVars, writers, diskVars>>

JoinWriters ==
    /\ pc = "join" /\ writers = {}
    /\ GoTo("export")
    /\ UNCHANGED <<flightVars, writers, diskVars>>

OnDisk(v) == {p.frame : p \in {q \in files : q.view = v}}

\* ffmpeg begins with a picture numbered 0 to 4 and ends before the first gap.
Encoded(v) ==
    {f \in OnDisk(v) : \A g \in Frames : g < f /\ g \notin OnDisk(v)
                            => \A h \in OnDisk(v) : g < h}

\* The video of a view: it has a first picture, or ffmpeg fails, for this reason
\* or another.
ExportVideos ==
    /\ pc = "export" /\ options.doVideoExport
    /\ \E v \in {w \in views : videos[w] = {}} :
        \/ /\ OnDisk(v) \cap (0 .. 4) # {}
           /\ videos' = [videos EXCEPT ![v] = Encoded(v)]
           /\ GoTo("export")
        \/ End("crashed") /\ UNCHANGED videos     \* ffmpeg.Error
    /\ UNCHANGED <<flightVars, writers, files, written, failures, folders>>

\* Mutation of ExportDone: the frames are removed before the export is over.
ExportDoneEarly ==
    /\ pc = "export"
    /\ GoTo("cleanup")
    /\ UNCHANGED <<flightVars, writers, diskVars>>

ExportDone ==
    /\ pc = "export"
    /\ options.doVideoExport => \A v \in views : videos[v] # {}
    /\ GoTo("cleanup")
    /\ UNCHANGED <<flightVars, writers, diskVars>>

\* rmtree raises when no folder was made, which is when no view is valid.
CleanupFrames ==
    /\ pc = "cleanup"
    /\ IF ~options.cleanupFrames THEN GoTo("summary") /\ UNCHANGED <<files, folders>>
       ELSE IF folders THEN GoTo("summary") /\ files' = {} /\ folders' = FALSE
       ELSE End("crashed") /\ UNCHANGED <<files, folders>>
    /\ UNCHANGED <<flightVars, writers, written, failures, videos>>

\* The summary lists videoOutputs, a name that only the export defines.
Summary ==
    /\ pc = "summary"
    /\ End(IF options.doVideoExport THEN "done" ELSE "crashed")
    /\ UNCHANGED <<flightVars, writers, diskVars>>

\* The interpreter waits for the threads, then runs the exit handler.
on_exit ==
    /\ pc = "closing" /\ writers = {}
    /\ pc' = "exit"
    /\ UNCHANGED <<flightVars, writers, diskVars, status>>

Exited == pc = "exit" /\ UNCHANGED vars

Main ==
    \/ CheckArguments \/ LoadTrajectories \/ buildOutputDirectoryStructure \/ Connect
    \/ MoveToStart \/ SetDronePose \/ SetBallPose \/ Capture \/ JoinWriters
    \/ ExportVideos \/ ExportDone \/ CleanupFrames \/ Summary \/ on_exit

\* The user gives up with Ctrl-C.
Interrupt ==
    /\ pc \notin {"closing", "exit"}
    /\ End("interrupted")
    /\ UNCHANGED <<flightVars, writers, diskVars>>

-----------------------------------------------------------------------------
(* The writer threads: processPngExport and processPfmExport                *)

\* Mutation of ProcessExport: the thread reads t of the loop when it writes.
ProcessExportLate(p) ==
    /\ p \in writers
    /\ LET late == [p EXCEPT !.frame = IF t < count THEN t ELSE @]
       IN  files' = files \cup {late} /\ written' = written \cup {late}
    /\ writers' = writers \ {p}
    /\ UNCHANGED <<pc, flightVars, failures, folders, videos, status>>

ProcessExport(p) ==
    /\ p \in writers
    /\ files' = files \cup {p}
    /\ written' = written \cup {p}
    /\ writers' = writers \ {p}
    /\ UNCHANGED <<pc, flightVars, failures, folders, videos, status>>

\* An exception ends the thread; nobody is told.
ProcessExportFails(p) ==
    /\ p \in writers /\ Cardinality(failures) < MaxFailures
    /\ failures' = failures \cup {p}
    /\ writers' = writers \ {p}
    /\ UNCHANGED <<pc, flightVars, files, written, folders, videos, status>>

Writers == \E p \in writers : ProcessExport(p) \/ ProcessExportFails(p)

Next == Main \/ Interrupt \/ Writers \/ Exited

Spec == Init /\ [][Next]_vars /\ WF_vars(Main) /\ WF_vars(Writers)

-----------------------------------------------------------------------------
(* Correctness                                                              *)

\* Type correctness of the program's state, its threads and its output.
TypeOK ==
    /\ pc \in {"arguments", "load", "folders", "connect", "place", "drone", "ball", "capture",
               "join", "export", "cleanup", "summary", "closing", "exit"}
    /\ options \in [doImageCapture : BOOLEAN, doVideoExport : BOOLEAN,
                    skipBaseball : BOOLEAN, cleanupFrames : BOOLEAN]
    /\ views \subseteq Views
    /\ count \in 0 .. MaxCount /\ t \in 0 .. count
    /\ scene \in [drone : Frames \cup {Nowhere}, ball : Frames \cup {Nowhere}]
    /\ writers \cup files \cup written \cup failures \subseteq Pictures
    /\ folders \in BOOLEAN
    /\ videos \in [Views -> SUBSET Frames]
    /\ status \in {"running", "done", "aborted", "crashed", "interrupted"}

\* The picture numbered t shows the drone and the ball where their files put
\* them at the same row t, however late its thread writes it (lines 573-610).
FramesShowTheirRow ==
    \A p \in written :
        p.drone = p.frame /\ (options.skipBaseball \/ p.ball = p.frame)

\* A writer of view v has failed, at frame f or before.
FailedBy(v, f) == \E q \in failures : q.view = v /\ q.frame <= f

\* When the run is done a video has every frame up to the first that its own
\* writers failed to write: the export waits for all the threads (lines
\* 623-625), and a writer that fails spoils no other view.
VideosComplete ==
    status = "done" /\ options.doImageCapture =>
        \A v \in views : \A f \in 0 .. (count - 1) : f \in videos[v] \/ FailedBy(v, f)

\* A picture that was to be exported is removed only when its video has it
\* (lines 661-665), or when it lies behind the gap that a failed writer of its
\* view left, at which ffmpeg ends the video.
NoPictureLost ==
    options.doVideoExport =>
        \A p \in written :
            p \in files \/ p.frame \in videos[p.view] \/ FailedBy(p.view, p.frame - 1)

\* Every run ends, also one that is interrupted or has a failing writer.
Ends == <>(pc = "exit")
==============================================================================
