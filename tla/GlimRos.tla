------------------------------ MODULE GlimRos ------------------------------
(***************************************************************************)
(* The GlimROS node: how a point cloud travels from the subscriber through *)
(* the asynchronous odometry, sub mapping and global mapping workers into  *)
(* the dump, and how the three programs that host the node end it.         *)
(*                                                                         *)
(* Threads.  One thread (the executor, which is also the thread of main()) *)
(* runs points_callback, timer_callback, wait, save and the destructor;    *)
(* its position is pc.  Each worker is a thread of its own behind a pair   *)
(* of queues and steps at any time.  Each call into a worker is one        *)
(* action, so the workers interleave with every line of the callbacks.     *)
(*                                                                         *)
(* The workers belong to the glim library.  What is assumed of them is     *)
(* what glim_ros.cpp relies on: inputs are consumed in order, every frame  *)
(* comes out exactly once and in order, results wait until they are        *)
(* fetched, and join() makes the worker finish its input, hand out what it *)
(* still holds, and stop.                                                  *)
(*                                                                         *)
(* A cloud that cannot be converted or fails the time check returns from   *)
(* points_callback before anything below changes; frame ids, time offsets  *)
(* and IMU and image data do not influence which frames reach the map.     *)
(***************************************************************************)
EXTENDS FrameRuns, FiniteSets

CONSTANTS
  Mains,      \* the hosting programs considered: "rosnode", "rosbag", "component"
  MaxClouds   \* bound on the clouds accepted

ASSUME MainsAssumption == Mains \subseteq {"rosnode", "rosbag", "component"}
ASSUME MaxCloudsAssumption == MaxClouds \in Nat

VARIABLES
  main,            \* the hosting program
  sub_mapping,     \* sub_mapping != nullptr
  global_mapping,  \* global_mapping != nullptr
  dump_on_unload,  \* the ROS parameter
  pc,              \* where the executor / main thread is
  auto_quit,       \* the argument of the wait() being executed
  ok,              \* rclcpp::ok()
  ext_ok,          \* every extension module answers ok()
  ext_loaded,      \* extension_modules has not been cleared
  ext_saved,       \* the extension modules had their at_exit()
  accepted,        \* number of clouds given to insert_frame
  odom_in,         \* odometry: input queue
  odom_window,     \* odometry: frames not yet marginalized
  odom_out,        \* odometry: marginalized frames not yet fetched
  hand_frames,     \* marginalized_frames of the running timer_callback or wait
  sub_in,          \* sub mapping: input queue
  sub_frames,      \* sub mapping: frames of the submap under construction
  sub_out,         \* sub mapping: submaps not yet fetched
  hand_submaps,    \* submaps of the running timer_callback or wait
  glob_in,         \* global mapping: input queue
  glob_map,        \* global mapping: the submaps integrated
  ending,          \* workers whose join() has been called
  running,         \* workers whose thread has not ended
  dumps            \* what global_mapping->save() wrote, in order

config == <<main, sub_mapping, global_mapping, dump_on_unload>>
env == <<ok, ext_ok>>
ext == <<ext_loaded, ext_saved>>
odom == <<odom_in, odom_window, odom_out>>
sub == <<sub_in, sub_frames, sub_out>>
glob == <<glob_in, glob_map>>
hands == <<hand_frames, hand_submaps>>
threads == <<ending, running>>
vars == <<config, env, ext, odom, sub, glob, hands, threads,
          pc, auto_quit, accepted, dumps>>

Workers == {"odom", "sub", "glob"}

TimerPcs == {"timer_frames", "timer_submaps"}
JoinPcs == {"join_odom", "wait_frames", "join_sub", "wait_submaps", "join_glob"}
Pcs == {"spin", "wait_odom", "wait_loop", "save", "quit", "destroyed"}
         \cup TimerPcs \cup JoinPcs

-----------------------------------------------------------------------------
(* The constructor.  A stage that is disabled, unnamed or fails to load is *)
(* a null pointer; an odometry that fails to load aborts the process.      *)

Init ==
  /\ main \in Mains
  /\ sub_mapping \in BOOLEAN
  /\ global_mapping \in BOOLEAN
  /\ dump_on_unload \in BOOLEAN
  /\ pc = "spin"
  /\ auto_quit = FALSE
  /\ ok = TRUE
  /\ ext_ok = TRUE
  /\ ext_loaded = TRUE
  /\ ext_saved = FALSE
  /\ accepted = 0
  /\ odom_in = <<>> /\ odom_window = <<>> /\ odom_out = <<>>
  /\ sub_in = <<>> /\ sub_frames = <<>> /\ sub_out = <<>>
  /\ glob_in = <<>> /\ glob_map = <<>>
  /\ hand_frames = <<>> /\ hand_submaps = <<>>
  /\ ending = {}
  /\ running = {"odom"} \cup (IF sub_mapping THEN {"sub"} ELSE {})
                        \cup (IF global_mapping THEN {"glob"} ELSE {})
  /\ dumps = <<>>

-----------------------------------------------------------------------------
(* The outside world. *)

\* SIGINT, or another rclcpp::shutdown().
Interrupt ==
  /\ ok
  /\ ok' = FALSE
  /\ UNCHANGED <<config, ext_ok, ext, odom, sub, glob, hands, threads,
                 pc, auto_quit, accepted, dumps>>

\* The user closes a viewer: its ok() turns false.
ExtensionCloses ==
  /\ ext_ok
  /\ ext_ok' = FALSE
  /\ UNCHANGED <<config, ok, ext, odom, sub, glob, hands, threads,
                 pc, auto_quit, accepted, dumps>>

-----------------------------------------------------------------------------
(* The workers (external). *)

\* The odometry estimates one frame and marginalizes the oldest k of its window.
OdometryStep ==
  /\ "odom" \in running
  /\ odom_in # <<>>
  /\ LET window == Append(odom_window, Head(odom_in))
     IN \E k \in 0..Len(window) :
          /\ odom_out' = odom_out \o SubSeq(window, 1, k)
          /\ odom_window' = SubSeq(window, k + 1, Len(window))
  /\ odom_in' = Tail(odom_in)
  /\ UNCHANGED <<config, env, ext, sub, glob, hands, threads,
                 pc, auto_quit, accepted, dumps>>

\* After join() was called and the input ran dry, all of the window comes out.
OdometryEnd ==
  /\ "odom" \in running \cap ending
  /\ odom_in = <<>>
  /\ odom_out' = odom_out \o odom_window
  /\ odom_window' = <<>>
  /\ running' = running \ {"odom"}
  /\ UNCHANGED <<config, env, ext, odom_in, sub, glob, hands, ending,
                 pc, auto_quit, accepted, dumps>>

\* Sub mapping takes one frame and may complete a submap with it.
SubMappingStep ==
  /\ "sub" \in running
  /\ sub_in # <<>>
  /\ LET frames == Append(sub_frames, Head(sub_in))
     IN \/ sub_frames' = frames /\ UNCHANGED sub_out
        \/ sub_frames' = <<>> /\ sub_out' = Append(sub_out, frames)
  /\ sub_in' = Tail(sub_in)
  /\ UNCHANGED <<config, env, ext, odom, glob, hands, threads,
                 pc, auto_quit, accepted, dumps>>

\* At the end the frames that are left make the last submap.
SubMappingEnd ==
  /\ "sub" \in running \cap ending
  /\ sub_in = <<>>
  /\ sub_out' = IF sub_frames = <<>> THEN sub_out ELSE Append(sub_out, sub_frames)
  /\ sub_frames' = <<>>
  /\ running' = running \ {"sub"}
  /\ UNCHANGED <<config, env, ext, odom, sub_in, glob, hands, ending,
                 pc, auto_quit, accepted, dumps>>

GlobalMappingStep ==
  /\ "glob" \in running
  /\ glob_in # <<>>
  /\ glob_map' = Append(glob_map, Head(glob_in))
  /\ glob_in' = Tail(glob_in)
  /\ UNCHANGED <<config, env, ext, odom, sub, hands, threads,
                 pc, auto_quit, accepted, dumps>>

GlobalMappingEnd ==
  /\ "glob" \in running \cap ending
  /\ glob_in = <<>>
  /\ running' = running \ {"glob"}
  /\ UNCHANGED <<config, env, ext, odom, sub, glob, hands, ending,
                 pc, auto_quit, accepted, dumps>>

-----------------------------------------------------------------------------
(* Callbacks.  rclcpp::spin tests rclcpp::ok() before each callback, and a *)
(* shutdown between the test and the callback changes nothing the callback *)
(* reads: it is the same as one right after it.  The player calls the      *)
(* callbacks itself and may do so once more after a shutdown.              *)

\* The host may call points_callback or timer_callback.
Dispatches == pc = "spin" /\ (ok \/ main = "rosbag")

points_callback ==
  /\ Dispatches
  /\ accepted < MaxClouds
  /\ accepted' = accepted + 1
  /\ odom_in' = Append(odom_in, accepted + 1)
  /\ UNCHANGED <<config, env, ext, odom_window, odom_out, sub, glob, hands,
                 threads, pc, auto_quit, dumps>>

\* Mutant: get_results() leaves the results in the queue.
TakeFramesCopies ==
  /\ hand_frames' = IF sub_mapping THEN odom_out ELSE <<>>
  /\ odom_out' = odom_out

\* odometry_estimation->get_results(): without sub mapping the frames are dropped.
TakeFrames ==
  /\ hand_frames' = IF sub_mapping THEN odom_out ELSE <<>>
  /\ odom_out' = <<>>

\* Mutant: a timer_callback that sees rclcpp down drops what it has fetched.
TakeSubmapsGivesUp ==
  /\ hand_submaps' = IF global_mapping /\ ok THEN sub_out ELSE <<>>
  /\ sub_out' = <<>>

\* sub_mapping->get_results(): without global mapping the submaps are dropped.
TakeSubmaps ==
  /\ hand_submaps' = IF global_mapping THEN sub_out ELSE <<>>
  /\ sub_out' = <<>>

\* timer_callback up to get_results(); a closed extension shuts rclcpp down first.
TimerBegin ==
  /\ Dispatches
  /\ ok' = (ok /\ ext_ok)
  /\ TakeFrames
  /\ pc' = IF sub_mapping THEN "timer_frames" ELSE "spin"
  /\ UNCHANGED <<config, ext_ok, ext, odom_in, odom_window, sub, glob,
                 hand_submaps, threads, auto_quit, accepted, dumps>>

\* One turn of either loop around sub_mapping->insert_frame.
InsertFrame ==
  /\ pc \in {"timer_frames", "wait_frames"}
  /\ hand_frames # <<>>
  /\ sub_in' = Append(sub_in, Head(hand_frames))
  /\ hand_frames' = Tail(hand_frames)
  /\ UNCHANGED <<config, env, ext, odom, sub_frames, sub_out, glob,
                 hand_submaps, threads, pc, auto_quit, accepted, dumps>>

TimerSubmaps ==
  /\ pc = "timer_frames"
  /\ hand_frames = <<>>
  /\ TakeSubmaps
  /\ pc' = IF global_mapping THEN "timer_submaps" ELSE "spin"
  /\ UNCHANGED <<config, env, ext, odom, sub_in, sub_frames, glob,
                 hand_frames, threads, auto_quit, accepted, dumps>>

\* One turn of either loop around global_mapping->insert_submap.
InsertSubmap ==
  /\ pc \in {"timer_submaps", "wait_submaps"}
  /\ hand_submaps # <<>>
  /\ glob_in' = Append(glob_in, Head(hand_submaps))
  /\ hand_submaps' = Tail(hand_submaps)
  /\ UNCHANGED <<config, env, ext, odom, sub, glob_map, hand_frames,
                 threads, pc, auto_quit, accepted, dumps>>

TimerEnd ==
  /\ pc = "timer_submaps"
  /\ hand_submaps = <<>>
  /\ pc' = "spin"
  /\ UNCHANGED <<config, env, ext, odom, sub, glob, hands, threads,
                 auto_quit, accepted, dumps>>

-----------------------------------------------------------------------------
(* Leaving the executor. *)

\* Mutant: the joins are left out.
EnterWaitUnjoined(quit) ==
  /\ pc' = "wait_loop"
  /\ auto_quit' = quit

EnterWait(quit) ==
  /\ pc' = "wait_odom"
  /\ auto_quit' = quit

\* ~GlimROS(): extension_modules.clear(), then wait(true) and save if asked to.
Destructor ==
  /\ ext_loaded' = FALSE
  /\ IF dump_on_unload
     THEN EnterWait(TRUE) /\ UNCHANGED running
     ELSE pc' = "destroyed" /\ running' = {} /\ UNCHANGED auto_quit

\* A main() goes from its executor to wait(quit).
GoToWait(quit) ==
  /\ pc = "spin"
  /\ EnterWait(quit)
  /\ UNCHANGED <<config, env, ext, odom, sub, glob, hands, threads,
                 accepted, dumps>>

\* rclcpp::spin() returns in a main(), which calls wait(false).
SpinReturns == main \in {"rosnode", "rosbag"} /\ ~ok /\ GoToWait(FALSE)

\* Mutant: giving up on a bag does not set auto_quit.
PlaybackEndsWaiting == main = "rosbag" /\ GoToWait(FALSE)

\* The player is through with auto_quit, or gave up on a bag: no spin, wait(true).
PlaybackEnds == main = "rosbag" /\ GoToWait(TRUE)

\* The component container drops the node, on request or when it exits.
Unload ==
  /\ main = "component"
  /\ pc = "spin"
  /\ Destructor
  /\ UNCHANGED <<config, env, ext_saved, odom, sub, glob, hands, ending,
                 accepted, dumps>>

-----------------------------------------------------------------------------
(* wait(auto_quit). *)

\* Mutant: wait() trusts the timer to have fetched everything.
OdometryJoinedNoFetch ==
  /\ pc = "join_odom"
  /\ "odom" \notin running
  /\ pc' = IF sub_mapping THEN "wait_frames" ELSE "wait_loop"
  /\ UNCHANGED <<config, env, ext, odom, sub, glob, hands, threads,
                 auto_quit, accepted, dumps>>

\* Mutant: wait() does not test sub_mapping.
OdometryJoinedUntested ==
  /\ pc = "join_odom"
  /\ "odom" \notin running
  /\ TakeFrames
  /\ pc' = "wait_frames"
  /\ UNCHANGED <<config, env, ext, odom_in, odom_window, sub, glob,
                 hand_submaps, threads, auto_quit, accepted, dumps>>

\* odometry_estimation->join() raises its end flag ...
JoinOdometry ==
  /\ pc = "wait_odom"
  /\ ending' = ending \cup {"odom"}
  /\ pc' = "join_odom"
  /\ UNCHANGED <<config, env, ext, odom, sub, glob, hands, running,
                 auto_quit, accepted, dumps>>

\* ... and returns when the thread has ended; then the last frames are fetched.
OdometryJoined ==
  /\ pc = "join_odom"
  /\ "odom" \notin running
  /\ IF sub_mapping
     THEN TakeFrames /\ pc' = "wait_frames"
     ELSE pc' = "wait_loop" /\ UNCHANGED <<hand_frames, odom_out>>
  /\ UNCHANGED <<config, env, ext, odom_in, odom_window, sub, glob,
                 hand_submaps, threads, auto_quit, accepted, dumps>>

JoinSubMapping ==
  /\ pc = "wait_frames"
  /\ hand_frames = <<>>
  /\ ending' = ending \cup {"sub"}
  /\ pc' = "join_sub"
  /\ UNCHANGED <<config, env, ext, odom, sub, glob, hands, running,
                 auto_quit, accepted, dumps>>

SubMappingJoined ==
  /\ pc = "join_sub"
  /\ "sub" \notin running
  /\ TakeSubmaps
  /\ pc' = IF global_mapping THEN "wait_submaps" ELSE "wait_loop"
  /\ UNCHANGED <<config, env, ext, odom, sub_in, sub_frames, glob,
                 hand_frames, threads, auto_quit, accepted, dumps>>

\* Mutant: wait() does not join the global mapping.
JoinGlobalMappingSkipped ==
  /\ pc = "wait_submaps"
  /\ hand_submaps = <<>>
  /\ pc' = "wait_loop"
  /\ UNCHANGED <<config, env, ext, odom, sub, glob, hands, threads,
                 auto_quit, accepted, dumps>>

JoinGlobalMapping ==
  /\ pc = "wait_submaps"
  /\ hand_submaps = <<>>
  /\ ending' = ending \cup {"glob"}
  /\ pc' = "join_glob"
  /\ UNCHANGED <<config, env, ext, odom, sub, glob, hands, running,
                 auto_quit, accepted, dumps>>

GlobalMappingJoined ==
  /\ pc = "join_glob"
  /\ "glob" \notin running
  /\ pc' = "wait_loop"
  /\ UNCHANGED <<config, env, ext, odom, sub, glob, hands, threads,
                 auto_quit, accepted, dumps>>

\* Mutant: only an extension can end the busy wait.
WaitReturnsDeaf ==
  /\ pc = "wait_loop"
  /\ auto_quit \/ (ext_loaded /\ ~ext_ok)
  /\ pc' = "save"
  /\ UNCHANGED <<config, env, ext, odom, sub, glob, hands, threads,
                 auto_quit, accepted, dumps>>

\* Without auto_quit, busy-wait until an extension closes or rclcpp is down.
WaitReturns ==
  /\ pc = "wait_loop"
  /\ auto_quit \/ ~ok \/ (ext_loaded /\ ~ext_ok)
  /\ pc' = "save"
  /\ UNCHANGED <<config, env, ext, odom, sub, glob, hands, threads,
                 auto_quit, accepted, dumps>>

-----------------------------------------------------------------------------
(* save(), and the destructor that follows it when main() returns. *)

save ==
  /\ pc = "save"
  /\ dumps' = IF global_mapping THEN Append(dumps, glob_map) ELSE dumps
  /\ ext_saved' = (ext_saved \/ ext_loaded)
  /\ IF ext_loaded
     THEN pc' = "quit" /\ UNCHANGED running
     ELSE pc' = "destroyed" /\ running' = {}
  /\ UNCHANGED <<config, env, ext_loaded, odom, sub, glob, hands, ending,
                 auto_quit, accepted>>

\* main() returns and releases the node.
Quit ==
  /\ pc = "quit"
  /\ Destructor
  /\ UNCHANGED <<config, env, ext_saved, odom, sub, glob, hands, ending,
                 accepted, dumps>>

\* The node is gone; nothing else may happen.
Terminated == pc = "destroyed" /\ UNCHANGED vars

-----------------------------------------------------------------------------

Environment == Interrupt \/ ExtensionCloses

WorkerStep ==
  \/ OdometryStep \/ OdometryEnd
  \/ SubMappingStep \/ SubMappingEnd
  \/ GlobalMappingStep \/ GlobalMappingEnd

TimerStep ==
  TimerBegin \/ InsertFrame \/ TimerSubmaps \/ InsertSubmap \/ TimerEnd

WaitStep ==
  \/ JoinOdometry \/ OdometryJoined
  \/ JoinSubMapping \/ SubMappingJoined
  \/ JoinGlobalMapping \/ GlobalMappingJoined
  \/ WaitReturns

Next ==
  \/ Environment \/ WorkerStep
  \/ points_callback \/ TimerStep
  \/ SpinReturns \/ PlaybackEnds \/ Unload
  \/ WaitStep \/ save \/ Quit
  \/ Terminated

Spec == Init /\ [][Next]_vars

\* The operating system schedules every thread: the executor does not stop
\* between callbacks or inside main(), the player does not call the callbacks
\* for ever once rclcpp is down (RosbagPlayer), a component container exits
\* then, and a worker with work to do does it.
Fairness ==
  /\ WF_vars(TimerStep \/ SpinReturns \/ WaitStep \/ save \/ Quit)
  /\ SF_vars(SpinReturns)
  /\ WF_vars(~ok /\ Unload)
  /\ WF_vars(OdometryStep) /\ WF_vars(OdometryEnd)
  /\ WF_vars(SubMappingStep) /\ WF_vars(SubMappingEnd)
  /\ WF_vars(GlobalMappingStep) /\ WF_vars(GlobalMappingEnd)

FairSpec == Spec /\ Fairness

-----------------------------------------------------------------------------
(* Derived state: frames on their way and submaps on their way, oldest first. *)

InFlight ==
  sub_frames \o sub_in \o hand_frames \o odom_out \o odom_window \o odom_in

Submaps == glob_map \o glob_in \o hand_submaps \o sub_out

-----------------------------------------------------------------------------
(* Properties. *)

Frames == Seq(Nat)
Maps == Seq(Seq(Nat))

\* Every variable stays in its type, and timer_callback and wait call a mapping stage
\* only when it is no null pointer.
TypeOK ==
  /\ main \in {"rosnode", "rosbag", "component"}
  /\ sub_mapping \in BOOLEAN /\ global_mapping \in BOOLEAN
  /\ dump_on_unload \in BOOLEAN
  /\ pc \in Pcs
  /\ pc \in {"timer_frames", "wait_frames", "join_sub"} => sub_mapping
  /\ pc \in {"timer_submaps", "wait_submaps", "join_glob"} => sub_mapping /\ global_mapping
  /\ auto_quit \in BOOLEAN
  /\ ok \in BOOLEAN /\ ext_ok \in BOOLEAN
  /\ ext_loaded \in BOOLEAN /\ ext_saved \in BOOLEAN
  /\ accepted \in Nat
  /\ odom_in \in Frames /\ odom_window \in Frames /\ odom_out \in Frames
  /\ sub_in \in Frames /\ sub_frames \in Frames /\ sub_out \in Maps
  /\ glob_in \in Maps /\ glob_map \in Maps
  /\ hand_frames \in Frames /\ hand_submaps \in Maps
  /\ ending \in SUBSET Workers /\ running \in SUBSET Workers
  /\ dumps \in Seq(Maps)

\* Across all queues, worker-internal buffers and locals of the callbacks, the
\* frames still under way are the latest accepted ones, each once and in order,
\* whichever stages are configured (timer_callback and wait drop results only
\* from the old end).
InFlightIsARun ==
  /\ Len(InFlight) <= accepted
  /\ IsRun(InFlight, accepted - Len(InFlight))

\* With both mapping stages, the submaps in the map and on their way to it
\* partition exactly the frames that are no longer under way: no hand-over in
\* timer_callback or wait loses, repeats or reorders a frame.
NothingLost ==
  sub_mapping /\ global_mapping =>
    /\ IsPartition(Submaps)
    /\ LastFrame(Submaps) = accepted - Len(InFlight)

\* What save() writes, with both mapping stages, holds every cloud accepted in
\* the life of the node, in order - for the dump main() makes and for the one
\* of dump_on_unload.
DumpsComplete ==
  sub_mapping /\ global_mapping =>
    \A i \in 1..Len(dumps) :
      IsPartition(dumps[i]) /\ LastFrame(dumps[i]) = accepted

\* Nobody adds a submap to the map while save() reads it, whatever was still on its
\* way when wait() began.  (Without sub mapping the thread is not joined; there are no
\* submaps then, and the IMU data it may still get are not in this model.)
MapQuietDuringSave == pc = "save" => glob_in = <<>> /\ hand_submaps = <<>>

\* In the two programs with a main(), extension modules are destroyed only after
\* their at_exit(), and at a time when the workers have nothing left that could
\* make them call back: a viewer leaves its callbacks registered when it goes.
UnloadIsQuiet ==
  main # "component" /\ ~ext_loaded =>
    ext_saved /\ odom_in = <<>> /\ glob_in = <<>>

\* wait() waits for nobody but workers that have been told to end: each join() comes
\* after the flag, and the busy loop is never there to wait for a viewer to close.
WaitIsNeverStuck ==
  /\ pc = "wait_loop" => auto_quit \/ ~ok
  /\ pc = "join_odom" => "odom" \in ending
  /\ pc = "join_sub" => "sub" \in ending
  /\ pc = "join_glob" => "glob" \in ending

\* What is left to do once main() or the container has let go of the node: the
\* hand-overs each frame and submap still faces, the workers to end, the way through
\* wait() and save(), and all of it again in the destructor.
HandOversLeft ==
  7 * Len(odom_in) + 6 * (Len(odom_window) + Len(odom_out)) + 5 * Len(hand_frames)
    + 4 * Len(sub_in) + 3 * (Len(sub_frames) + Len(sub_out))
    + 2 * Len(hand_submaps) + Len(glob_in)

WayLeft ==
  [wait_odom |-> 9, join_odom |-> 8, wait_frames |-> 7, join_sub |-> 6,
   wait_submaps |-> 5, join_glob |-> 4, wait_loop |-> 3, save |-> 2, quit |-> 1,
   destroyed |-> 0]

Left ==
  HandOversLeft + Cardinality(running) + WayLeft[pc] + (IF ext_loaded THEN 10 ELSE 0)

\* From then on each step of the thread and of the workers brings the end nearer,
\* however they interleave, and nothing from outside puts it off: with
\* WaitIsNeverStuck, why shutting down takes finitely many steps.
ShutdownAdvances ==
  [][pc \notin {"spin"} \cup TimerPcs =>
       IF UNCHANGED env THEN Left' < Left ELSE Left' = Left]_vars

\* Once rclcpp is down, or wait() has been entered for any reason, the process
\* ends: no join() waits for a worker that waits for it, and wait() does not
\* spin on an extension nobody closes.
ShutdownCompletes == (~ok \/ pc = "wait_odom") ~> (pc = "destroyed")

\* The node implements the promise of MapService.
Service == INSTANCE MapService WITH
  mapping <- sub_mapping /\ global_mapping,
  closed <- pc \notin ({"spin"} \cup TimerPcs),
  map <- glob_map

ServiceSpec == Service!Spec

=============================================================================
