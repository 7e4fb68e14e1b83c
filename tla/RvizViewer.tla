----------------------------- MODULE RvizViewer -----------------------------
(***************************************************************************)
(* The RViz extension module: callbacks that the odometry and the global   *)
(* mapping threads run, and a thread of the viewer's own that assembles    *)
(* the map from the tasks the global mapping thread leaves in a queue.     *)
(*                                                                         *)
(* A transform is abstracted to what it is made of: the version of the     *)
(* anchor (the transform from odom to map, version v after the v-th        *)
(* update_anchor, the identity in version 0) and the power of T_imu_lidar. *)
(* The poses of the submaps have the version of the update that reported   *)
(* them.  Odometry and global mapping are external: a new frame is         *)
(* estimated from a cloud that points_callback inserted and may be         *)
(* corrected later; a call of on_update_submaps reports all submaps so     *)
(* far, at least one, with their present poses, and there may be one more  *)
(* than in the call before, or several, or none.                           *)
(*                                                                         *)
(* Each thread's actions say what happens to the variables it may change;  *)
(* Next adds that the others keep theirs.                                  *)
(***************************************************************************)
EXTENDS Integers, Sequences

CONSTANTS
  Setups,      \* the frame ids considered, in the configuration and in messages
  MaxClouds,   \* bound on the clouds inserted
  MaxSubmaps,  \* bound on the submaps completed
  MaxUpdates,  \* bound on the calls of on_update_submaps
  Period       \* the 10 seconds between two maps

\* The empty string.
Empty == "(empty)"

\* Frame ids in the configuration (Empty when not set) and in the message headers.
\* "odom" and "map" stand for odom_frame_id and map_frame_id; that no sensor has one
\* of these frames is up to who configures them.
IsSetup(s) ==
  /\ DOMAIN s = {"imu", "lidar", "base", "imu_header", "lidar_header", "imu2lidar"}
  /\ Empty \notin {s.imu_header, s.lidar_header}
  /\ {"odom", "map"} \cap {s.imu, s.lidar, s.base, s.imu_header, s.lidar_header} = {}
  /\ s.imu2lidar \in BOOLEAN

ASSUME SetupsAssumption == \A s \in Setups : IsSetup(s)
ASSUME BoundsAssumption == {MaxClouds, MaxSubmaps, MaxUpdates} \subseteq Nat
ASSUME PeriodAssumption == Period \in Nat \ {0}

VARIABLES
  setup,
  meta_imu, meta_lidar,  \* imu_frame_id and lidar_frame_id of GlobalConfig "meta"
  inserting,             \* points_callback is past its frame id
  clouds,                \* clouds given to the odometry
  frames,                \* frames estimated
  imu_frame_id, lidar_frame_id, base_frame_id,
  odom_pc,               \* where the odometry thread is in odometry_new_frame
  corrected,             \* the flag of that call
  T_world_odom, T_world_imu,   \* its locals: the anchor each was computed with
  sent_tf, sent,         \* the transforms and the messages of the last call
  tf,                    \* history: the edges of all transforms ever sent
  anchor,                \* the anchor in the trajectory
  reports,               \* history: how many submaps each on_update_submaps reported
  map_pc,                \* where it is in globalmap_on_update_submaps
  invoke_queue,          \* tasks: the submap and the poses each captured
  tasks,                 \* the viewer thread's local invoke_queue, still to run
  view_pc,               \* where the viewer thread is
  submaps,               \* the viewer's submaps
  since,                 \* time since last_globalmap_pub_time, up to Period
  map,                   \* the last map published: submaps with their poses
  subscribed,            \* somebody listens to ~/map
  kill_switch,
  life                   \* of the viewer, whose destructor joins the thread

executor == <<meta_imu, meta_lidar, inserting, clouds>>
ids == <<imu_frame_id, lidar_frame_id, base_frame_id>>
located == <<T_world_odom, T_world_imu>>
published == <<sent_tf, sent, tf>>
odometry == <<frames, ids, odom_pc, corrected, located, published>>
mapping == <<anchor, reports, map_pc>>
viewer == <<tasks, view_pc, submaps, since, map>>
world == <<subscribed, kill_switch, life>>
vars == <<setup, executor, odometry, mapping, invoke_queue, viewer, world>>

\* Publishers exist before the first callback: create_subscriptions precedes the
\* node's subscribers.  A topic nobody listens to is not published; nobody sees it.
Init ==
  /\ setup \in Setups
  /\ meta_imu = Empty /\ meta_lidar = Empty
  /\ inserting = FALSE
  /\ clouds = 0 /\ frames = 0
  /\ imu_frame_id = setup.imu
  /\ lidar_frame_id = setup.lidar
  /\ base_frame_id = IF setup.base = Empty THEN setup.imu ELSE setup.base
  /\ odom_pc = "idle" /\ corrected = FALSE
  /\ T_world_odom = 0 /\ T_world_imu = 0
  /\ sent_tf = {} /\ sent = {} /\ tf = {}
  /\ anchor = 0 /\ reports = <<>> /\ map_pc = "idle"
  /\ invoke_queue = <<>>
  /\ tasks = <<>> /\ view_pc = "idle"
  /\ kill_switch = FALSE /\ life = "alive"
  /\ submaps = <<>> /\ since = 0 /\ map = <<>>
  /\ subscribed \in BOOLEAN

-----------------------------------------------------------------------------
(* The executor thread: imu_callback and points_callback detect frame ids. *)

\* Mutant: the test for a known id is the wrong way round.
DetectInverted(meta, header) == IF meta # Empty THEN header ELSE meta

Detect(meta, header) == IF meta = Empty THEN header ELSE meta

imu_callback ==
  /\ meta_imu' = Detect(meta_imu, setup.imu_header)
  /\ UNCHANGED <<meta_lidar, inserting, clouds>>

PointsFrameId ==
  /\ ~inserting
  /\ clouds < MaxClouds
  /\ meta_lidar' = Detect(meta_lidar, setup.lidar_header)
  /\ inserting' = TRUE
  /\ UNCHANGED <<meta_imu, clouds>>

\* A cloud that cannot be converted or fails the time check is not inserted.
PointsInsert ==
  /\ inserting
  /\ clouds' \in {clouds, clouds + 1}
  /\ inserting' = FALSE
  /\ UNCHANGED <<meta_imu, meta_lidar>>

-----------------------------------------------------------------------------
(* The odometry thread: odometry_new_frame. *)

\* on_new_frame for the next frame, or on_update_new_frame for an earlier one.
FrameEstimated ==
  /\ odom_pc = "idle"
  /\ life = "alive"
  /\ \/ frames < clouds /\ frames' = frames + 1 /\ corrected' = FALSE
     \/ frames > 0 /\ frames' = frames /\ corrected' = TRUE
  /\ odom_pc' = "frame_ids"
  /\ UNCHANGED <<ids, located, published>>

\* Mutants: an id that "meta" does not know stays empty; "meta" is asked each time.
ResolveMeta(id, meta, default) == IF id # Empty THEN id ELSE meta
ResolveAgain(id, meta, default) ==
  IF meta # Empty THEN meta ELSE IF id # Empty THEN id ELSE default

\* An id that is not known is taken from "meta", or else its default for good.
Resolve(id, meta, default) ==
  IF id # Empty THEN id ELSE IF meta # Empty THEN meta ELSE default

FrameIds ==
  /\ odom_pc = "frame_ids"
  /\ imu_frame_id' = Resolve(imu_frame_id, meta_imu, "imu")
  /\ lidar_frame_id' = Resolve(lidar_frame_id, meta_lidar, "lidar")
  /\ base_frame_id' = IF base_frame_id = Empty THEN imu_frame_id' ELSE base_frame_id
  /\ odom_pc' = "locate"
  /\ UNCHANGED <<frames, corrected, located, published>>

\* The frame is placed in the world, under trajectory_mutex.
Locate ==
  /\ odom_pc = "locate"
  /\ T_world_odom' = anchor
  /\ T_world_imu' = anchor
  /\ odom_pc' = "publish"
  /\ UNCHANGED <<frames, ids, corrected, published>>

Transform(parent, child, version, lever) ==
  [parent |-> parent, child |-> child, anchor |-> version, lever |-> lever]

Message(topic, frame, version, lever) ==
  [topic |-> topic, frame |-> frame, anchor |-> version, lever |-> lever]

\* Mutant: the anchor is asked for again, outside the lock.
WorldToOdomUnlocked == Transform("map", "odom", anchor, 0)

WorldToOdom == Transform("map", "odom", T_world_odom, 0)

\* A base other than the IMU is looked up, which may fail.
OdomToBase(found) ==
  IF base_frame_id = imu_frame_id \/ found
  THEN {Transform("odom", base_frame_id, 0, 0)} ELSE {}

\* The translation and rotation sent are those of T_lidar_imu.
ImuToLidar ==
  IF setup.imu2lidar THEN {Transform(imu_frame_id, lidar_frame_id, 0, -1)} ELSE {}

\* The poses of IMU and LiDAR without and with loop closure.  At the end of the
\* scan the same are published with the motion during the scan, T_imubegin_imuend.
OdomMessages == {Message("odom", "odom", 0, 0), Message("lidar_odom", "odom", 0, 1)}

PoseMessages == {Message("pose", "map", T_world_imu, 0),
                 Message("lidar_pose", "map", T_world_imu, 1)}

\* The cloud where the sensor sees it, and where the odometry's T_world_sensor()
\* puts it.  Odometry modules leave a cloud in the LiDAR or the IMU frame.
CloudMessages(sensor_id) == {Message("points", sensor_id, 0, 0),
                             Message("aligned_points", "map", 0, 0)}

Publish ==
  /\ odom_pc = "publish"
  /\ \E found \in BOOLEAN :
       sent_tf' = IF corrected THEN {}
                  ELSE {WorldToOdom} \cup OdomToBase(found) \cup ImuToLidar
  /\ tf' = tf \cup {<<t.parent, t.child>> : t \in sent_tf'}
  /\ \E id \in {imu_frame_id, lidar_frame_id} :
       sent' = OdomMessages \cup PoseMessages \cup CloudMessages(id)
  /\ odom_pc' = "idle"
  /\ UNCHANGED <<frames, ids, corrected, located>>

-----------------------------------------------------------------------------
(* The global mapping thread: globalmap_on_update_submaps. *)

\* The submaps there are, one at least when anybody is told of them.
Reported == IF reports = <<>> THEN 1 ELSE reports[Len(reports)]

SubmapsUpdated ==
  /\ map_pc = "idle"
  /\ life = "alive"
  /\ Len(reports) < MaxUpdates
  /\ \E n \in Reported..MaxSubmaps : reports' = Append(reports, n)
  /\ anchor' = Len(reports')
  /\ map_pc' = "invoke"
  /\ UNCHANGED invoke_queue

Pose(submap, update) == [submap |-> submap, update |-> update]

\* The task of the k-th call captures the last submap and the poses of all.
TaskOf(k) ==
  [submap |-> reports[k], poses |-> [i \in 1..reports[k] |-> Pose(i, k)]]

Invoke ==
  /\ map_pc = "invoke"
  /\ invoke_queue' = Append(invoke_queue, TaskOf(Len(reports)))
  /\ map_pc' = "idle"
  /\ UNCHANGED <<anchor, reports>>

-----------------------------------------------------------------------------
(* The viewer's thread. *)

\* Mutant: spin_once copies the queue and leaves it as it is.
TakeTasksCopies == tasks' = invoke_queue /\ UNCHANGED invoke_queue

TakeTasks == tasks' = invoke_queue /\ invoke_queue' = <<>>

SpinOnce ==
  /\ view_pc = "idle"
  /\ ~kill_switch
  /\ TakeTasks
  /\ view_pc' = "run"
  /\ UNCHANGED <<submaps, since, map>>

\* What submap_poses[i] reads beyond its end may be anything, no pose of a submap.
NoPose == Pose(0, 0)

PoseAt(poses, i) == IF i <= Len(poses) THEN poses[i] ELSE NoPose

\* The task: keep the submap, and publish the map when somebody listens and the
\* last one is old enough.
RunTask ==
  /\ view_pc = "run"
  /\ tasks # <<>>
  /\ LET task == Head(tasks)
     IN /\ submaps' = Append(submaps, task.submap)
        /\ IF subscribed /\ since = Period
           THEN /\ since' = 0
                /\ map' = [i \in 1..Len(submaps') |->
                             [submap |-> submaps'[i], pose |-> PoseAt(task.poses, i)]]
           ELSE UNCHANGED <<since, map>>
  /\ tasks' = Tail(tasks)
  /\ UNCHANGED <<invoke_queue, view_pc>>

SpinOnceEnds ==
  /\ view_pc = "run"
  /\ tasks = <<>>
  /\ view_pc' = "idle"
  /\ UNCHANGED <<invoke_queue, tasks, submaps, since, map>>

ThreadEnds ==
  /\ view_pc = "idle"
  /\ kill_switch
  /\ view_pc' = "ended"
  /\ UNCHANGED <<invoke_queue, tasks, submaps, since, map>>

-----------------------------------------------------------------------------
(* The world around the viewer. *)

\* Mutant: the destructor joins a thread that nobody told to end.
DestroyUntold ==
  /\ life = "alive"
  /\ odom_pc = "idle" /\ map_pc = "idle"
  /\ life' = "joining"
  /\ UNCHANGED <<kill_switch, subscribed, viewer>>

\* ~RvizViewer(); in a program with a main() the workers are quiet then (GlimRos).
Destroy ==
  /\ life = "alive"
  /\ odom_pc = "idle" /\ map_pc = "idle"
  /\ kill_switch' = TRUE
  /\ life' = "joining"
  /\ UNCHANGED <<subscribed, viewer>>

ThreadJoined ==
  /\ life = "joining"
  /\ view_pc = "ended"
  /\ life' = "gone"
  /\ UNCHANGED <<kill_switch, subscribed, viewer>>

Subscription == subscribed' = ~subscribed /\ UNCHANGED <<kill_switch, life, viewer>>

Tick ==
  /\ since < Period
  /\ since' = since + 1
  /\ UNCHANGED <<tasks, view_pc, submaps, map, world>>

-----------------------------------------------------------------------------

Executor ==
  /\ imu_callback \/ PointsFrameId \/ PointsInsert
  /\ UNCHANGED <<setup, odometry, mapping, invoke_queue, viewer, world>>

OdometryThread ==
  /\ FrameEstimated \/ FrameIds \/ Locate \/ Publish
  /\ UNCHANGED <<setup, executor, mapping, invoke_queue, viewer, world>>

MappingThread ==
  /\ SubmapsUpdated \/ Invoke
  /\ UNCHANGED <<setup, executor, odometry, viewer, world>>

ViewerThread ==
  /\ SpinOnce \/ RunTask \/ SpinOnceEnds \/ ThreadEnds
  /\ UNCHANGED <<setup, executor, odometry, mapping, world>>

World ==
  /\ Destroy \/ ThreadJoined \/ Subscription \/ Tick
  /\ UNCHANGED <<setup, executor, odometry, mapping, invoke_queue>>

Next == Executor \/ OdometryThread \/ MappingThread \/ ViewerThread \/ World

Spec == Init /\ [][Next]_vars

\* The threads run, a join returns when its thread has ended, and time passes.
FairSpec ==
  /\ Spec
  /\ WF_vars(ViewerThread)
  /\ WF_vars(MappingThread /\ map_pc = "invoke")
  /\ WF_vars(World /\ ThreadJoined)
  /\ WF_vars(World /\ since' = since + 1)

-----------------------------------------------------------------------------
(* Properties. *)

Poses == [submap : 1..MaxSubmaps, update : 1..MaxUpdates]
Task == [submap : 1..MaxSubmaps, poses : Seq(Poses)]

\* Every variable stays in its type, and a frame is published under known ids.
TypeOK ==
  /\ setup \in Setups
  /\ meta_imu \in {Empty, setup.imu_header} /\ meta_lidar \in {Empty, setup.lidar_header}
  /\ odom_pc \in {"locate", "publish"} =>
       Empty \notin {imu_frame_id, lidar_frame_id, base_frame_id}
  /\ inserting \in BOOLEAN /\ clouds \in 0..MaxClouds /\ frames \in 0..clouds
  /\ odom_pc \in {"idle", "frame_ids", "locate", "publish"}
  /\ corrected \in BOOLEAN
  /\ {T_world_odom, T_world_imu, anchor} \subseteq 0..MaxUpdates
  /\ \A m \in sent \cup sent_tf : m.anchor \in 0..MaxUpdates /\ m.lever \in -1..1
  /\ reports \in Seq(1..MaxSubmaps) /\ Len(reports) <= MaxUpdates
  /\ map_pc \in {"idle", "invoke"}
  /\ invoke_queue \in Seq(Task) /\ tasks \in Seq(Task)
  /\ view_pc \in {"idle", "run", "ended"}
  /\ kill_switch \in BOOLEAN /\ subscribed \in BOOLEAN
  /\ life \in {"alive", "joining", "gone"}
  /\ submaps \in Seq(1..MaxSubmaps)
  /\ since \in 0..Period
  /\ map \in Seq([submap : 1..MaxSubmaps, pose : Poses \cup {NoPose}])

\* A published map shows the calls of on_update_submaps up to some k-th: no task of
\* theirs is lost, run twice or overtaken, and all poses are those the k-th call
\* captured, however the mapping thread and the swap of the queue interleave and
\* whoever listens when.  A pose is read past the end of the captured ones exactly
\* where that call reported fewer submaps than there were calls.
MapFollowsUpdates ==
  /\ Len(map) <= Len(reports)
  /\ \A i \in 1..Len(map) :
       map[i] = [submap |-> reports[i],
                 pose |-> IF i <= reports[Len(map)] THEN Pose(i, Len(map)) ELSE NoPose]

\* The LiDAR frame id in the transforms is the configured one or that of the
\* sensor, never the default: points_callback stores it before it inserts the
\* cloud, and the odometry thread looks for it when that cloud is a frame.  (Of the
\* IMU this cannot be said: an IMU message need not come before the first frame.)
LidarIdDetected ==
  lidar_frame_id \in {setup.lidar, IF setup.lidar = Empty THEN setup.lidar_header ELSE Empty}

\* The map->odom transform and the poses in the map that go out for a frame were
\* computed from the same anchor, whatever the mapping thread does meanwhile.
TransformAgreesWithPose ==
  \A t \in sent_tf, m \in sent :
    t.parent = "map" /\ m.topic \in {"pose", "lidar_pose"} => t.anchor = m.anchor

\* All transforms ever sent lead from the map to odom, from odom to the base, or
\* from the IMU to the LiDAR under the ids of now: ids that are detected while frames
\* go out, by another thread, never rename a frame that was already used.  These
\* edges are one chain, each frame with one parent and one child at most, unless the
\* LiDAR's transform is sent too and its id is also the IMU's or the base's.
TransformsFormAChain ==
  /\ tf \subseteq {<<"map", "odom">>, <<"odom", base_frame_id>>}
                \cup (IF setup.imu2lidar THEN {<<imu_frame_id, lidar_frame_id>>} ELSE {})
  /\ (setup.imu2lidar => lidar_frame_id \notin {imu_frame_id, base_frame_id}) =>
       \A e, f \in tf :
         /\ e[1] # e[2]
         /\ e[1] = f[1] \/ e[2] = f[2] => e = f

\* The destructor returns: it joins a thread that was told to end and does, though
\* tasks be left to it or in the queue.
DestructorReturns == (life = "joining") ~> (life = "gone")

\* "Publish global map every 10 seconds": with somebody listening and a submap in
\* the map, a map goes out again and again.
MapEveryTenSeconds ==
  <>[](subscribed /\ ~kill_switch /\ submaps # <<>>) => []<>(since < Period)

\* "Concatenate all the submap points": a map that goes out holds every submap that
\* the latest of its calls reported, each once and at its own pose.
MapHoldsAllSubmaps ==
  map # <<>> =>
    LET k == Len(map)
    IN map = [i \in 1..reports[k] |-> [submap |-> i, pose |-> Pose(i, k)]]

\* "Publish points aligned to the world frame": what is labelled with the map frame
\* was computed from the anchor under which the frame was placed in the world.
AlignedPointsInWorld ==
  odom_pc = "idle" => \A m \in sent : m.frame = "map" => m.anchor = T_world_odom

\* "IMU -> LiDAR": from the IMU to the LiDAR the transforms lead the same way as
\* "Odometry in LiDAR frame" does.
LidarTransformAgrees ==
  \A t \in sent_tf, m \in sent :
    t.child = lidar_frame_id /\ m.topic = "lidar_odom" => t.lever = m.lever
=============================================================================
