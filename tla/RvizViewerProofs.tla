-------------------------- MODULE RvizViewerProofs --------------------------
(***************************************************************************)
(* Theorems about RvizViewer, for any setups of frame ids, any number of   *)
(* clouds, submaps and updates, and every interleaving of the threads.     *)
(***************************************************************************)
EXTENDS RvizViewer, SequenceTheorems, TLAPS

-----------------------------------------------------------------------------
(* The inductive invariant.  None of the properties is inductive: what a    *)
(* frame id may become depends on what was detected before a cloud could    *)
(* become a frame, and what a map holds on what the tasks under way hold.   *)

\* What TypeOK leaves out: a cloud is taken in hand only where the bound has room for
\* it, and a task is made for an update there was.
TypeInv ==
  /\ TypeOK
  /\ inserting => clouds < MaxClouds
  /\ map_pc = "invoke" => reports # <<>>

Ids == {imu_frame_id, lidar_frame_id, base_frame_id}

\* A cloud is inserted, and so becomes a frame, only after its frame id is stored.
DetectedFirst ==
  /\ inserting => meta_lidar = setup.lidar_header
  /\ clouds > 0 => meta_lidar = setup.lidar_header
  /\ odom_pc # "idle" => frames > 0

\* The ids are the configured ones, or not known yet, or detected, or by default.
IdsFollowSetup ==
  /\ lidar_frame_id \in
       IF setup.lidar = Empty THEN {Empty, setup.lidar_header} ELSE {setup.lidar}
  /\ Ids \cap {"odom", "map"} = {}

\* Nothing is sent under an id that is not known, and the ids last.
EdgesKnown ==
  /\ tf # {} => Empty \notin Ids
  /\ \A e \in tf :
       \/ e = <<"map", "odom">>
       \/ e = <<"odom", base_frame_id>>
       \/ setup.imu2lidar /\ e = <<imu_frame_id, lidar_frame_id>>

\* A frame is placed with one anchor.
PlacedOnce == odom_pc = "publish" => T_world_odom = T_world_imu

\* The updates whose task is in the queue or further.
Invoked == IF map_pc = "invoke" THEN Len(reports) - 1 ELSE Len(reports)

\* The viewer's submaps, the tasks it is at, and the tasks in the queue are those of
\* the updates, in order and complete.
TasksInOrder ==
  /\ view_pc # "run" => tasks = <<>>
  /\ Len(submaps) + Len(tasks) + Len(invoke_queue) = Invoked
  /\ \A i \in 1..Len(submaps) : submaps[i] = reports[i]
  /\ \A i \in 1..Len(tasks) : tasks[i] = TaskOf(Len(submaps) + i)
  /\ \A i \in 1..Len(invoke_queue) :
       invoke_queue[i] = TaskOf(Len(submaps) + Len(tasks) + i)

\* A map is made of the submaps the viewer has, and it got them all from updates.
MapIsPast == Len(map) <= Len(submaps)

IInv ==
  /\ TypeInv
  /\ DetectedFirst /\ IdsFollowSetup /\ EdgesKnown
  /\ PlacedOnce /\ TransformAgreesWithPose
  /\ TasksInOrder /\ MapIsPast /\ MapFollowsUpdates

LEMMA InitInv == Init => IInv
<1> SUFFICES ASSUME Init PROVE IInv
  OBVIOUS
<1>1. IsSetup(setup)
  BY SetupsAssumption DEF Init
<1>2. \A S : <<>> \in Seq(S)
  BY EmptySeq
<1>3. TypeOK
  <2>1. inserting \in BOOLEAN /\ corrected \in BOOLEAN /\ kill_switch \in BOOLEAN
    BY Zenon DEF Init
  <2>2. \A m \in sent \cup sent_tf : m.anchor \in 0..MaxUpdates /\ m.lever \in -1..1
    BY DEF Init
  <2>3. /\ clouds \in 0..MaxClouds /\ frames \in 0..clouds
        /\ Len(reports) <= MaxUpdates /\ since \in 0..Period
        /\ {T_world_odom, T_world_imu, anchor} \subseteq 0..MaxUpdates
    BY BoundsAssumption, PeriodAssumption DEF Init
  <2> QED
    BY <1>2, <2>1, <2>2, <2>3 DEF Init, TypeOK
<1>9. TypeInv
  <2>1. ~inserting
    BY Zenon DEF Init
  <2> QED
    BY <1>3, <2>1 DEF Init, TypeInv
<1>4. DetectedFirst
  <2>1. ~inserting
    BY Zenon DEF Init
  <2>2. clouds = 0 /\ odom_pc = "idle"
    BY DEF Init
  <2> QED
    BY <2>1, <2>2 DEF DetectedFirst
<1>5. IdsFollowSetup
  BY <1>1 DEF Init, IdsFollowSetup, Ids, IsSetup, Empty
<1>6. EdgesKnown
  BY DEF Init, EdgesKnown
<1>7. PlacedOnce /\ TransformAgreesWithPose
  BY DEF Init, PlacedOnce, TransformAgreesWithPose
<1>8. TasksInOrder /\ MapIsPast /\ MapFollowsUpdates
  <2>1. /\ Len(submaps) = 0 /\ Len(tasks) = 0 /\ Len(invoke_queue) = 0 /\ Len(map) = 0
        /\ Len(reports) = 0
    BY DEF Init
  <2>2. tasks = <<>> /\ map_pc = "idle"
    BY DEF Init
  <2>3. MapIsPast /\ MapFollowsUpdates
    BY <2>1 DEF MapIsPast, MapFollowsUpdates
  <2> QED
    BY <2>1, <2>2, <2>3 DEF TasksInOrder, Invoked
<1> QED
  BY <1>4, <1>5, <1>6, <1>7, <1>8, <1>9 DEF IInv

-----------------------------------------------------------------------------
(* Type correctness, thread by thread. *)

LEMMA SetupFixed == ASSUME [Next]_vars PROVE setup' = setup
BY DEF Next, vars, Executor, OdometryThread, MappingThread, ViewerThread, World

LEMMA ExecutorType == ASSUME TypeInv, Executor PROVE TypeInv'
<1> USE DEF TypeInv, TypeOK
<1>1. UNCHANGED <<setup, odometry, mapping, invoke_queue, viewer, world>>
  BY DEF Executor
<1>2. meta_imu' \in {Empty, setup.imu_header} /\ meta_lidar' \in {Empty, setup.lidar_header}
  BY DEF Executor, imu_callback, PointsFrameId, PointsInsert, Detect
<1>3. inserting' \in BOOLEAN
  BY Zenon DEF Executor, imu_callback, PointsFrameId, PointsInsert
<1>4. /\ clouds' \in 0..MaxClouds /\ frames' \in 0..clouds'
      /\ inserting' => clouds' < MaxClouds
  <2>1. CASE imu_callback
    BY <1>1, <2>1 DEF imu_callback, odometry
  <2>2. CASE PointsFrameId
    BY <1>1, <2>2 DEF PointsFrameId, odometry
  <2>3. CASE PointsInsert
    <3>1. ~inserting'
      BY <2>3, Zenon DEF PointsInsert
    <3>2. clouds' \in 0..MaxClouds /\ frames' \in 0..clouds'
      BY <1>1, <2>3, BoundsAssumption DEF PointsInsert, odometry
    <3> QED
      BY <3>1, <3>2
  <2> QED
    BY <2>1, <2>2, <2>3 DEF Executor
<1> QED
  BY <1>1, <1>2, <1>3, <1>4 DEF odometry, ids, located, published, mapping, viewer, world

LEMMA OdometryType == ASSUME TypeInv, OdometryThread PROVE TypeInv'
<1> USE DEF TypeInv, TypeOK
<1>1. UNCHANGED <<setup, executor, mapping, invoke_queue, viewer, world>>
  BY DEF OdometryThread
<1>2. IsSetup(setup)
  BY SetupsAssumption
<1>3. CASE FrameEstimated
  <2>1. corrected' \in BOOLEAN /\ odom_pc' = "frame_ids"
    BY <1>3, Zenon DEF FrameEstimated
  <2>2. frames' \in 0..clouds
    BY <1>3, BoundsAssumption DEF FrameEstimated
  <2> QED
    BY <1>1, <1>3, <2>1, <2>2
    DEF FrameEstimated, ids, located, published, executor, mapping, viewer, world
<1>4. CASE FrameIds
  <2>1. Empty \notin {imu_frame_id', lidar_frame_id', base_frame_id'}
    BY <1>2, <1>4 DEF FrameIds, Resolve, Empty
  <2> QED
    BY <1>1, <1>4, <2>1
    DEF FrameIds, located, published, executor, mapping, viewer, world
<1>5. CASE Locate
  BY <1>1, <1>5 DEF Locate, ids, published, executor, mapping, viewer, world
<1>6. CASE Publish
  <2>1. PICK found \in BOOLEAN :
          sent_tf' = IF corrected THEN {}
                     ELSE {WorldToOdom} \cup OdomToBase(found) \cup ImuToLidar
    BY <1>6 DEF Publish
  <2>2. PICK id \in {imu_frame_id, lidar_frame_id} :
          sent' = OdomMessages \cup PoseMessages \cup CloudMessages(id)
    BY <1>6 DEF Publish
  <2>3. T_world_odom \in 0..MaxUpdates /\ T_world_imu \in 0..MaxUpdates /\ 0 \in 0..MaxUpdates
    BY BoundsAssumption
  <2>4. \A m \in sent_tf' : m.anchor \in 0..MaxUpdates /\ m.lever \in -1..1
    BY <2>1, <2>3 DEF WorldToOdom, OdomToBase, ImuToLidar, Transform
  <2>5. \A m \in sent' : m.anchor \in 0..MaxUpdates /\ m.lever \in -1..1
    BY <2>2, <2>3 DEF OdomMessages, PoseMessages, CloudMessages, Message
  <2> QED
    BY <1>1, <1>6, <2>4, <2>5 DEF Publish, ids, located, executor, mapping, viewer, world
<1> QED
  BY <1>3, <1>4, <1>5, <1>6 DEF OdometryThread

LEMMA IsSeq == ASSUME NEW S, NEW n \in Nat, NEW f \in [1..n -> S] PROVE f \in Seq(S)
OBVIOUS

LEMMA TaskType ==
  ASSUME TypeOK, NEW k \in 1..Len(reports) PROVE TaskOf(k) \in Task
<1>1. reports[k] \in 1..MaxSubmaps /\ k \in 1..MaxUpdates /\ MaxSubmaps \in Nat
  BY BoundsAssumption, ElementOfSeq, LenProperties DEF TypeOK
<1>2. [i \in 1..reports[k] |-> Pose(i, k)] \in [1..reports[k] -> Poses]
  BY <1>1 DEF Pose, Poses
<1>3. [i \in 1..reports[k] |-> Pose(i, k)] \in Seq(Poses)
  BY <1>1, <1>2, IsSeq
<1> QED
  BY <1>1, <1>3 DEF TaskOf, Task

\* An update is appended to the reports.
LEMMA ReportsStep ==
  ASSUME TypeInv, SubmapsUpdated
  PROVE  \E n \in 1..MaxSubmaps :
           /\ reports' = Append(reports, n)
           /\ reports' \in Seq(1..MaxSubmaps)
           /\ Len(reports') = Len(reports) + 1
           /\ \A k \in 1..Len(reports) : reports'[k] = reports[k]
<1>1. reports \in Seq(1..MaxSubmaps) /\ Len(reports) \in Nat
  BY LenProperties DEF TypeInv, TypeOK
<1>2. Reported \in Nat \ {0}
  <2>1. CASE reports = <<>>
    BY <2>1 DEF Reported
  <2>2. CASE reports # <<>>
    <3>1. Len(reports) \in 1..Len(reports)
      BY <1>1, <2>2, EmptySeq
    <3>2. reports[Len(reports)] \in 1..MaxSubmaps
      BY <1>1, <3>1, ElementOfSeq
    <3>3. \A n \in 1..MaxSubmaps : n \in Nat \ {0}
      BY BoundsAssumption
    <3> QED
      BY <2>2, <3>2, <3>3 DEF Reported
  <2> QED
    BY <2>1, <2>2
<1>3. PICK n \in Reported..MaxSubmaps : reports' = Append(reports, n)
  BY DEF SubmapsUpdated
<1>4. n \in 1..MaxSubmaps
  BY <1>2, <1>3, BoundsAssumption
<1> QED
  BY <1>1, <1>3, <1>4, AppendProperties

LEMMA MappingType == ASSUME TypeInv, MappingThread PROVE TypeInv'
<1> USE DEF TypeInv, TypeOK
<1>1. UNCHANGED <<setup, executor, odometry, viewer, world>>
  BY DEF MappingThread
<1>2. CASE SubmapsUpdated
  <2>1. Len(reports) \in Nat /\ Len(reports) < MaxUpdates
    BY <1>2, LenProperties DEF SubmapsUpdated
  <2>2. /\ reports' \in Seq(1..MaxSubmaps) /\ Len(reports') = Len(reports) + 1
        /\ reports' # <<>>
    BY <1>2, <2>1, ReportsStep, EmptySeq
  <2>3. Len(reports') <= MaxUpdates /\ anchor' \in 0..MaxUpdates
    BY <1>2, <2>1, <2>2, BoundsAssumption DEF SubmapsUpdated
  <2> QED
    BY <1>1, <1>2, <2>2, <2>3
    DEF SubmapsUpdated, executor, odometry, ids, located, published, viewer, world
<1>3. CASE Invoke
  <2>1. Len(reports) \in 1..Len(reports)
    BY <1>3, EmptySeq, LenProperties DEF Invoke
  <2>2. invoke_queue' \in Seq(Task)
    BY <1>3, <2>1, TaskType, AppendProperties DEF Invoke
  <2> QED
    BY <1>1, <1>3, <2>2
    DEF Invoke, executor, odometry, ids, located, published, viewer, world
<1> QED
  BY <1>2, <1>3 DEF MappingThread

\* A task keeps its submap, and may publish a map with it.
LEMMA RunTaskType ==
  ASSUME TypeInv, RunTask
  PROVE  /\ submaps' \in Seq(1..MaxSubmaps)
         /\ since' \in 0..Period
         /\ map' \in Seq([submap : 1..MaxSubmaps, pose : Poses \cup {NoPose}])
<1> USE DEF TypeInv, TypeOK
<1>1. Head(tasks).submap \in 1..MaxSubmaps /\ Head(tasks).poses \in Seq(Poses)
  <2>1. tasks \in Seq(Task) /\ tasks # <<>>
    BY DEF RunTask
  <2>2. Head(tasks) \in Task
    BY <2>1, HeadTailProperties
  <2> QED
    BY <2>2 DEF Task
<1>2. submaps' \in Seq(1..MaxSubmaps)
  BY <1>1, AppendProperties DEF RunTask
<1>3. since' \in 0..Period
  BY PeriodAssumption DEF RunTask
<1>4. CASE UNCHANGED map
  BY <1>2, <1>3, <1>4
<1>5. CASE map' = [i \in 1..Len(submaps') |->
                     [submap |-> submaps'[i], pose |-> PoseAt(Head(tasks).poses, i)]]
  <2>1. ASSUME NEW i \in 1..Len(submaps')
        PROVE  map'[i] \in [submap : 1..MaxSubmaps, pose : Poses \cup {NoPose}]
    <3>1. submaps'[i] \in 1..MaxSubmaps
      BY <1>2, ElementOfSeq
    <3>2. i \in 1..Len(submaps') /\ Len(submaps') \in Nat
      BY <1>2, LenProperties
    <3>3. PoseAt(Head(tasks).poses, i) \in Poses \cup {NoPose}
      BY <1>1, <3>2, ElementOfSeq, LenProperties DEF PoseAt
    <3> QED
      BY <1>5, <3>1, <3>3
  <2>2. DOMAIN map' = 1..Len(submaps') /\ Len(submaps') \in Nat
    BY <1>2, <1>5, LenProperties
  <2>3. map' \in [1..Len(submaps') -> [submap : 1..MaxSubmaps, pose : Poses \cup {NoPose}]]
    BY <1>5, <2>1, <2>2
  <2>4. map' \in Seq([submap : 1..MaxSubmaps, pose : Poses \cup {NoPose}])
    BY <2>2, <2>3, IsSeq
  <2> QED
    BY <1>2, <1>3, <2>4
<1> QED
  BY <1>4, <1>5 DEF RunTask

LEMMA ViewerType == ASSUME TypeInv, ViewerThread PROVE TypeInv'
<1> USE DEF TypeInv, TypeOK
<1>1. UNCHANGED <<setup, executor, odometry, mapping, world>>
  BY DEF ViewerThread
<1>2. /\ invoke_queue' \in Seq(Task) /\ tasks' \in Seq(Task)
      /\ view_pc' \in {"idle", "run", "ended"}
  <2>1. tasks # <<>> => Tail(tasks) \in Seq(Task)
    BY HeadTailProperties
  <2>2. <<>> \in Seq(Task)
    BY EmptySeq
  <2> QED
    BY <2>1, <2>2 DEF ViewerThread, SpinOnce, TakeTasks, RunTask, SpinOnceEnds, ThreadEnds
<1>3. /\ submaps' \in Seq(1..MaxSubmaps)
      /\ since' \in 0..Period
      /\ map' \in Seq([submap : 1..MaxSubmaps, pose : Poses \cup {NoPose}])
  <2>1. CASE RunTask
    BY <2>1, RunTaskType
  <2>2. CASE SpinOnce \/ SpinOnceEnds \/ ThreadEnds
    BY <2>2 DEF SpinOnce, SpinOnceEnds, ThreadEnds
  <2> QED
    BY <2>1, <2>2 DEF ViewerThread
<1> QED
  BY <1>1, <1>2, <1>3
  DEF executor, odometry, ids, located, published, mapping, world

LEMMA WorldType == ASSUME TypeInv, World PROVE TypeInv'
<1> USE DEF TypeInv, TypeOK
<1>1. UNCHANGED <<setup, executor, odometry, mapping, invoke_queue,
                  tasks, view_pc, submaps, map>>
  BY DEF World, Destroy, ThreadJoined, Subscription, Tick, viewer
<1>2. kill_switch' \in BOOLEAN /\ subscribed' \in BOOLEAN
  BY Zenon DEF World, Destroy, ThreadJoined, Subscription, Tick, world
<1>3. since' \in 0..Period /\ life' \in {"alive", "joining", "gone"}
  BY PeriodAssumption DEF World, Destroy, ThreadJoined, Subscription, Tick, viewer, world
<1> QED
  BY <1>1, <1>2, <1>3 DEF executor, odometry, ids, located, published, mapping

LEMMA NextType == ASSUME TypeInv, [Next]_vars PROVE TypeInv'
<1>1. CASE UNCHANGED vars
  BY <1>1 DEF vars, executor, odometry, ids, located, published, mapping, viewer, world,
              TypeInv, TypeOK
<1> QED
  BY <1>1, ExecutorType, OdometryType, MappingType, ViewerType, WorldType DEF Next

\* Every variable of the threads keeps its type, for any number of clouds, submaps and
\* updates, and a frame is published only when all three frame ids are known.
THEOREM TypeCorrect == Spec => []TypeOK
<1>1. Init => TypeInv
  BY InitInv DEF IInv
<1>2. TypeInv /\ [Next]_vars => TypeInv'
  BY NextType
<1>3. TypeInv => TypeOK
  BY DEF TypeInv
<1> QED
  BY <1>1, <1>2, <1>3, PTL DEF Spec

-----------------------------------------------------------------------------
(* Frame ids and transforms. *)

LEMMA DetectedStep ==
  ASSUME TypeInv, DetectedFirst, [Next]_vars PROVE DetectedFirst'
<1> USE DEF TypeInv, TypeOK, DetectedFirst
<1>1. IsSetup(setup) /\ setup' = setup
  BY SetupFixed, SetupsAssumption
<1>2. CASE Executor
  <2>1. UNCHANGED <<frames, odom_pc>>
    BY <1>2 DEF Executor, odometry
  <2>2. CASE imu_callback
    BY <1>1, <2>1, <2>2 DEF imu_callback
  <2>3. CASE PointsFrameId
    <3>1. meta_lidar' = setup.lidar_header
      BY <1>1, <2>3 DEF PointsFrameId, Detect
    <3> QED
      BY <1>1, <2>1, <3>1
  <2>4. CASE PointsInsert
    <3>1. meta_lidar' = setup.lidar_header
      BY <2>4, Zenon DEF PointsInsert
    <3> QED
      BY <1>1, <2>1, <3>1
  <2> QED
    BY <1>2, <2>2, <2>3, <2>4 DEF Executor
<1>3. CASE OdometryThread
  <2>1. UNCHANGED <<meta_lidar, inserting, clouds>>
    BY <1>3 DEF OdometryThread, executor
  <2>2. odom_pc' # "idle" => frames' > 0
    BY <1>3 DEF OdometryThread, FrameEstimated, FrameIds, Locate, Publish
  <2> QED
    BY <1>1, <2>1, <2>2
<1>4. CASE MappingThread \/ ViewerThread \/ World \/ UNCHANGED vars
  <2>1. UNCHANGED <<meta_lidar, inserting, clouds, frames, odom_pc>>
    BY <1>4 DEF MappingThread, ViewerThread, World, vars, executor, odometry
  <2> QED
    BY <1>1, <2>1
<1> QED
  BY <1>2, <1>3, <1>4 DEF Next

\* What only the odometry thread changes.
LEMMA OdometryAlone ==
  ASSUME [Next]_vars PROVE OdometryThread \/ UNCHANGED odometry
BY DEF Next, vars, Executor, MappingThread, ViewerThread, World

\* What FrameIds makes of the ids: each one that is known stays.
LEMMA IdsStep ==
  ASSUME TypeInv, DetectedFirst, IdsFollowSetup, FrameIds, setup' = setup
  PROVE  /\ IdsFollowSetup'
         /\ imu_frame_id # Empty => imu_frame_id' = imu_frame_id
         /\ lidar_frame_id # Empty => lidar_frame_id' = lidar_frame_id
         /\ base_frame_id # Empty => base_frame_id' = base_frame_id
         /\ Empty \notin {imu_frame_id', lidar_frame_id', base_frame_id'}
<1> USE DEF TypeInv, TypeOK
<1>1. IsSetup(setup)
  BY SetupsAssumption
<1>2. meta_lidar = setup.lidar_header
  BY DEF FrameIds, DetectedFirst
<1>3. lidar_frame_id' \in
        IF setup.lidar = Empty THEN {Empty, setup.lidar_header} ELSE {setup.lidar}
  BY <1>1, <1>2 DEF IsSetup, IdsFollowSetup, FrameIds, Resolve
<1>4. {imu_frame_id', lidar_frame_id', base_frame_id'} \cap {"odom", "map"} = {}
  <2>1. meta_imu \notin {"odom", "map"} /\ meta_lidar \notin {"odom", "map"}
    BY <1>1 DEF IsSetup, Empty
  <2>2. imu_frame_id' \notin {"odom", "map"}
    BY <2>1 DEF IdsFollowSetup, Ids, FrameIds, Resolve
  <2>3. lidar_frame_id' \notin {"odom", "map"}
    BY <2>1 DEF IdsFollowSetup, Ids, FrameIds, Resolve
  <2>4. base_frame_id' \notin {"odom", "map"}
    BY <2>2 DEF IdsFollowSetup, Ids, FrameIds
  <2> QED
    BY <2>2, <2>3, <2>4
<1>5. IdsFollowSetup'
  BY <1>3, <1>4 DEF IdsFollowSetup, Ids
<1>6. Empty \notin {imu_frame_id', lidar_frame_id', base_frame_id'}
  BY DEF FrameIds, Resolve, Empty
<1> QED
  BY <1>5, <1>6 DEF FrameIds, Resolve

LEMMA IdsFollowStep ==
  ASSUME TypeInv, DetectedFirst, IdsFollowSetup, [Next]_vars PROVE IdsFollowSetup'
<1>1. setup' = setup
  BY SetupFixed
<1>2. CASE OdometryThread /\ FrameIds
  BY <1>1, <1>2, IdsStep
<1>3. CASE UNCHANGED ids
  BY <1>1, <1>3 DEF IdsFollowSetup, Ids, ids
<1> QED
  BY <1>2, <1>3, OdometryAlone
  DEF OdometryThread, FrameEstimated, Locate, Publish, odometry

\* The transforms that go out are edges between the ids.
LEMMA EdgesStep ==
  ASSUME TypeInv, DetectedFirst, IdsFollowSetup, EdgesKnown, [Next]_vars
  PROVE  EdgesKnown'
<1>1. setup' = setup
  BY SetupFixed
<1>2. CASE FrameIds
  <2>1. tf' = tf
    BY <1>2 DEF FrameIds, published
  <2>2. CASE tf = {}
    BY <2>1, <2>2 DEF EdgesKnown
  <2>3. CASE tf # {}
    <3>1. UNCHANGED <<imu_frame_id, lidar_frame_id, base_frame_id>>
      BY <1>1, <1>2, <2>3, IdsStep DEF EdgesKnown, Ids
    <3> QED
      BY <1>1, <2>1, <3>1 DEF EdgesKnown, Ids
  <2> QED
    BY <2>2, <2>3
<1>3. CASE Publish
  <2>1. UNCHANGED <<imu_frame_id, lidar_frame_id, base_frame_id>>
    BY <1>3 DEF Publish, ids
  <2>2. Empty \notin Ids
    BY <1>3 DEF Publish, TypeInv, TypeOK, Ids
  <2>3. PICK found \in BOOLEAN :
          sent_tf' = IF corrected THEN {}
                     ELSE {WorldToOdom} \cup OdomToBase(found) \cup ImuToLidar
    BY <1>3 DEF Publish
  <2>4. ASSUME NEW t \in sent_tf'
        PROVE  \/ <<t.parent, t.child>> = <<"map", "odom">>
               \/ <<t.parent, t.child>> = <<"odom", base_frame_id>>
               \/ setup.imu2lidar /\ <<t.parent, t.child>> = <<imu_frame_id, lidar_frame_id>>
    BY <2>3 DEF WorldToOdom, OdomToBase, ImuToLidar, Transform
  <2>5. tf' = tf \cup {<<t.parent, t.child>> : t \in sent_tf'}
    BY <1>3 DEF Publish
  <2> QED
    BY <1>1, <2>1, <2>2, <2>4, <2>5 DEF EdgesKnown, Ids
<1>4. CASE UNCHANGED <<ids, tf>>
  BY <1>1, <1>4 DEF EdgesKnown, Ids, ids
<1> QED
  BY <1>2, <1>3, <1>4, OdometryAlone
  DEF OdometryThread, FrameEstimated, Locate, odometry, published

\* A frame is placed with one anchor, and sent with the one it was placed with.
LEMMA PlacedStep ==
  ASSUME TypeInv, IdsFollowSetup, PlacedOnce, TransformAgreesWithPose, [Next]_vars
  PROVE  PlacedOnce' /\ TransformAgreesWithPose'
<1>1. CASE FrameEstimated \/ FrameIds \/ Locate
  <2>1. PlacedOnce'
    BY <1>1 DEF FrameEstimated, FrameIds, Locate, PlacedOnce
  <2>2. UNCHANGED <<sent, sent_tf>>
    BY <1>1 DEF FrameEstimated, FrameIds, Locate, published
  <2> QED
    BY <2>1, <2>2 DEF TransformAgreesWithPose
<1>2. CASE Publish
  <2>1. PICK found \in BOOLEAN :
          sent_tf' = IF corrected THEN {}
                     ELSE {WorldToOdom} \cup OdomToBase(found) \cup ImuToLidar
    BY <1>2 DEF Publish
  <2>2. PICK id \in {imu_frame_id, lidar_frame_id} :
          sent' = OdomMessages \cup PoseMessages \cup CloudMessages(id)
    BY <1>2 DEF Publish
  <2>3. ASSUME NEW t \in sent_tf', t.parent = "map" PROVE t.anchor = T_world_odom
    <3>1. imu_frame_id # "map"
      BY DEF IdsFollowSetup, Ids
    <3> QED
      BY <2>1, <2>3, <3>1 DEF WorldToOdom, OdomToBase, ImuToLidar, Transform
  <2>4. ASSUME NEW m \in sent', m.topic \in {"pose", "lidar_pose"}
        PROVE  m.anchor = T_world_imu
    BY <2>2, <2>4 DEF OdomMessages, PoseMessages, CloudMessages, Message
  <2>5. T_world_odom = T_world_imu /\ odom_pc' = "idle"
    BY <1>2 DEF Publish, PlacedOnce
  <2>6. PlacedOnce'
    BY <2>5 DEF PlacedOnce
  <2>7. TransformAgreesWithPose'
    BY <2>3, <2>4, <2>5 DEF TransformAgreesWithPose
  <2> QED
    BY <2>6, <2>7
<1>3. CASE UNCHANGED odometry
  BY <1>3 DEF odometry, located, published, PlacedOnce, TransformAgreesWithPose
<1> QED
  BY <1>1, <1>2, <1>3, OdometryAlone DEF OdometryThread

-----------------------------------------------------------------------------
(* Tasks and maps. *)

TaskVars == <<reports, map_pc, invoke_queue, tasks, view_pc, submaps>>

\* The lengths TasksInOrder speaks of are numbers.
LEMMA Lengths ==
  ASSUME TypeOK
  PROVE  /\ Len(submaps) \in Nat /\ Len(tasks) \in Nat /\ Len(invoke_queue) \in Nat
         /\ Len(reports) \in Nat /\ Invoked \in Int
BY LenProperties DEF TypeOK, Invoked

\* An update changes nothing about the tasks of those before it.
LEMMA UpdatedStep ==
  ASSUME TypeInv, TasksInOrder, SubmapsUpdated, UNCHANGED <<tasks, view_pc, submaps>>
  PROVE  TasksInOrder'
<1>1. /\ Len(reports') = Len(reports) + 1
      /\ \A k \in 1..Len(reports) : reports'[k] = reports[k]
  BY ReportsStep
<1>2. map_pc = "idle" /\ map_pc' = "invoke" /\ invoke_queue' = invoke_queue
  BY DEF SubmapsUpdated
<1>3. /\ Len(submaps) \in Nat /\ Len(tasks) \in Nat /\ Len(invoke_queue) \in Nat
      /\ Len(reports) \in Nat
  BY Lengths DEF TypeInv
<1>4. Invoked = Len(reports) /\ Invoked' = Len(reports)
  BY <1>1, <1>2, <1>3 DEF Invoked
<1>5. Len(submaps) + Len(tasks) + Len(invoke_queue) = Len(reports)
  BY <1>4 DEF TasksInOrder
<1>6. \A k \in 1..Len(reports) : TaskOf(k)' = TaskOf(k)
  BY <1>1 DEF TaskOf
<1>7. \A i \in 1..Len(submaps) : submaps[i] = reports'[i]
  BY <1>1, <1>3, <1>5 DEF TasksInOrder
<1>8. \A i \in 1..Len(tasks) : tasks[i] = TaskOf(Len(submaps) + i)'
  <2> SUFFICES ASSUME NEW i \in 1..Len(tasks)
               PROVE  tasks[i] = TaskOf(Len(submaps) + i)'
    OBVIOUS
  <2>1. Len(submaps) + i \in 1..Len(reports)
    BY <1>3, <1>5
  <2>2. tasks[i] = TaskOf(Len(submaps) + i)
    BY DEF TasksInOrder
  <2>3. TaskOf(Len(submaps) + i) = [submap |-> reports[Len(submaps) + i],
          poses |-> [j \in 1..reports[Len(submaps) + i] |-> Pose(j, Len(submaps) + i)]]
    BY DEF TaskOf
  <2> QED
    BY <1>1, <2>1, <2>2, <2>3 DEF TaskOf
<1>9. \A i \in 1..Len(invoke_queue) :
        invoke_queue[i] = TaskOf(Len(submaps) + Len(tasks) + i)'
  <2> SUFFICES ASSUME NEW i \in 1..Len(invoke_queue)
               PROVE  invoke_queue[i] = TaskOf(Len(submaps) + Len(tasks) + i)'
    OBVIOUS
  <2> DEFINE k == Len(submaps) + Len(tasks) + i
  <2>1. k \in 1..Len(reports)
    BY <1>3, <1>5
  <2>2. invoke_queue[i] = TaskOf(k)
    BY DEF TasksInOrder
  <2> QED
    BY <1>1, <2>1, <2>2 DEF TaskOf
<1> QED
  BY <1>2, <1>4, <1>5, <1>7, <1>8, <1>9 DEF TasksInOrder

\* The mapping thread appends the task of the update it is at.
LEMMA InvokeStep ==
  ASSUME TypeInv, TasksInOrder, Invoke, UNCHANGED <<tasks, view_pc, submaps>>
  PROVE  TasksInOrder'
<1> USE DEF TypeInv
<1> DEFINE last == Len(reports)
<1>1. map_pc = "invoke" /\ map_pc' = "idle" /\ last \in 1..Len(reports) /\ reports' = reports
  BY EmptySeq, LenProperties DEF Invoke, TypeOK
<1>2. invoke_queue' = Append(invoke_queue, TaskOf(last))
  BY DEF Invoke
<1>3. TaskOf(last) \in Task
  BY <1>1, TaskType
<1>4. /\ Len(invoke_queue') = Len(invoke_queue) + 1
      /\ \A i \in 1..Len(invoke_queue) : invoke_queue'[i] = invoke_queue[i]
      /\ invoke_queue'[Len(invoke_queue) + 1] = TaskOf(last)
  BY <1>2, <1>3, AppendProperties DEF TypeOK
<1>5. Len(submaps) + Len(tasks) + Len(invoke_queue) = last - 1
  BY <1>1 DEF TasksInOrder, Invoked
<1>6. \A i \in 1..Len(invoke_queue') :
        invoke_queue'[i] = TaskOf(Len(submaps) + Len(tasks) + i)
  <2> SUFFICES ASSUME NEW i \in 1..Len(invoke_queue')
               PROVE  invoke_queue'[i] = TaskOf(Len(submaps) + Len(tasks) + i)
    OBVIOUS
  <2>1. CASE i \in 1..Len(invoke_queue)
    BY <1>4, <2>1 DEF TasksInOrder
  <2>2. CASE i = Len(invoke_queue) + 1
    <3>1. Len(submaps) + Len(tasks) + i = last
      BY <1>1, <1>5, <2>2, Lengths
    <3> QED
      BY <1>4, <2>2, <3>1
  <2> QED
    BY <1>4, <2>1, <2>2, Lengths
<1>7. Len(submaps) + Len(tasks) + Len(invoke_queue') = last
  BY <1>1, <1>4, <1>5, Lengths
<1>8. \A k : TaskOf(k)' = TaskOf(k)
  BY <1>1 DEF TaskOf
<1> QED
  BY <1>1, <1>6, <1>7, <1>8 DEF TasksInOrder, Invoked, TaskOf

\* The viewer thread takes the queue over when it has run the tasks it had.
LEMMA SpinOnceStep ==
  ASSUME TypeInv, TasksInOrder, SpinOnce, UNCHANGED <<reports, map_pc>>
  PROVE  TasksInOrder'
<1>1. tasks = <<>> /\ tasks' = invoke_queue /\ invoke_queue' = <<>> /\ view_pc' = "run"
  BY DEF SpinOnce, TakeTasks, TasksInOrder
<1>2. submaps' = submaps /\ Invoked' = Invoked
  BY DEF SpinOnce, Invoked
<1>3. Len(tasks) = 0 /\ Len(invoke_queue') = 0
  BY <1>1
<1>4. Len(submaps) \in Nat /\ Len(tasks') \in Nat
  BY <1>1, Lengths DEF TypeInv
<1>5. \A i \in 1..Len(tasks') : tasks'[i] = TaskOf(Len(submaps) + i)
  <2>1. \A i \in 1..Len(invoke_queue) :
          invoke_queue[i] = TaskOf(Len(submaps) + Len(tasks) + i)
    BY DEF TasksInOrder
  <2> QED
    BY <1>1, <1>3, <1>4, <2>1
<1> QED
  BY <1>1, <1>2, <1>3, <1>4, <1>5 DEF TasksInOrder, TaskOf

\* The head of the tasks is that of the next update.
LEMMA RunTaskStep ==
  ASSUME TypeInv, TasksInOrder, RunTask, UNCHANGED <<reports, map_pc>>
  PROVE  /\ TasksInOrder'
         /\ Len(submaps') = Len(submaps) + 1
         /\ Head(tasks) = TaskOf(Len(submaps) + 1)
<1> USE DEF TypeInv
<1>1. /\ tasks \in Seq(Task) /\ tasks # <<>> /\ view_pc = "run" /\ view_pc' = "run"
      /\ tasks' = Tail(tasks) /\ submaps' = Append(submaps, Head(tasks).submap)
      /\ invoke_queue' = invoke_queue
  BY DEF RunTask, TypeOK
<1>2. /\ Head(tasks) = tasks[1] /\ Len(tasks) \in Nat \ {0}
      /\ Len(tasks') = Len(tasks) - 1
      /\ \A i \in 1..Len(tasks') : tasks'[i] = tasks[i + 1]
  BY <1>1, HeadTailProperties, EmptySeq
<1>3. Head(tasks) = TaskOf(Len(submaps) + 1)
  BY <1>2 DEF TasksInOrder
<1>4. Head(tasks).submap = reports[Len(submaps) + 1]
  BY <1>3 DEF TaskOf
<1>5. Head(tasks).submap \in 1..MaxSubmaps
  <2>1. Head(tasks) \in Task
    BY <1>1, HeadTailProperties
  <2> QED
    BY <2>1 DEF Task
<1>6. /\ Len(submaps') = Len(submaps) + 1
      /\ \A i \in 1..Len(submaps) : submaps'[i] = submaps[i]
      /\ submaps'[Len(submaps) + 1] = reports[Len(submaps) + 1]
  BY <1>1, <1>4, <1>5, AppendProperties DEF TypeOK
<1>7. \A i \in 1..Len(submaps') : submaps'[i] = reports[i]
  <2> SUFFICES ASSUME NEW i \in 1..Len(submaps') PROVE submaps'[i] = reports[i]
    OBVIOUS
  <2>1. i \in 1..Len(submaps) \/ i = Len(submaps) + 1
    BY <1>6, Lengths
  <2>2. \A j \in 1..Len(submaps) : submaps[j] = reports[j]
    BY DEF TasksInOrder
  <2> QED
    BY <1>6, <2>1, <2>2
<1>8. Len(submaps') + Len(tasks') = Len(submaps) + Len(tasks)
  BY <1>2, <1>6, Lengths
<1>9. \A i \in 1..Len(tasks') : tasks'[i] = TaskOf(Len(submaps') + i)
  <2> SUFFICES ASSUME NEW i \in 1..Len(tasks') PROVE tasks'[i] = TaskOf(Len(submaps') + i)
    OBVIOUS
  <2>1. i + 1 \in 1..Len(tasks) /\ Len(submaps) + (i + 1) = Len(submaps') + i
    BY <1>2, <1>6, Lengths
  <2>2. tasks[i + 1] = TaskOf(Len(submaps) + (i + 1))
    BY <2>1 DEF TasksInOrder
  <2> QED
    BY <1>2, <2>1, <2>2
<1>10. \A i \in 1..Len(invoke_queue') :
         invoke_queue'[i] = TaskOf(Len(submaps') + Len(tasks') + i)
  BY <1>1, <1>8 DEF TasksInOrder
<1>11. Invoked' = Invoked
  BY DEF Invoked
<1>12. Len(submaps') + Len(tasks') + Len(invoke_queue') = Invoked'
  BY <1>1, <1>8, <1>11 DEF TasksInOrder
<1> QED
  BY <1>1, <1>3, <1>6, <1>7, <1>9, <1>10, <1>12 DEF TasksInOrder, TaskOf

LEMMA TasksStep ==
  ASSUME TypeInv, TasksInOrder, [Next]_vars PROVE TasksInOrder'
<1>1. CASE MappingThread
  <2>1. UNCHANGED <<tasks, view_pc, submaps>>
    BY <1>1 DEF MappingThread, viewer
  <2>2. CASE SubmapsUpdated
    BY <2>1, <2>2, UpdatedStep
  <2>3. CASE Invoke
    BY <2>1, <2>3, InvokeStep
  <2> QED
    BY <1>1, <2>2, <2>3 DEF MappingThread
<1>2. CASE ViewerThread
  <2>1. UNCHANGED <<reports, map_pc>>
    BY <1>2 DEF ViewerThread, mapping
  <2>2. CASE SpinOnceEnds \/ ThreadEnds
    <3>1. UNCHANGED <<invoke_queue, tasks, submaps>> /\ tasks = <<>>
      BY <2>2 DEF SpinOnceEnds, ThreadEnds, TasksInOrder
    <3> QED
      BY <2>1, <3>1 DEF TasksInOrder, Invoked, TaskOf
  <2> QED
    BY <1>2, <2>1, <2>2, SpinOnceStep, RunTaskStep DEF ViewerThread
<1>3. CASE UNCHANGED TaskVars
  BY <1>3 DEF TaskVars, TasksInOrder, Invoked, TaskOf
<1> QED
  BY <1>1, <1>2, <1>3
  DEF Next, vars, Executor, OdometryThread, World, Destroy, ThreadJoined, Subscription,
      Tick, mapping, viewer, TaskVars

\* A map is made of a task's poses and the submaps gathered with it, and later
\* updates leave alone what it shows.
LEMMA MapStep ==
  ASSUME TypeInv, TasksInOrder, MapIsPast, MapFollowsUpdates, [Next]_vars
  PROVE  MapIsPast' /\ MapFollowsUpdates'
<1>0. /\ Len(submaps) \in Nat /\ Len(tasks) \in Nat /\ Len(invoke_queue) \in Nat
      /\ Len(map) \in Nat /\ Len(reports) \in Nat
  BY Lengths, LenProperties DEF TypeInv, TypeOK
<1>1. Len(submaps) <= Len(reports)
  BY <1>0 DEF TasksInOrder, Invoked
<1>2. CASE UNCHANGED <<map, submaps, reports>>
  BY <1>2 DEF MapIsPast, MapFollowsUpdates
<1>3. CASE MappingThread /\ SubmapsUpdated
  <2>1. UNCHANGED <<map, submaps>>
    BY <1>3 DEF MappingThread, viewer
  <2>2. /\ \A k \in 1..Len(reports) : reports'[k] = reports[k]
        /\ Len(map) <= Len(reports')
    BY <1>0, <1>1, <1>3, ReportsStep DEF MapIsPast
  <2>3. \A i \in 1..Len(map) : i \in 1..Len(reports) /\ Len(map) \in 1..Len(reports)
    BY <1>0, <1>1 DEF MapIsPast
  <2> QED
    BY <2>1, <2>2, <2>3 DEF MapIsPast, MapFollowsUpdates
<1>4. CASE ViewerThread /\ RunTask
  <2> DEFINE n == Len(submaps')
  <2>1. UNCHANGED <<reports, map_pc>>
    BY <1>4 DEF ViewerThread, mapping
  <2>2. n = Len(submaps) + 1 /\ Head(tasks) = TaskOf(n) /\ TasksInOrder' /\ n \in Nat
    BY <1>0, <1>4, <2>1, RunTaskStep
  <2>3. CASE map' = map
    BY <1>0, <2>1, <2>2, <2>3 DEF MapIsPast, MapFollowsUpdates
  <2>4. CASE map' = [i \in 1..n |->
                       [submap |-> submaps'[i], pose |-> PoseAt(Head(tasks).poses, i)]]
    <3>1. Len(map') = n
      BY <2>2, <2>4
    <3>2. n \in 1..Len(reports)
      <4>1. tasks \in Seq(Task) /\ tasks # <<>>
        BY <1>4 DEF RunTask, TypeInv, TypeOK
      <4>2. Len(tasks) > 0
        BY <1>0, <4>1, EmptySeq
      <4> QED
        BY <1>0, <2>2, <4>2 DEF TasksInOrder, Invoked
    <3>3. reports[n] \in 1..MaxSubmaps
      BY <3>2, ElementOfSeq DEF TypeInv, TypeOK
    <3>4. Head(tasks).poses = [j \in 1..reports[n] |-> Pose(j, n)]
      BY <2>2 DEF TaskOf
    <3>5. Len(Head(tasks).poses) = reports[n]
      BY <3>3, <3>4
    <3>6. ASSUME NEW i \in 1..n
          PROVE  /\ submaps'[i] = reports'[i]
                 /\ PoseAt(Head(tasks).poses, i) =
                      IF i <= reports[n] THEN Pose(i, n) ELSE NoPose
      <4>1. submaps'[i] = reports'[i]
        BY <2>2 DEF TasksInOrder
      <4>2. i <= reports[n] => Head(tasks).poses[i] = Pose(i, n)
        BY <2>2, <3>3, <3>4
      <4> QED
        BY <3>5, <4>1, <4>2 DEF PoseAt
    <3>7. MapIsPast'
      BY <2>2, <3>1 DEF MapIsPast
    <3>8. Len(map') <= Len(reports')
      BY <1>0, <2>1, <2>2, <3>1, <3>2
    <3> QED
      BY <2>1, <2>4, <3>1, <3>6, <3>7, <3>8 DEF MapFollowsUpdates, Pose, NoPose
  <2> QED
    BY <1>4, <2>3, <2>4 DEF RunTask
<1> QED
  BY <1>2, <1>3, <1>4
  DEF Next, vars, Executor, OdometryThread, MappingThread, ViewerThread, World,
      mapping, viewer, Invoke, SpinOnce, SpinOnceEnds, ThreadEnds, Destroy,
      ThreadJoined, Subscription, Tick

-----------------------------------------------------------------------------
(* The properties. *)

LEMMA NextInv == IInv /\ [Next]_vars => IInv'
<1> SUFFICES ASSUME IInv, [Next]_vars PROVE IInv'
  OBVIOUS
<1> QED
  BY NextType, DetectedStep, IdsFollowStep, EdgesStep, PlacedStep, TasksStep, MapStep
  DEF IInv

LEMMA Invariant == Spec => []IInv
<1> QED
  BY InitInv, NextInv, PTL DEF Spec

\* The LiDAR frame id of the transforms is the configured one or the sensor's, for
\* any setup: the default is never used, as no frame overtakes the frame id.
THEOREM LidarIdIsTheSensors == Spec => []LidarIdDetected
<1>1. IInv => LidarIdDetected
  BY DEF IInv, IdsFollowSetup, LidarIdDetected
<1> QED
  BY <1>1, Invariant, PTL

\* The map->odom transform of a frame and its poses in the map have one anchor.
THEOREM OneAnchorPerFrame == Spec => []TransformAgreesWithPose
<1>1. IInv => TransformAgreesWithPose
  BY DEF IInv
<1> QED
  BY <1>1, Invariant, PTL

\* Every transform ever sent is an edge between the ids of now, whatever was configured
\* and is detected when; and the edges are one chain, except where the LiDAR's transform
\* is sent under an id that is also the IMU's or the base's.
THEOREM OneChain == Spec => []TransformsFormAChain
<1>1. ASSUME IInv PROVE TransformsFormAChain
  <2>1. \A e \in tf : \/ e = <<"map", "odom">>
                      \/ e = <<"odom", base_frame_id>>
                      \/ setup.imu2lidar /\ e = <<imu_frame_id, lidar_frame_id>>
    BY <1>1 DEF IInv, EdgesKnown
  <2>2. tf \subseteq {<<"map", "odom">>, <<"odom", base_frame_id>>}
                    \cup (IF setup.imu2lidar THEN {<<imu_frame_id, lidar_frame_id>>} ELSE {})
    BY <2>1
  <2>3. /\ imu_frame_id \notin {"odom", "map"} /\ lidar_frame_id \notin {"odom", "map"}
        /\ base_frame_id \notin {"odom", "map"}
    BY <1>1 DEF IInv, IdsFollowSetup, Ids
  <2>4. ASSUME setup.imu2lidar => lidar_frame_id \notin {imu_frame_id, base_frame_id},
               NEW e \in tf, NEW f \in tf
        PROVE  e[1] # e[2] /\ (e[1] = f[1] \/ e[2] = f[2] => e = f)
    BY <2>1, <2>3, <2>4
  <2> QED
    BY <2>2, <2>4 DEF TransformsFormAChain
<1> QED
  BY <1>1, Invariant, PTL

\* Every map published shows the updates up to one of them, in order and complete, and
\* reads the poses that one captured, for any number of submaps and updates, however
\* many submaps an update adds, and any backlog of tasks.
THEOREM MapsFollowUpdates == Spec => []MapFollowsUpdates
<1>1. IInv => MapFollowsUpdates
  BY DEF IInv
<1> QED
  BY <1>1, Invariant, PTL
=============================================================================
