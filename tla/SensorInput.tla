----------------------------- MODULE SensorInput -----------------------------
(***************************************************************************)
(* How IMU data and images get to the three stages of GlimROS, and how     *)
(* that goes together with the frames and submaps that timer_callback      *)
(* moves from stage to stage.                                              *)
(*                                                                         *)
(* The sensor callbacks and timer_callback run on the executor, each call  *)
(* into a stage being one action; the stages' own threads, and results     *)
(* that appear at any time, interleave with them.  The positions of the    *)
(* sensor callbacks and of timer_callback are kept apart: that one never   *)
(* starts inside the other is the work of ROS's default callback group.    *)
(*                                                                         *)
(* The stages and the time keeper belong to the glim library: a stage may  *)
(* use, for a frame or a submap, whatever IMU data and images were handed  *)
(* to it before, and the time keeper rejects any data it likes.  A frame   *)
(* or submap is abstracted to the data it may have been made with.  What   *)
(* happens to the clouds themselves is in GlimRos, frame ids are in        *)
(* RvizViewer.                                                             *)
(***************************************************************************)
EXTENDS Integers, SequencesExt

CONSTANTS
  Norms,      \* norms of the accelerations in IMU messages, in tenths
  Scales,     \* acc_scale in the configuration; 0 asks for detection
  MaxData,    \* bound on the IMU messages and images received
  MaxClouds   \* bound on the clouds accepted

One == 1000       \* scales, in thousandths
Gravity == 9807

ASSUME NormsAssumption == Norms \subseteq Nat /\ Scales \subseteq {0, One, Gravity}
ASSUME BoundsAssumption == MaxData \in Nat /\ MaxClouds \in Nat

VARIABLES
  sub_mapping, global_mapping,  \* the stage exists
  unit,          \* what the IMU measures in: the scale that makes it m/s^2
  configured,    \* acc_scale in the configuration
  acc_scale,
  first,         \* history: the norm in the first IMU message, <<>> before
  received,      \* IMU messages and images received
  msg,           \* the data being handed to the stages
  callback_pc,   \* the stage a sensor callback is about to insert msg into
  timer_pc,      \* where timer_callback is
  stream,        \* the data each stage was given: [kind -> [stage -> sequence]]
  clouds,        \* clouds accepted
  odom_in,       \* odometry: number of clouds to process
  odom_out,      \* odometry: frames not yet fetched
  hand_frames,   \* the frames timer_callback has fetched
  sub_in, sub_out, hand_submaps,  \* the same of the submaps
  glob_in

config == <<sub_mapping, global_mapping, unit, configured>>
data == <<acc_scale, first, received, msg, callback_pc, stream>>
stages == <<odom_in, odom_out, sub_in, sub_out>>
vars == <<config, data, timer_pc, clouds, stages, hand_frames, hand_submaps, glob_in>>

AllStages == {"odom", "sub", "glob"}
Kinds == {"imu", "image"}

\* The stages that exist.
Stages == {"odom"} \cup (IF sub_mapping THEN {"sub"} ELSE {})
                   \cup (IF global_mapping THEN {"glob"} ELSE {})

Datum == [kind : Kinds, id : Nat, scale : {0, One, Gravity}]

Init ==
  /\ sub_mapping \in BOOLEAN /\ global_mapping \in BOOLEAN
  /\ unit \in {One, Gravity}
  /\ configured \in Scales
  /\ acc_scale = configured
  /\ first = <<>>
  /\ received = 0
  /\ msg = [kind |-> "imu", id |-> 0, scale |-> 0]
  /\ callback_pc = "idle" /\ timer_pc = "idle"
  /\ stream = [k \in Kinds |-> [s \in AllStages |-> <<>>]]
  /\ clouds = 0 /\ odom_in = 0
  /\ odom_out = <<>> /\ hand_frames = <<>>
  /\ sub_in = <<>> /\ sub_out = <<>> /\ hand_submaps = <<>>
  /\ glob_in = <<>>

\* Mutant: the timer in a callback group of its own.
TimerMayRunAside == timer_pc = "idle"

TimerMayRun == callback_pc = "idle" /\ timer_pc = "idle"

CallbackMayRun == callback_pc = "idle" /\ timer_pc = "idle"

-----------------------------------------------------------------------------
(* The sensor callbacks. *)

\* The unit of the accelerations is guessed from the norm of one of them.
Guessed(norm) ==
  IF 70 < norm /\ norm < 120 THEN One ELSE IF 8 < norm /\ norm < 12 THEN Gravity ELSE One

\* Mutant: every message is looked at anew when the scale is not configured.
ScaleForEach(norm) == IF configured = 0 THEN Guessed(norm) ELSE acc_scale

\* Mutant: the guess overrides the configuration.
ScaleGuessed(norm) == Guessed(norm)

Scale(norm) == IF acc_scale = 0 THEN Guessed(norm) ELSE acc_scale

Receive(kind, scale) ==
  /\ CallbackMayRun
  /\ received < MaxData
  /\ received' = received + 1
  /\ msg' = [kind |-> kind, id |-> received', scale |-> scale]

\* The scale is settled before the time keeper looks at the stamp.
imu_callback ==
  \E norm \in Norms, valid \in BOOLEAN :
    /\ acc_scale' = Scale(norm)
    /\ Receive("imu", acc_scale')
    /\ first' = IF first = <<>> THEN <<norm>> ELSE first
    /\ callback_pc' = IF valid THEN "odom" ELSE "idle"
    /\ UNCHANGED <<config, stream, timer_pc, clouds, stages, hand_frames,
                   hand_submaps, glob_in>>

image_callback ==
  /\ Receive("image", 0)
  /\ callback_pc' = "odom"
  /\ UNCHANGED <<config, acc_scale, first, stream, timer_pc, clouds, stages,
                 hand_frames, hand_submaps, glob_in>>

\* Mutant: the data goes to the last stage only.
TakesLast(stage) == stage \in Stages /\ (stage = "sub" => ~global_mapping)

Takes(stage) == stage \in Stages

NextStage == [odom |-> "sub", sub |-> "glob", glob |-> "idle"]

\* insert_imu or insert_image of the next stage, if there is one.
Insert ==
  /\ callback_pc \in AllStages
  /\ stream' = IF Takes(callback_pc)
               THEN [stream EXCEPT ![msg.kind][callback_pc] = Append(@, msg)]
               ELSE stream
  /\ callback_pc' = NextStage[callback_pc]
  /\ UNCHANGED <<config, acc_scale, first, received, msg, timer_pc, clouds, stages,
                 hand_frames, hand_submaps, glob_in>>

points_callback ==
  /\ CallbackMayRun
  /\ clouds < MaxClouds
  /\ clouds' = clouds + 1
  /\ odom_in' = odom_in + 1
  /\ UNCHANGED <<config, data, timer_pc, odom_out, hand_frames, sub_in, sub_out,
                 hand_submaps, glob_in>>

-----------------------------------------------------------------------------
(* timer_callback. *)

TimerBegin ==
  /\ TimerMayRun
  /\ hand_frames' = IF sub_mapping THEN odom_out ELSE <<>>
  /\ odom_out' = <<>>
  /\ timer_pc' = IF sub_mapping THEN "frames" ELSE "idle"
  /\ UNCHANGED <<config, data, clouds, odom_in, sub_in, sub_out, hand_submaps, glob_in>>

InsertFrame ==
  /\ timer_pc = "frames" /\ hand_frames # <<>>
  /\ sub_in' = Append(sub_in, Head(hand_frames))
  /\ hand_frames' = Tail(hand_frames)
  /\ UNCHANGED <<config, data, timer_pc, clouds, odom_in, odom_out, sub_out,
                 hand_submaps, glob_in>>

FetchSubmaps ==
  /\ timer_pc = "frames" /\ hand_frames = <<>>
  /\ hand_submaps' = IF global_mapping THEN sub_out ELSE <<>>
  /\ sub_out' = <<>>
  /\ timer_pc' = IF global_mapping THEN "submaps" ELSE "idle"
  /\ UNCHANGED <<config, data, clouds, odom_in, odom_out, hand_frames, sub_in, glob_in>>

InsertSubmap ==
  /\ timer_pc = "submaps" /\ hand_submaps # <<>>
  /\ glob_in' = Append(glob_in, Head(hand_submaps))
  /\ hand_submaps' = Tail(hand_submaps)
  /\ UNCHANGED <<config, data, timer_pc, clouds, stages, hand_frames>>

TimerEnd ==
  /\ timer_pc = "submaps" /\ hand_submaps = <<>>
  /\ timer_pc' = "idle"
  /\ UNCHANGED <<config, data, clouds, stages, hand_frames, hand_submaps, glob_in>>

-----------------------------------------------------------------------------
(* The stages. *)

\* The data a stage has been given so far.
Given(stage) == [k \in Kinds |-> Len(stream[k][stage])]

\* Odometry estimates a frame, with the data it has by now.
OdometryStep ==
  /\ odom_in > 0
  /\ odom_in' = odom_in - 1
  /\ odom_out' = Append(odom_out, Given("odom"))
  /\ UNCHANGED <<config, data, timer_pc, clouds, hand_frames, sub_in, sub_out,
                 hand_submaps, glob_in>>

\* Sub mapping makes a submap of a frame or several, with the data it has by now.
SubMappingStep ==
  /\ sub_in # <<>>
  /\ sub_in' = Tail(sub_in)
  /\ sub_out' \in {sub_out, Append(sub_out, Given("sub"))}
  /\ UNCHANGED <<config, data, timer_pc, clouds, odom_in, odom_out, hand_frames,
                 hand_submaps, glob_in>>

\* Global mapping takes a submap in.
GlobalMappingStep ==
  /\ glob_in # <<>>
  /\ glob_in' = Tail(glob_in)
  /\ UNCHANGED <<config, data, timer_pc, clouds, stages, hand_frames, hand_submaps>>

Next ==
  \/ imu_callback \/ image_callback \/ Insert \/ points_callback
  \/ TimerBegin \/ InsertFrame \/ FetchSubmaps \/ InsertSubmap \/ TimerEnd
  \/ OdometryStep \/ SubMappingStep \/ GlobalMappingStep

Spec == Init /\ [][Next]_vars

-----------------------------------------------------------------------------
(* Properties. *)

Products == Seq([Kinds -> Nat])

TypeOK ==
  /\ sub_mapping \in BOOLEAN /\ global_mapping \in BOOLEAN
  /\ unit \in {One, Gravity} /\ configured \in Scales
  /\ acc_scale \in {0, One, Gravity} /\ (configured # 0 => acc_scale = configured)
  /\ first \in {<<>>} \cup {<<n>> : n \in Norms}
  /\ received \in 0..MaxData /\ msg \in Datum
  /\ callback_pc \in AllStages \cup {"idle"}
  /\ timer_pc \in {"idle", "frames", "submaps"}
  /\ stream \in [Kinds -> [AllStages -> Seq(Datum)]]
  /\ clouds \in 0..MaxClouds /\ odom_in \in 0..clouds
  /\ {odom_out, hand_frames, sub_in, sub_out, hand_submaps, glob_in} \subseteq Products

\* No stage is ever given a frame or a submap that was made with IMU data or
\* images the stage has not been given itself, though the data goes to the stages
\* one by one while odometry is already at work on it.
DataComesFirst ==
  /\ \A i \in DOMAIN sub_in, k \in Kinds : sub_in[i][k] <= Len(stream[k]["sub"])
  /\ global_mapping =>
       \A i \in DOMAIN glob_in, k \in Kinds : glob_in[i][k] <= Len(stream[k]["glob"])

\* All stages that exist see the same IMU data and the same images in the same
\* order, each with the same scale; between callbacks none is behind.
StagesAgree ==
  \A k \in Kinds, s \in Stages :
    /\ IsPrefix(stream[k][s], stream[k]["odom"])
    /\ callback_pc = "idle" => stream[k][s] = stream[k]["odom"]

\* The norm is that of gravity, within a tenth, in the unit of the IMU.
AtRest(norm) ==
  LET g == IF unit = Gravity THEN 10 ELSE 98
  IN  9 * g <= 10 * norm /\ 10 * norm <= 11 * g

\* What the stages integrate is in m/s^2 for the whole session, whatever the IMU's
\* unit and motion, if the unit is configured right or the IMU rests when it sends
\* its first message - even when that message itself is rejected for its stamp.
UnitsRight ==
  configured = unit \/ (configured = 0 /\ \A i \in DOMAIN first : AtRest(first[i])) =>
    \A s \in AllStages :
      \A i \in DOMAIN stream["imu"][s] : stream["imu"][s][i].scale = unit
=============================================================================
