------------------------- MODULE SensorInputProofs -------------------------
(***************************************************************************)
(* Theorems about SensorInput, for any norms, any number of messages and   *)
(* clouds, and every interleaving of the executor with the stages.         *)
(***************************************************************************)
EXTENDS SensorInput, SequenceTheorems, TLAPS

-----------------------------------------------------------------------------
(* Type correctness. *)

\* What is given to a stage, counted, is a product.
LEMMA GivenType ==
  ASSUME stream \in [Kinds -> [AllStages -> Seq(Datum)]], NEW s \in AllStages
  PROVE  Given(s) \in [Kinds -> Nat]
<1>1. \A k \in Kinds : Len(stream[k][s]) \in Nat
  BY LenProperties
<1> QED
  BY <1>1 DEF Given

LEMMA InitType == Init => TypeOK
<1> SUFFICES ASSUME Init PROVE TypeOK
  OBVIOUS
<1>1. <<>> \in Products /\ <<>> \in Seq(Datum)
  BY EmptySeq DEF Products
<1>2. stream \in [Kinds -> [AllStages -> Seq(Datum)]]
  BY <1>1 DEF Init
<1>3. msg \in Datum
  BY DEF Init, Datum, Kinds
<1> QED
  BY <1>1, <1>2, <1>3, NormsAssumption, BoundsAssumption DEF Init, TypeOK, AllStages

\* The callbacks and timer_callback keep the types.
LEMMA ExecutorType ==
  ASSUME TypeOK,
         \/ imu_callback \/ image_callback \/ Insert \/ points_callback
         \/ TimerBegin \/ InsertFrame \/ FetchSubmaps \/ InsertSubmap \/ TimerEnd
  PROVE  TypeOK'
<1> USE DEF TypeOK
<1>1. CASE imu_callback
  <2>1. PICK norm \in Norms, valid \in BOOLEAN :
          /\ acc_scale' = Scale(norm)
          /\ Receive("imu", acc_scale')
          /\ first' = IF first = <<>> THEN <<norm>> ELSE first
          /\ callback_pc' = IF valid THEN "odom" ELSE "idle"
          /\ UNCHANGED <<config, stream, timer_pc, clouds, stages, hand_frames,
                         hand_submaps, glob_in>>
    BY <1>1 DEF imu_callback
  <2>2. Scale(norm) \in {0, One, Gravity} /\ (acc_scale # 0 => Scale(norm) = acc_scale)
    BY DEF Scale, Guessed
  <2>3. received' \in 0..MaxData /\ msg' \in Datum
    BY <2>1, <2>2, BoundsAssumption DEF Receive, Datum, Kinds
  <2>4. first' \in {<<>>} \cup {<<n>> : n \in Norms}
    BY <2>1
  <2> QED
    BY <2>1, <2>2, <2>3, <2>4 DEF config, stages, AllStages
<1>2. CASE image_callback
  <2>1. received' \in 0..MaxData /\ msg' \in Datum
    BY <1>2, BoundsAssumption DEF image_callback, Receive, Datum, Kinds
  <2> QED
    BY <1>2, <2>1 DEF image_callback, config, stages, AllStages
<1>3. CASE Insert
  <2>1. msg.kind \in Kinds /\ callback_pc \in AllStages
    BY <1>3 DEF Insert, Datum
  <2>2. Append(stream[msg.kind][callback_pc], msg) \in Seq(Datum)
    BY <2>1, AppendProperties
  <2>3. stream' \in [Kinds -> [AllStages -> Seq(Datum)]]
    BY <1>3, <2>1, <2>2 DEF Insert
  <2>4. callback_pc' \in AllStages \cup {"idle"}
    BY <1>3, <2>1 DEF Insert, NextStage, AllStages
  <2> QED
    BY <1>3, <2>3, <2>4 DEF Insert, config, stages
<1>4. CASE points_callback
  BY <1>4, BoundsAssumption DEF points_callback, config, data
<1>5. CASE TimerBegin
  <2>1. <<>> \in Products
    BY EmptySeq DEF Products
  <2> QED
    BY <1>5, <2>1 DEF TimerBegin, config, data
<1>6. CASE InsertFrame
  <2>1. Append(sub_in, Head(hand_frames)) \in Products /\ Tail(hand_frames) \in Products
    BY <1>6, HeadTailProperties, AppendProperties DEF InsertFrame, Products
  <2> QED
    BY <1>6, <2>1 DEF InsertFrame, config, data
<1>7. CASE FetchSubmaps
  <2>1. <<>> \in Products
    BY EmptySeq DEF Products
  <2> QED
    BY <1>7, <2>1 DEF FetchSubmaps, config, data
<1>8. CASE InsertSubmap
  <2>1. Append(glob_in, Head(hand_submaps)) \in Products /\ Tail(hand_submaps) \in Products
    BY <1>8, HeadTailProperties, AppendProperties DEF InsertSubmap, Products
  <2> QED
    BY <1>8, <2>1 DEF InsertSubmap, config, data, stages
<1>9. CASE TimerEnd
  BY <1>9 DEF TimerEnd, config, data, stages
<1> QED
  BY <1>1, <1>2, <1>3, <1>4, <1>5, <1>6, <1>7, <1>8, <1>9

\* So do the stages.
LEMMA StageType ==
  ASSUME TypeOK, OdometryStep \/ SubMappingStep \/ GlobalMappingStep
  PROVE  TypeOK'
<1> USE DEF TypeOK
<1>1. CASE OdometryStep
  <2>1. Append(odom_out, Given("odom")) \in Products
    BY GivenType, AppendProperties DEF Products, AllStages
  <2> QED
    BY <1>1, <2>1 DEF OdometryStep, config, data
<1>2. CASE SubMappingStep
  <2>1. Append(sub_out, Given("sub")) \in Products /\ Tail(sub_in) \in Products
    BY <1>2, GivenType, AppendProperties, HeadTailProperties
    DEF SubMappingStep, Products, AllStages
  <2> QED
    BY <1>2, <2>1 DEF SubMappingStep, config, data
<1>3. CASE GlobalMappingStep
  <2>1. Tail(glob_in) \in Products
    BY <1>3, HeadTailProperties DEF GlobalMappingStep, Products
  <2> QED
    BY <1>3, <2>1 DEF GlobalMappingStep, config, data, stages
<1> QED
  BY <1>1, <1>2, <1>3

LEMMA NextType == TypeOK /\ [Next]_vars => TypeOK'
<1> SUFFICES ASSUME TypeOK, [Next]_vars PROVE TypeOK'
  OBVIOUS
<1>1. CASE UNCHANGED vars
  BY <1>1 DEF TypeOK, vars, config, data, stages
<1> QED
  BY <1>1, ExecutorType, StageType DEF Next

\* Every variable of the callbacks, the timer and the stages keeps its type, for
\* any number of messages and clouds.
THEOREM TypeCorrect == Spec => []TypeOK
<1> QED
  BY InitType, NextType, PTL DEF Spec

-----------------------------------------------------------------------------
(* The inductive invariant. *)

\* The callback has yet to hand msg to stage s, after handing it to odometry.
Owes(s) ==
  \/ callback_pc = "sub" /\ s # "odom"
  \/ callback_pc = "glob" /\ s = "glob"

\* A stage that exists is behind odometry by what it is owed, and by nothing else.
InStep ==
  \A k \in Kinds, s \in Stages :
    stream[k]["odom"] = IF k = msg.kind /\ Owes(s) THEN Append(stream[k][s], msg)
                                                   ELSE stream[k][s]

\* timer_callback never runs inside a sensor callback, and moves frames and submaps
\* to stages that exist only.
TimerControl ==
  /\ timer_pc # "idle" => callback_pc = "idle" /\ sub_mapping
  /\ timer_pc = "submaps" => global_mapping

\* The products were made with data stage s has been given.
Within(products, s) ==
  \A i \in DOMAIN products, k \in Kinds : products[i][k] <= Len(stream[k][s])

\* A frame may be ahead of the stages while odometry holds it, but no longer when
\* timer_callback has it in its hands; so with the submaps.
MadeWithin ==
  /\ Within(odom_out, "odom")
  /\ Within(hand_frames, "sub") /\ Within(sub_in, "sub") /\ Within(sub_out, "sub")
  /\ global_mapping => Within(hand_submaps, "glob") /\ Within(glob_in, "glob")

\* The first IMU message, valid or not, settles the scale, and every IMU message
\* handed on has it.
ScaleSettled ==
  /\ first = <<>> =>
       /\ acc_scale = configured
       /\ \A s \in AllStages : stream["imu"][s] = <<>>
       /\ callback_pc # "idle" => msg.kind = "image"
  /\ first # <<>> =>
       /\ acc_scale # 0
       /\ configured = 0 => acc_scale = Guessed(first[1])
  /\ \A s \in AllStages :
       \A i \in DOMAIN stream["imu"][s] : stream["imu"][s][i].scale = acc_scale
  /\ callback_pc # "idle" /\ msg.kind = "imu" => msg.scale = acc_scale

IInv == TypeOK /\ TimerControl /\ InStep /\ MadeWithin /\ ScaleSettled

LEMMA InitInv == Init => IInv
<1> SUFFICES ASSUME Init PROVE IInv
  OBVIOUS
<1>1. TypeOK
  BY InitType
<1>2. TimerControl
  BY DEF Init, TimerControl
<1>3. InStep
  BY DEF Init, InStep, Owes, Stages, AllStages
<1>4. MadeWithin
  BY DEF Init, MadeWithin, Within
<1>5. ScaleSettled
  BY DEF Init, ScaleSettled, Kinds, AllStages
<1> QED
  BY <1>1, <1>2, <1>3, <1>4, <1>5 DEF IInv

-----------------------------------------------------------------------------
(* The invariant is inductive.  The lemmas take it part by part. *)

LEMMA ControlStep ==
  ASSUME TypeOK, TimerControl, [Next]_vars PROVE TimerControl'
<1> USE DEF TimerControl
<1>1. CASE imu_callback \/ image_callback \/ points_callback
  BY <1>1 DEF imu_callback, image_callback, points_callback, Receive, CallbackMayRun,
              config, data
<1>2. CASE Insert
  BY <1>2 DEF Insert, AllStages, config
<1>3. CASE TimerBegin
  BY <1>3 DEF TimerBegin, TimerMayRun, config, data
<1>4. CASE InsertFrame \/ FetchSubmaps \/ InsertSubmap \/ TimerEnd
  BY <1>4 DEF InsertFrame, FetchSubmaps, InsertSubmap, TimerEnd, config, data
<1>5. CASE OdometryStep \/ SubMappingStep \/ GlobalMappingStep
  BY <1>5 DEF OdometryStep, SubMappingStep, GlobalMappingStep, config, data
<1>6. CASE UNCHANGED vars
  BY <1>6 DEF vars, config, data
<1> QED
  BY <1>1, <1>2, <1>3, <1>4, <1>5, <1>6 DEF Next

\* Only the sensor callbacks touch what InStep and ScaleSettled speak of.
LEMMA DataKept ==
  ASSUME [Next]_vars
  PROVE  imu_callback \/ image_callback \/ Insert \/ UNCHANGED <<config, data>>
BY DEF Next, vars, points_callback, TimerBegin, InsertFrame, FetchSubmaps, InsertSubmap,
       TimerEnd, OdometryStep, SubMappingStep, GlobalMappingStep

LEMMA InStepStep ==
  ASSUME TypeOK, InStep, [Next]_vars PROVE InStep'
<1>1. CASE imu_callback \/ image_callback
  <2>1. /\ callback_pc = "idle" /\ callback_pc' \in {"idle", "odom"}
        /\ UNCHANGED <<stream, sub_mapping, global_mapping>>
    BY <1>1 DEF imu_callback, image_callback, Receive, CallbackMayRun, config
  <2>2. \A s : ~Owes(s) /\ ~Owes(s)'
    BY <2>1 DEF Owes
  <2> QED
    BY <2>1, <2>2 DEF InStep, Stages
<1>2. CASE Insert
  <2>1. /\ msg.kind \in Kinds /\ callback_pc \in AllStages
        /\ callback_pc' = NextStage[callback_pc]
        /\ UNCHANGED <<msg, sub_mapping, global_mapping>>
    BY <1>2 DEF Insert, TypeOK, Datum, config
  <2>2. Stages' = Stages /\ Stages \subseteq AllStages /\ "odom" \in Stages
    BY <2>1 DEF Stages, AllStages
  <2>3. ASSUME NEW k \in Kinds, NEW s \in AllStages
        PROVE  stream'[k][s] =
                 IF k = msg.kind /\ s = callback_pc /\ s \in Stages
                 THEN Append(stream[k][s], msg) ELSE stream[k][s]
    BY <1>2, <2>1 DEF Insert, Takes, TypeOK
  <2>4. SUFFICES ASSUME NEW k \in Kinds, NEW s \in Stages
                 PROVE  stream'[k]["odom"] = IF k = msg.kind /\ Owes(s)'
                                             THEN Append(stream'[k][s], msg)
                                             ELSE stream'[k][s]
    BY <2>1, <2>2 DEF InStep
  <2>5. stream[k]["odom"] = IF k = msg.kind /\ Owes(s) THEN Append(stream[k][s], msg)
                                                      ELSE stream[k][s]
    BY DEF InStep
  <2>6. s \in AllStages /\ "odom" \in AllStages
    BY <2>2
  <2>7. CASE callback_pc = "odom"
    <3>1. ~Owes(s) /\ (Owes(s)' <=> s # "odom")
      BY <2>1, <2>7, <2>6 DEF Owes, NextStage, AllStages
    <3> QED
      BY <2>3, <2>5, <2>6, <2>7, <2>2, <3>1
  <2>8. CASE callback_pc = "sub"
    <3>1. (Owes(s) <=> s # "odom") /\ (Owes(s)' <=> s = "glob")
      BY <2>1, <2>8, <2>6 DEF Owes, NextStage, AllStages
    <3> QED
      BY <2>3, <2>5, <2>6, <2>8, <2>2, <3>1 DEF AllStages
  <2>9. CASE callback_pc = "glob"
    <3>1. (Owes(s) <=> s = "glob") /\ ~Owes(s)'
      BY <2>1, <2>9, <2>6 DEF Owes, NextStage, AllStages
    <3> QED
      BY <2>3, <2>5, <2>6, <2>9, <2>2, <3>1
  <2> QED
    BY <2>1, <2>7, <2>8, <2>9 DEF AllStages
<1>3. CASE UNCHANGED <<config, data>>
  BY <1>3 DEF InStep, Owes, Stages, config, data
<1> QED
  BY <1>1, <1>2, <1>3, DataKept

LEMMA ScaleStep ==
  ASSUME TypeOK, ScaleSettled, [Next]_vars PROVE ScaleSettled'
<1>1. CASE imu_callback
  <2>1. PICK norm \in Norms, valid \in BOOLEAN :
          /\ acc_scale' = Scale(norm)
          /\ Receive("imu", acc_scale')
          /\ first' = IF first = <<>> THEN <<norm>> ELSE first
          /\ callback_pc' = IF valid THEN "odom" ELSE "idle"
          /\ UNCHANGED <<config, stream, timer_pc, clouds, stages, hand_frames,
                         hand_submaps, glob_in>>
    BY <1>1 DEF imu_callback
  <2>2. msg'.kind = "imu" /\ msg'.scale = acc_scale'
    BY <2>1 DEF Receive
  <2>3. first' # <<>> /\ UNCHANGED <<stream, configured>>
    BY <2>1 DEF config
  <2>4. Scale(norm) # 0
    BY DEF Scale, Guessed, One, Gravity
  <2>5. CASE first = <<>>
    <3>1. configured = 0 => acc_scale' = Guessed(first'[1])
      BY <2>1, <2>5 DEF ScaleSettled, Scale
    <3> QED
      BY <2>1, <2>2, <2>3, <2>4, <2>5, <3>1, EmptySeq DEF ScaleSettled
  <2>6. CASE first # <<>>
    <3>1. acc_scale' = acc_scale /\ first' = first
      BY <2>1, <2>6 DEF ScaleSettled, Scale
    <3> QED
      BY <2>1, <2>2, <2>3, <2>6, <3>1 DEF ScaleSettled, Guessed
  <2> QED
    BY <2>5, <2>6
<1>2. CASE image_callback
  BY <1>2 DEF image_callback, Receive, CallbackMayRun, ScaleSettled, Guessed, config
<1>3. CASE Insert
  <2>1. /\ msg.kind \in Kinds /\ callback_pc \in AllStages /\ msg \in Datum
        /\ UNCHANGED <<msg, acc_scale, first, configured>>
    BY <1>3 DEF Insert, TypeOK, Datum, config
  <2>2. callback_pc # "idle"
    BY <2>1 DEF AllStages
  <2>3. ASSUME NEW s \in AllStages
        PROVE  \/ stream'["imu"][s] = stream["imu"][s]
               \/ /\ msg.kind = "imu"
                  /\ stream'["imu"][s] = Append(stream["imu"][s], msg)
    BY <1>3, <2>1 DEF Insert, TypeOK, Kinds
  <2>4. ASSUME NEW s \in AllStages, NEW i \in DOMAIN stream'["imu"][s]
        PROVE  stream'["imu"][s][i].scale = acc_scale
    <3>1. stream["imu"][s] \in Seq(Datum)
      BY DEF TypeOK, Kinds
    <3>2. CASE stream'["imu"][s] = stream["imu"][s]
      BY <3>2 DEF ScaleSettled
    <3>3. CASE msg.kind = "imu" /\ stream'["imu"][s] = Append(stream["imu"][s], msg)
      <4>1. msg.scale = acc_scale
        BY <2>2, <3>3 DEF ScaleSettled
      <4> DEFINE old == stream["imu"][s]
      <4>2. /\ DOMAIN old = 1..Len(old) /\ Len(old) \in Nat
            /\ DOMAIN stream'["imu"][s] = 1..(Len(old) + 1)
            /\ \A j \in 1..Len(old) : stream'["imu"][s][j] = old[j]
            /\ stream'["imu"][s][Len(old) + 1] = msg
        BY <2>1, <3>1, <3>3, AppendProperties, LenProperties
      <4> QED
        BY <4>1, <4>2 DEF ScaleSettled
    <3> QED
      BY <2>3, <3>2, <3>3
  <2>5. first = <<>> => msg.kind = "image" /\ \A s \in AllStages : stream'["imu"][s] = <<>>
    BY <2>2, <2>3 DEF ScaleSettled
  <2> QED
    BY <2>1, <2>2, <2>4, <2>5 DEF ScaleSettled, Guessed
<1>4. CASE UNCHANGED <<config, data>>
  BY <1>4 DEF ScaleSettled, Guessed, config, data
<1> QED
  BY <1>1, <1>2, <1>3, <1>4, DataKept

\* What a stage was given is not taken back.
LEMMA StreamsGrow ==
  ASSUME TypeOK, [Next]_vars, NEW k \in Kinds, NEW s \in AllStages
  PROVE  Len(stream[k][s]) <= Len(stream'[k][s]) /\ Len(stream'[k][s]) \in Nat
<1>1. stream[k][s] \in Seq(Datum) /\ Len(stream[k][s]) \in Nat
  BY LenProperties DEF TypeOK
<1>2. CASE Insert
  <2>1. msg \in Datum /\ msg.kind \in Kinds /\ callback_pc \in AllStages
    BY <1>2 DEF Insert, TypeOK, Datum
  <2>2. stream'[k][s] = stream[k][s] \/ stream'[k][s] = Append(stream[k][s], msg)
    BY <1>2, <2>1 DEF Insert, TypeOK
  <2> QED
    BY <1>1, <2>1, <2>2, AppendProperties
<1>3. CASE UNCHANGED stream
  BY <1>1, <1>3
<1> QED
  BY <1>2, <1>3, DataKept DEF imu_callback, image_callback, data

\* Between callbacks every stage that exists has been given what odometry has.
LEMMA LevelWhenIdle ==
  ASSUME InStep, callback_pc = "idle", NEW k \in Kinds, NEW s \in Stages
  PROVE  stream[k][s] = stream[k]["odom"]
BY DEF InStep, Owes

\* Products stay within what a stage was given as they move from queue to queue.
LEMMA WithinMoves ==
  ASSUME NEW from \in Products, NEW to \in Products, NEW s \in AllStages, from # <<>>,
         Within(from, s), Within(to, s)
  PROVE  Within(Append(to, Head(from)), s) /\ Within(Tail(from), s)
<1>1. /\ DOMAIN from = 1..Len(from) /\ Len(from) \in Nat \ {0}
      /\ DOMAIN to = 1..Len(to) /\ Len(to) \in Nat
  BY LenProperties, EmptySeq DEF Products
<1>2. /\ Head(from) = from[1] /\ Head(from) \in [Kinds -> Nat]
      /\ Tail(from) \in Products /\ Len(Tail(from)) = Len(from) - 1
      /\ DOMAIN Tail(from) = 1..(Len(from) - 1)
      /\ \A i \in 1..(Len(from) - 1) : Tail(from)[i] = from[i + 1]
  BY <1>1, HeadTailProperties, LenProperties DEF Products
<1>3. /\ DOMAIN Append(to, Head(from)) = 1..(Len(to) + 1)
      /\ \A i \in 1..Len(to) : Append(to, Head(from))[i] = to[i]
      /\ Append(to, Head(from))[Len(to) + 1] = from[1]
  BY <1>1, <1>2, AppendProperties, LenProperties DEF Products
<1>4. Within(Tail(from), s)
  BY <1>1, <1>2 DEF Within
<1>5. Within(Append(to, Head(from)), s)
  BY <1>1, <1>3 DEF Within
<1> QED
  BY <1>4, <1>5

\* A product made now is within what the stage has been given.
LEMMA WithinMade ==
  ASSUME TypeOK, NEW made \in Products, NEW s \in AllStages, Within(made, s)
  PROVE  Within(Append(made, Given(s)), s)
<1>1. DOMAIN made = 1..Len(made) /\ Len(made) \in Nat /\ Given(s) \in [Kinds -> Nat]
  BY LenProperties, GivenType DEF Products, TypeOK
<1>2. /\ DOMAIN Append(made, Given(s)) = 1..(Len(made) + 1)
      /\ \A i \in 1..Len(made) : Append(made, Given(s))[i] = made[i]
      /\ Append(made, Given(s))[Len(made) + 1] = Given(s)
  BY <1>1, AppendProperties, LenProperties DEF Products
<1>3. \A k \in Kinds : Given(s)[k] <= Len(stream[k][s])
  <2>1. \A k \in Kinds : Len(stream[k][s]) \in Nat
    BY LenProperties DEF TypeOK
  <2> QED
    BY <2>1 DEF Given
<1> QED
  BY <1>1, <1>2, <1>3 DEF Within

\* And it stays so as the stages are given more.
LEMMA WithinStays ==
  ASSUME TypeOK, [Next]_vars, NEW products \in Products, NEW s \in AllStages,
         Within(products, s)
  PROVE  \A i \in DOMAIN products, k \in Kinds : products[i][k] <= Len(stream'[k][s])
<1>1. \A i \in DOMAIN products, k \in Kinds : products[i][k] \in Nat
  BY LenProperties, ElementOfSeq DEF Products
<1>2. \A k \in Kinds :
        /\ Len(stream[k][s]) \in Nat /\ Len(stream'[k][s]) \in Nat
        /\ Len(stream[k][s]) <= Len(stream'[k][s])
  BY StreamsGrow, LenProperties DEF TypeOK
<1> QED
  BY <1>1, <1>2 DEF Within

\* The products in the queues after a step were made with data given before it.
LEMMA MadeBefore ==
  ASSUME IInv, [Next]_vars
  PROVE  /\ Within(odom_out', "odom")
         /\ Within(hand_frames', "sub") /\ Within(sub_in', "sub") /\ Within(sub_out', "sub")
         /\ global_mapping => Within(hand_submaps', "glob") /\ Within(glob_in', "glob")
<1> USE DEF IInv
<1>1. /\ odom_out \in Products /\ hand_frames \in Products /\ sub_in \in Products
      /\ sub_out \in Products /\ hand_submaps \in Products /\ glob_in \in Products
  BY DEF TypeOK
<1>2. \A s : Within(<<>>, s)
  BY DEF Within
<1>3. "odom" \in AllStages /\ "sub" \in AllStages /\ "glob" \in AllStages
  BY DEF AllStages
<1>4. CASE imu_callback \/ image_callback \/ Insert \/ points_callback \/ TimerEnd
           \/ UNCHANGED vars
  <2>1. UNCHANGED <<odom_out, hand_frames, sub_in, sub_out, hand_submaps, glob_in>>
    BY <1>4 DEF imu_callback, image_callback, Insert, points_callback, TimerEnd, vars, stages
  <2> QED
    BY <2>1 DEF MadeWithin
<1>5. CASE TimerBegin
  <2>1. callback_pc = "idle"
    BY <1>5 DEF TimerBegin, TimerMayRun
  <2>2. sub_mapping => Within(odom_out, "sub")
    <3>1. sub_mapping => \A k \in Kinds : stream[k]["sub"] = stream[k]["odom"]
      BY <2>1, LevelWhenIdle DEF Stages
    <3> QED
      BY <3>1 DEF MadeWithin, Within
  <2> QED
    BY <1>2, <1>5, <2>2 DEF TimerBegin, MadeWithin
<1>6. CASE InsertFrame
  <2>1. Within(Append(sub_in, Head(hand_frames)), "sub") /\ Within(Tail(hand_frames), "sub")
    BY <1>1, <1>3, <1>6, WithinMoves DEF InsertFrame, MadeWithin
  <2> QED
    BY <1>6, <2>1 DEF InsertFrame, MadeWithin
<1>7. CASE FetchSubmaps
  <2>1. callback_pc = "idle" /\ sub_mapping
    BY <1>7 DEF FetchSubmaps, TimerControl
  <2>2. global_mapping => Within(sub_out, "glob")
    <3>1. global_mapping => \A k \in Kinds : stream[k]["glob"] = stream[k]["sub"]
      BY <2>1, LevelWhenIdle DEF Stages
    <3> QED
      BY <3>1 DEF MadeWithin, Within
  <2> QED
    BY <1>2, <1>7, <2>2 DEF FetchSubmaps, MadeWithin
<1>8. CASE InsertSubmap
  <2>1. global_mapping /\ Within(hand_submaps, "glob") /\ Within(glob_in, "glob")
    BY <1>8 DEF InsertSubmap, TimerControl, MadeWithin
  <2>2. Within(Append(glob_in, Head(hand_submaps)), "glob") /\ Within(Tail(hand_submaps), "glob")
    BY <1>1, <1>3, <1>8, <2>1, WithinMoves DEF InsertSubmap
  <2> QED
    BY <1>8, <2>2 DEF InsertSubmap, MadeWithin, stages
<1>9. CASE OdometryStep
  <2>1. Within(Append(odom_out, Given("odom")), "odom")
    BY <1>1, <1>3, WithinMade DEF MadeWithin
  <2> QED
    BY <1>9, <2>1 DEF OdometryStep, MadeWithin
<1>10. CASE SubMappingStep
  <2>1. Within(Append(sub_out, Given("sub")), "sub")
    BY <1>1, <1>3, WithinMade DEF MadeWithin
  <2>2. Within(Tail(sub_in), "sub")
    BY <1>1, <1>3, <1>10, WithinMoves DEF SubMappingStep, MadeWithin
  <2> QED
    BY <1>10, <2>1, <2>2 DEF SubMappingStep, MadeWithin
<1>11. CASE GlobalMappingStep
  <2>1. global_mapping => Within(Tail(glob_in), "glob")
    BY <1>1, <1>3, <1>11, WithinMoves DEF GlobalMappingStep, MadeWithin
  <2> QED
    BY <1>11, <2>1 DEF GlobalMappingStep, MadeWithin, stages
<1> QED
  BY <1>4, <1>5, <1>6, <1>7, <1>8, <1>9, <1>10, <1>11 DEF Next

LEMMA MadeStep ==
  ASSUME IInv, [Next]_vars PROVE MadeWithin'
<1>1. TypeOK /\ TypeOK'
  BY NextType DEF IInv
<1>2. /\ odom_out' \in Products /\ hand_frames' \in Products /\ sub_in' \in Products
      /\ sub_out' \in Products /\ hand_submaps' \in Products /\ glob_in' \in Products
  BY <1>1 DEF TypeOK
<1>3. "odom" \in AllStages /\ "sub" \in AllStages /\ "glob" \in AllStages
  BY DEF AllStages
<1>4. global_mapping' = global_mapping
  BY DEF Next, vars, config, imu_callback, image_callback, Insert, points_callback,
         TimerBegin, InsertFrame, FetchSubmaps, InsertSubmap, TimerEnd, OdometryStep,
         SubMappingStep, GlobalMappingStep
<1>5. \A i \in DOMAIN odom_out', k \in Kinds : odom_out'[i][k] <= Len(stream'[k]["odom"])
  BY <1>1, <1>2, <1>3, MadeBefore, WithinStays
<1>6. /\ \A i \in DOMAIN hand_frames', k \in Kinds :
           hand_frames'[i][k] <= Len(stream'[k]["sub"])
      /\ \A i \in DOMAIN sub_in', k \in Kinds : sub_in'[i][k] <= Len(stream'[k]["sub"])
      /\ \A i \in DOMAIN sub_out', k \in Kinds : sub_out'[i][k] <= Len(stream'[k]["sub"])
  BY <1>1, <1>2, <1>3, MadeBefore, WithinStays
<1>7. global_mapping =>
        /\ \A i \in DOMAIN hand_submaps', k \in Kinds :
             hand_submaps'[i][k] <= Len(stream'[k]["glob"])
        /\ \A i \in DOMAIN glob_in', k \in Kinds : glob_in'[i][k] <= Len(stream'[k]["glob"])
  BY <1>1, <1>2, <1>3, MadeBefore, WithinStays
<1> QED
  BY <1>4, <1>5, <1>6, <1>7 DEF MadeWithin, Within

LEMMA NextInv == IInv /\ [Next]_vars => IInv'
<1> SUFFICES ASSUME IInv, [Next]_vars PROVE IInv'
  OBVIOUS
<1> QED
  BY NextType, ControlStep, InStepStep, MadeStep, ScaleStep DEF IInv

LEMMA Invariant == Spec => []IInv
<1> QED
  BY InitInv, NextInv, PTL DEF Spec

-----------------------------------------------------------------------------
(* The properties. *)

\* No stage is given a frame or a submap before the IMU data and images it was made
\* with, whatever stages exist and however odometry gets ahead of the callbacks.
THEOREM InputPrecedesProducts == Spec => []DataComesFirst
<1>1. IInv => DataComesFirst
  BY DEF IInv, MadeWithin, Within, DataComesFirst
<1> QED
  BY <1>1, Invariant, PTL

LEMMA PrefixOfAppend ==
  ASSUME NEW S, NEW s \in Seq(S), NEW t \in Seq(S), NEW e \in S,
         t = s \/ t = Append(s, e)
  PROVE  IsPrefix(s, t)
<1>1. Len(s) \in Nat /\ Len(t) \in Nat /\ Len(s) <= Len(t)
  BY AppendProperties, LenProperties
<1>2. \A i \in 1..Len(s) : s[i] = t[i] /\ s[i] \in S
  BY AppendProperties, ElementOfSeq
<1>3. SubSeq(s, 1, Len(s)) = SubSeq(t, 1, Len(s))
  BY <1>1, <1>2
<1> QED
  BY <1>1, <1>3 DEF IsPrefix

\* All stages see the same IMU data and images in the same order; between callbacks
\* none is behind.
THEOREM StagesSeeTheSame == Spec => []StagesAgree
<1>1. ASSUME IInv PROVE StagesAgree
  <2>1. SUFFICES ASSUME NEW k \in Kinds, NEW s \in Stages
                 PROVE  /\ IsPrefix(stream[k][s], stream[k]["odom"])
                        /\ callback_pc = "idle" => stream[k][s] = stream[k]["odom"]
    BY DEF StagesAgree
  <2>2. s \in AllStages /\ "odom" \in AllStages
    BY DEF Stages, AllStages
  <2>3. stream[k][s] \in Seq(Datum) /\ stream[k]["odom"] \in Seq(Datum) /\ msg \in Datum
    BY <1>1, <2>2 DEF IInv, TypeOK
  <2>4. \/ stream[k]["odom"] = stream[k][s]
        \/ stream[k]["odom"] = Append(stream[k][s], msg)
    BY <1>1 DEF IInv, InStep
  <2>5. IsPrefix(stream[k][s], stream[k]["odom"])
    BY <2>3, <2>4, PrefixOfAppend
  <2> QED
    BY <1>1, <2>5, LevelWhenIdle DEF IInv
<1> QED
  BY <1>1, Invariant, PTL

\* Where the sensor rests, the guess is the unit.
LEMMA GuessRight ==
  ASSUME unit \in {One, Gravity}, NEW norm \in Nat, AtRest(norm)
  PROVE  Guessed(norm) = unit
BY DEF AtRest, Guessed, One, Gravity

\* The stages integrate accelerations in m/s^2 for the whole session, if the unit is
\* configured right or the IMU rests when it sends its first message.
THEOREM UnitsStayRight == Spec => []UnitsRight
<1>1. ASSUME IInv PROVE UnitsRight
  <2>1. SUFFICES
          ASSUME \/ configured = unit
                 \/ configured = 0 /\ \A i \in DOMAIN first : AtRest(first[i]),
                 NEW s \in AllStages, NEW i \in DOMAIN stream["imu"][s]
          PROVE  stream["imu"][s][i].scale = unit
    BY DEF UnitsRight
  <2>2. stream["imu"][s][i].scale = acc_scale
    BY <1>1 DEF IInv, ScaleSettled
  <2>3. first # <<>>
    BY <1>1 DEF IInv, ScaleSettled
  <2>4. CASE configured = unit
    BY <1>1, <2>2, <2>4 DEF IInv, TypeOK, One, Gravity
  <2>5. CASE configured = 0 /\ \A j \in DOMAIN first : AtRest(first[j])
    <3>1. PICK norm \in Norms : first = <<norm>>
      BY <1>1, <2>3 DEF IInv, TypeOK
    <3>2. first[1] = norm /\ AtRest(norm) /\ norm \in Nat /\ unit \in {One, Gravity}
      BY <1>1, <2>5, <3>1, NormsAssumption DEF IInv, TypeOK
    <3>3. acc_scale = Guessed(norm)
      BY <1>1, <2>3, <2>5, <3>2 DEF IInv, ScaleSettled
    <3> QED
      BY <2>2, <3>2, <3>3, GuessRight
  <2> QED
    BY <2>1, <2>4, <2>5
<1> QED
  BY <1>1, Invariant, PTL
=============================================================================
