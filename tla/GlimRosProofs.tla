--------------------------- MODULE GlimRosProofs ---------------------------
(***************************************************************************)
(* Theorems about GlimRos, for every set of hosting programs, every bound  *)
(* on the clouds and every interleaving of the threads.                    *)
(***************************************************************************)
EXTENDS GlimRos, FrameRunsLemmas, FiniteSetTheorems

-----------------------------------------------------------------------------
(* Type correctness. *)

LEMMA InitType == Init => TypeOK
<1> SUFFICES ASSUME Init PROVE TypeOK
  OBVIOUS
<1>1. <<>> \in Frames /\ <<>> \in Maps /\ <<>> \in Seq(Maps)
  BY EmptySeq DEF Frames, Maps
<1>2. QED
  BY <1>1, MainsAssumption DEF Init, TypeOK, Pcs, Workers

LEMMA WorkerType ==
  ASSUME TypeOK, WorkerStep PROVE TypeOK'
<1> USE DEF TypeOK
<1>1. CASE OdometryStep
  <2> DEFINE window == Append(odom_window, Head(odom_in))
  <2>1. Head(odom_in) \in Nat /\ Tail(odom_in) \in Frames
    BY <1>1, HeadTailProperties DEF OdometryStep, Frames
  <2>2. window \in Frames /\ Len(window) \in Nat
    BY <2>1, AppendProperties, LenProperties DEF Frames
  <2> HIDE DEF window
  <2>3. PICK k \in 0..Len(window) :
          /\ odom_out' = odom_out \o SubSeq(window, 1, k)
          /\ odom_window' = SubSeq(window, k + 1, Len(window))
    BY <1>1 DEF OdometryStep, window
  <2>4. \A i \in 1..Len(window) : window[i] \in Nat
    BY <2>2, ElementOfSeq DEF Frames
  <2>5. SubSeq(window, 1, k) \in Frames /\ SubSeq(window, k + 1, Len(window)) \in Frames
    BY <2>2, <2>4, SubSeqProperties DEF Frames
  <2>6. odom_out' \in Frames
    BY <2>3, <2>5, ConcatProperties DEF Frames
  <2>7. odom_in' \in Frames
    BY <1>1, <2>1 DEF OdometryStep
  <2> QED
    BY <1>1, <2>3, <2>5, <2>6, <2>7
    DEF OdometryStep, config, env, ext, sub, glob, hands, threads
<1>2. CASE OdometryEnd
  <2>1. odom_out \o odom_window \in Frames /\ <<>> \in Frames
    BY ConcatProperties, EmptySeq DEF Frames
  <2> QED
    BY <1>2, <2>1
    DEF OdometryEnd, config, env, ext, sub, glob, hands, Workers
<1>3. CASE SubMappingStep
  <2> DEFINE frames == Append(sub_frames, Head(sub_in))
  <2>1. Head(sub_in) \in Nat /\ Tail(sub_in) \in Frames
    BY <1>3, HeadTailProperties DEF SubMappingStep, Frames
  <2>2. frames \in Frames /\ <<>> \in Frames
    BY <2>1, AppendProperties, EmptySeq DEF Frames
  <2>3. Append(sub_out, frames) \in Maps
    BY <2>2, AppendProperties DEF Maps, Frames
  <2> QED
    BY <1>3, <2>1, <2>2, <2>3
    DEF SubMappingStep, config, env, ext, odom, glob, hands, threads
<1>4. CASE SubMappingEnd
  <2>1. Append(sub_out, sub_frames) \in Maps /\ <<>> \in Frames
    BY AppendProperties, EmptySeq DEF Maps, Frames
  <2> QED
    BY <1>4, <2>1
    DEF SubMappingEnd, config, env, ext, odom, glob, hands, Workers
<1>5. CASE GlobalMappingStep
  <2>1. Head(glob_in) \in Frames /\ Tail(glob_in) \in Maps
    BY <1>5, HeadTailProperties DEF GlobalMappingStep, Maps, Frames
  <2>2. Append(glob_map, Head(glob_in)) \in Maps
    BY <2>1, AppendProperties DEF Maps, Frames
  <2> QED
    BY <1>5, <2>1, <2>2
    DEF GlobalMappingStep, config, env, ext, odom, sub, hands, threads
<1>6. CASE GlobalMappingEnd
  BY <1>6
  DEF GlobalMappingEnd, config, env, ext, odom, sub, glob, hands, Workers
<1> QED
  BY <1>1, <1>2, <1>3, <1>4, <1>5, <1>6 DEF WorkerStep

LEMMA CallbackType ==
  ASSUME TypeOK, points_callback \/ TimerStep PROVE TypeOK'
<1> USE DEF TypeOK
<1>0. <<>> \in Frames /\ <<>> \in Maps
  BY EmptySeq DEF Frames, Maps
<1>1. CASE points_callback
  <2>1. Append(odom_in, accepted + 1) \in Frames /\ accepted + 1 \in Nat
    BY AppendProperties DEF Frames
  <2> QED
    BY <1>1, <2>1
    DEF Dispatches, points_callback, config, env, ext, sub, glob, hands, threads
<1>2. CASE TimerBegin
  BY <1>0, <1>2
  DEF Dispatches, TimerBegin, TakeFrames, Pcs, TimerPcs, config, ext, sub, glob, threads
<1>3. CASE InsertFrame
  <2>1. Head(hand_frames) \in Nat /\ Tail(hand_frames) \in Frames
    BY <1>3, HeadTailProperties DEF InsertFrame, Frames
  <2>2. Append(sub_in, Head(hand_frames)) \in Frames
    BY <2>1, AppendProperties DEF Frames
  <2> QED
    BY <1>3, <2>1, <2>2 DEF InsertFrame, config, env, ext, odom, glob, threads
<1>4. CASE TimerSubmaps
  BY <1>0, <1>4
  DEF TimerSubmaps, TakeSubmaps, Pcs, TimerPcs, config, env, ext, odom, glob, threads
<1>5. CASE InsertSubmap
  <2>1. Head(hand_submaps) \in Frames /\ Tail(hand_submaps) \in Maps
    BY <1>5, HeadTailProperties DEF InsertSubmap, Maps, Frames
  <2>2. Append(glob_in, Head(hand_submaps)) \in Maps
    BY <2>1, AppendProperties DEF Maps, Frames
  <2> QED
    BY <1>5, <2>1, <2>2 DEF InsertSubmap, config, env, ext, odom, sub, threads
<1>6. CASE TimerEnd
  BY <1>6 DEF TimerEnd, Pcs, config, env, ext, odom, sub, glob, hands, threads
<1> QED
  BY <1>1, <1>2, <1>3, <1>4, <1>5, <1>6 DEF TimerStep

LEMMA LeavingType ==
  ASSUME TypeOK,
         Environment \/ SpinReturns \/ PlaybackEnds \/ Unload \/ save \/ Quit
  PROVE  TypeOK'
<1> USE DEF TypeOK, config, env, odom, sub, glob, hands
<1>1. CASE Environment
  BY <1>1 DEF Environment, Interrupt, ExtensionCloses, ext, threads
<1>2. CASE SpinReturns \/ PlaybackEnds
  BY <1>2 DEF GoToWait, SpinReturns, PlaybackEnds, EnterWait, Pcs, ext, threads
<1>3. CASE Unload \/ Quit
  BY <1>3 DEF Unload, Quit, Destructor, EnterWait, Pcs
<1>4. CASE save
  <2>1. Append(dumps, glob_map) \in Seq(Maps)
    BY AppendProperties
  <2> QED
    BY <1>4, <2>1 DEF save, Pcs
<1> QED
  BY <1>1, <1>2, <1>3, <1>4

LEMMA WaitType ==
  ASSUME TypeOK, WaitStep PROVE TypeOK'
<1> USE DEF TypeOK, config, env, ext, odom, sub, glob, hands, threads, Pcs, JoinPcs
<1>0. <<>> \in Frames /\ <<>> \in Maps
  BY EmptySeq DEF Frames, Maps
<1>1. CASE JoinOdometry
  BY <1>1 DEF JoinOdometry, Workers
<1>2. CASE JoinSubMapping
  BY <1>2 DEF JoinSubMapping, Workers
<1>3. CASE JoinGlobalMapping
  BY <1>3 DEF JoinGlobalMapping, Workers
<1>4. CASE OdometryJoined
  BY <1>0, <1>4 DEF OdometryJoined, TakeFrames
<1>5. CASE SubMappingJoined
  BY <1>0, <1>5 DEF SubMappingJoined, TakeSubmaps
<1>6. CASE GlobalMappingJoined \/ WaitReturns
  BY <1>6 DEF GlobalMappingJoined, WaitReturns
<1> QED
  BY <1>1, <1>2, <1>3, <1>4, <1>5, <1>6 DEF WaitStep

LEMMA NextType == TypeOK /\ [Next]_vars => TypeOK'
<1> SUFFICES ASSUME TypeOK, [Next]_vars PROVE TypeOK'
  OBVIOUS
<1>1. CASE UNCHANGED vars
  BY <1>1
  DEF TypeOK, vars, config, env, ext, odom, sub, glob, hands, threads
<1> QED
  BY <1>1, WorkerType, CallbackType, LeavingType, WaitType DEF Next, Terminated

\* Every variable of the node and its workers keeps its type, each hand-over in
\* timer_callback, wait and save leaving sequences of frames, of submaps, of maps;
\* and timer_callback and wait never call a mapping stage that was not loaded.
THEOREM TypeCorrect == Spec => []TypeOK
  BY InitType, NextType, PTL DEF Spec

-----------------------------------------------------------------------------
(* The inductive invariant.  NothingLost says nothing of where the thread  *)
(* of main() is nor of which workers have ended, but wait() relies on both *)
(* when it takes the last results of a stage: what follows is what holds   *)
(* at each position, and what is known of a stage that was told to end.    *)

Spinning == {"spin"} \cup TimerPcs

\* Where the thread is, and what its locals and the worker before it hold then.
Position ==
  /\ pc \in Spinning => ending = {} /\ "odom" \in running /\ dumps = <<>>
  /\ pc \notin {"timer_frames", "wait_frames"} => hand_frames = <<>>
  /\ pc \notin {"timer_submaps", "wait_submaps"} => hand_submaps = <<>>
  /\ pc = "wait_frames" => "odom" \notin running /\ odom_out = <<>>
  /\ pc = "join_sub" => "sub" \in ending
  /\ pc = "wait_submaps" => "sub" \notin running /\ sub_out = <<>>
  /\ pc = "join_glob" => "glob" \in ending
  /\ pc \in {"wait_loop", "save", "quit"} =>
       "odom" \notin running /\ (sub_mapping /\ global_mapping => "glob" \notin running)

\* Stages end in the order of the pipeline, each one empty, and only after
\* everything the stage before it produced was handed over.
EndOrder ==
  /\ "odom" \notin running => odom_in = <<>> /\ odom_window = <<>>
  /\ "sub" \in ending =>
       "odom" \notin running /\ odom_out = <<>> /\ hand_frames = <<>>
  /\ sub_mapping /\ "sub" \notin running =>
       "sub" \in ending /\ sub_in = <<>> /\ sub_frames = <<>>
  /\ "glob" \in ending =>
       "sub" \notin running /\ sub_out = <<>> /\ hand_submaps = <<>>
  /\ sub_mapping /\ global_mapping /\ "glob" \notin running =>
       "glob" \in ending /\ glob_in = <<>>

\* A stage that is missing leaves the queues behind it empty.
Missing ==
  /\ ~sub_mapping => /\ sub_in = <<>> /\ sub_frames = <<>> /\ sub_out = <<>>
                     /\ hand_frames = <<>>
  /\ ~(sub_mapping /\ global_mapping) => glob_in = <<>> /\ hand_submaps = <<>>

IControl ==
  /\ TypeOK
  /\ Position
  /\ pc # "destroyed" => EndOrder
  /\ Missing

IInv ==
  /\ IControl
  /\ InFlightIsARun
  /\ NothingLost
  /\ DumpsComplete

LEMMA InitControl == Init => IControl
<1> SUFFICES ASSUME Init PROVE IControl
  OBVIOUS
<1>1. TypeOK
  BY InitType
<1>2. Position /\ EndOrder /\ Missing
  BY DEF Init, Position, EndOrder, Missing, Spinning, TimerPcs
<1> QED
  BY <1>1, <1>2 DEF IControl

LEMMA NextControl == IControl /\ [Next]_vars => IControl'
<1> SUFFICES ASSUME IControl, [Next]_vars PROVE IControl'
  OBVIOUS
<1> USE DEF config, env, ext, odom, sub, glob, hands, threads
<1>1. TypeOK /\ TypeOK'
  BY NextType DEF IControl
<1>2. /\ pc \in Pcs /\ sub_mapping \in BOOLEAN /\ global_mapping \in BOOLEAN
      /\ pc \in {"timer_frames", "wait_frames", "join_sub"} => sub_mapping
      /\ pc \in {"timer_submaps", "wait_submaps", "join_glob"} =>
           sub_mapping /\ global_mapping
  BY <1>1 DEF TypeOK
<1>3. Position /\ (pc # "destroyed" => EndOrder) /\ Missing
  BY DEF IControl
<1> SUFFICES /\ Position'
             /\ (pc # "destroyed" => EndOrder)'
             /\ Missing'
  BY <1>1 DEF IControl
<1> USE DEF Position, EndOrder, Missing, Spinning, TimerPcs, Pcs, JoinPcs
<1>4. CASE Environment
  BY <1>3, <1>4 DEF Environment, Interrupt, ExtensionCloses
<1>5. CASE OdometryStep
  BY <1>2, <1>3, <1>5 DEF OdometryStep
<1>6. CASE OdometryEnd
  BY <1>2, <1>3, <1>6 DEF OdometryEnd
<1>7. CASE SubMappingStep
  BY <1>2, <1>3, <1>7 DEF SubMappingStep
<1>8. CASE SubMappingEnd
  BY <1>2, <1>3, <1>8 DEF SubMappingEnd
<1>9. CASE GlobalMappingStep
  BY <1>2, <1>3, <1>9 DEF GlobalMappingStep
<1>10. CASE GlobalMappingEnd
  BY <1>2, <1>3, <1>10 DEF GlobalMappingEnd
<1>11. CASE points_callback
  BY <1>2, <1>3, <1>11 DEF Dispatches, points_callback
<1>12. CASE TimerBegin
  BY <1>2, <1>3, <1>12 DEF Dispatches, TimerBegin, TakeFrames
<1>13. CASE InsertFrame
  BY <1>2, <1>3, <1>13 DEF InsertFrame
<1>14. CASE TimerSubmaps
  BY <1>2, <1>3, <1>14 DEF TimerSubmaps, TakeSubmaps
<1>15. CASE InsertSubmap
  BY <1>2, <1>3, <1>15 DEF InsertSubmap
<1>16. CASE TimerEnd
  BY <1>2, <1>3, <1>16 DEF TimerEnd
<1>17. CASE SpinReturns
  BY <1>2, <1>3, <1>17 DEF GoToWait, SpinReturns, EnterWait
<1>18. CASE PlaybackEnds
  BY <1>2, <1>3, <1>18 DEF GoToWait, PlaybackEnds, EnterWait
<1>19. CASE Unload
  BY <1>2, <1>3, <1>19 DEF Unload, Destructor, EnterWait
<1>20. CASE JoinOdometry
  BY <1>2, <1>3, <1>20 DEF JoinOdometry
<1>21. CASE OdometryJoined
  BY <1>2, <1>3, <1>21 DEF OdometryJoined, TakeFrames
<1>22. CASE JoinSubMapping
  BY <1>2, <1>3, <1>22 DEF JoinSubMapping
<1>23. CASE SubMappingJoined
  BY <1>2, <1>3, <1>23 DEF SubMappingJoined, TakeSubmaps
<1>24. CASE JoinGlobalMapping
  BY <1>2, <1>3, <1>24 DEF JoinGlobalMapping
<1>25. CASE GlobalMappingJoined
  BY <1>2, <1>3, <1>25 DEF GlobalMappingJoined
<1>26. CASE WaitReturns
  BY <1>2, <1>3, <1>26 DEF WaitReturns
<1>27. CASE save
  BY <1>2, <1>3, <1>27 DEF save
<1>28. CASE Quit
  BY <1>2, <1>3, <1>28 DEF Quit, Destructor, EnterWait
<1>29. CASE UNCHANGED vars
  BY <1>3, <1>29 DEF vars
<1> QED
  BY <1>4, <1>5, <1>6, <1>7, <1>8, <1>9, <1>10, <1>11, <1>12, <1>13, <1>14,
     <1>15, <1>16, <1>17, <1>18, <1>19, <1>20, <1>21, <1>22, <1>23, <1>24,
     <1>25, <1>26, <1>27, <1>28, <1>29
  DEF Next, WorkerStep, TimerStep, WaitStep, Terminated

-----------------------------------------------------------------------------
(* How a step moves frames.  Most steps only carry them on; the others take *)
(* one in, group the oldest ones into a submap, or, when a stage is         *)
(* missing, drop the oldest ones.                                           *)

Carries == InFlight' = InFlight /\ Submaps' = Submaps /\ accepted' = accepted

TakesIn ==
  /\ InFlight' = Append(InFlight, accepted + 1)
  /\ accepted' = accepted + 1
  /\ Submaps' = Submaps

Groups ==
  \E s \in Frames :
    /\ s # <<>>
    /\ InFlight = s \o InFlight'
    /\ Submaps' = Append(Submaps, s)
    /\ accepted' = accepted

Drops ==
  /\ ~(sub_mapping /\ global_mapping)
  /\ \E s \in Frames : InFlight = s \o InFlight'
  /\ accepted' = accepted

LEMMA InFlightType == TypeOK => InFlight \in Frames
<1> SUFFICES ASSUME TypeOK PROVE InFlight \in Frames
  OBVIOUS
<1>1. \A s, t \in Frames : s \o t \in Frames
  BY ConcatProperties DEF Frames
<1>2. /\ sub_frames \in Frames /\ sub_in \in Frames /\ hand_frames \in Frames
      /\ odom_out \in Frames /\ odom_window \in Frames /\ odom_in \in Frames
  BY DEF TypeOK
<1>3. (sub_frames \o sub_in) \o hand_frames \in Frames
  BY <1>1, <1>2, Zenon
<1>4. ((sub_frames \o sub_in) \o hand_frames) \o odom_out \in Frames
  BY <1>1, <1>2, <1>3, Zenon
<1>5. (((sub_frames \o sub_in) \o hand_frames) \o odom_out) \o odom_window \in Frames
  BY <1>1, <1>2, <1>4, Zenon
<1> QED
  BY <1>1, <1>2, <1>5, Zenon DEF InFlight

LEMMA SubmapsType == ASSUME TypeOK PROVE Submaps \in Maps
<1>1. \A s, t \in Maps : s \o t \in Maps
  BY ConcatProperties DEF Maps
<1>2. /\ glob_map \in Maps /\ glob_in \in Maps /\ hand_submaps \in Maps
      /\ sub_out \in Maps
  BY DEF TypeOK
<1>3. (glob_map \o glob_in) \o hand_submaps \in Maps
  BY <1>1, <1>2, Zenon
<1> QED
  BY <1>1, <1>2, <1>3, Zenon DEF Submaps

\* Estimating and marginalizing carries frames on.
LEMMA OdometryFlow ==
  ASSUME TypeOK, OdometryStep \/ OdometryEnd PROVE Carries
<1> DEFINE before == (sub_frames \o sub_in) \o hand_frames
<1>1. before \in Seq(Nat)
  <2>1. \A s, t \in Seq(Nat) : s \o t \in Seq(Nat)
    BY ConcatProperties
  <2>2. sub_frames \in Seq(Nat) /\ sub_in \in Seq(Nat) /\ hand_frames \in Seq(Nat)
    BY DEF TypeOK, Frames
  <2> QED
    BY <2>1, <2>2, Zenon
<1>2. odom_in \in Seq(Nat) /\ odom_window \in Seq(Nat) /\ odom_out \in Seq(Nat)
  BY DEF TypeOK, Frames
<1>3. UNCHANGED <<before, Submaps, accepted>>
  BY DEF OdometryStep, OdometryEnd, Submaps, sub, glob, hands
<1>4. InFlight = ((before \o odom_out) \o odom_window) \o odom_in
  BY DEF InFlight
<1>5. InFlight' = ((before' \o odom_out') \o odom_window') \o odom_in'
  BY DEF InFlight
<1> HIDE DEF before
<1>6. CASE OdometryStep
  <2> DEFINE window == Append(odom_window, Head(odom_in))
  <2>1. odom_in # <<>> /\ odom_in' = Tail(odom_in)
    BY <1>6 DEF OdometryStep
  <2>2. PICK k \in 0..Len(window) :
          /\ odom_out' = odom_out \o SubSeq(window, 1, k)
          /\ odom_window' = SubSeq(window, k + 1, Len(window))
    BY <1>6 DEF OdometryStep
  <2>3. window = Append(odom_window, Head(odom_in))
    OBVIOUS
  <2> HIDE DEF window
  <2>4. Spilled(before, odom_out, odom_window, odom_in, k, window)
    <3>1. /\ before \in Seq(Nat) /\ odom_out \in Seq(Nat)
          /\ odom_window \in Seq(Nat) /\ odom_in \in Seq(Nat)
          /\ odom_in # <<>> /\ window = Append(odom_window, Head(odom_in))
          /\ k \in 0..Len(window)
      BY <1>1, <1>2, <2>1, <2>3
    <3> QED
      BY <3>1, Spill
  <2> QED
    BY <1>3, <1>4, <1>5, <2>1, <2>2, <2>4 DEF Carries, Spilled
<1>7. CASE OdometryEnd
  <2>1. odom_in = <<>> /\ odom_in' = <<>>
    BY <1>7 DEF OdometryEnd
  <2>2. odom_out' = odom_out \o odom_window /\ odom_window' = <<>>
    BY <1>7 DEF OdometryEnd
  <2>3. Cat(before, Cat(odom_out, odom_window)) = Cat(Cat(before, odom_out), odom_window)
    BY <1>1, <1>2, CatAssoc
  <2>4. before \o (odom_out \o odom_window) \in Seq(Nat)
    BY <1>1, <1>2, CatClosed DEF Cat
  <2>5. (before \o (odom_out \o odom_window)) \o <<>>
          = (before \o odom_out) \o odom_window
    BY <2>3, <2>4, ConcatEmptySeq DEF Cat
  <2> QED
    BY <1>3, <1>4, <1>5, <2>1, <2>2, <2>5 DEF Carries
<1> QED
  BY <1>6, <1>7

\* Sub mapping carries a frame on, or makes a submap of its oldest frames.
LEMMA SubMappingFlow ==
  ASSUME TypeOK, SubMappingStep \/ SubMappingEnd PROVE Carries \/ Groups
<1>1. /\ sub_frames \in Seq(Nat) /\ sub_in \in Seq(Nat) /\ hand_frames \in Seq(Nat)
      /\ odom_out \in Seq(Nat) /\ odom_window \in Seq(Nat) /\ odom_in \in Seq(Nat)
  BY DEF TypeOK, Frames
<1>2. sub_out \in Maps
  BY DEF TypeOK
<1>3. /\ UNCHANGED <<hand_frames, odom_out, odom_window, odom_in, accepted>>
      /\ UNCHANGED <<glob_map, glob_in, hand_submaps>>
  BY DEF SubMappingStep, SubMappingEnd, odom, glob, hands
<1>4. ASSUME NEW s \in Frames, sub_out' = Append(sub_out, s)
      PROVE  Submaps' = Append(Submaps, s)
  <2> DEFINE before == (glob_map \o glob_in) \o hand_submaps
  <2>1. before \in Maps
    <3>1. \A x, y \in Maps : x \o y \in Maps
      BY ConcatProperties DEF Maps
    <3>2. glob_map \in Maps /\ glob_in \in Maps /\ hand_submaps \in Maps
      BY DEF TypeOK
    <3> QED
      BY <3>1, <3>2, Zenon
  <2>2. before' = before
    BY <1>3
  <2>3. Submaps = before \o sub_out /\ Submaps' = before' \o sub_out'
    BY DEF Submaps
  <2> HIDE DEF before
  <2>4. before \o Append(sub_out, s) = Append(before \o sub_out, s)
    BY <1>2, <2>1, AppendBehind DEF Maps, Frames
  <2> QED
    BY <1>4, <2>2, <2>3, <2>4
<1>5. CASE SubMappingStep
  <2> DEFINE frames == Append(sub_frames, Head(sub_in))
             rest == Tail(sub_in)
  <2>1. sub_in # <<>> /\ sub_in' = rest
    BY <1>5 DEF SubMappingStep
  <2>2. \/ sub_frames' = frames /\ sub_out' = sub_out
        \/ sub_frames' = <<>> /\ sub_out' = Append(sub_out, frames)
    BY <1>5 DEF SubMappingStep
  <2>3. frames \in Seq(Nat) /\ rest \in Seq(Nat) /\ frames # <<>>
    <3>1. sub_in \in Seq(Nat) /\ sub_frames \in Seq(Nat)
      BY <1>1
    <3>2. Head(sub_in) \in Nat /\ rest \in Seq(Nat)
      BY <2>1, <3>1, HeadTailProperties
    <3> QED
      BY <3>1, <3>2, AppendProperties
  <2>4. frames \o rest = sub_frames \o sub_in
    BY <1>1, <2>1, MoveHead
  <2> HIDE DEF frames, rest
  <2>5. CASE sub_frames' = frames /\ sub_out' = sub_out
    <3>1. InFlight' = InFlight
      BY <1>3, <2>1, <2>4, <2>5 DEF InFlight
    <3>2. Submaps' = Submaps
      BY <1>3, <2>5 DEF Submaps
    <3> QED
      BY <1>3, <3>1, <3>2 DEF Carries
  <2>6. CASE sub_frames' = <<>> /\ sub_out' = Append(sub_out, frames)
    <3>1. SplitsOff(frames, rest, hand_frames, odom_out, odom_window, odom_in)
      BY <1>1, <2>3, SplitFirst
    <3>2. InFlight = frames \o InFlight'
      BY <1>3, <2>1, <2>4, <2>6, <3>1 DEF InFlight, SplitsOff
    <3>3. frames \in Frames /\ frames # <<>>
      BY <2>3 DEF Frames
    <3>4. Submaps' = Append(Submaps, frames)
      BY <1>4, <2>6, <3>3
    <3> QED
      BY <1>3, <3>2, <3>3, <3>4 DEF Groups
  <2> QED
    BY <2>2, <2>5, <2>6
<1>6. CASE SubMappingEnd
  <2>1. /\ sub_in = <<>> /\ sub_in' = <<>> /\ sub_frames' = <<>>
        /\ sub_out' = IF sub_frames = <<>> THEN sub_out ELSE Append(sub_out, sub_frames)
    BY <1>6 DEF SubMappingEnd, sub
  <2>2. CASE sub_frames = <<>>
    <3>1. InFlight' = InFlight
      BY <1>3, <2>1, <2>2 DEF InFlight
    <3>2. Submaps' = Submaps
      BY <1>3, <2>1, <2>2 DEF Submaps
    <3> QED
      BY <1>3, <3>1, <3>2 DEF Carries
  <2>3. CASE sub_frames # <<>>
    <3>1. SplitsOff(sub_frames, sub_in, hand_frames, odom_out, odom_window, odom_in)
      BY <1>1, SplitFirst
    <3>2. InFlight = sub_frames \o InFlight'
      BY <1>3, <2>1, <3>1 DEF InFlight, SplitsOff
    <3>3. sub_frames \in Frames
      BY <1>1 DEF Frames
    <3>4. Submaps' = Append(Submaps, sub_frames)
      BY <1>4, <2>1, <2>3, <3>3
    <3> QED
      BY <1>3, <2>3, <3>2, <3>3, <3>4 DEF Groups
  <2> QED
    BY <2>2, <2>3
<1> QED
  BY <1>5, <1>6

\* Taking the odometry's results carries them on, or drops them when there is
\* no sub mapping; the local they go to is empty before.
LEMMA TakeFramesFlow ==
  ASSUME TypeOK, Missing, hand_frames = <<>>, TakeFrames,
         UNCHANGED <<accepted, odom_in, odom_window, sub_in, sub_frames, Submaps>>
  PROVE  Carries \/ Drops
<1>1. /\ odom_out \in Seq(Nat) /\ odom_window \in Seq(Nat) /\ odom_in \in Seq(Nat)
      /\ sub_frames \in Seq(Nat) /\ sub_in \in Seq(Nat)
  BY DEF TypeOK, Frames
<1>2. odom_out' = <<>> /\ hand_frames' = IF sub_mapping THEN odom_out ELSE <<>>
  BY DEF TakeFrames
<1>3. CASE sub_mapping
  <2> DEFINE before == sub_frames \o sub_in
  <2>1. before \in Seq(Nat) /\ before' = before
    BY <1>1, ConcatProperties
  <2>2. InFlight = (((before \o <<>>) \o odom_out) \o odom_window) \o odom_in
    BY DEF InFlight
  <2>3. InFlight' = (((before' \o odom_out) \o <<>>) \o odom_window) \o odom_in
    BY <1>2, <1>3 DEF InFlight
  <2> HIDE DEF before
  <2>4. before \o odom_out \in Seq(Nat)
    BY <1>1, <2>1, ConcatProperties
  <2>5. before \o <<>> = before /\ (before \o odom_out) \o <<>> = before \o odom_out
    BY <2>1, <2>4, ConcatEmptySeq
  <2> QED
    BY <2>1, <2>2, <2>3, <2>5 DEF Carries
<1>4. CASE ~sub_mapping
  <2>1. sub_frames = <<>> /\ sub_in = <<>>
    BY <1>4 DEF Missing
  <2>2. <<>> \o <<>> = <<>>
    BY ConcatEmptySeq, EmptySeq
  <2>3. InFlight = ((<<>> \o odom_out) \o odom_window) \o odom_in
    BY <2>1, <2>2 DEF InFlight
  <2>4. InFlight' = ((<<>> \o <<>>) \o odom_window) \o odom_in
    BY <1>2, <1>4, <2>1, <2>2 DEF InFlight
  <2>5. <<>> \o odom_out = odom_out /\ <<>> \o odom_window = odom_window
    BY <1>1, ConcatEmptySeq
  <2>6. Cat(Cat(odom_out, odom_window), odom_in) = Cat(odom_out, Cat(odom_window, odom_in))
    BY <1>1, CatAssoc
  <2>7. InFlight = odom_out \o InFlight'
    BY <2>2, <2>3, <2>4, <2>5, <2>6 DEF Cat
  <2> QED
    BY <1>1, <1>4, <2>7 DEF Drops, Frames
<1> QED
  BY <1>3, <1>4

\* The same for the results of sub mapping.
LEMMA TakeSubmapsFlow ==
  ASSUME TypeOK, hand_submaps = <<>>, TakeSubmaps,
         UNCHANGED <<accepted, InFlight, glob_map, glob_in, global_mapping>>
  PROVE  Carries \/ Drops
<1>1. glob_map \o glob_in \in Maps /\ sub_out \in Maps
  BY ConcatProperties DEF TypeOK, Maps
<1>2. sub_out' = <<>> /\ hand_submaps' = IF global_mapping THEN sub_out ELSE <<>>
  BY DEF TakeSubmaps
<1>3. CASE global_mapping
  <2> DEFINE before == glob_map \o glob_in
  <2>1. before' = before /\ before \in Maps
    BY <1>1
  <2>2. Submaps = (before \o <<>>) \o sub_out
    BY DEF Submaps
  <2>3. Submaps' = (before' \o sub_out) \o <<>>
    BY <1>2, <1>3 DEF Submaps
  <2> HIDE DEF before
  <2>4. before \o sub_out \in Maps
    BY <1>1, <2>1, ConcatProperties DEF Maps
  <2>5. before \o <<>> = before /\ (before \o sub_out) \o <<>> = before \o sub_out
    BY <2>1, <2>4, ConcatEmptySeq DEF Maps
  <2> QED
    BY <2>1, <2>2, <2>3, <2>5 DEF Carries
<1>4. CASE ~global_mapping
  <2>1. InFlight = <<>> \o InFlight'
    BY InFlightType, ConcatEmptySeq DEF Frames
  <2>2. <<>> \in Frames
    BY EmptySeq DEF Frames
  <2> QED
    BY <1>4, <2>1, <2>2 DEF Drops
<1> QED
  BY <1>3, <1>4

\* The loops around insert_frame and insert_submap, and the global mapping.
LEMMA HandOverFlow ==
  ASSUME TypeOK, InsertFrame \/ InsertSubmap \/ GlobalMappingStep PROVE Carries
<1>1. CASE InsertFrame
  <2>1. /\ hand_frames # <<>>
        /\ sub_in' = Append(sub_in, Head(hand_frames))
        /\ hand_frames' = Tail(hand_frames)
    BY <1>1 DEF InsertFrame
  <2>2. UNCHANGED <<sub_frames, odom_out, odom_window, odom_in, accepted, Submaps>>
    BY <1>1 DEF InsertFrame, odom, glob, Submaps
  <2>3. sub_frames \in Seq(Nat) /\ sub_in \in Seq(Nat) /\ hand_frames \in Seq(Nat)
    BY DEF TypeOK, Frames
  <2>4. HandsOver(sub_frames, sub_in, hand_frames)
    BY <2>1, <2>3, MoveHeadBehind
  <2> QED
    BY <2>1, <2>2, <2>4 DEF InFlight, Carries, HandsOver
<1>2. CASE InsertSubmap
  <2>1. /\ hand_submaps # <<>>
        /\ glob_in' = Append(glob_in, Head(hand_submaps))
        /\ hand_submaps' = Tail(hand_submaps)
    BY <1>2 DEF InsertSubmap
  <2>2. UNCHANGED <<glob_map, sub_out, accepted, InFlight>>
    BY <1>2 DEF InsertSubmap, odom, sub, InFlight
  <2>3. /\ glob_map \in Seq(Frames) /\ glob_in \in Seq(Frames)
        /\ hand_submaps \in Seq(Frames)
    BY DEF TypeOK, Maps, Frames
  <2>4. HandsOver(glob_map, glob_in, hand_submaps)
    BY <2>1, <2>3, MoveHeadBehind
  <2> QED
    BY <2>1, <2>2, <2>4 DEF Submaps, Carries, HandsOver
<1>3. CASE GlobalMappingStep
  <2>1. /\ glob_in # <<>>
        /\ glob_map' = Append(glob_map, Head(glob_in))
        /\ glob_in' = Tail(glob_in)
    BY <1>3 DEF GlobalMappingStep
  <2>2. UNCHANGED <<hand_submaps, sub_out, accepted, InFlight>>
    BY <1>3 DEF GlobalMappingStep, odom, sub, hands, InFlight
  <2>3. glob_map \in Seq(Frames) /\ glob_in \in Seq(Frames)
    BY DEF TypeOK, Maps, Frames
  <2>4. Append(glob_map, Head(glob_in)) \o Tail(glob_in) = glob_map \o glob_in
    <3>1. \A s, t \in Seq(Frames) : t # <<>> => Append(s, Head(t)) \o Tail(t) = s \o t
      BY MoveHead
    <3> QED
      BY <2>1, <2>3, <3>1, Zenon
  <2> QED
    BY <2>1, <2>2, <2>4 DEF Submaps, Carries
<1> QED
  BY <1>1, <1>2, <1>3

\* points_callback takes the next frame in.
LEMMA IntakeFlow ==
  ASSUME TypeOK, points_callback PROVE TakesIn
<1> DEFINE before == (((sub_frames \o sub_in) \o hand_frames) \o odom_out) \o odom_window
<1>1. before \in Seq(Nat)
  <2>1. \A s, t \in Seq(Nat) : s \o t \in Seq(Nat)
    BY ConcatProperties
  <2>2. /\ sub_frames \in Seq(Nat) /\ sub_in \in Seq(Nat) /\ hand_frames \in Seq(Nat)
        /\ odom_out \in Seq(Nat) /\ odom_window \in Seq(Nat)
    BY DEF TypeOK, Frames
  <2>3. (sub_frames \o sub_in) \o hand_frames \in Seq(Nat)
    BY <2>1, <2>2, Zenon
  <2>4. ((sub_frames \o sub_in) \o hand_frames) \o odom_out \in Seq(Nat)
    BY <2>1, <2>2, <2>3, Zenon
  <2> QED
    BY <2>1, <2>2, <2>4, Zenon
<1>2. odom_in \in Seq(Nat) /\ accepted + 1 \in Nat
  BY DEF TypeOK, Frames
<1>3. /\ odom_in' = Append(odom_in, accepted + 1)
      /\ accepted' = accepted + 1
      /\ UNCHANGED <<before, Submaps>>
  BY DEF Dispatches, points_callback, sub, glob, hands, Submaps
<1>4. InFlight = before \o odom_in /\ InFlight' = before' \o odom_in'
  BY DEF InFlight
<1> HIDE DEF before
<1>5. before \o Append(odom_in, accepted + 1) = Append(before \o odom_in, accepted + 1)
  BY <1>1, <1>2, AppendBehind
<1> QED
  BY <1>3, <1>4, <1>5 DEF TakesIn

\* Every step is of one of the four kinds.
LEMMA Flow ==
  ASSUME IControl, [Next]_vars
  PROVE  Carries \/ TakesIn \/ Groups \/ Drops
<1>1. TypeOK /\ Position /\ Missing
  BY DEF IControl
<1>2. CASE OdometryStep \/ OdometryEnd
  BY <1>1, <1>2, OdometryFlow
<1>3. CASE SubMappingStep \/ SubMappingEnd
  BY <1>1, <1>3, SubMappingFlow
<1>4. CASE InsertFrame \/ InsertSubmap \/ GlobalMappingStep
  BY <1>1, <1>4, HandOverFlow
<1>5. CASE points_callback
  BY <1>1, <1>5, IntakeFlow
<1>6. CASE TimerBegin \/ (OdometryJoined /\ sub_mapping)
  <2>1. hand_frames = <<>>
    BY <1>1, <1>6 DEF Dispatches, TimerBegin, OdometryJoined, Position
  <2>2. TakeFrames
    BY <1>6 DEF Dispatches, TimerBegin, OdometryJoined
  <2>3. UNCHANGED <<accepted, odom_in, odom_window, sub_in, sub_frames, Submaps>>
    BY <1>6 DEF Dispatches, TimerBegin, OdometryJoined, sub, glob, Submaps
  <2> QED
    BY <1>1, <2>1, <2>2, <2>3, TakeFramesFlow
<1>7. CASE TimerSubmaps \/ SubMappingJoined
  <2>1. hand_submaps = <<>>
    BY <1>1, <1>7 DEF TimerSubmaps, SubMappingJoined, Position
  <2>2. TakeSubmaps
    BY <1>7 DEF TimerSubmaps, SubMappingJoined
  <2>3. UNCHANGED <<accepted, InFlight, glob_map, glob_in, global_mapping>>
    BY <1>7 DEF TimerSubmaps, SubMappingJoined, config, odom, glob, InFlight
  <2> QED
    BY <1>1, <2>1, <2>2, <2>3, TakeSubmapsFlow
<1>8. CASE UNCHANGED <<odom, sub, glob, hands, accepted>>
  BY <1>8 DEF odom, sub, glob, hands, InFlight, Submaps, Carries
<1>9. CASE Environment \/ SpinReturns \/ PlaybackEnds \/ Unload \/ save \/ Quit
  <2>1. UNCHANGED <<odom, sub, glob, hands, accepted>>
    BY <1>9
    DEF Environment, Interrupt, ExtensionCloses, GoToWait, SpinReturns, PlaybackEnds,
        Unload, save, Quit
  <2> QED
    BY <1>8, <2>1
<1>10. CASE \/ JoinOdometry \/ JoinSubMapping \/ JoinGlobalMapping
            \/ GlobalMappingJoined \/ WaitReturns \/ GlobalMappingEnd \/ TimerEnd
            \/ (OdometryJoined /\ ~sub_mapping)
  <2>1. UNCHANGED <<odom, sub, glob, hands, accepted>>
    BY <1>10
    DEF JoinOdometry, JoinSubMapping, JoinGlobalMapping, GlobalMappingJoined,
        WaitReturns, GlobalMappingEnd, TimerEnd, OdometryJoined, odom, hands
  <2> QED
    BY <1>8, <2>1
<1>11. CASE UNCHANGED vars
  BY <1>8, <1>11 DEF vars
<1> QED
  BY <1>2, <1>3, <1>4, <1>5, <1>6, <1>7, <1>9, <1>10, <1>11
  DEF Next, WorkerStep, TimerStep, WaitStep, Terminated

LEMMA InFlightTypePrime == (TypeOK => InFlight \in Frames)'
  BY InFlightType, PTL

\* None of the four kinds takes a frame out of order.
LEMMA RunStep ==
  ASSUME TypeOK, TypeOK', InFlightIsARun, Carries \/ TakesIn \/ Groups \/ Drops
  PROVE  InFlightIsARun'
<1>1. /\ InFlight \in Seq(Nat) /\ InFlight' \in Seq(Nat)
      /\ accepted \in Nat
  BY InFlightType, InFlightTypePrime DEF TypeOK, Frames
<1>2. Len(InFlight) \in Nat /\ Len(InFlight') \in Nat
  BY <1>1, LenProperties
<1> DEFINE first == accepted - Len(InFlight)
<1>3. first \in Nat /\ IsRun(InFlight, first)
  BY <1>1, <1>2 DEF InFlightIsARun
<1>4. CASE Carries
  BY <1>4 DEF Carries, InFlightIsARun
<1>5. CASE TakesIn
  <2>1. accepted + 1 = first + Len(InFlight) + 1
    BY <1>1, <1>2
  <2>2. /\ IsRun(Append(InFlight, accepted + 1), first)
        /\ Len(Append(InFlight, accepted + 1)) = Len(InFlight) + 1
    BY <1>1, <1>3, <2>1, RunAppend
  <2>3. accepted' - Len(InFlight') = first /\ Len(InFlight') <= accepted'
    BY <1>1, <1>2, <1>3, <1>5, <2>2 DEF TakesIn
  <2> QED
    BY <1>5, <2>2, <2>3 DEF TakesIn, InFlightIsARun
<1>6. CASE Groups \/ Drops
  <2>1. PICK s \in Seq(Nat) : InFlight = s \o InFlight'
    BY <1>6 DEF Groups, Drops, Frames
  <2>2. Len(s) \in Nat /\ Len(InFlight) = Len(s) + Len(InFlight')
    BY <1>1, <2>1, LenProperties, ConcatProperties
  <2>3. IsRun(InFlight', first + Len(s))
    BY <1>1, <1>3, <2>1, RunConcat
  <2>4. accepted' = accepted
    BY <1>6 DEF Groups, Drops
  <2>5. accepted' - Len(InFlight') = first + Len(s) /\ Len(InFlight') <= accepted'
    BY <1>1, <1>2, <1>3, <2>2, <2>4
  <2> QED
    BY <2>3, <2>5 DEF InFlightIsARun
<1> QED
  BY <1>4, <1>5, <1>6

\* Nor does any of them lose one, when both mapping stages are there.
LEMMA LossStep ==
  ASSUME TypeOK, TypeOK', InFlightIsARun, NothingLost,
         UNCHANGED <<sub_mapping, global_mapping>>,
         Carries \/ TakesIn \/ Groups \/ Drops
  PROVE  NothingLost'
<1>1. SUFFICES ASSUME sub_mapping, global_mapping
               PROVE  /\ IsPartition(Submaps')
                      /\ LastFrame(Submaps') = accepted' - Len(InFlight')
  BY DEF NothingLost
<1>2. /\ InFlight \in Seq(Nat) /\ InFlight' \in Seq(Nat)
      /\ Submaps \in Seq(Seq(Nat)) /\ accepted \in Nat
  BY InFlightType, InFlightTypePrime, SubmapsType DEF TypeOK, Frames, Maps
<1>3. Len(InFlight) \in Nat /\ Len(InFlight') \in Nat
  BY <1>2, LenProperties
<1>4. /\ IsPartition(Submaps)
      /\ LastFrame(Submaps) = accepted - Len(InFlight)
      /\ LastFrame(Submaps) \in Nat
      /\ IsRun(InFlight, LastFrame(Submaps))
  BY <1>1, <1>2, <1>3 DEF NothingLost, InFlightIsARun
<1>5. CASE Carries
  BY <1>4, <1>5 DEF Carries
<1>6. CASE TakesIn
  <2>1. Len(InFlight') = Len(InFlight) + 1
    BY <1>2, <1>6, AppendProperties DEF TakesIn
  <2> QED
    BY <1>2, <1>3, <1>4, <1>6, <2>1 DEF TakesIn
<1>7. CASE Groups
  <2>1. PICK s \in Seq(Nat) :
          /\ s # <<>>
          /\ InFlight = s \o InFlight'
          /\ Submaps' = Append(Submaps, s)
          /\ accepted' = accepted
    BY <1>7 DEF Groups, Frames
  <2>2. Len(s) \in Nat /\ Len(InFlight) = Len(s) + Len(InFlight')
    BY <1>2, <2>1, LenProperties, ConcatProperties
  <2>3. IsRun(s, LastFrame(Submaps))
    BY <1>2, <1>4, <2>1, RunConcat
  <2>4. /\ IsPartition(Append(Submaps, s))
        /\ LastFrame(Append(Submaps, s)) = LastFrame(Submaps) + Len(s)
    BY <1>2, <1>4, <2>1, <2>3, PartitionAppend
  <2>5. LastFrame(Submaps) + Len(s) = accepted' - Len(InFlight')
    BY <1>2, <1>3, <1>4, <2>1, <2>2
  <2> QED
    BY <2>1, <2>4, <2>5, Zenon
<1>8. CASE Drops
  BY <1>1, <1>8 DEF Drops
<1> QED
  BY <1>5, <1>6, <1>7, <1>8

\* When wait() is over, nothing is under way any more and the map is everything.
LEMMA Drained ==
  ASSUME IControl, pc \in {"wait_loop", "save", "quit"}, sub_mapping, global_mapping
  PROVE  InFlight = <<>> /\ Submaps = glob_map
<1>1. TypeOK /\ Position /\ EndOrder
  BY DEF IControl
<1>2. "glob" \notin running
  BY <1>1 DEF Position
<1>3. /\ odom_in = <<>> /\ odom_window = <<>> /\ odom_out = <<>>
      /\ hand_frames = <<>> /\ sub_in = <<>> /\ sub_frames = <<>>
      /\ sub_out = <<>> /\ hand_submaps = <<>> /\ glob_in = <<>>
  BY <1>1, <1>2 DEF EndOrder
<1>4. <<>> \o <<>> = <<>>
  BY ConcatEmptySeq, EmptySeq
<1>5. InFlight = <<>>
  BY <1>3, <1>4 DEF InFlight
<1>6. glob_map \o <<>> = glob_map
  BY <1>1, ConcatEmptySeq DEF TypeOK, Maps
<1> QED
  BY <1>3, <1>5, <1>6 DEF Submaps

\* Which mapping stages there are is settled in the constructor.
LEMMA MappingFixed == [Next]_vars => UNCHANGED <<sub_mapping, global_mapping>>
  BY DEF vars, config, Next, Environment, Interrupt, ExtensionCloses, WorkerStep,
         OdometryStep, OdometryEnd, SubMappingStep, SubMappingEnd,
         GlobalMappingStep, GlobalMappingEnd, points_callback, TimerStep,
         Dispatches, TimerBegin, InsertFrame, TimerSubmaps, InsertSubmap, TimerEnd,
         GoToWait, SpinReturns, PlaybackEnds, Unload, WaitStep, JoinOdometry,
         OdometryJoined, JoinSubMapping, SubMappingJoined, JoinGlobalMapping,
         GlobalMappingJoined, WaitReturns, save, Quit, Terminated

LEMMA DumpStep ==
  ASSUME IInv, [Next]_vars PROVE DumpsComplete'
<1> DEFINE Complete(d, n) == IsPartition(d) /\ LastFrame(d) = n
<1>1. IControl /\ TypeOK /\ Position /\ NothingLost /\ DumpsComplete
  BY DEF IInv, IControl
<1>2. dumps \in Seq(Maps) /\ Len(dumps) \in Nat
  BY <1>1, LenProperties DEF TypeOK
<1>3. SUFFICES ASSUME sub_mapping, global_mapping,
                      UNCHANGED <<sub_mapping, global_mapping>>
               PROVE  \A i \in 1..Len(dumps') : Complete(dumps'[i], accepted')
  <2>1. UNCHANGED <<sub_mapping, global_mapping>>
    BY MappingFixed
  <2> QED
    BY <2>1 DEF DumpsComplete
<1>4. \A i \in 1..Len(dumps) : Complete(dumps[i], accepted)
  BY <1>1, <1>3 DEF DumpsComplete
<1>5. CASE points_callback
  <2>1. dumps = <<>> /\ dumps' = <<>>
    BY <1>1, <1>5 DEF Dispatches, points_callback, Position, Spinning
  <2> QED
    BY <2>1
<1>6. CASE save
  <2>1. InFlight = <<>> /\ Submaps = glob_map
    BY <1>1, <1>3, <1>6, Drained DEF save
  <2>2. Complete(glob_map, accepted)
    BY <1>1, <1>3, <2>1 DEF NothingLost, TypeOK
  <2>3. dumps' = Append(dumps, glob_map) /\ accepted' = accepted
    BY <1>3, <1>6 DEF save
  <2>4. glob_map \in Maps
    BY <1>1 DEF TypeOK
  <2>5. /\ Len(dumps') = Len(dumps) + 1
        /\ \A i \in 1..Len(dumps) : dumps'[i] = dumps[i]
        /\ dumps'[Len(dumps) + 1] = glob_map
    BY <1>2, <2>3, <2>4, AppendProperties
  <2> HIDE DEF Complete
  <2>6. ASSUME NEW i \in 1..Len(dumps') PROVE Complete(dumps'[i], accepted')
    <3>1. CASE i = Len(dumps) + 1
      BY <2>2, <2>3, <2>5, <3>1
    <3>2. CASE i # Len(dumps) + 1
      <4>1. i \in 1..Len(dumps)
        BY <1>2, <2>5, <3>2
      <4> QED
        BY <1>4, <2>3, <2>5, <4>1
    <3> QED
      BY <3>1, <3>2
  <2> QED
    BY <2>6
<1>7. CASE UNCHANGED <<accepted, dumps>>
  BY <1>4, <1>7
<1> QED
  BY <1>5, <1>6, <1>7
  DEF vars, config, Next, Environment, Interrupt, ExtensionCloses, WorkerStep,
      OdometryStep, OdometryEnd, SubMappingStep, SubMappingEnd,
      GlobalMappingStep, GlobalMappingEnd, TimerStep,
      Dispatches, TimerBegin, InsertFrame, TimerSubmaps, InsertSubmap, TimerEnd,
      GoToWait, SpinReturns, PlaybackEnds, Unload, WaitStep, JoinOdometry,
      OdometryJoined, JoinSubMapping, SubMappingJoined, JoinGlobalMapping,
      GlobalMappingJoined, WaitReturns, Quit, Terminated

LEMMA InitInv == Init => IInv
<1> SUFFICES ASSUME Init PROVE IInv
  OBVIOUS
<1>1. IControl /\ accepted = 0
  BY InitControl DEF Init
<1>2. <<>> \o <<>> = <<>>
  BY ConcatEmptySeq, EmptySeq
<1>3. InFlight = <<>> /\ Submaps = <<>> /\ dumps = <<>>
  BY <1>2, Zenon DEF Init, InFlight, Submaps
<1>4. InFlightIsARun
  BY <1>1, <1>3 DEF InFlightIsARun, IsRun
<1>5. NothingLost
  <2>1. Len(InFlight) = 0 /\ Len(Submaps) = 0
    BY <1>3
  <2>2. IsPartition(Submaps)
    BY <2>1 DEF IsPartition
  <2>3. LastFrame(Submaps) = 0
    BY <2>1 DEF LastFrame, EndOf
  <2> QED
    BY <1>1, <2>1, <2>2, <2>3 DEF NothingLost
<1>6. DumpsComplete
  BY <1>3 DEF DumpsComplete
<1> QED
  BY <1>1, <1>4, <1>5, <1>6 DEF IInv

LEMMA NextInv == IInv /\ [Next]_vars => IInv'
<1> SUFFICES ASSUME IInv, [Next]_vars PROVE IInv'
  OBVIOUS
<1>1. IControl /\ IControl'
  BY NextControl DEF IInv
<1>2. TypeOK /\ TypeOK'
  BY <1>1 DEF IControl
<1>3. Carries \/ TakesIn \/ Groups \/ Drops
  BY <1>1, Flow
<1>4. InFlightIsARun'
  BY <1>2, <1>3, RunStep DEF IInv
<1>5. UNCHANGED <<sub_mapping, global_mapping>>
  BY MappingFixed
<1>6. NothingLost'
  BY <1>2, <1>3, <1>5, LossStep DEF IInv
<1> QED
  BY <1>1, <1>4, <1>6, DumpStep DEF IInv

-----------------------------------------------------------------------------
(* The theorems. *)

LEMMA Invariance == Spec => []IInv
  BY InitInv, NextInv, PTL DEF Spec

\* Whatever the threads do, the frames under way are the latest accepted ones,
\* each once and in order.
THEOREM OrderKept == Spec => []InFlightIsARun
<1>1. IInv => InFlightIsARun
  BY DEF IInv
<1> QED
  BY <1>1, Invariance, PTL

\* timer_callback and wait lose, repeat and reorder nothing on its way to the map.
THEOREM NothingIsLost == Spec => []NothingLost
<1>1. IInv => NothingLost
  BY DEF IInv
<1> QED
  BY <1>1, Invariance, PTL

\* Every dump that save() writes holds every accepted cloud, in order.
THEOREM EveryDumpIsComplete == Spec => []DumpsComplete
<1>1. IInv => DumpsComplete
  BY DEF IInv
<1> QED
  BY <1>1, Invariance, PTL

\* save() reads a map nobody is adding to.
THEOREM MapIsQuiet == Spec => []MapQuietDuringSave
<1>1. IInv => MapQuietDuringSave
  BY DEF IInv, IControl, Position, EndOrder, Missing, MapQuietDuringSave
<1> QED
  BY <1>1, Invariance, PTL

-----------------------------------------------------------------------------
(* What holds once the extension modules are gone, in a program with main().  *)

Unloaded ==
  main # "component" =>
    /\ pc \in Spinning => ext_loaded
    /\ pc = "quit" => ext_saved
    /\ ~ext_loaded => /\ ext_saved /\ odom_in = <<>> /\ glob_in = <<>>
                      /\ "odom" \notin running
                      /\ sub_mapping /\ global_mapping => "glob" \notin running

LEMMA NextUnloaded == IControl /\ Unloaded /\ [Next]_vars => Unloaded'
<1> SUFFICES ASSUME IControl, Unloaded, [Next]_vars PROVE Unloaded'
  OBVIOUS
<1> USE DEF Unloaded, Spinning, TimerPcs
<1> DEFINE Ext == <<main, sub_mapping, global_mapping, ext_loaded, ext_saved,
                    odom_in, glob_in, running>>
<1>1. Position /\ (pc # "destroyed" => EndOrder) /\ Missing
  BY DEF IControl
<1>2. CASE Environment
  BY <1>2 DEF Environment, Interrupt, ExtensionCloses, config, ext, odom, glob, threads
<1>3. CASE WorkerStep
  <2>1. CASE OdometryStep \/ GlobalMappingStep
    BY <1>1, <2>1 DEF OdometryStep, GlobalMappingStep, EndOrder, Missing,
       config, ext, odom, glob, threads
  <2>2. CASE OdometryEnd \/ SubMappingStep \/ SubMappingEnd \/ GlobalMappingEnd
    BY <2>2 DEF OdometryEnd, SubMappingStep, SubMappingEnd, GlobalMappingEnd,
       config, ext, odom, glob, threads
  <2> QED
    BY <1>3, <2>1, <2>2 DEF WorkerStep
<1>4. CASE points_callback
  BY <1>4 DEF Dispatches, points_callback, config, ext, glob, threads
<1>5. CASE TimerStep \/ WaitStep
  <2>1. CASE InsertSubmap
    BY <1>1, <2>1 DEF InsertSubmap, Position, EndOrder, Missing,
       config, ext, odom, threads
  <2>2. ASSUME TimerStep \/ WaitStep, ~InsertSubmap PROVE UNCHANGED Ext
    BY <2>2 DEF TimerStep, WaitStep, Dispatches, TimerBegin, InsertFrame, TimerSubmaps, TimerEnd,
       JoinOdometry, OdometryJoined, JoinSubMapping, SubMappingJoined,
       JoinGlobalMapping, GlobalMappingJoined, WaitReturns,
       config, ext, odom, glob, threads
  <2>3. ASSUME TimerStep \/ WaitStep, ~InsertSubmap
        PROVE  pc' # "quit" /\ (pc' \in Spinning => pc \in Spinning)
    BY <2>3 DEF TimerStep, WaitStep, Dispatches, TimerBegin, InsertFrame, TimerSubmaps, TimerEnd,
       JoinOdometry, OdometryJoined, JoinSubMapping, SubMappingJoined,
       JoinGlobalMapping, GlobalMappingJoined, WaitReturns
  <2> QED
    BY <1>5, <2>1, <2>2, <2>3
<1>6. CASE SpinReturns \/ PlaybackEnds \/ Unload
  BY <1>6 DEF GoToWait, SpinReturns, PlaybackEnds, Unload, EnterWait,
     config, ext, odom, glob, threads
<1>7. CASE save
  BY <1>7 DEF save, config, odom, glob
<1>8. CASE Quit
  BY <1>1, <1>8 DEF Quit, Destructor, EnterWait, Position, EndOrder, Missing,
     config, odom, glob
<1>9. CASE UNCHANGED vars
  BY <1>9 DEF vars, config, ext, odom, glob, threads
<1> QED
  BY <1>2, <1>3, <1>4, <1>5, <1>6, <1>7, <1>8, <1>9 DEF Next, Terminated

\* In a program with main() no extension module is destroyed before its at_exit()
\* nor while a worker still has input that could make it call one back.
THEOREM UnloadingIsQuiet == Spec => []UnloadIsQuiet
<1>1. Init => Unloaded
  BY DEF Init, Unloaded
<1>2. Unloaded => UnloadIsQuiet
  BY DEF Unloaded, UnloadIsQuiet
<1>3. IInv => IControl
  BY DEF IInv
<1> QED
  BY <1>1, <1>2, <1>3, NextUnloaded, Invariance, PTL DEF Spec
-----------------------------------------------------------------------------
(* The way out of wait(). *)

Waiting == {"wait_odom", "wait_loop"} \cup JoinPcs

\* wait() was told to quit by itself or entered because rclcpp is down, both of which
\* last; extension modules go only in the destructor.
WaitInv ==
  /\ pc \in Waiting => auto_quit \/ ~ok
  /\ pc = "join_odom" => "odom" \in ending
  /\ pc = "quit" => ext_loaded

LEMMA InitWait == Init => WaitInv
BY DEF Init, WaitInv, Waiting, JoinPcs

LEMMA NextWait == WaitInv /\ [Next]_vars => WaitInv'
<1> SUFFICES ASSUME WaitInv, [Next]_vars PROVE WaitInv'
  OBVIOUS
<1> USE DEF WaitInv, Waiting, JoinPcs, env, ext, threads
<1>1. CASE Environment
  BY <1>1 DEF Environment, Interrupt, ExtensionCloses
<1>2. CASE WorkerStep
  BY <1>2 DEF WorkerStep, OdometryStep, OdometryEnd, SubMappingStep, SubMappingEnd,
              GlobalMappingStep, GlobalMappingEnd
<1>3. CASE points_callback \/ TimerStep
  BY <1>3 DEF points_callback, TimerStep, Dispatches, TimerBegin, InsertFrame,
              TimerSubmaps, InsertSubmap, TimerEnd, TimerPcs
<1>4. CASE SpinReturns \/ PlaybackEnds
  BY <1>4 DEF SpinReturns, PlaybackEnds, GoToWait, EnterWait
<1>5. CASE Unload \/ Quit
  BY <1>5 DEF Unload, Quit, Destructor, EnterWait
<1>6. CASE WaitStep
  BY <1>6 DEF WaitStep, JoinOdometry, OdometryJoined, JoinSubMapping, SubMappingJoined,
              JoinGlobalMapping, GlobalMappingJoined, WaitReturns
<1>7. CASE save
  BY <1>7 DEF save
<1>8. CASE UNCHANGED vars
  BY <1>8 DEF vars
<1> QED
  BY <1>1, <1>2, <1>3, <1>4, <1>5, <1>6, <1>7, <1>8 DEF Next, Terminated

\* Nothing that wait() waits for depends on anyone but workers told to end.
THEOREM WaitReturnsByItself == Spec => []WaitIsNeverStuck
<1>1. IInv /\ WaitInv => WaitIsNeverStuck
  BY DEF IInv, IControl, Position, WaitInv, Waiting, JoinPcs, WaitIsNeverStuck
<1> QED
  BY <1>1, Invariance, InitWait, NextWait, PTL DEF Spec

-----------------------------------------------------------------------------
(* How much is left shrinks with every step. *)

Lengths ==
  /\ Len(odom_in) \in Nat /\ Len(odom_window) \in Nat /\ Len(odom_out) \in Nat
  /\ Len(hand_frames) \in Nat /\ Len(sub_in) \in Nat /\ Len(sub_frames) \in Nat
  /\ Len(sub_out) \in Nat /\ Len(hand_submaps) \in Nat /\ Len(glob_in) \in Nat

LEMMA LengthsType == TypeOK => Lengths
BY LenProperties DEF TypeOK, Lengths, Frames, Maps

LEMMA LengthsTypePrime == (TypeOK => Lengths)'
BY LengthsType, PTL

LEMMA QueueLengths ==
  ASSUME NEW S, NEW q \in Seq(S), q # <<>>
  PROVE  Head(q) \in S /\ Tail(q) \in Seq(S) /\ Len(Tail(q)) = Len(q) - 1 /\ Len(q) > 0
<1>1. Head(q) \in S /\ Tail(q) \in Seq(S) /\ Len(Tail(q)) = Len(q) - 1
  BY HeadTailProperties
<1> QED
  BY <1>1, LenProperties, EmptySeq

\* The workers that still run, and that there is one fewer when one ends.
LEMMA RunningCount ==
  ASSUME TypeOK
  PROVE  /\ Cardinality(running) \in Nat
         /\ \A w \in running : Cardinality(running \ {w}) = Cardinality(running) - 1
         /\ Cardinality({}) = 0
<1>1. IsFiniteSet(Workers)
  <2>1. IsFiniteSet({}) 
    BY FS_EmptySet
  <2>2. IsFiniteSet({} \cup {"odom"})
    BY <2>1, FS_AddElement
  <2>3. IsFiniteSet(({} \cup {"odom"}) \cup {"sub"})
    BY <2>2, FS_AddElement
  <2>4. IsFiniteSet((({} \cup {"odom"}) \cup {"sub"}) \cup {"glob"})
    BY <2>3, FS_AddElement
  <2>5. Workers = (({} \cup {"odom"}) \cup {"sub"}) \cup {"glob"}
    BY DEF Workers
  <2> QED
    BY <2>4, <2>5
<1>2. IsFiniteSet(running)
  BY <1>1, FS_Subset DEF TypeOK
<1> QED
  BY <1>2, FS_CardinalityType, FS_RemoveElement, FS_EmptySet

LEMMA RunningCountPrime == (TypeOK => Cardinality(running) \in Nat)'
<1>1. TypeOK => Cardinality(running) \in Nat
  BY RunningCount
<1> QED
  BY <1>1, PTL

\* A worker's step passes something on, or ends it.
LEMMA WorkerAdvances ==
  ASSUME TypeOK, TypeOK', WorkerStep
  PROVE  /\ UNCHANGED <<pc, ext_loaded, env>>
         /\ Cardinality(running') \in Nat
         /\ HandOversLeft \in Nat /\ HandOversLeft' \in Nat
         /\ HandOversLeft' + Cardinality(running')
              < HandOversLeft + Cardinality(running)
<1> USE DEF config, env, ext, odom, sub, glob, hands, threads
<1>1. Lengths /\ Lengths'
  BY LengthsType, LengthsTypePrime
<1>2. HandOversLeft \in Nat /\ HandOversLeft' \in Nat
  BY <1>1 DEF Lengths, HandOversLeft
<1>3. /\ Cardinality(running) \in Nat
      /\ \A w \in running : Cardinality(running \ {w}) = Cardinality(running) - 1
  BY RunningCount
<1>4. UNCHANGED <<pc, ext_loaded, env>>
  BY DEF WorkerStep, OdometryStep, OdometryEnd, SubMappingStep, SubMappingEnd,
         GlobalMappingStep, GlobalMappingEnd
<1> DEFINE Hands == HandOversLeft' < HandOversLeft /\ running' = running
           Ends == /\ HandOversLeft' <= HandOversLeft
                   /\ \E w \in running : running' = running \ {w}
<1>5. ASSUME OdometryStep PROVE Hands
  <2> DEFINE window == Append(odom_window, Head(odom_in))
  <2>1. /\ Head(odom_in) \in Nat /\ Len(odom_in') = Len(odom_in) - 1
    BY <1>5, QueueLengths DEF OdometryStep, TypeOK, Frames
  <2>2. window \in Seq(Nat) /\ Len(window) = Len(odom_window) + 1
    BY <2>1, AppendProperties DEF TypeOK, Frames
  <2> HIDE DEF window
  <2>3. PICK k \in 0..Len(window) :
          /\ odom_out' = odom_out \o SubSeq(window, 1, k)
          /\ odom_window' = SubSeq(window, k + 1, Len(window))
    BY <1>5 DEF OdometryStep, window
  <2>4. \A i \in 1..Len(window) : window[i] \in Nat
    BY <2>2, ElementOfSeq
  <2>5. k \in Nat /\ Len(window) \in Nat /\ k <= Len(window)
    BY <1>1, <2>2 DEF Lengths
  <2>6. SubSeq(window, 1, k) \in Seq(Nat) /\ Len(SubSeq(window, 1, k)) = k
    BY <2>2, <2>4, <2>5, SubSeqProperties
  <2>7. Len(SubSeq(window, k + 1, Len(window))) = Len(window) - k
    <3>1. \A i \in (k + 1)..Len(window) : window[i] \in Nat
      BY <2>4, <2>5
    <3> QED
      BY <2>2, <2>5, <3>1, SubSeqProperties
  <2>8. Len(odom_out') = Len(odom_out) + k
    BY <2>3, <2>6, ConcatProperties DEF TypeOK, Frames
  <2>9. Len(odom_window') = Len(odom_window) + 1 - k
    BY <2>2, <2>3, <2>7
  <2>10. UNCHANGED <<hand_frames, sub_in, sub_frames, sub_out, hand_submaps, glob_in,
                    running>>
    BY <1>5 DEF OdometryStep
  <2> QED
    BY <1>1, <2>1, <2>8, <2>9, <2>10, <2>5 DEF Lengths, HandOversLeft
<1>6. ASSUME OdometryEnd PROVE Ends
  <2>1. Len(odom_out') = Len(odom_out) + Len(odom_window) /\ Len(odom_window') = 0
    BY <1>6, ConcatProperties, EmptySeq DEF OdometryEnd, TypeOK, Frames
  <2>2. /\ UNCHANGED <<odom_in, hand_frames, sub_in, sub_frames, sub_out, hand_submaps,
                       glob_in>>
        /\ "odom" \in running /\ running' = running \ {"odom"}
    BY <1>6 DEF OdometryEnd
  <2> QED
    BY <1>1, <2>1, <2>2 DEF Lengths, HandOversLeft
<1>7. ASSUME SubMappingStep PROVE Hands
  <2> DEFINE frames == Append(sub_frames, Head(sub_in))
  <2>1. Head(sub_in) \in Nat /\ Len(sub_in') = Len(sub_in) - 1
    BY <1>7, QueueLengths DEF SubMappingStep, TypeOK, Frames
  <2>2. frames \in Seq(Nat) /\ Len(frames) = Len(sub_frames) + 1
    BY <2>1, AppendProperties DEF TypeOK, Frames
  <2>3. Len(Append(sub_out, frames)) = Len(sub_out) + 1
    BY <2>2, AppendProperties DEF TypeOK, Maps
  <2>4. Len(<<>>) = 0
    BY EmptySeq
  <2> HIDE DEF frames
  <2>5. \/ sub_frames' = frames /\ sub_out' = sub_out
        \/ sub_frames' = <<>> /\ sub_out' = Append(sub_out, frames)
    BY <1>7 DEF SubMappingStep, frames
  <2>6. \/ Len(sub_frames') = Len(sub_frames) + 1 /\ Len(sub_out') = Len(sub_out)
        \/ Len(sub_frames') = 0 /\ Len(sub_out') = Len(sub_out) + 1
    BY <2>2, <2>3, <2>4, <2>5
  <2>7. UNCHANGED <<odom_in, odom_window, odom_out, hand_frames, hand_submaps, glob_in,
                    running>>
    BY <1>7 DEF SubMappingStep
  <2> QED
    BY <1>1, <2>1, <2>6, <2>7 DEF Lengths, HandOversLeft
<1>8. ASSUME SubMappingEnd PROVE Ends
  <2>1. Len(Append(sub_out, sub_frames)) = Len(sub_out) + 1
    BY AppendProperties DEF TypeOK, Maps, Frames
  <2>2. sub_frames = <<>> \/ Len(sub_frames) > 0
    BY <1>1, EmptySeq DEF TypeOK, Frames, Lengths
  <2>3. Len(sub_frames') = 0
    BY <1>8, EmptySeq DEF SubMappingEnd
  <2>4. /\ UNCHANGED <<odom_in, odom_window, odom_out, hand_frames, sub_in, hand_submaps,
                       glob_in>>
        /\ "sub" \in running /\ running' = running \ {"sub"}
        /\ sub_out' = IF sub_frames = <<>> THEN sub_out ELSE Append(sub_out, sub_frames)
    BY <1>8 DEF SubMappingEnd
  <2>5. Len(sub_out') <= Len(sub_out) + Len(sub_frames)
    BY <1>1, <2>1, <2>2, <2>4 DEF Lengths
  <2> QED
    BY <1>1, <2>3, <2>4, <2>5 DEF Lengths, HandOversLeft
<1>9. ASSUME GlobalMappingStep PROVE Hands
  <2>1. Len(glob_in') = Len(glob_in) - 1
    BY <1>9, QueueLengths DEF GlobalMappingStep, TypeOK, Maps
  <2>2. UNCHANGED <<odom_in, odom_window, odom_out, hand_frames, sub_in, sub_frames,
                    sub_out, hand_submaps, running>>
    BY <1>9 DEF GlobalMappingStep
  <2> QED
    BY <1>1, <2>1, <2>2 DEF Lengths, HandOversLeft
<1>10. ASSUME GlobalMappingEnd PROVE Ends
  <2>1. /\ UNCHANGED <<odom_in, odom_window, odom_out, hand_frames, sub_in, sub_frames,
                       sub_out, hand_submaps, glob_in>>
        /\ "glob" \in running /\ running' = running \ {"glob"}
    BY <1>10 DEF GlobalMappingEnd
  <2> QED
    BY <1>1, <2>1 DEF Lengths, HandOversLeft
<1>11. Hands \/ Ends
  BY <1>5, <1>6, <1>7, <1>8, <1>9, <1>10 DEF WorkerStep
<1> HIDE DEF HandOversLeft
<1>12. CASE Hands
  BY <1>2, <1>3, <1>4, <1>12
<1>13. CASE Ends
  <2>1. PICK w \in running : running' = running \ {w}
    BY <1>13
  <2>2. Cardinality(running') = Cardinality(running) - 1
    BY <1>3, <2>1
  <2>3. Cardinality(running') \in Nat
    BY RunningCountPrime
  <2> QED
    BY <1>2, <1>3, <1>4, <1>13, <2>2, <2>3
<1> QED
  BY <1>11, <1>12, <1>13
\* A turn of one of the loops of wait() passes one frame or submap on.
LEMMA InsertAdvances ==
  ASSUME TypeOK, TypeOK', InsertFrame \/ InsertSubmap
  PROVE  HandOversLeft' < HandOversLeft /\ UNCHANGED <<pc, ext_loaded, running, env>>
<1> USE DEF config, env, ext, odom, sub, glob, hands, threads
<1>1. Lengths /\ Lengths'
  BY LengthsType, LengthsTypePrime
<1>2. ASSUME InsertFrame PROVE HandOversLeft' < HandOversLeft
  <2>1. Head(hand_frames) \in Nat /\ Len(hand_frames') = Len(hand_frames) - 1
    BY <1>2, QueueLengths DEF InsertFrame, TypeOK, Frames
  <2>2. Len(sub_in') = Len(sub_in) + 1
    BY <1>2, <2>1, AppendProperties DEF InsertFrame, TypeOK, Frames
  <2>3. UNCHANGED <<odom_in, odom_window, odom_out, sub_frames, sub_out, hand_submaps,
                    glob_in>>
    BY <1>2 DEF InsertFrame
  <2> QED
    BY <1>1, <2>1, <2>2, <2>3 DEF Lengths, HandOversLeft
<1>3. ASSUME InsertSubmap PROVE HandOversLeft' < HandOversLeft
  <2>1. /\ Head(hand_submaps) \in Seq(Nat)
        /\ Len(hand_submaps') = Len(hand_submaps) - 1
    BY <1>3, QueueLengths DEF InsertSubmap, TypeOK, Maps
  <2>2. Len(glob_in') = Len(glob_in) + 1
    BY <1>3, <2>1, AppendProperties DEF InsertSubmap, TypeOK, Maps
  <2>3. UNCHANGED <<odom_in, odom_window, odom_out, hand_frames, sub_in, sub_frames,
                    sub_out>>
    BY <1>3 DEF InsertSubmap
  <2> QED
    BY <1>1, <2>1, <2>2, <2>3 DEF Lengths, HandOversLeft
<1> QED
  BY <1>2, <1>3 DEF InsertFrame, InsertSubmap

\* Every other step of wait() passes results on or drops them, and is one step nearer
\* to its end.
LEMMA WaitAdvances ==
  ASSUME TypeOK, TypeOK', WaitStep
  PROVE  /\ HandOversLeft' <= HandOversLeft
         /\ UNCHANGED <<ext_loaded, running, env>>
         /\ WayLeft[pc] \in Nat /\ WayLeft[pc'] \in Nat /\ WayLeft[pc'] < WayLeft[pc]
<1> USE DEF config, env, ext, odom, sub, glob, hands, threads
<1>1. Lengths /\ Lengths' /\ Len(<<>>) = 0
  BY LengthsType, LengthsTypePrime, EmptySeq
<1>2. WayLeft[pc] \in Nat /\ WayLeft[pc'] \in Nat /\ WayLeft[pc'] < WayLeft[pc]
  BY DEF WaitStep, JoinOdometry, OdometryJoined, JoinSubMapping, SubMappingJoined,
         JoinGlobalMapping, GlobalMappingJoined, WaitReturns, WayLeft
<1>3. UNCHANGED <<ext_loaded, running, env, odom_in, odom_window, sub_in, sub_frames,
                  glob_in>>
  BY DEF WaitStep, JoinOdometry, OdometryJoined, JoinSubMapping, SubMappingJoined,
         JoinGlobalMapping, GlobalMappingJoined, WaitReturns
<1>4. /\ \/ UNCHANGED <<odom_out, hand_frames>>
         \/ odom_out' = <<>> /\ hand_frames' \in {odom_out, <<>>}
      /\ \/ UNCHANGED <<sub_out, hand_submaps>>
         \/ sub_out' = <<>> /\ hand_submaps' \in {sub_out, <<>>}
  BY DEF WaitStep, JoinOdometry, OdometryJoined, JoinSubMapping, SubMappingJoined,
         JoinGlobalMapping, GlobalMappingJoined, WaitReturns, TakeFrames, TakeSubmaps
<1>5. /\ 6 * Len(odom_out') + 5 * Len(hand_frames')
             <= 6 * Len(odom_out) + 5 * Len(hand_frames)
      /\ 3 * Len(sub_out') + 2 * Len(hand_submaps')
             <= 3 * Len(sub_out) + 2 * Len(hand_submaps)
  <2>1. \/ Len(odom_out') = Len(odom_out) /\ Len(hand_frames') = Len(hand_frames)
        \/ Len(odom_out') = 0 /\ Len(hand_frames') = Len(odom_out)
        \/ Len(odom_out') = 0 /\ Len(hand_frames') = 0
    BY <1>1, <1>4
  <2>2. \/ Len(sub_out') = Len(sub_out) /\ Len(hand_submaps') = Len(hand_submaps)
        \/ Len(sub_out') = 0 /\ Len(hand_submaps') = Len(sub_out)
        \/ Len(sub_out') = 0 /\ Len(hand_submaps') = 0
    BY <1>1, <1>4
  <2>3. \A a, b, c, d \in Nat :
          (c = a /\ d = b) \/ (c = 0 /\ d = a) \/ (c = 0 /\ d = 0)
            => 6 * c + 5 * d <= 6 * a + 5 * b /\ 3 * c + 2 * d <= 3 * a + 2 * b
    OBVIOUS
  <2>4. /\ Len(odom_out) \in Nat /\ Len(odom_out') \in Nat
        /\ Len(hand_frames) \in Nat /\ Len(hand_frames') \in Nat
        /\ Len(sub_out) \in Nat /\ Len(sub_out') \in Nat
        /\ Len(hand_submaps) \in Nat /\ Len(hand_submaps') \in Nat
    BY <1>1 DEF Lengths
  <2> QED
    BY <2>1, <2>2, <2>3, <2>4
<1> QED
  BY <1>1, <1>2, <1>3, <1>5 DEF Lengths, HandOversLeft
LEMMA ThreadAdvances ==
  ASSUME TypeOK, TypeOK', WaitInv, pc \notin Spinning,
         InsertFrame \/ InsertSubmap \/ WaitStep \/ save \/ Quit
  PROVE  Left' < Left /\ UNCHANGED env
<1> USE DEF config, env, ext, odom, sub, glob, hands, threads
<1>1. HandOversLeft \in Nat /\ HandOversLeft' \in Nat
  BY LengthsType, LengthsTypePrime DEF Lengths, HandOversLeft
<1>2. /\ Cardinality(running) \in Nat /\ Cardinality(running') \in Nat
      /\ Cardinality({}) = 0
  BY RunningCount, RunningCountPrime
<1>3. WayLeft[pc] \in Nat /\ WayLeft[pc'] \in Nat
  BY DEF TypeOK, Pcs, JoinPcs, Spinning, TimerPcs, WayLeft, WaitStep, InsertFrame,
         InsertSubmap, JoinOdometry, OdometryJoined, JoinSubMapping, SubMappingJoined,
         JoinGlobalMapping, GlobalMappingJoined, WaitReturns, save, Quit, Destructor,
         EnterWait
<1>4. ext_loaded \in BOOLEAN /\ ext_loaded' \in BOOLEAN
  BY DEF TypeOK
<1>5. ASSUME save \/ Quit
      PROVE  /\ HandOversLeft' = HandOversLeft /\ UNCHANGED env
             /\ running' \in {running, {}}
  BY <1>5 DEF save, Quit, Destructor, EnterWait, HandOversLeft
<1>6. ASSUME save PROVE WayLeft[pc'] < WayLeft[pc] /\ ext_loaded' = ext_loaded
  BY <1>6 DEF save, WayLeft
<1>7. ASSUME Quit
      PROVE  WayLeft[pc] = 1 /\ WayLeft[pc'] <= 9 /\ ext_loaded = TRUE /\ ext_loaded' = FALSE
  BY <1>4, <1>7 DEF Quit, Destructor, EnterWait, WayLeft, WaitInv
<1>8. ASSUME InsertFrame \/ InsertSubmap PROVE Left' < Left /\ UNCHANGED env
  <2>1. HandOversLeft' < HandOversLeft /\ UNCHANGED <<pc, ext_loaded, running, env>>
    BY <1>8, InsertAdvances
  <2> HIDE DEF HandOversLeft
  <2> QED
    BY <1>1, <1>2, <1>3, <2>1 DEF Left
<1>9. ASSUME WaitStep PROVE Left' < Left /\ UNCHANGED env
  <2>1. /\ HandOversLeft' <= HandOversLeft /\ UNCHANGED <<ext_loaded, running, env>>
        /\ WayLeft[pc'] < WayLeft[pc]
    BY <1>9, WaitAdvances
  <2> QED
    BY <1>1, <1>2, <1>3, <2>1 DEF Left
<1>10. ASSUME save PROVE Left' < Left
  <2>1. Cardinality(running') <= Cardinality(running)
    BY <1>2, <1>5, <1>10
  <2> QED
    BY <1>1, <1>2, <1>3, <1>5, <1>6, <1>10, <2>1 DEF Left
<1>11. ASSUME Quit PROVE Left' < Left
  <2>1. Cardinality(running') <= Cardinality(running)
    BY <1>2, <1>5, <1>11
  <2> QED
    BY <1>1, <1>2, <1>3, <1>5, <1>7, <1>11, <2>1 DEF Left
<1> QED
  BY <1>5, <1>8, <1>9, <1>10, <1>11

\* From the moment the node is let go of, every step of the thread and of the workers
\* brings the end nearer, and the outside world cannot put it off.
THEOREM ShutdownIsFinite == Spec => ShutdownAdvances
<1> DEFINE Advances == IF UNCHANGED env THEN Left' < Left ELSE Left' = Left
<1>1. ASSUME TypeOK, TypeOK', WaitInv, pc \notin Spinning, [Next]_vars
      PROVE  Advances \/ UNCHANGED vars
  <2>1. CASE WorkerStep
    <3>1. /\ UNCHANGED <<pc, ext_loaded, env>>
          /\ HandOversLeft' + Cardinality(running')
               < HandOversLeft + Cardinality(running)
          /\ HandOversLeft \in Nat /\ HandOversLeft' \in Nat
          /\ Cardinality(running') \in Nat /\ Cardinality(running) \in Nat
      BY <1>1, <2>1, WorkerAdvances, RunningCount
    <3>2. WayLeft[pc] \in Nat
      BY <1>1 DEF TypeOK, Pcs, JoinPcs, Spinning, TimerPcs, WayLeft
    <3>3. Left' < Left
      BY <3>1, <3>2 DEF Left
    <3> QED
      BY <3>1, <3>3
  <2>2. CASE Environment
    <3>1. ~UNCHANGED env
      BY <2>2 DEF Environment, Interrupt, ExtensionCloses, env, TypeOK
    <3>2. Left' = Left
      BY <2>2 DEF Environment, Interrupt, ExtensionCloses, Left, HandOversLeft,
         config, ext, odom, sub, glob, hands, threads
    <3> QED
      BY <3>1, <3>2
  <2>3. CASE InsertFrame \/ InsertSubmap \/ WaitStep \/ save \/ Quit
    BY <1>1, <2>3, ThreadAdvances
  <2>4. ~(\/ points_callback \/ TimerBegin \/ TimerSubmaps \/ TimerEnd
          \/ SpinReturns \/ PlaybackEnds \/ Unload)
    BY <1>1 DEF Spinning, TimerPcs, points_callback, TimerBegin, Dispatches, TimerSubmaps,
       TimerEnd, SpinReturns, PlaybackEnds, GoToWait, Unload
  <2> QED
    BY <1>1, <2>1, <2>2, <2>3, <2>4 DEF Next, TimerStep, Terminated
<1>2. TypeOK /\ TypeOK' /\ WaitInv /\ [Next]_vars
        => [pc \notin {"spin"} \cup TimerPcs => Advances]_vars
  BY <1>1 DEF Spinning
<1>3. Spec => []TypeOK
  BY TypeCorrect
<1>4. Spec => []WaitInv
  BY InitWait, NextWait, PTL DEF Spec
<1> QED
  BY <1>2, <1>3, <1>4, PTL DEF Spec, ShutdownAdvances
=============================================================================
