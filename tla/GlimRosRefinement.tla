------------------------- MODULE GlimRosRefinement -------------------------
(***************************************************************************)
(* GlimRos implements MapService, for every value of the constants: each   *)
(* step of the node and its workers is a step of the service or invisible  *)
(* to it.                                                                  *)
(***************************************************************************)
EXTENDS GlimRosProofs

-----------------------------------------------------------------------------
(* That a submap never ends behind the last accepted cloud follows from    *)
(* NothingLost only for the last submap; for those before it, by induction *)
(* over the map, or, as here, over the steps that built it.                *)

Bounded ==
  sub_mapping /\ global_mapping =>
    \A i \in 1..Len(Submaps) : EndOf(Submaps, i) \in 0..accepted

RInv == IInv /\ Bounded

LEMMA InitRInv == Init => RInv
<1> SUFFICES ASSUME Init PROVE RInv
  OBVIOUS
<1>1. <<>> \o <<>> = <<>>
  BY ConcatEmptySeq, EmptySeq
<1>2. Submaps = <<>>
  BY <1>1, Zenon DEF Init, Submaps
<1>3. Len(Submaps) = 0
  BY <1>2
<1> QED
  BY <1>3, InitInv DEF RInv, Bounded

LEMMA NextBounded ==
  ASSUME IInv, IInv', Bounded, [Next]_vars PROVE Bounded'
<1>1. SUFFICES ASSUME sub_mapping, global_mapping,
                      sub_mapping', global_mapping'
               PROVE  \A i \in 1..Len(Submaps') : EndOf(Submaps', i) \in 0..accepted'
  BY MappingFixed DEF Bounded
<1>2. Carries \/ TakesIn \/ Groups
  BY <1>1, Flow DEF IInv, Drops
<1>3. \A i \in 1..Len(Submaps) : EndOf(Submaps, i) \in 0..accepted
  BY <1>1 DEF Bounded
<1>4. accepted \in Nat
  BY DEF IInv, IControl, TypeOK
<1>5. CASE Carries
  BY <1>3, <1>5 DEF Carries
<1>6. CASE TakesIn
  <2>1. accepted' = accepted + 1 /\ Submaps' = Submaps
    BY <1>6 DEF TakesIn
  <2> QED
    BY <1>3, <1>4, <2>1
<1>7. CASE Groups
  <2>1. PICK s \in Frames : Submaps' = Append(Submaps, s) /\ accepted' = accepted
    BY <1>7 DEF Groups
  <2>2. Submaps \in Maps
    BY SubmapsType DEF IInv, IControl
  <2>3. /\ Len(Submaps) \in Nat
        /\ Len(Submaps') = Len(Submaps) + 1
        /\ \A i \in 1..Len(Submaps) : Submaps'[i] = Submaps[i]
    BY <2>1, <2>2, AppendProperties, LenProperties DEF Maps, Frames
  <2>4. \A i \in 1..Len(Submaps) : EndOf(Submaps', i) = EndOf(Submaps, i)
    BY <2>3 DEF EndOf
  <2>5. EndOf(Submaps', Len(Submaps')) \in 0..accepted'
    <3>1. LastFrame(Submaps') = accepted' - Len(InFlight')
      BY <1>1 DEF IInv, NothingLost
    <3>2. Len(InFlight') <= accepted'
      BY DEF IInv, InFlightIsARun
    <3>3. Len(InFlight') \in Nat
      BY InFlightTypePrime, LenProperties DEF IInv, IControl, Frames
    <3> QED
      BY <1>4, <2>1, <3>1, <3>2, <3>3 DEF LastFrame
  <2>6. ASSUME NEW i \in 1..Len(Submaps') PROVE EndOf(Submaps', i) \in 0..accepted'
    <3>1. i \in 1..Len(Submaps) \/ i = Len(Submaps')
      BY <2>3
    <3> QED
      BY <1>3, <2>1, <2>4, <2>5, <3>1
  <2> QED
    BY <2>6
<1> QED
  BY <1>2, <1>5, <1>6, <1>7

LEMMA RInvariance == Spec => []RInv
<1>1. RInv /\ [Next]_vars => RInv'
  BY NextInv, NextBounded DEF RInv
<1> QED
  BY <1>1, InitRInv, PTL DEF Spec

-----------------------------------------------------------------------------
(* The step of the global mapping thread: what comes next in its queue is  *)
(* what comes next in the partition.                                       *)

\* q starts with s and goes on with the head of t.
ReadsOn(q, s, t) ==
  /\ Len(s) + 1 \in 1..Len(q)
  /\ \A i \in 1..Len(s) : q[i] = s[i]
  /\ q[Len(s) + 1] = Head(t)

LEMMA HeadBehind ==
  ASSUME NEW S, NEW s \in Seq(S), NEW t \in Seq(S), t # <<>>
  PROVE  ReadsOn(s \o t, s, t)
<1>1. /\ Len(s \o t) = Len(s) + Len(t)
      /\ \A i \in 1..(Len(s) + Len(t)) :
           (s \o t)[i] = IF i <= Len(s) THEN s[i] ELSE t[i - Len(s)]
  BY ConcatProperties, Zenon
<1>2. Len(s) \in Nat /\ Len(t) \in Nat /\ Len(t) > 0
  BY LenProperties, EmptySeq
<1>3. Head(t) = t[1]
  OBVIOUS
<1>4. (Len(s) + 1) - Len(s) = 1 /\ ~(Len(s) + 1 <= Len(s))
  BY <1>2
<1>5. (s \o t)[Len(s) + 1] = t[1]
  <2>1. Len(s) + 1 \in 1..(Len(s) + Len(t))
    BY <1>2
  <2> QED
    BY <1>1, <1>4, <2>1
<1> QED
  BY <1>1, <1>2, <1>3, <1>5 DEF ReadsOn

\* A concatenation with a queue in the middle, read from the left.
LEMMA HeadInTheMiddle ==
  ASSUME NEW S, NEW s \in Seq(S), NEW t \in Seq(S), NEW u \in Seq(S),
         NEW v \in Seq(S), t # <<>>
  PROVE  ReadsOn(((s \o t) \o u) \o v, s, t)
<1> DEFINE p == s \o t
           w == u \o v
           q == ((s \o t) \o u) \o v
<1>1. /\ Len(s) + 1 \in 1..Len(p)
      /\ \A i \in 1..Len(s) : p[i] = s[i]
      /\ p[Len(s) + 1] = Head(t)
  BY HeadBehind DEF ReadsOn
<1>2. p \in Seq(S) /\ w \in Seq(S)
  BY ConcatProperties, Zenon
<1>3. q = p \o w
  BY <1>2, ConcatAssociative
<1> HIDE DEF p, w, q
<1>4. /\ Len(q) = Len(p) + Len(w)
      /\ \A i \in 1..(Len(p) + Len(w)) :
           q[i] = IF i <= Len(p) THEN p[i] ELSE w[i - Len(p)]
  BY <1>2, <1>3, ConcatProperties, Zenon
<1>5. Len(s) \in Nat /\ Len(p) \in Nat /\ Len(w) \in Nat
  BY <1>2, LenProperties
<1>6. ASSUME NEW i \in 1..(Len(s) + 1) PROVE q[i] = p[i]
  <2>1. i \in 1..(Len(p) + Len(w)) /\ i <= Len(p)
    BY <1>1, <1>5
  <2> QED
    BY <1>4, <2>1
<1>7. Len(s) + 1 \in 1..Len(q)
  BY <1>1, <1>4, <1>5
<1>8. \A i \in 1..Len(s) : q[i] = s[i]
  <2> SUFFICES ASSUME NEW i \in 1..Len(s) PROVE q[i] = s[i]
    OBVIOUS
  <2>1. i \in 1..(Len(s) + 1)
    BY <1>5
  <2> QED
    BY <1>1, <1>6, <2>1
<1>9. q[Len(s) + 1] = Head(t)
  <2>1. Len(s) + 1 \in 1..(Len(s) + 1)
    BY <1>5
  <2> QED
    BY <1>1, <1>6, <2>1
<1> QED
  BY <1>7, <1>8, <1>9 DEF q, ReadsOn

LEMMA IntegrateStep ==
  ASSUME RInv, GlobalMappingStep PROVE Service!Integrate
<1> DEFINE k == Len(glob_map)
           last == LastFrame(glob_map)
           s == Head(glob_in)
<1>1. IControl /\ TypeOK /\ NothingLost /\ Bounded
  BY DEF RInv, IInv, IControl
<1>2. /\ glob_in # <<>>
      /\ glob_map' = Append(glob_map, s)
      /\ UNCHANGED <<sub_mapping, global_mapping, accepted, pc, dumps>>
  BY DEF GlobalMappingStep, config
<1>3. sub_mapping /\ global_mapping
  BY <1>1, <1>2 DEF IControl, Missing, TypeOK
<1>4. /\ glob_map \in Seq(Frames) /\ glob_in \in Seq(Frames)
      /\ hand_submaps \in Seq(Frames) /\ sub_out \in Seq(Frames)
      /\ accepted \in Nat
  BY <1>1 DEF TypeOK, Maps, Frames
<1>5. k \in Nat /\ s \in Frames /\ Len(s) \in Nat
  <2>1. s \in Frames
    BY <1>2, <1>4, HeadTailProperties
  <2> QED
    BY <1>4, <2>1, LenProperties DEF Frames
<1>6. /\ k + 1 \in 1..Len(Submaps)
      /\ \A i \in 1..k : Submaps[i] = glob_map[i]
      /\ Submaps[k + 1] = s
  <2>1. ReadsOn(((glob_map \o glob_in) \o hand_submaps) \o sub_out, glob_map, glob_in)
    BY <1>2, <1>4, HeadInTheMiddle
  <2>2. Submaps = ((glob_map \o glob_in) \o hand_submaps) \o sub_out
    BY DEF Submaps
  <2> HIDE DEF k
  <2>3. ReadsOn(Submaps, glob_map, glob_in)
    BY <2>1, <2>2, Zenon
  <2> QED
    BY <2>3, Zenon DEF ReadsOn, k
<1>7. EndOf(Submaps, k) = last
  BY <1>5, <1>6 DEF EndOf, LastFrame
<1>8. s # <<>> /\ IsRun(s, last)
  <2>1. Submaps[k + 1] # <<>> /\ IsRun(Submaps[k + 1], EndOf(Submaps, (k + 1) - 1))
    BY <1>1, <1>3, <1>6 DEF NothingLost, IsPartition
  <2>2. (k + 1) - 1 = k
    BY <1>5
  <2> QED
    BY <1>6, <1>7, <2>1, <2>2
<1>9. last \in Nat
  <2>1. CASE k = 0
    BY <2>1 DEF LastFrame, EndOf
  <2>2. CASE k # 0
    <3>1. k \in 1..Len(Submaps)
      BY <1>5, <1>6, <2>2
    <3> QED
      BY <1>1, <1>3, <1>4, <1>7, <3>1 DEF Bounded
  <2> QED
    BY <2>1, <2>2
<1> HIDE DEF last, k
<1>10. Len(s) > 0
  BY <1>5, <1>8, EmptySeq DEF Frames
<1>11. s[Len(s)] = last + Len(s)
  BY <1>5, <1>8, <1>10 DEF IsRun
<1>12. s[Len(s)] <= accepted
  <2>1. EndOf(Submaps, k + 1) = s[Len(s)]
    BY <1>5, <1>6 DEF EndOf
  <2>2. EndOf(Submaps, k + 1) \in 0..accepted
    BY <1>1, <1>3, <1>6 DEF Bounded
  <2> QED
    BY <1>4, <2>1, <2>2
<1> DEFINE n == last + Len(s)
<1>13. n \in (last + 1)..accepted
  BY <1>4, <1>5, <1>9, <1>10, <1>11, <1>12
<1>14. s = Run(last, n)
  <2>1. n - last = Len(s)
    BY <1>5, <1>9
  <2>2. s = [i \in 1..Len(s) |-> s[i]]
    BY <1>5 DEF Frames
  <2>3. \A i \in 1..Len(s) : s[i] = last + i
    BY <1>8 DEF IsRun
  <2> HIDE DEF s, n
  <2>4. [i \in 1..Len(s) |-> s[i]] = [i \in 1..Len(s) |-> last + i]
    BY <2>3
  <2> QED
    BY <2>1, <2>2, <2>4 DEF Run
<1> HIDE DEF n, s
<1>15. \E m \in (LastFrame(glob_map) + 1)..accepted :
         glob_map' = Append(glob_map, Run(LastFrame(glob_map), m))
  BY <1>2, <1>13, <1>14 DEF last
<1> QED
  BY <1>2, <1>3, <1>15 DEF Service!Integrate, Service!LastFrame, Service!EndOf, Service!Run,
     LastFrame, EndOf, Run

-----------------------------------------------------------------------------
(* The other steps. *)

\* save() writes everything that was accepted, or nothing without global mapping.
LEMMA SaveStep ==
  ASSUME RInv, save PROVE Service!Dump \/ UNCHANGED Service!vars
<1>1. /\ pc = "save" /\ pc' \in {"quit", "destroyed"}
      /\ UNCHANGED <<sub_mapping, global_mapping, accepted, glob_map>>
      /\ dumps' = IF global_mapping THEN Append(dumps, glob_map) ELSE dumps
  BY DEF save, config, glob
<1>2. CASE ~global_mapping
  BY <1>1, <1>2 DEF Service!vars, TimerPcs
<1>3. CASE global_mapping
  <2>1. ASSUME sub_mapping PROVE LastFrame(glob_map) = accepted
    <3>1. InFlight = <<>> /\ Submaps = glob_map
      BY <1>1, <1>3, <2>1, Drained DEF RInv, IInv
    <3>2. LastFrame(Submaps) = accepted - Len(InFlight) /\ accepted \in Nat
      BY <1>3, <2>1 DEF RInv, IInv, IControl, TypeOK, NothingLost
    <3> QED
      BY <3>1, <3>2
  <2> QED
    BY <1>1, <1>3, <2>1 DEF Service!Dump, TimerPcs, Service!LastFrame, Service!EndOf,
       LastFrame, EndOf
<1> QED
  BY <1>2, <1>3

LEMMA ServiceStep ==
  ASSUME RInv, [Next]_vars PROVE [Service!Next]_(Service!vars)
<1> USE DEF Service!vars, TimerPcs, config, glob
<1>1. CASE GlobalMappingStep
  BY <1>1, IntegrateStep DEF Service!Next
<1>2. CASE save
  BY <1>2, SaveStep DEF Service!Next
<1>3. CASE points_callback
  <2>1. Service!Accept
    BY <1>3 DEF Dispatches, points_callback, Service!Accept
  <2> QED
    BY <2>1 DEF Service!Next
<1>4. CASE SpinReturns \/ PlaybackEnds \/ Unload
  <2>1. Service!Close
    BY <1>4 DEF GoToWait, SpinReturns, PlaybackEnds, Unload, Destructor, EnterWait, Service!Close
  <2> QED
    BY <2>1 DEF Service!Next
<1>5. CASE \/ Environment \/ OdometryStep \/ OdometryEnd
           \/ SubMappingStep \/ SubMappingEnd \/ GlobalMappingEnd
  BY <1>5 DEF Environment, Interrupt, ExtensionCloses, OdometryStep, OdometryEnd,
              SubMappingStep, SubMappingEnd, GlobalMappingEnd
<1>6. CASE TimerStep
  BY <1>6 DEF TimerStep, Dispatches, TimerBegin, InsertFrame, TimerSubmaps, InsertSubmap, TimerEnd
<1>7. CASE WaitStep
  BY <1>7 DEF WaitStep, JoinOdometry, OdometryJoined, JoinSubMapping,
              SubMappingJoined, JoinGlobalMapping, GlobalMappingJoined, WaitReturns
<1>8. CASE Quit
  BY <1>8 DEF Quit, Destructor, EnterWait
<1>9. CASE UNCHANGED vars
  BY <1>9 DEF vars
<1> QED
  BY <1>1, <1>2, <1>3, <1>4, <1>5, <1>6, <1>7, <1>8, <1>9
  DEF Next, WorkerStep, Terminated

\* Whatever its threads do, the node keeps the promise of MapService: a map that
\* only grows, by the clouds that come next, and complete dumps after intake.
THEOREM Implements == Spec => ServiceSpec
<1>1. Init => Service!Init
  BY DEF Init, Service!Init, TimerPcs
<1> QED
  BY <1>1, RInvariance, ServiceStep, PTL DEF Spec, ServiceSpec, Service!Spec
=============================================================================
