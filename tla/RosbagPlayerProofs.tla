------------------------- MODULE RosbagPlayerProofs -------------------------
(***************************************************************************)
(* Theorems about RosbagPlayer, for any bags, settings, speed, timeout and *)
(* length of the pauses.                                                   *)
(***************************************************************************)
EXTENDS RosbagPlayer, SequenceTheorems, TLAPS

-----------------------------------------------------------------------------
(* The data. *)

LEMMA BagsType ==
  ASSUME bags \in Playlists
  PROVE  /\ bags \in Seq(Seq(Message)) /\ Len(bags) \in Nat
         /\ \A b \in 1..Len(bags) :
              bags[b] \in Seq(Message) /\ Len(bags[b]) \in Nat /\ IsBag(bags[b])
         /\ \A b \in 1..Len(bags) : \A i \in 1..Len(bags[b]) : bags[b][i] \in Message
<1>1. bags \in Seq(Seq(Message)) /\ \A b \in 1..Len(bags) : IsBag(bags[b])
  BY PlaylistsAssumption
<1>2. \A b \in 1..Len(bags) : bags[b] \in Seq(Message)
  BY <1>1, ElementOfSeq
<1>3. \A b \in 1..Len(bags) : \A i \in 1..Len(bags[b]) : bags[b][i] \in Message
  BY <1>2, ElementOfSeq
<1> QED
  BY <1>1, <1>2, <1>3, LenProperties

LEMMA MessageType ==
  ASSUME NEW m \in Message
  PROVE  /\ m.time \in Nat \ {0} /\ m.stamp \in Nat
         /\ <<m>> \in Seq(Message) /\ Len(<<m>>) = 1 /\ <<m>>[1] = m
BY DEF Message

LEMMA SettingType ==
  ASSUME opt \in Settings
  PROVE  /\ opt.start_offset \in Nat /\ opt.until \in Nat /\ opt.duration \in Nat
         /\ opt.end_time \in Nat /\ opt.auto_quit \in BOOLEAN
BY SettingsAssumption DEF Setting

-----------------------------------------------------------------------------
(* Type correctness. *)

AtHand == {"paused", "throttle", "dispatch"}
Reading == {"has_next", "needs_wait"} \cup AtHand

\* Where the reader stands while a bag is read.
Control ==
  /\ pc \in Reading => bag <= Len(bags) /\ pos <= Len(bags[bag]) + 1
  /\ pc \in AtHand => pos > 1 /\ msg = <<bags[bag][pos - 1]>>

\* A pause begins no later than now.
PauseBegan == pc = "paused" => pause_start <= now

TypeInv == TypeOK /\ Control /\ PauseBegan

LEMMA InitType == Init => TypeInv
<1> SUFFICES ASSUME Init PROVE TypeInv
  OBVIOUS
<1>1. opt.start_offset \in Nat /\ opt.auto_quit \in BOOLEAN
  BY SettingType DEF Init
<1>2. msg \in Seq(Message) /\ Len(msg) = 0
  BY EmptySeq DEF Init
<1>3. delivered \in Seq((Nat \ {0}) \X (Nat \ {0}))
  BY EmptySeq DEF Init
<1>4. ok \in BOOLEAN /\ auto_quit \in BOOLEAN
  BY <1>1, Zenon DEF Init
<1>5. TypeOK
  BY <1>1, <1>2, <1>3, <1>4 DEF Init, TypeOK, Pcs
<1> QED
  BY <1>5 DEF Init, TypeInv, Control, PauseBegan, Reading, AtHand

LEMMA BagType ==
  ASSUME TypeInv, BagStep, UNCHANGED <<inputs, ok>> PROVE TypeInv'
<1> USE DEF TypeInv, inputs
<1>0. bags \in Playlists /\ pc \in Pcs /\ bag \in Nat \ {0} /\ pos \in Nat \ {0}
  BY DEF TypeOK
<1>1. UNCHANGED <<msg, clocks, pause_start, wait_t0, time, auto_quit, history>>
  BY DEF BagStep
<1>2. /\ bag' \in Nat \ {0} /\ pos' \in Nat \ {0} /\ pc' \in Pcs
      /\ pc' \in Reading => bag' <= Len(bags) /\ pos' <= Len(bags[bag']) + 1
      /\ pc' \notin AtHand
  <2>1. CASE OpenBag
    BY <1>0, <2>1, BagsType DEF OpenBag, Reading, AtHand, Pcs, Ends
  <2>2. CASE BagEnds
    BY <1>0, <2>2 DEF BagEnds, Reading, AtHand, Pcs
  <2>3. CASE BagsRead
    BY <1>0, <2>3 DEF BagsRead, Reading, AtHand, Pcs, Ends, reader
  <2>4. CASE SpinReturns
    BY <1>0, <2>4 DEF SpinReturns, Reading, AtHand, Pcs, Ends, reader
  <2>5. CASE SpinThrows
    BY <1>0, <2>5 DEF SpinThrows, Reading, AtHand, Pcs, Ends, reader
  <2> QED
    BY <2>1, <2>2, <2>3, <2>4, <2>5 DEF BagStep
<1>3. TypeOK'
  BY <1>1, <1>2 DEF TypeOK, clocks, time, history
<1> QED
  BY <1>2, <1>3 DEF Control, PauseBegan, AtHand

LEMMA ReadType ==
  ASSUME TypeInv, ReadStep, UNCHANGED <<inputs, ok>> PROVE TypeInv'
<1> USE DEF TypeInv, inputs
<1>0. /\ bags \in Playlists /\ pc \in Pcs /\ bag \in Nat \ {0} /\ pos \in Nat \ {0}
      /\ bag_t0 \in Nat /\ real_t0 \in Nat /\ now \in Nat
  BY DEF TypeOK
<1>1. UNCHANGED <<bag, wait_t0, time, history>>
  BY DEF ReadStep
<1>2. CASE Interrupted
  <2>1. pc' = "wait" /\ auto_quit' \in BOOLEAN
    BY <1>2 DEF Interrupted, GiveUp
  <2>2. TypeOK'
    BY <1>1, <1>2, <2>1 DEF TypeOK, Interrupted, clocks, time, history, Pcs, Ends
  <2> QED
    BY <2>1, <2>2 DEF Control, PauseBegan, AtHand, Reading
<1>3. CASE SkipOffset
  <2>1. /\ pos' \in 1..Len(bags[bag]) + 1
        /\ pc = "has_next" /\ bag <= Len(bags)
        /\ UNCHANGED <<pc, msg, pause_start, auto_quit>>
        /\ start_offset' = 0 /\ bag_t0' = 0 /\ real_t0' = 0
    BY <1>3 DEF SkipOffset, MayRead, HasNext, SeekResets, Control, Reading
  <2>2. Len(bags[bag]) \in Nat
    BY <1>0, <2>1, BagsType
  <2>3. TypeOK'
    BY <1>1, <2>1, <2>2 DEF TypeOK, time, history
  <2> QED
    BY <1>1, <2>1, <2>2, <2>3 DEF Control, PauseBegan, AtHand
<1>4. CASE ReadNext
  <2> DEFINE m == bags[bag][pos]
  <2>1. pc = "has_next" /\ bag <= Len(bags) /\ pos <= Len(bags[bag])
    BY <1>4 DEF ReadNext, MayRead, HasNext, Control, Reading
  <2>2. m \in Message /\ Len(bags[bag]) \in Nat
    BY <1>0, <2>1, BagsType
  <2>3. m.time \in Nat /\ <<m>> \in Seq(Message) /\ Len(<<m>>) = 1
    BY <2>2, MessageType
  <2>4. /\ msg' = <<m>> /\ bag_t0' = BagStart(m) /\ real_t0' = RealStart
        /\ pos' = pos + 1 /\ UNCHANGED start_offset
    BY <1>4 DEF ReadNext
  <2>5. bag_t0' \in Nat /\ real_t0' \in Nat
    BY <1>0, <2>3, <2>4 DEF BagStart, RealStart
  <2>6. /\ pc' \in {"wait", "paused", "throttle"} /\ pause_start' \in {now, pause_start}
        /\ auto_quit' \in {TRUE, auto_quit}
        /\ pc' = "paused" => pause_start' = now
    BY <1>4, Zenon DEF ReadNext, GiveUp
  <2>7. auto_quit' \in BOOLEAN /\ pause_start' \in Nat
    BY <2>6 DEF TypeOK
  <2> HIDE DEF m
  <2>8. TypeOK'
    BY <1>1, <2>3, <2>4, <2>5, <2>6, <2>7 DEF TypeOK, time, history, Pcs, Ends
  <2> QED
    BY <1>0, <1>1, <2>1, <2>2, <2>4, <2>6, <2>8
       DEF m, Control, PauseBegan, AtHand, Reading, time
<1> QED
  BY <1>2, <1>3, <1>4 DEF ReadStep

LEMMA PauseType ==
  ASSUME TypeInv, PauseStep, UNCHANGED <<inputs, ok>> PROVE TypeInv'
<1> USE DEF TypeInv, inputs
<1>1. UNCHANGED <<reader, msg, start_offset, bag_t0, pause_start, wait_t0, played, history>>
  BY DEF PauseStep
<1>2. /\ now' \in Nat /\ real_t0' \in Nat /\ auto_quit' \in BOOLEAN
      /\ pc = "paused" /\ pc' \in {"paused", "throttle", "wait"}
      /\ now <= now'
  <2>0. now \in Nat /\ real_t0 \in Nat /\ pause_start \in Nat /\ auto_quit \in BOOLEAN
    BY DEF TypeOK
  <2>1. CASE PauseSleep
    BY <2>0, <2>1 DEF PauseSleep
  <2>2. CASE Resume
    BY <2>0, <2>2 DEF Resume, AfterPause, PauseBegan
  <2>3. CASE PauseInterrupted
    BY <2>0, <2>3 DEF PauseInterrupted, GiveUp
  <2> QED
    BY <2>1, <2>2, <2>3 DEF PauseStep
<1>3. TypeOK'
  BY <1>1, <1>2 DEF TypeOK, reader, history, Pcs, Ends
<1> QED
  BY <1>1, <1>2, <1>3 DEF Control, PauseBegan, AtHand, Reading, reader, TypeOK

LEMMA MessageStepType ==
  ASSUME TypeInv, MessageStep, UNCHANGED <<inputs, ok>> PROVE TypeInv'
<1> USE DEF TypeInv, inputs
<1>0. /\ now \in Nat /\ played \in Nat /\ wait_t0 \in Nat /\ auto_quit \in BOOLEAN
      /\ delivered \in Seq((Nat \ {0}) \X (Nat \ {0})) /\ late \in Nat
      /\ bag \in Nat \ {0} /\ pos \in Nat \ {0} /\ pc \in Pcs
  BY DEF TypeOK
<1>1. UNCHANGED <<reader, msg, clocks, pause_start>>
  BY DEF MessageStep
<1>2. /\ now' \in Nat /\ played' \in Nat /\ wait_t0' \in Nat /\ auto_quit' \in BOOLEAN
      /\ delivered' \in Seq((Nat \ {0}) \X (Nat \ {0})) /\ late' \in Nat
      /\ pc \in Reading
      /\ \/ pc' = pc /\ pc # "paused"
         \/ pc \in AtHand /\ pc' = "dispatch"
         \/ pc' \in {"wait", "needs_wait", "has_next"}
  <2>1. CASE ThrottleSleep
    BY <1>0, <2>1 DEF ThrottleSleep, history, Reading, AtHand
  <2>2. CASE ThrottleEnds
    BY <1>0, <2>2 DEF ThrottleEnds, history, time, Reading, AtHand
  <2>3. CASE TypeMismatch
    BY <1>0, <2>3 DEF TypeMismatch, GiveUp, history, time, Reading, AtHand
  <2>4. CASE Deliver
    <3>1. pos > 1 /\ pc = "dispatch"
      BY <2>4 DEF Deliver, Control, AtHand
    <3>2. <<bag, pos - 1>> \in (Nat \ {0}) \X (Nat \ {0})
      BY <1>0, <3>1
    <3>3. delivered' = Append(delivered, <<bag, pos - 1>>)
      BY <2>4 DEF Deliver
    <3>4. delivered' \in Seq((Nat \ {0}) \X (Nat \ {0}))
      BY <1>0, <3>2, <3>3, AppendProperties
    <3>5. late' \in Nat
      BY <1>0, <2>4 DEF Deliver
    <3>6. CASE PastEnd(msg[1])
      BY <1>0, <2>4, <3>1, <3>4, <3>5, <3>6 DEF Deliver, GiveUp, time, Reading, AtHand
    <3>7. CASE ~PastEnd(msg[1])
      BY <1>0, <2>4, <3>1, <3>4, <3>5, <3>7 DEF Deliver, Reading, AtHand
    <3> QED
      BY <3>6, <3>7
  <2>5. CASE ExtensionBusy
    BY <1>0, <2>5 DEF ExtensionBusy, history, Reading, AtHand
  <2>6. CASE ExtensionReady
    BY <1>0, <2>6 DEF ExtensionReady, history, time, Reading, AtHand
  <2> QED
    BY <2>1, <2>2, <2>3, <2>4, <2>5, <2>6 DEF MessageStep
<1>3. TypeOK'
  BY <1>1, <1>2 DEF TypeOK, reader, clocks, Pcs, Ends, Reading, AtHand
<1> QED
  BY <1>1, <1>2, <1>3 DEF Control, PauseBegan, AtHand, Reading, reader

LEMMA TypeStep == TypeInv /\ [Next]_vars => TypeInv'
<1> SUFFICES ASSUME TypeInv, [Next]_vars PROVE TypeInv'
  OBVIOUS
<1>1. CASE Shutdown
  <2>1. /\ UNCHANGED <<inputs, reader, msg, clocks, pc, pause_start, wait_t0, time,
                       auto_quit, history>>
        /\ ok' \in BOOLEAN
    BY <1>1 DEF Shutdown
  <2> QED
    BY <2>1 DEF TypeInv, TypeOK, Control, PauseBegan, inputs, reader, clocks, time, history
<1>2. CASE PlayerStep
  BY <1>2, BagType, ReadType, PauseType, MessageStepType DEF PlayerStep
<1>3. CASE UNCHANGED vars
  BY <1>3 DEF TypeInv, TypeOK, Control, PauseBegan, vars, inputs, reader, clocks, time,
              history
<1> QED
  BY <1>1, <1>2, <1>3 DEF Next, Terminated

\* Every variable keeps its type: the position stays within the bag, a message is at
\* hand wherever main() looks at one, and no pause moves real_t0 below zero.
THEOREM TypeCorrect == Spec => []TypeOK
<1>1. Spec => []TypeInv
  BY InitType, TypeStep, PTL DEF Spec
<1> QED
  BY <1>1, PTL DEF TypeInv
-----------------------------------------------------------------------------
(* After rclcpp went down. *)

\* As long as rclcpp is up, or the message at hand has not been given to a callback,
\* nothing was late: this is what makes LateAtMostOne inductive.
LateInv ==
  /\ late <= 1
  /\ ok \/ pc \in AtHand => late = 0

LEMMA LateStep ==
  ASSUME TypeOK, LateInv, [Next]_vars PROVE LateInv'
<1> USE DEF LateInv
<1>0. late \in Nat /\ ok \in BOOLEAN
  BY DEF TypeOK
<1>1. CASE Shutdown
  <2>1. ~ok' /\ ok /\ UNCHANGED <<pc, late>>
    BY <1>1, Zenon DEF Shutdown, history
  <2> QED
    BY <2>1
<1>2. CASE PlayerStep
  <2>1. ok' = ok
    BY <1>2 DEF PlayerStep
  <2>2. CASE BagStep
    <3>1. late' = late
      BY <2>2 DEF BagStep, history
    <3>2. pc' \notin AtHand
      BY <2>2 DEF BagStep, OpenBag, BagEnds, BagsRead, SpinReturns, SpinThrows, AtHand
    <3> QED
      BY <2>1, <3>1, <3>2
  <2>3. CASE ReadStep
    <3>1. late' = late
      BY <2>3 DEF ReadStep, history
    <3>2. ok \/ pc' \notin AtHand
      BY <2>3 DEF ReadStep, Interrupted, GiveUp, SkipOffset, ReadNext, MayRead, AtHand
    <3> QED
      BY <2>1, <3>1, <3>2
  <2>4. CASE PauseStep
    <3>1. late' = late
      BY <2>4 DEF PauseStep, history
    <3>2. pc \in AtHand
      BY <2>4 DEF PauseStep, PauseSleep, Resume, PauseInterrupted, AtHand
    <3> QED
      BY <2>1, <3>1, <3>2
  <2>5. CASE MessageStep
    <3>1. CASE Deliver
      <4>1. late = 0
        BY <3>1 DEF Deliver, AtHand
      <4>2. pc' \notin AtHand
        BY <3>1 DEF Deliver, GiveUp, AtHand
      <4>3. late' = IF ok THEN late ELSE late + 1
        BY <3>1 DEF Deliver
      <4> QED
        BY <1>0, <2>1, <4>1, <4>2, <4>3
    <3>2. CASE ~Deliver
      <4>1. late' = late
        BY <2>5, <3>2 DEF MessageStep, ThrottleSleep, ThrottleEnds, TypeMismatch,
                          ExtensionBusy, ExtensionReady, history
      <4>2. pc \in AtHand \/ pc' \notin AtHand
        BY <2>5, <3>2 DEF MessageStep, ThrottleSleep, ThrottleEnds, TypeMismatch, GiveUp,
                          ExtensionBusy, ExtensionReady, AtHand
      <4> QED
        BY <2>1, <4>1, <4>2
    <3> QED
      BY <3>1, <3>2
  <2> QED
    BY <1>2, <2>2, <2>3, <2>4, <2>5 DEF PlayerStep
<1>3. CASE UNCHANGED vars
  BY <1>3 DEF vars, history
<1> QED
  BY <1>1, <1>2, <1>3 DEF Next, Terminated

\* Once rclcpp is down at most the message at hand reaches the callbacks, whatever the
\* loops that do not look at it do.
THEOREM OneMessageLate == Spec => []LateAtMostOne
<1>1. Init => LateInv
  BY DEF Init, LateInv
<1>2. Spec => []LateInv
  BY <1>1, TypeCorrect, LateStep, PTL DEF Spec
<1> QED
  BY <1>2, PTL DEF LateInv, LateAtMostOne

-----------------------------------------------------------------------------
(* The inductive invariant of playback. *)

\* The places the reader has gone past, and the place of the message at hand.
Passed ==
  {p \in Places : p[1] < bag \/ (p[1] = bag /\ pc # "open" /\ p[2] < pos)}

Current == <<bag, pos - 1>>

\* What must have been given to the callbacks.
Due == IF pc \in AtHand THEN (Passed \cap Offered) \ {Current} ELSE Passed \cap Offered

\* The seek waits for the first bag with a message; after it all that is ahead is
\* offered.
SeekInv ==
  /\ start_offset > 0 =>
       /\ start_offset = opt.start_offset
       /\ real_t0 = 0
       /\ pc \in {"open", "has_next"} \cup Ends
       /\ pc = "has_next" => pos = 1
       /\ \A b \in 1..Len(bags) : b < bag => bags[b] = <<>>
  /\ start_offset = 0 => Places \subseteq Passed \cup Offered

\* Playback counts from the first message offered.
OpeningInv ==
  /\ pc \notin Ends => bag_t0 = IF Passed \cap Offered = {} THEN 0 ELSE At(Opening).time
  /\ delivered # <<>> => delivered[1] = Opening

InOrder == \A i, j \in DOMAIN delivered : i < j => Before(delivered[i], delivered[j])

\* All that was offered on the way has been given and none of it ends playback; the
\* message at hand is next.  Where the reading ends, all that was to be given has been.
GivenInv ==
  /\ InOrder
  /\ pc \notin Ends =>
       Range(delivered) = Due /\ \A p \in Due : ~Unplayable(p) /\ ~Closes(p)
  /\ pc \in AtHand => Current \in Offered /\ ~OutOfRange(Current)
  /\ pc \in Ends => PlaybackIsExact

\* The wall clock since real_t0 is what was played, pauses left out.
ClockInv ==
  /\ now >= 1
  /\ real_t0 = 0 => played = 0 /\ pc \in {"open", "has_next"} \cup Ends
  /\ pc = "paused" => pause_start - real_t0 = played
  /\ real_t0 > 0 /\ pc \notin Ends \cup {"paused"} => now - real_t0 = played
  /\ pc = "dispatch" /\ Speed > 0 => msg[1].time <= bag_t0 + (now - real_t0) * Speed

PlaybackInv == SeekInv /\ OpeningInv /\ GivenInv

-----------------------------------------------------------------------------
(* Places and their order. *)

LEMMA PlaceType ==
  ASSUME bags \in Playlists
  PROVE  \A p : p \in Places <=> /\ p = <<p[1], p[2]>>
                                 /\ p[1] \in 1..Len(bags)
                                 /\ p[2] \in 1..Len(bags[p[1]])
<1>1. \A p : p \in Places <=> \E b \in 1..Len(bags) : p \in {b} \X (1..Len(bags[b]))
  BY DEF Places
<1> QED
  BY <1>1

\* Two places are the same or one is before the other, and not both.
LEMMA BeforeIsAnOrder ==
  ASSUME bags \in Playlists, NEW p \in Places, NEW q \in Places
  PROVE  /\ p = q \/ Before(p, q) \/ Before(q, p)
         /\ ~(Before(p, q) /\ Before(q, p)) /\ ~Before(p, p)
<1>1. /\ p = <<p[1], p[2]>> /\ p[1] \in Int /\ p[2] \in Int
      /\ q = <<q[1], q[2]>> /\ q[1] \in Int /\ q[2] \in Int
  BY PlaceType, BagsType
<1> QED
  BY <1>1 DEF Before

LEMMA OfferedIsPlace == Offered \subseteq Places
BY DEF Offered

\* Nothing offered is before the opening.
LEMMA OpeningIs ==
  ASSUME bags \in Playlists, NEW c \in Offered, \A q \in Offered : ~Before(q, c)
  PROVE  Opening = c
<1>1. Opening \in Offered /\ \A q \in Offered : ~Before(q, Opening)
  BY DEF Opening
<1> QED
  BY <1>1, BeforeIsAnOrder, OfferedIsPlace

\* What is to be played depends on the bags and the settings alone.
LEMMA DataFixed ==
  ASSUME UNCHANGED inputs
  PROVE  /\ Places' = Places /\ Offered' = Offered /\ Opening' = Opening
         /\ Expected' = Expected
         /\ At(Opening)' = At(Opening)
         /\ \A p : /\ Unplayable(p)' <=> Unplayable(p)
                   /\ OutOfRange(p)' <=> OutOfRange(p)
                   /\ Closes(p)' <=> Closes(p)
BY DEF inputs, Places, Offered, Opening, Expected, At, Unplayable, OutOfRange, Closes

\* Whatever is before a place the reader has gone past has been passed as well.
LEMMA PassedIsClosed ==
  ASSUME TypeInv, NEW p \in Passed, NEW q \in Places, Before(q, p)
  PROVE  q \in Passed
<1>1. bags \in Playlists /\ bag \in Nat /\ pos \in Nat
  BY DEF TypeInv, TypeOK
<1>2. /\ p[1] \in Int /\ p[2] \in Int /\ q[1] \in Int /\ q[2] \in Int
  BY <1>1, PlaceType, BagsType DEF Passed
<1> QED
  BY <1>1, <1>2 DEF Passed, Before

\* The message at hand is the last one passed.
LEMMA CurrentIsLast ==
  ASSUME TypeInv, pc \in AtHand
  PROVE  /\ Current \in Passed /\ At(Current) = msg[1]
         /\ \A p \in Passed : p = Current \/ Before(p, Current)
<1>1. bags \in Playlists /\ bag \in Nat \ {0} /\ pos \in Nat \ {0}
  BY DEF TypeInv, TypeOK
<1>2. /\ bag <= Len(bags) /\ pos <= Len(bags[bag]) + 1 /\ pos > 1
      /\ msg = <<bags[bag][pos - 1]>>
  BY DEF TypeInv, Control, Reading
<1>3. Len(bags) \in Nat /\ Len(bags[bag]) \in Nat
  BY <1>1, <1>2, BagsType
<1>4. bag \in 1..Len(bags) /\ pos - 1 \in 1..Len(bags[bag])
  BY <1>1, <1>2, <1>3
<1>5. Current \in Places
  BY <1>1, <1>4, PlaceType DEF Current
<1>6. Current \in Passed
  BY <1>1, <1>5 DEF Passed, Current, AtHand
<1>7. ASSUME NEW p \in Passed PROVE p = Current \/ Before(p, Current)
  <2>1. p = <<p[1], p[2]>> /\ p[1] \in Int /\ p[2] \in Int
    BY <1>1, <1>3, PlaceType, BagsType DEF Passed
  <2> QED
    BY <1>1, <2>1 DEF Passed, Before, Current
<1> QED
  BY <1>2, <1>6, <1>7 DEF At, Current

-----------------------------------------------------------------------------
(* The steps of playback. *)

LEMMA DueIsPassed ==
  ASSUME TypeInv
  PROVE  /\ Due \subseteq Passed /\ Due \subseteq Offered
         /\ \A p \in Due, q \in Offered :
              Before(q, p) => q \in Due
<1>1. Due \subseteq Passed /\ Due \subseteq Offered
  BY DEF Due
<1>2. ASSUME NEW p \in Due, NEW q \in Offered, Before(q, p) PROVE q \in Due
  <2>1. q \in Passed
    BY <1>1, <1>2, PassedIsClosed, OfferedIsPlace
  <2>2. CASE pc \in AtHand
    <3>1. p # Current /\ Before(p, Current) /\ Current \in Passed
      BY <1>1, <2>2, CurrentIsLast DEF Due
    <3>2. ~Before(Current, p)
      BY <1>1, <3>1, BeforeIsAnOrder DEF Passed, TypeInv, TypeOK
    <3> QED
      BY <1>2, <2>1, <2>2, <3>2 DEF Due
  <2>3. CASE pc \notin AtHand
    BY <2>1, <2>3 DEF Due
  <2> QED
    BY <2>2, <2>3
<1> QED
  BY <1>1, <1>2

\* While the bags are read, what was given is the beginning of what is expected.
LEMMA GivenSoFar ==
  ASSUME TypeInv, GivenInv, pc \notin Ends
  PROVE  /\ Range(delivered) \subseteq Expected
         /\ \A p \in Expected \ Range(delivered) : \A q \in Range(delivered) : ~Before(p, q)
<1>1. Range(delivered) = Due /\ \A p \in Due : ~Unplayable(p) /\ ~Closes(p)
  BY DEF GivenInv
<1>2. Due \subseteq Expected
  BY <1>1, DueIsPassed DEF Expected
<1>3. \A p \in Expected \ Due : \A q \in Due : ~Before(p, q)
  BY DueIsPassed DEF Expected
<1> QED
  BY <1>1, <1>2, <1>3

\* A step within a bag or to the next one that reads and gives nothing.
LEMMA QuietStep ==
  ASSUME TypeInv, OpeningInv, GivenInv,
         UNCHANGED <<inputs, bag_t0, delivered>>,
         pc \notin Ends, pc' \notin Ends,
         Passed' = Passed, Current' = Current \/ pc' \notin AtHand,
         pc' \in AtHand <=> pc \in AtHand
  PROVE  OpeningInv' /\ GivenInv'
<1>1. Due' = Due
  BY DataFixed DEF Due
<1>2. OpeningInv'
  BY DataFixed DEF OpeningInv
<1>3. InOrder'
  BY DEF GivenInv, InOrder, Before
<1>4. Range(delivered)' = Range(delivered)
  OBVIOUS
<1>5. Range(delivered) = Due /\ \A p \in Due : ~Unplayable(p) /\ ~Closes(p)
  BY DEF GivenInv
<1>6. \A p \in Due : ~Unplayable(p)' /\ ~Closes(p)'
  BY <1>5, DataFixed
<1>7. pc' \in AtHand => Current' \in Offered' /\ ~(OutOfRange(Current)')
  <2> SUFFICES ASSUME pc' \in AtHand PROVE Current' \in Offered' /\ ~(OutOfRange(Current)')
    OBVIOUS
  <2>1. Current' = Current /\ Current \in Offered /\ ~OutOfRange(Current)
    BY DEF GivenInv
  <2>2. OutOfRange(Current)' <=> OutOfRange(Current)
    BY <2>1 DEF OutOfRange, At, inputs, Opening, Offered, Places
  <2> QED
    BY <2>1, <2>2, DataFixed
<1>8. GivenInv'
  BY <1>1, <1>3, <1>4, <1>5, <1>6, <1>7 DEF GivenInv
<1> QED
  BY <1>2, <1>8

\* A step that ends the reading.
LEMMA FinalStep ==
  ASSUME TypeInv, OpeningInv, GivenInv,
         UNCHANGED <<inputs, delivered>>,
         pc \notin Ends, pc' \in Ends,
         ok' /\ pc' # "terminated" => Range(delivered) = Expected
  PROVE  OpeningInv' /\ GivenInv'
<1>1. OpeningInv'
  BY DataFixed DEF OpeningInv
<1>2. InOrder'
  BY DEF GivenInv, InOrder, Before
<1>3. PlaybackIsExact'
  <2>1. Range(delivered)' = Range(delivered) /\ Expected' = Expected
    BY DataFixed
  <2>2. /\ Range(delivered) \subseteq Expected
        /\ \A p \in Expected \ Range(delivered) : \A q \in Range(delivered) : ~Before(p, q)
    BY GivenSoFar
  <2> QED
    BY <1>2, <2>1, <2>2 DEF PlaybackIsExact, InOrder, Before
<1> QED
  BY <1>1, <1>2, <1>3 DEF GivenInv, Ends, AtHand

\* The reading is over early at an unplayable message, all that was offered before it
\* having been given.
LEMMA StoppedRight ==
  ASSUME TypeInv, GivenInv, pc \notin Ends,
         NEW c \in Offered, Unplayable(c),
         \A p \in Places : p \in Due \/ p \notin Offered \/ p = c \/ Before(c, p)
  PROVE  Range(delivered) = Expected
<1>1. Range(delivered) = Due /\ Range(delivered) \subseteq Expected
  BY GivenSoFar DEF GivenInv
<1>2. ASSUME NEW p \in Expected PROVE p \in Due
  <2>1. p \in Offered /\ p \in Places /\ ~Unplayable(p) /\ ~Before(c, p)
    BY OfferedIsPlace DEF Expected
  <2> QED
    BY <2>1
<1> QED
  BY <1>1, <1>2

LEMMA BagPlayback ==
  ASSUME TypeInv, TypeInv', PlaybackInv, BagStep, UNCHANGED <<inputs, ok>>
  PROVE  PlaybackInv'
<1> USE DEF PlaybackInv
<1>0. /\ bags \in Playlists /\ bag \in Nat \ {0} /\ pos \in Nat \ {0}
  BY DEF TypeInv, TypeOK
<1>1. UNCHANGED <<start_offset, bag_t0, real_t0, delivered, inputs, bags, opt, ok>>
  BY DEF BagStep, clocks, history, inputs
<1>2. Places' = Places /\ Offered' = Offered
  BY DataFixed
<1>3. CASE OpenBag
  <2>1. /\ pc = "open" /\ bag' = bag /\ pos' = 1 /\ bag <= Len(bags)
        /\ pc' \in {"terminated", "has_next"}
    BY <1>3 DEF OpenBag
  <2>2. Passed' = Passed
    <3>1. \A p \in Places : p[2] \in Nat /\ p[2] >= 1
      BY <1>0, PlaceType, BagsType
    <3> QED
      BY <1>2, <2>1, <3>1 DEF Passed
  <2>3. SeekInv'
    BY <1>1, <1>2, <2>1, <2>2 DEF SeekInv, Ends
  <2>4. CASE pc' = "has_next"
    BY <1>1, <2>1, <2>2, <2>3, <2>4, QuietStep DEF Ends, AtHand
  <2>5. CASE pc' = "terminated"
    BY <1>1, <2>1, <2>2, <2>3, <2>5, FinalStep DEF Ends, AtHand
  <2> QED
    BY <2>1, <2>4, <2>5
<1>4. CASE BagEnds
  <2>1. /\ pc = "has_next" /\ pc' = "open" /\ bag' = bag + 1 /\ pos' = pos
        /\ pos > Len(bags[bag]) /\ bag <= Len(bags)
    BY <1>4 DEF BagEnds, TypeInv, Control, Reading
  <2>2. Len(bags[bag]) \in Nat /\ bags[bag] \in Seq(Message)
    BY <1>0, <2>1, BagsType
  <2>3. Passed' = Passed
    <3>1. \A p \in Places : p[1] \in Nat /\ p[2] \in Nat /\ p[2] <= Len(bags[p[1]])
      BY <1>0, PlaceType, BagsType
    <3> QED
      BY <1>0, <1>2, <2>1, <2>2, <3>1 DEF Passed
  <2>4. SeekInv'
    <3>1. start_offset > 0 => Len(bags[bag]) = 0
      BY <1>1, <2>1, <2>2 DEF SeekInv, Ends
    <3>2. start_offset > 0 => bags[bag] = <<>>
      BY <2>2, <3>1, EmptySeq
    <3>3. start_offset > 0 => \A b \in 1..Len(bags) : b < bag' => bags[b] = <<>>
      BY <1>0, <2>1, <3>2, BagsType DEF SeekInv
    <3> QED
      BY <1>1, <1>2, <2>1, <2>3, <3>3 DEF SeekInv
  <2> QED
    BY <1>1, <2>1, <2>3, <2>4, QuietStep DEF Ends, AtHand
<1>5. CASE BagsRead
  <2>1. /\ pc = "open" /\ bag' = bag /\ pos' = pos /\ bag > Len(bags)
        /\ pc' \in {"wait", "spin"}
    BY <1>5 DEF BagsRead, reader
  <2>2. Passed = Places /\ Passed' = Places
    BY <1>0, <1>2, <2>1, PlaceType, BagsType DEF Passed
  <2>3. Range(delivered) = Expected
    <3>1. Range(delivered) = Due /\ Range(delivered) \subseteq Expected
      BY <2>1, GivenSoFar DEF GivenInv, Ends
    <3>2. Due = Offered
      BY <2>1, <2>2, OfferedIsPlace DEF Due, AtHand
    <3>3. Expected \subseteq Offered
      BY DEF Expected
    <3> QED
      BY <3>1, <3>2, <3>3
  <2>4. SeekInv'
    BY <1>1, <1>2, <2>1, <2>2 DEF SeekInv, Ends
  <2> QED
    BY <1>1, <2>1, <2>3, <2>4, FinalStep DEF Ends
<1>6. CASE SpinReturns
  <2>1. pc = "spin" /\ pc' = "wait" /\ ~ok /\ bag' = bag /\ pos' = pos
    BY <1>6 DEF SpinReturns, reader
  <2>2. Passed' = Passed
    BY <1>2, <2>1 DEF Passed
  <2>3. SeekInv'
    BY <1>1, <1>2, <2>1, <2>2 DEF SeekInv, Ends
  <2>4. OpeningInv'
    BY <1>1, <2>1, DataFixed DEF OpeningInv, Ends
  <2>5. PlaybackIsExact'
    <3>1. PlaybackIsExact
      BY <2>1 DEF GivenInv, Ends
    <3> QED
      BY <1>1, <2>1, <3>1, DataFixed DEF PlaybackIsExact, Before
  <2>6. InOrder'
    BY <1>1 DEF GivenInv, InOrder, Before
  <2>7. GivenInv'
    BY <2>1, <2>5, <2>6 DEF GivenInv, Ends, AtHand
  <2> QED
    BY <2>3, <2>4, <2>7
<1>7. CASE SpinThrows
  <2>1. /\ pc \notin Ends /\ pc' = "terminated" /\ bag' = bag /\ pos' = pos
    BY <1>7 DEF SpinThrows, reader, Ends
  <2>2. Passed \subseteq Passed'
    BY <1>2, <2>1 DEF Passed
  <2>3. SeekInv'
    BY <1>1, <1>2, <2>1, <2>2 DEF SeekInv, Ends
  <2> QED
    BY <1>1, <2>1, <2>3, FinalStep DEF Ends
<1> QED
  BY <1>3, <1>4, <1>5, <1>6, <1>7 DEF BagStep

\* Nothing has been passed when the seek is made: it starts from the first message of
\* all, and playback has not begun to count.
LEMMA SeekStarts ==
  ASSUME TypeInv, PlaybackInv, SkipOffset
  PROVE  /\ bag \in 1..Len(bags) /\ pos = 1 /\ Len(bags[bag]) \in Nat
         /\ Len(bags[bag]) >= 1 /\ bags[bag] # <<>>
         /\ \A p \in Places : /\ p = <<p[1], p[2]>> /\ p[1] \in Nat /\ p[2] \in Nat
                             /\ p[1] >= bag
                             /\ p[1] \in 1..Len(bags) /\ p[2] \in 1..Len(bags[p[1]])
         /\ Passed = {} /\ bag_t0 = 0
<1> USE DEF PlaybackInv
<1>0. /\ bags \in Playlists /\ opt \in Settings /\ bag \in Nat \ {0} /\ pos \in Nat \ {0}
  BY DEF TypeInv, TypeOK
<1>1. /\ pc = "has_next" /\ start_offset > 0
      /\ pos <= Len(bags[bag]) /\ bag <= Len(bags)
  BY DEF SkipOffset, MayRead, HasNext, TypeInv, Control, Reading
<1>2. /\ pos = 1 /\ \A b \in 1..Len(bags) : b < bag => bags[b] = <<>>
  BY <1>1 DEF SeekInv
<1>3. /\ Len(bags) \in Nat /\ Len(bags[bag]) \in Nat /\ Len(bags[bag]) >= 1
      /\ bags[bag] # <<>> /\ bag \in 1..Len(bags)
  BY <1>0, <1>1, <1>2, BagsType, EmptySeq
<1>4. \A p \in Places : /\ p = <<p[1], p[2]>> /\ p[1] \in Nat /\ p[2] \in Nat
                        /\ p[1] >= bag /\ p[1] \in 1..Len(bags) /\ p[2] \in 1..Len(bags[p[1]])
  <2>1. ASSUME NEW p \in Places PROVE p[1] >= bag
    <3>1. p[1] \in 1..Len(bags) /\ p[2] \in 1..Len(bags[p[1]])
      BY <1>0, PlaceType
    <3>2. bags[p[1]] # <<>>
      BY <1>0, <3>1, BagsType, EmptySeq
    <3> QED
      BY <1>0, <1>2, <1>3, <3>1, <3>2
  <2> QED
    BY <1>0, <2>1, PlaceType, BagsType
<1>5. Passed = {}
  BY <1>0, <1>2, <1>4 DEF Passed
<1>6. bag_t0 = 0
  BY <1>1, <1>5 DEF OpeningInv, Ends
<1> QED
  BY <1>2, <1>3, <1>4, <1>5, <1>6

LEMMA SkipPlayback ==
  ASSUME TypeInv, TypeInv', PlaybackInv, SkipOffset, UNCHANGED <<inputs, bag, history>>
  PROVE  PlaybackInv'
<1> USE DEF PlaybackInv
<1>0. /\ bags \in Playlists /\ opt \in Settings /\ bag \in Nat \ {0} /\ pos \in Nat \ {0}
  BY DEF TypeInv, TypeOK
<1>1. UNCHANGED <<delivered, inputs, bags, opt, bag>>
  BY DEF history, inputs
<1>2. Places' = Places /\ Offered' = Offered
  BY DataFixed
<1>3. /\ pc = "has_next" /\ pc' = "has_next" /\ start_offset > 0
      /\ start_offset' = 0 /\ bag_t0' = 0 /\ real_t0' = 0
      /\ pos <= Len(bags[bag]) /\ bag <= Len(bags)
  BY DEF SkipOffset, MayRead, HasNext, SeekResets, TypeInv, Control, Reading
<1>4. /\ pos = 1 /\ start_offset = opt.start_offset
      /\ \A b \in 1..Len(bags) : b < bag => bags[b] = <<>>
  BY <1>3 DEF SeekInv
<1>5. /\ Len(bags) \in Nat /\ Len(bags[bag]) \in Nat /\ Len(bags[bag]) >= 1
      /\ bags[bag] # <<>> /\ bag \in 1..Len(bags)
  BY <1>0, BagsType, SeekStarts
<1>6. \A p \in Places : /\ p = <<p[1], p[2]>> /\ p[1] \in Nat /\ p[2] \in Nat
                        /\ p[1] >= bag /\ p[1] \in 1..Len(bags) /\ p[2] \in 1..Len(bags[p[1]])
  BY SeekStarts
<1>7. Passed = {}
  BY SeekStarts
<1>8. bag_t0 = 0 /\ Range(delivered) = {}
  BY <1>3, <1>7 DEF OpeningInv, GivenInv, Due, AtHand, Ends
<1> DEFINE t == bags[bag][1].time + opt.start_offset
<1>9. /\ pos' \in 1..Len(bags[bag]) + 1
      /\ \A i \in 1..pos' - 1 : bags[bag][i].time < t
      /\ pos' <= Len(bags[bag]) => ~(bags[bag][pos'].time < t)
  BY <1>4, <1>8 DEF SkipOffset, BagStart
<1>10. \A i \in 1..Len(bags[bag]) : bags[bag][i].time \in Nat
  BY <1>0, <1>5, BagsType, MessageType
<1>11. t \in Nat
  BY <1>0, <1>5, <1>10, SettingType
<1>12. \A b \in 1..bag - 1 : bags[b] = <<>>
  BY <1>4, <1>5
<1> HIDE DEF t
\* What was skipped is not offered, what is ahead is.
<1>13. Passed' \cap Offered = {}
  <2> SUFFICES ASSUME NEW p \in Offered, p \in Passed' PROVE FALSE
    OBVIOUS
  <2>1. p \in Places /\ p[1] = bag /\ p[2] < pos'
    <3>1. p \in Places /\ (p[1] < bag \/ (p[1] = bag /\ p[2] < pos'))
      BY <1>1, <1>2, <1>3 DEF Passed
    <3>2. p[1] \in Nat /\ p[1] >= bag
      BY <1>6, <3>1
    <3> QED
      BY <1>0, <3>1, <3>2
  <2>2. p[2] \in 1..pos' - 1 /\ At(p) = bags[bag][p[2]]
    BY <1>5, <1>6, <1>9, <2>1 DEF At
  <2>3. At(p).time >= t
    BY <1>12, <2>1 DEF Offered, t
  <2>4. bags[bag][p[2]].time < t /\ bags[bag][p[2]].time \in Nat
    <3>1. p[2] \in 1..pos' - 1 /\ p[2] \in 1..Len(bags[bag])
      BY <1>5, <1>9, <2>2
    <3>2. bags[bag][p[2]].time < t
      BY <1>9, <3>1
    <3>3. bags[bag][p[2]].time \in Nat
      BY <1>10, <3>1
    <3> QED
      BY <3>2, <3>3
  <2>5. bags[bag][p[2]].time >= t
    BY <2>2, <2>3
  <2> QED
    BY <1>11, <2>4, <2>5
<1>14. Places \subseteq Passed' \cup Offered
  <2> SUFFICES ASSUME NEW p \in Places, p \notin Passed' PROVE p \in Offered
    OBVIOUS
  <2>1. CASE p[1] = bag
    <3>1. p[2] >= pos' /\ pos' <= Len(bags[bag]) /\ p[2] \in 1..Len(bags[bag])
      BY <1>1, <1>2, <1>3, <1>5, <1>6, <1>9, <2>1 DEF Passed
    <3>2. bags[bag][pos'].time >= t
      BY <1>5, <1>9, <1>10, <1>11, <3>1
    <3>3. bags[bag][pos'].time <= bags[bag][p[2]].time
      <4>1. IsBag(bags[bag])
        BY <1>0, <1>5, BagsType
      <4> QED
        BY <1>5, <1>9, <1>10, <3>1, <4>1 DEF IsBag
    <3>4. At(p).time >= t
      BY <1>5, <1>9, <1>10, <1>11, <2>1, <3>1, <3>2, <3>3 DEF At
    <3> QED
      BY <2>1, <3>4 DEF Offered, t
  <2>2. CASE p[1] > bag
    <3>1. bag \in 1..p[1] - 1
      BY <1>0, <1>6, <2>2
    <3> QED
      BY <1>5, <3>1 DEF Offered
  <2> QED
    BY <1>0, <1>6, <2>1, <2>2
<1>15. SeekInv'
  BY <1>2, <1>3, <1>14 DEF SeekInv
<1>16. OpeningInv'
  BY <1>1, <1>2, <1>3, <1>13, DataFixed DEF OpeningInv
<1>17. Due' = {}
  BY <1>2, <1>3, <1>13 DEF Due, AtHand
<1>18. InOrder'
  BY <1>1 DEF GivenInv, InOrder, Before
<1>19. GivenInv'
  BY <1>1, <1>3, <1>8, <1>17, <1>18 DEF GivenInv, AtHand, Ends
<1> QED
  BY <1>15, <1>16, <1>19

LEMMA NextPlayback ==
  ASSUME TypeInv, TypeInv', PlaybackInv, ReadNext, UNCHANGED <<inputs, bag, history, ok>>
  PROVE  PlaybackInv'
<1> USE DEF PlaybackInv
<1>0. /\ bags \in Playlists /\ opt \in Settings /\ bag \in Nat \ {0} /\ pos \in Nat \ {0}
      /\ bag_t0 \in Nat
  BY DEF TypeInv, TypeOK
<1>1. UNCHANGED <<delivered, inputs, bags, opt, bag, ok, start_offset>>
  BY DEF history, inputs, ReadNext
<1>2. Places' = Places /\ Offered' = Offered
  BY DataFixed
<1> DEFINE m == bags[bag][pos]
           c == <<bag, pos>>
<1>3. /\ pc = "has_next" /\ pc' \in {"wait", "paused", "throttle"} /\ start_offset = 0
      /\ pos' = pos + 1 /\ bag_t0' = BagStart(m)
      /\ pos <= Len(bags[bag]) /\ bag <= Len(bags)
      /\ pc' = "wait" <=> PastRange(m)
  BY Zenon DEF ReadNext, MayRead, HasNext, TypeInv, Control, Reading, GiveUp
<1>4. /\ Len(bags) \in Nat /\ Len(bags[bag]) \in Nat
      /\ bag \in 1..Len(bags) /\ pos \in 1..Len(bags[bag])
  BY <1>0, <1>3, BagsType
<1>5. m.time \in Nat \ {0}
  BY <1>0, <1>4, BagsType, MessageType
<1>6. /\ c \in Places /\ c \notin Passed /\ c[1] = bag /\ c[2] = pos /\ At(c) = m
  BY <1>0, <1>4, PlaceType DEF Passed, At
<1>7. c \in Offered
  BY <1>3, <1>6 DEF SeekInv
<1>8. Passed' = Passed \cup {c}
  <2>1. \A p \in Places : p = <<p[1], p[2]>> /\ p[1] \in Nat /\ p[2] \in Nat
    BY <1>0, PlaceType, BagsType
  <2>2. pc' # "open" /\ pc # "open"
    BY <1>3
  <2> QED
    BY <1>0, <1>1, <1>2, <1>3, <1>6, <2>1, <2>2 DEF Passed
<1>9. \A p \in Places : p \in Passed <=> Before(p, c)
  <2>1. \A p \in Places : p = <<p[1], p[2]>> /\ p[1] \in Nat /\ p[2] \in Nat
    BY <1>0, PlaceType, BagsType
  <2> QED
    BY <1>0, <1>3, <1>6, <2>1 DEF Passed, Before
<1> HIDE DEF c, m
\* Playback counts from the opening, which this message is when it is the first.
<1>10. BagStart(m) = At(Opening).time
  <2>1. CASE Passed \cap Offered = {}
    <3>1. \A q \in Offered : ~Before(q, c)
      BY <1>9, <2>1, OfferedIsPlace
    <3>2. Opening = c
      BY <1>0, <1>7, <3>1, OpeningIs
    <3> QED
      BY <1>3, <1>6, <2>1, <3>2 DEF OpeningInv, BagStart, Ends
  <2>2. CASE Passed \cap Offered # {}
    <3>1. delivered # <<>>
      <4>1. Range(delivered) = Passed \cap Offered
        BY <1>3 DEF GivenInv, Due, AtHand, Ends
      <4> QED
        BY <2>2, <4>1 DEF Range
    <3>2. Opening \in Range(delivered)
      <4>1. delivered[1] = Opening
        BY <3>1 DEF OpeningInv
      <4>2. 1 \in DOMAIN delivered
        <5>1. delivered \in Seq((Nat \ {0}) \X (Nat \ {0}))
          BY DEF TypeInv, TypeOK
        <5>2. /\ Len(delivered) \in Nat /\ Len(delivered) # 0
              /\ DOMAIN delivered = 1..Len(delivered)
          BY <3>1, <5>1, EmptySeq, LenProperties
        <5> QED
          BY <5>2
      <4> QED
        BY <4>1, <4>2 DEF Range
    <3>3. Opening \in Places
      BY <1>3, <3>2 DEF GivenInv, Due, Passed, Ends, AtHand
    <3>4. At(Opening).time \in Nat \ {0}
      BY <1>0, <3>3, PlaceType, BagsType, MessageType DEF At
    <3>5. bag_t0 = At(Opening).time
      BY <1>3, <2>2 DEF OpeningInv, Ends
    <3> QED
      BY <3>4, <3>5 DEF BagStart
  <2> QED
    BY <2>1, <2>2
<1>11. PastRange(m) <=> OutOfRange(c)
  <2>1. /\ opt.until \in Nat /\ opt.duration \in Nat /\ At(Opening).time \in Nat
    BY <1>0, <1>5, <1>10, SettingType DEF BagStart
  <2> QED
    BY <1>5, <1>6, <1>10, <2>1 DEF PastRange, OutOfRange
<1>12. SeekInv'
  <2>1. start_offset' = 0
    BY <1>1, <1>3
  <2> QED
    BY <1>2, <1>3, <1>8, <2>1 DEF SeekInv
<1>13. CASE pc' = "wait"
  <2>1. Unplayable(c)
    BY <1>3, <1>11, <1>13 DEF Unplayable
  <2>2. pc \notin Ends /\ Due = Passed \cap Offered
    BY <1>3 DEF Ends, Due, AtHand
  <2>3. \A p \in Places : p \in Due \/ p \notin Offered \/ p = c \/ Before(c, p)
    BY <1>0, <1>6, <1>9, <2>2, BeforeIsAnOrder
  <2>4. Range(delivered) = Expected
    BY <1>7, <2>1, <2>2, <2>3, StoppedRight
  <2> QED
    BY <1>1, <1>12, <1>13, <2>2, <2>4, FinalStep DEF Ends
<1>14. CASE pc' \in {"paused", "throttle"}
  <2>1. Current' = c
    BY <1>0, <1>1, <1>3 DEF Current, c
  <2>2. Due' = Due /\ Due = Passed \cap Offered
    BY <1>2, <1>3, <1>6, <1>7, <1>8, <1>14, <2>1 DEF Due, AtHand
  <2>3. OpeningInv'
    <3>1. Passed' \cap Offered' # {} /\ At(Opening)' = At(Opening) /\ Opening' = Opening
      BY <1>2, <1>7, <1>8, DataFixed
    <3> QED
      BY <1>1, <1>3, <1>10, <3>1 DEF OpeningInv
  <2>4. InOrder'
    BY <1>1 DEF GivenInv, InOrder, Before
  <2>5. Range(delivered)' = Due' /\ \A p \in Due' : ~(Unplayable(p)') /\ ~(Closes(p)')
    BY <1>1, <1>3, <2>2, DataFixed DEF GivenInv, Ends
  <2>6. Current' \in Offered' /\ ~(OutOfRange(Current)')
    <3>1. ~OutOfRange(c)
      BY <1>3, <1>11, <1>14
    <3>2. OutOfRange(Current)' <=> OutOfRange(c)
      BY <1>1, <2>1 DEF OutOfRange, At, Opening, Offered, Places
    <3> QED
      BY <1>2, <1>7, <2>1, <3>1, <3>2
  <2>7. GivenInv'
    BY <1>14, <2>4, <2>5, <2>6 DEF GivenInv, Ends
  <2> QED
    BY <1>12, <2>3, <2>7
<1> QED
  BY <1>3, <1>13, <1>14

LEMMA ReadPlayback ==
  ASSUME TypeInv, TypeInv', PlaybackInv, ReadStep, UNCHANGED <<inputs, ok>>
  PROVE  PlaybackInv'
<1>1. UNCHANGED <<bag, history>>
  BY DEF ReadStep
<1>2. CASE Interrupted
  <2>1. /\ pc = "has_next" /\ pc' = "wait" /\ ~ok
        /\ UNCHANGED <<pos, start_offset, bag_t0, real_t0, delivered, bags, opt>>
    BY <1>1, <1>2 DEF Interrupted, HasNext, GiveUp, clocks, history, inputs
  <2>2. Places' = Places /\ Offered' = Offered
    BY DataFixed
  <2>3. Passed' = Passed
    BY <1>1, <2>1, <2>2 DEF Passed
  <2>4. SeekInv'
    BY <1>1, <2>1, <2>2, <2>3 DEF PlaybackInv, SeekInv, Ends
  <2> QED
    BY <2>1, <2>4, FinalStep DEF PlaybackInv, Ends
<1> QED
  BY <1>1, <1>2, SkipPlayback, NextPlayback DEF ReadStep

\* Where the player waits, or stops waiting, nothing is read or given.
LEMMA WaitingPlayback ==
  ASSUME TypeInv, PlaybackInv,
         UNCHANGED <<inputs, bag, pos, start_offset, bag_t0, delivered>>,
         pc \in AtHand \cup {"needs_wait"}, pc' \in Reading,
         pc' \in AtHand <=> pc \in AtHand
  PROVE  PlaybackInv'
<1>1. Places' = Places /\ Offered' = Offered
  BY DataFixed
<1>2. Passed' = Passed /\ Current' = Current
  BY <1>1 DEF Passed, Current, Reading, AtHand
<1>3. start_offset = 0
  <2>1. start_offset \in Nat /\ ~(start_offset > 0)
    BY DEF PlaybackInv, SeekInv, AtHand, Ends, TypeInv, TypeOK
  <2> QED
    BY <2>1
<1>4. SeekInv'
  BY <1>1, <1>2, <1>3 DEF PlaybackInv, SeekInv
<1> QED
  BY <1>2, <1>4, QuietStep DEF PlaybackInv, Reading, AtHand, Ends

\* read_bag gives up with a message at hand.
LEMMA GivingUpPlayback ==
  ASSUME TypeInv, PlaybackInv,
         UNCHANGED <<inputs, bag, pos, start_offset, bag_t0, delivered>>,
         pc \in AtHand, pc' = "wait",
         ok' => Unplayable(Current)
  PROVE  PlaybackInv'
<1>1. Places' = Places /\ Offered' = Offered
  BY DataFixed
<1>2. Passed' = Passed
  BY <1>1 DEF Passed, AtHand
<1>3. start_offset = 0
  <2>1. start_offset \in Nat /\ ~(start_offset > 0)
    BY DEF PlaybackInv, SeekInv, AtHand, Ends, TypeInv, TypeOK
  <2> QED
    BY <2>1
<1>4. SeekInv'
  BY <1>1, <1>2, <1>3 DEF PlaybackInv, SeekInv
<1>5. pc \notin Ends
  BY DEF AtHand, Ends
<1>6. ok' => Range(delivered) = Expected
  <2> SUFFICES ASSUME ok' PROVE Range(delivered) = Expected
    OBVIOUS
  <2>1. Current \in Offered /\ Current \in Passed /\ Unplayable(Current)
    BY CurrentIsLast DEF PlaybackInv, GivenInv
  <2>2. \A p \in Places : p \in Due \/ p \notin Offered \/ p = Current \/ Before(Current, p)
    <3> SUFFICES ASSUME NEW p \in Places, p \in Offered, p # Current, ~Before(Current, p)
                 PROVE  p \in Due
      OBVIOUS
    <3>1. Before(p, Current)
      BY <2>1, BeforeIsAnOrder, OfferedIsPlace DEF TypeInv, TypeOK
    <3>2. p \in Passed
      BY <2>1, <3>1, PassedIsClosed
    <3> QED
      BY <3>2 DEF Due
  <2> QED
    BY <1>5, <2>1, <2>2, StoppedRight DEF PlaybackInv
<1> QED
  BY <1>4, <1>5, <1>6, FinalStep DEF PlaybackInv, Ends

LEMMA PausePlayback ==
  ASSUME TypeInv, PlaybackInv, PauseStep, UNCHANGED <<inputs, ok>>
  PROVE  PlaybackInv'
<1>1. UNCHANGED <<inputs, bag, pos, start_offset, bag_t0, delivered>>
  BY DEF PauseStep, reader, history
<1>2. CASE PauseSleep \/ Resume
  <2>1. pc = "paused" /\ pc' \in {"paused", "throttle"}
    BY <1>2 DEF PauseSleep, Resume
  <2> QED
    BY <1>1, <2>1, WaitingPlayback DEF Reading, AtHand
<1>3. CASE PauseInterrupted
  <2>1. pc = "paused" /\ pc' = "wait" /\ ~ok'
    BY <1>3 DEF PauseInterrupted, GiveUp
  <2> QED
    BY <1>1, <2>1, GivingUpPlayback DEF AtHand
<1> QED
  BY <1>2, <1>3 DEF PauseStep

LEMMA DeliverPlayback ==
  ASSUME TypeInv, TypeInv', PlaybackInv, Deliver,
         UNCHANGED <<inputs, ok, reader, msg, clocks, pause_start>>
  PROVE  PlaybackInv'
<1> USE DEF PlaybackInv
<1>0. /\ bags \in Playlists /\ opt \in Settings
      /\ delivered \in Seq((Nat \ {0}) \X (Nat \ {0}))
  BY DEF TypeInv, TypeOK
<1>1. /\ UNCHANGED <<bags, opt, bag, pos, start_offset, bag_t0, real_t0>>
      /\ pc = "dispatch" /\ pc \in AtHand /\ pc \notin Ends
      /\ delivered' = Append(delivered, Current)
      /\ pc' = IF PastEnd(msg[1]) THEN "wait" ELSE "needs_wait"
      /\ msg[1].topic = "ext" \/ msg[1].typed
  BY DEF Deliver, GiveUp, reader, clocks, inputs, Current, AtHand, Ends
<1>2. Places' = Places /\ Offered' = Offered /\ Opening' = Opening /\ Expected' = Expected
  BY DataFixed
<1>3. Passed' = Passed
  BY <1>1, <1>2 DEF Passed
<1>4. /\ Current \in Passed /\ Current \in Offered /\ Current \notin Due
      /\ At(Current) = msg[1]
      /\ Due = (Passed \cap Offered) \ {Current}
  BY <1>1, CurrentIsLast DEF GivenInv, Due
<1>5. ~Unplayable(Current)
  BY <1>1, <1>4 DEF GivenInv, Unplayable
<1>6. Closes(Current) <=> PastEnd(msg[1])
  BY <1>4 DEF Closes, PastEnd
<1>7. \A p \in Due : Before(p, Current)
  BY <1>1, <1>4, CurrentIsLast DEF Due
<1>8. SeekInv'
  <2>1. start_offset = 0
    <3>1. start_offset \in Nat /\ ~(start_offset > 0)
      BY <1>1 DEF SeekInv, AtHand, Ends, TypeInv, TypeOK
    <3> QED
      BY <3>1
  <2> QED
    BY <1>1, <1>2, <1>3, <2>1 DEF SeekInv
\* What is given now.
<1> DEFINE n == Len(delivered)
<1>9. /\ n \in Nat /\ DOMAIN delivered = 1..n /\ DOMAIN delivered' = 1..n + 1
      /\ delivered'[n + 1] = Current
      /\ \A i \in 1..n : delivered'[i] = delivered[i]
  BY <1>0, <1>1, LenProperties, AppendProperties DEF Current, TypeInv, TypeOK, Control
<1> HIDE DEF n
<1>10. Range(delivered) = Due
  BY <1>1 DEF GivenInv
<1>11. Range(delivered') = Due \cup {Current}
  <2>1. ASSUME NEW x \in Range(delivered') PROVE x \in Due \cup {Current}
    BY <1>9, <1>10 DEF Range
  <2>2. ASSUME NEW x \in Due \cup {Current} PROVE x \in Range(delivered')
    <3>1. CASE x = Current
      BY <1>9, <3>1 DEF Range
    <3>2. CASE x \in Due
      <4>1. PICK i \in DOMAIN delivered : x = delivered[i]
        BY <1>10, <3>2 DEF Range
      <4>2. i \in DOMAIN delivered' /\ delivered'[i] = x
        BY <1>9, <4>1
      <4> QED
        BY <4>2 DEF Range
    <3> QED
      BY <2>2, <3>1, <3>2
  <2> QED
    BY <2>1, <2>2
<1>12. InOrder'
  <2> SUFFICES ASSUME NEW i \in 1..n + 1, NEW j \in 1..n + 1, i < j
               PROVE  Before(delivered'[i], delivered'[j])
    BY <1>9 DEF InOrder, Before
  <2>1. i \in 1..n /\ delivered'[i] = delivered[i]
    BY <1>9
  <2>2. CASE j \in 1..n
    BY <1>9, <2>1, <2>2 DEF GivenInv, InOrder
  <2>3. CASE j = n + 1
    <3>1. delivered[i] \in Due
      BY <1>9, <1>10, <2>1 DEF Range
    <3> QED
      BY <1>7, <1>9, <2>1, <2>3, <3>1
  <2> QED
    BY <1>9, <2>2, <2>3
<1>13. OpeningInv'
  <2>1. delivered'[1] = Opening
    <3>1. CASE delivered # <<>>
      <4>1. n >= 1
        BY <1>0, <1>9, <3>1, EmptySeq DEF n
      <4> QED
        BY <1>9, <3>1, <4>1 DEF OpeningInv
    <3>2. CASE delivered = <<>>
      <4>1. n = 0 /\ delivered'[1] = Current
        BY <1>9, <3>2, EmptySeq DEF n
      <4>2. Due = {}
        BY <1>9, <1>10, <4>1 DEF Range
      <4>3. \A q \in Offered : ~Before(q, Current)
        <5> SUFFICES ASSUME NEW q \in Offered, Before(q, Current) PROVE FALSE
          OBVIOUS
        <5>1. q \in Passed
          BY <1>4, OfferedIsPlace, PassedIsClosed
        <5>2. q = Current
          BY <1>4, <4>2, <5>1
        <5> QED
          BY <1>0, <1>4, <5>2, BeforeIsAnOrder, OfferedIsPlace
      <4> QED
        BY <1>0, <1>4, <4>1, <4>3, OpeningIs
    <3> QED
      BY <3>1, <3>2
  <2>2. At(Opening)' = At(Opening)
    BY DataFixed
  <2> QED
    BY <1>1, <1>2, <1>3, <2>1, <2>2 DEF OpeningInv
<1>14. CASE ~PastEnd(msg[1])
  <2>1. pc' = "needs_wait"
    BY <1>1, <1>14
  <2>2. Due' = Passed \cap Offered /\ Due' = Due \cup {Current}
    BY <1>2, <1>3, <1>4, <2>1 DEF Due, AtHand
  <2>3. \A p \in Due \cup {Current} : ~Unplayable(p) /\ ~Closes(p)
    BY <1>1, <1>5, <1>6, <1>14 DEF GivenInv
  <2>4. \A p \in Due' : ~(Unplayable(p)') /\ ~(Closes(p)')
    BY <2>2, <2>3, DataFixed
  <2>5. GivenInv'
    BY <1>11, <1>12, <2>1, <2>2, <2>4 DEF GivenInv, AtHand, Ends
  <2> QED
    BY <1>8, <1>13, <2>5
<1>15. CASE PastEnd(msg[1])
  <2>1. pc' = "wait"
    BY <1>1, <1>15
  <2>2. Due \subseteq Expected /\ \A p \in Due : ~Unplayable(p) /\ ~Closes(p)
    BY <1>1, <1>10, GivenSoFar DEF GivenInv
  <2>3. Current \in Expected
    <3>1. ASSUME NEW q \in Offered, Before(q, Current) PROVE ~Unplayable(q) /\ ~Closes(q)
      <4>1. q \in Passed
        BY <1>4, <3>1, OfferedIsPlace, PassedIsClosed
      <4>2. q # Current
        BY <1>0, <1>4, <3>1, BeforeIsAnOrder, OfferedIsPlace
      <4> QED
        BY <1>4, <2>2, <4>1, <4>2
    <3> QED
      BY <1>4, <1>5, <3>1 DEF Expected
  <2>4. Expected \subseteq Due \cup {Current}
    <3> SUFFICES ASSUME NEW p \in Expected, p # Current PROVE p \in Due
      OBVIOUS
    <3>1. p \in Offered /\ ~Before(Current, p)
      BY <1>4, <1>6, <1>15 DEF Expected
    <3>2. Before(p, Current)
      BY <1>0, <1>4, <3>1, BeforeIsAnOrder, OfferedIsPlace
    <3>3. p \in Passed
      BY <1>4, <3>1, <3>2, OfferedIsPlace, PassedIsClosed
    <3> QED
      BY <1>4, <3>1, <3>3
  <2>5. Range(delivered') = Expected
    BY <1>11, <2>2, <2>3, <2>4
  <2>6. PlaybackIsExact'
    <3>1. Range(delivered)' = Expected'
      BY <1>2, <2>5
    <3> QED
      BY <1>12, <3>1 DEF PlaybackIsExact, InOrder, Before
  <2>7. GivenInv'
    BY <1>12, <2>1, <2>6 DEF GivenInv, AtHand, Ends
  <2> QED
    BY <1>8, <1>13, <2>7
<1> QED
  BY <1>14, <1>15

LEMMA MessagePlayback ==
  ASSUME TypeInv, TypeInv', PlaybackInv, MessageStep, UNCHANGED <<inputs, ok>>
  PROVE  PlaybackInv'
<1>1. UNCHANGED <<reader, msg, clocks, pause_start>>
  BY DEF MessageStep
<1>2. UNCHANGED <<inputs, bag, pos, start_offset, bag_t0>>
  BY <1>1 DEF reader, clocks
<1>3. CASE ThrottleSleep \/ ThrottleEnds \/ ExtensionBusy \/ ExtensionReady
  <2>1. delivered' = delivered
    BY <1>3 DEF ThrottleSleep, ThrottleEnds, ExtensionBusy, ExtensionReady, history
  <2>2. /\ pc \in AtHand \cup {"needs_wait"} /\ pc' \in Reading
        /\ pc' \in AtHand <=> pc \in AtHand
    BY <1>3 DEF ThrottleSleep, ThrottleEnds, ExtensionBusy, ExtensionReady, AtHand, Reading
  <2> QED
    BY <1>2, <2>1, <2>2, WaitingPlayback
<1>4. CASE TypeMismatch
  <2>1. /\ pc \in AtHand /\ pc' = "wait" /\ delivered' = delivered
        /\ msg[1].topic # "ext" /\ ~msg[1].typed
    BY <1>4 DEF TypeMismatch, GiveUp, AtHand, history
  <2>2. Unplayable(Current)
    BY <2>1, CurrentIsLast DEF Unplayable
  <2> QED
    BY <1>2, <2>1, <2>2, GivingUpPlayback
<1>5. CASE Deliver
  BY <1>1, <1>5, DeliverPlayback
<1> QED
  BY <1>3, <1>4, <1>5 DEF MessageStep

\* Steps that leave the player where it is, rclcpp going down among them.
LEMMA StandingPlayback ==
  ASSUME PlaybackInv, ok' => ok,
         UNCHANGED <<inputs, bag, pos, msg, start_offset, bag_t0, real_t0, pc, delivered>>
  PROVE  PlaybackInv'
<1>1. Passed' = Passed /\ Current' = Current /\ Due' = Due
  BY DataFixed DEF Passed, Current, Due
<1>2. SeekInv' /\ OpeningInv'
  BY <1>1, DataFixed DEF PlaybackInv, SeekInv, OpeningInv, inputs
<1>3. InOrder'
  BY DEF PlaybackInv, GivenInv, InOrder, Before
<1>4. PlaybackIsExact => PlaybackIsExact'
  BY DataFixed DEF PlaybackIsExact, Before
<1>5. OutOfRange(Current)' <=> OutOfRange(Current)
  BY <1>1 DEF OutOfRange, At, inputs, Opening, Offered, Places
<1>6. \A p \in Due : (Unplayable(p)' <=> Unplayable(p)) /\ (Closes(p)' <=> Closes(p))
  BY DataFixed
<1>7. GivenInv'
  BY <1>1, <1>3, <1>4, <1>5, <1>6, DataFixed DEF PlaybackInv, GivenInv
<1> QED
  BY <1>2, <1>7 DEF PlaybackInv

LEMMA InitPlayback == Init => PlaybackInv
<1> SUFFICES ASSUME Init PROVE PlaybackInv
  OBVIOUS
<1>1. /\ bags \in Playlists /\ opt \in Settings /\ pc = "open" /\ bag = 1
      /\ start_offset = opt.start_offset /\ bag_t0 = 0 /\ real_t0 = 0 /\ delivered = <<>>
  BY DEF Init
<1>2. \A p \in Places : /\ p[1] \in 1..Len(bags) /\ p[2] \in 1..Len(bags[p[1]])
                        /\ p[1] \in Nat /\ p[1] >= 1 /\ p[2] \in Nat
  BY <1>1, PlaceType, BagsType
<1>3. Passed = {}
  BY <1>1, <1>2 DEF Passed
<1>4. ASSUME start_offset = 0, NEW p \in Places PROVE p \in Offered
  <2>1. bags[p[1]][1].time <= bags[p[1]][p[2]].time
    <3>1. IsBag(bags[p[1]]) /\ Len(bags[p[1]]) \in Nat
      BY <1>1, <1>2, BagsType
    <3>2. \A i \in 1..Len(bags[p[1]]) : bags[p[1]][i].time \in Nat
      BY <1>1, <1>2, BagsType, MessageType
    <3>3. 1 \in 1..Len(bags[p[1]]) /\ p[2] \in 1..Len(bags[p[1]])
      BY <1>2, <3>1
    <3> QED
      BY <3>1, <3>2, <3>3 DEF IsBag
  <2>2. /\ bags[p[1]][1].time \in Nat /\ bags[p[1]][p[2]].time \in Nat
    <3>1. \A i \in 1..Len(bags[p[1]]) : bags[p[1]][i].time \in Nat
      BY <1>1, <1>2, BagsType, MessageType
    <3>2. 1 \in 1..Len(bags[p[1]]) /\ p[2] \in 1..Len(bags[p[1]])
      BY <1>1, <1>2, BagsType
    <3> QED
      BY <3>1, <3>2
  <2>3. bags[p[1]][1].time + 0 <= bags[p[1]][p[2]].time
    BY <2>1, <2>2
  <2> QED
    BY <1>1, <1>4, <2>2, <2>3 DEF Offered, At
<1>5. SeekInv
  BY <1>1, <1>3, <1>4, BagsType DEF SeekInv
<1>6. OpeningInv
  BY <1>1, <1>3 DEF OpeningInv
<1>7. Range(delivered) = {} /\ InOrder
  BY <1>1 DEF Range, InOrder
<1>8. GivenInv
  BY <1>1, <1>3, <1>7 DEF GivenInv, Due, AtHand, Ends
<1> QED
  BY <1>5, <1>6, <1>8 DEF PlaybackInv

LEMMA PlaybackStep == TypeInv /\ TypeInv' /\ PlaybackInv /\ [Next]_vars => PlaybackInv'
<1> SUFFICES ASSUME TypeInv, TypeInv', PlaybackInv, [Next]_vars PROVE PlaybackInv'
  OBVIOUS
<1>1. CASE Shutdown
  BY <1>1, StandingPlayback DEF Shutdown, reader, clocks, history
<1>2. CASE PlayerStep
  BY <1>2, BagPlayback, ReadPlayback, PausePlayback, MessagePlayback DEF PlayerStep
<1>3. CASE UNCHANGED vars
  BY <1>3, StandingPlayback DEF vars, reader, clocks, history
<1> QED
  BY <1>1, <1>2, <1>3 DEF Next, Terminated

\* Whatever the bags and the settings are, however the player is paused, slowed or
\* interrupted, the callbacks get exactly the messages asked for, in order.
THEOREM ExactPlayback == Spec => []PlaybackIsExact
<1>1. TypeInv /\ PlaybackInv => PlaybackIsExact
  <2> SUFFICES ASSUME TypeInv, PlaybackInv, pc \notin Ends PROVE PlaybackIsExact
    BY DEF PlaybackInv, GivenInv
  <2>1. pc \notin {"spin", "wait"}
    BY DEF Ends
  <2> QED
    BY <2>1, GivenSoFar DEF PlaybackInv, GivenInv, InOrder, PlaybackIsExact
<1> QED
  BY <1>1, InitType, TypeStep, InitPlayback, PlaybackStep, PTL DEF Spec

-----------------------------------------------------------------------------
(* The clocks. *)

LEMMA InitClock == Init => ClockInv
BY DEF Init, ClockInv

\* Steps that change no clock and lead from nowhere new into the loops.
LEMMA StandingClock ==
  ASSUME ClockInv, UNCHANGED <<now, played, real_t0, bag_t0, pause_start, msg>>,
         pc' = pc \/ pc' \in {"open", "has_next"} \cup Ends,
         pc' \in Ends \/ pc \notin {"paused"} \cup Ends \/ pc' = pc
  PROVE  ClockInv'
BY DEF ClockInv, Ends

LEMMA ClockStep == TypeInv /\ PlaybackInv /\ ClockInv /\ [Next]_vars => ClockInv'
<1> SUFFICES ASSUME TypeInv, PlaybackInv, ClockInv, [Next]_vars PROVE ClockInv'
  OBVIOUS
<1>0. /\ now \in Nat /\ played \in Nat /\ real_t0 \in Nat /\ bag_t0 \in Nat
      /\ pause_start \in Nat /\ Speed \in Nat /\ (pc = "paused" => pause_start <= now)
  BY TimeAssumption DEF TypeInv, TypeOK, PauseBegan
<1>1. CASE Shutdown
  BY <1>1, StandingClock DEF Shutdown, clocks, time
<1>2. CASE PlayerStep
  <2>1. CASE BagStep
    <3>1. UNCHANGED <<now, played, real_t0, bag_t0, pause_start, msg>>
      BY <2>1 DEF BagStep, clocks, time
    <3>2. /\ pc' = pc \/ pc' \in {"open", "has_next"} \cup Ends
          /\ pc' \in Ends \/ pc \notin {"paused"} \cup Ends
      BY <2>1 DEF BagStep, OpenBag, BagEnds, BagsRead, SpinReturns, SpinThrows, Ends
    <3> QED
      BY <3>1, <3>2, StandingClock
  <2>2. CASE ReadStep
    <3>1. UNCHANGED <<now, played>>
      BY <2>2 DEF ReadStep, time
    <3>2. CASE Interrupted
      BY <3>1, <3>2, StandingClock DEF Interrupted, GiveUp, clocks, Ends
    <3>3. CASE SkipOffset
      <4>1. /\ start_offset > 0 /\ real_t0' = 0 /\ pc = "has_next" /\ pc' = "has_next"
        BY <3>3 DEF SkipOffset, SeekResets, MayRead, HasNext
      <4>2. played = 0
        BY <4>1 DEF PlaybackInv, SeekInv, ClockInv
      <4> QED
        BY <3>1, <4>1, <4>2 DEF ClockInv, Ends
    <3>4. CASE ReadNext
      <4>1. /\ pc = "has_next" /\ real_t0' = RealStart
            /\ pc' \in {"wait", "paused", "throttle"}
            /\ pc' = "paused" => pause_start' = now
        BY <3>4 DEF ReadNext, MayRead, HasNext, GiveUp
      <4>2. now >= 1 /\ real_t0' > 0 /\ now - real_t0' = played
        BY <1>0, <4>1 DEF RealStart, ClockInv, Ends
      <4> QED
        BY <1>0, <3>1, <4>1, <4>2 DEF ClockInv, Ends
    <3> QED
      BY <2>2, <3>2, <3>3, <3>4 DEF ReadStep
  <2>3. CASE PauseStep
    <3>1. UNCHANGED <<played, bag_t0, pause_start, msg>> /\ pc = "paused"
      BY <2>3 DEF PauseStep, PauseSleep, Resume, PauseInterrupted
    <3>2. now >= 1 /\ real_t0 > 0 /\ pause_start - real_t0 = played
      BY <1>0, <3>1 DEF ClockInv, Ends
    <3>3. CASE PauseSleep
      BY <1>0, <3>1, <3>2, <3>3 DEF PauseSleep, ClockInv, Ends
    <3>4. CASE Resume
      <4>1. pc' = "throttle" /\ now' = now /\ real_t0' = real_t0 + (now - pause_start)
        BY <3>4 DEF Resume, AfterPause
      <4> QED
        BY <1>0, <3>1, <3>2, <4>1 DEF ClockInv, Ends
    <3>5. CASE PauseInterrupted
      BY <3>1, <3>2, <3>5, StandingClock DEF PauseInterrupted, GiveUp, Ends
    <3> QED
      BY <2>3, <3>3, <3>4, <3>5 DEF PauseStep
  <2>4. CASE MessageStep
    <3>1. UNCHANGED <<real_t0, bag_t0, pause_start, msg>>
      BY <2>4 DEF MessageStep, clocks
    <3>2. CASE ThrottleEnds
      <4>1. pc = "throttle" /\ pc' = "dispatch" /\ UNCHANGED <<now, played>> /\ ~TooEarly
        BY <3>2 DEF ThrottleEnds, time
      <4>2. msg[1].time \in Nat /\ (now - real_t0) * Speed \in Int
        <5>1. At(Current) = msg[1] /\ Current \in Places /\ bags \in Playlists
          BY <4>1, CurrentIsLast DEF AtHand, Passed, TypeInv, TypeOK
        <5>2. msg[1].time \in Nat
          BY <5>1, PlaceType, BagsType, MessageType DEF At
        <5>3. \A a, b \in Int : a * b \in Int
          OBVIOUS
        <5>4. now - real_t0 \in Int /\ Speed \in Int
          BY <1>0, TimeAssumption
        <5> QED
          BY <5>2, <5>3, <5>4
      <4>3. Speed > 0 => msg[1].time <= bag_t0 + (now - real_t0) * Speed
        BY <1>0, <4>1, <4>2 DEF TooEarly
      <4> QED
        BY <3>1, <4>1, <4>3 DEF ClockInv, Ends
    <3>3. CASE TypeMismatch
      BY <3>1, <3>3, StandingClock DEF TypeMismatch, GiveUp, time, Ends
    <3>4. CASE ExtensionReady
      BY <3>1, <3>4, StandingClock DEF ExtensionReady, time, Ends
    <3>5. CASE ThrottleSleep \/ Deliver \/ ExtensionBusy
      <4>1. /\ pc \in {"throttle", "dispatch", "needs_wait"}
            /\ pc' \in {"throttle", "needs_wait", "has_next", "wait"}
            /\ \E d \in {0, 1} : now' = now + d /\ played' = played + d
        <5>1. CASE ThrottleSleep
          BY <5>1 DEF ThrottleSleep
        <5>2. CASE Deliver
          BY <1>0, <5>2 DEF Deliver, GiveUp, time
        <5>3. CASE ExtensionBusy
          BY <5>3 DEF ExtensionBusy
        <5> QED
          BY <3>5, <5>1, <5>2, <5>3
      <4> QED
        BY <1>0, <3>1, <4>1 DEF ClockInv, Ends
    <3> QED
      BY <2>4, <3>2, <3>3, <3>4, <3>5 DEF MessageStep
  <2> QED
    BY <1>2, <2>1, <2>2, <2>3, <2>4 DEF PlayerStep
<1>3. CASE UNCHANGED vars
  BY <1>3, StandingClock DEF vars, clocks, time
<1> QED
  BY <1>1, <1>2, <1>3 DEF Next, Terminated

\* A message is given when its time has come, counted from the opening.
LEMMA OnTime ==
  ASSUME TypeInv, TypeInv', PlaybackInv, PlaybackInv', ClockInv, [Next]_vars,
         delivered' # delivered, Speed > 0
  PROVE  msg[1].time <= At(delivered'[1]).time + played * Speed
<1>1. Deliver /\ UNCHANGED <<inputs, ok, reader, msg, clocks, pause_start>>
  <2>1. PlayerStep
    BY DEF Next, Shutdown, Terminated, vars, history
  <2>2. CASE BagStep
    BY <2>2 DEF BagStep, history
  <2>3. CASE ReadStep
    BY <2>3 DEF ReadStep, history
  <2>4. CASE PauseStep
    BY <2>4 DEF PauseStep, history
  <2>5. CASE MessageStep
    BY <2>1, <2>5 DEF PlayerStep, MessageStep, ThrottleSleep, ThrottleEnds, TypeMismatch,
                      ExtensionBusy, ExtensionReady, history
  <2> QED
    BY <2>1, <2>2, <2>3, <2>4, <2>5 DEF PlayerStep
<1>2. pc = "dispatch" /\ delivered' = Append(delivered, Current)
  BY <1>1 DEF Deliver, Current
<1>3. now - real_t0 = played /\ msg[1].time <= bag_t0 + (now - real_t0) * Speed
  <2>1. real_t0 \in Nat
    BY DEF TypeInv, TypeOK
  <2> QED
    BY <1>2, <2>1 DEF ClockInv, Ends
<1>4. bag_t0 = At(Opening).time
  <2>1. Current \in Passed \cap Offered
    BY <1>2, CurrentIsLast DEF PlaybackInv, GivenInv, AtHand
  <2> QED
    BY <1>2, <2>1 DEF PlaybackInv, OpeningInv, Ends
<1>5. delivered'[1] = Opening
  <2>1. delivered' # <<>>
    <3>1. /\ delivered \in Seq((Nat \ {0}) \X (Nat \ {0}))
          /\ Current \in (Nat \ {0}) \X (Nat \ {0})
      BY <1>2 DEF TypeInv, TypeOK, Current, Control, AtHand
    <3>2. Len(delivered') = Len(delivered) + 1 /\ Len(delivered) \in Nat
      BY <1>2, <3>1, AppendProperties, LenProperties
    <3> QED
      BY <3>2, EmptySeq
  <2> QED
    BY <1>1, <2>1, DataFixed DEF PlaybackInv, OpeningInv
<1> QED
  BY <1>3, <1>4, <1>5

\* However often the user pauses, whatever the callbacks and the extensions take, and
\* at any speed, no message is played before its time.
THEOREM NeverTooEarly == Spec => NoFastForward
<1>1. TypeInv /\ TypeInv' /\ PlaybackInv /\ PlaybackInv' /\ ClockInv /\ [Next]_vars =>
        [delivered' # delivered /\ Speed > 0 =>
           msg[1].time <= At(delivered'[1]).time + played * Speed]_vars
  BY OnTime
<1> QED
  BY <1>1, InitType, TypeStep, InitPlayback, PlaybackStep, InitClock, ClockStep, PTL
     DEF Spec, NoFastForward
-----------------------------------------------------------------------------
(* Progress. *)

LEMMA SeekAdvances ==
  ASSUME TypeInv, PlaybackInv, SkipOffset PROVE pos' > pos /\ pc' = "has_next"
<1>0. bags \in Playlists
  BY DEF TypeInv, TypeOK
<1>1. /\ bag \in 1..Len(bags) /\ pos = 1 /\ bag_t0 = 0
      /\ Len(bags[bag]) \in Nat /\ Len(bags[bag]) >= 1
  BY SeekStarts
<1>2. /\ pc' = "has_next" /\ start_offset > 0 /\ pos' \in 1..Len(bags[bag]) + 1
      /\ pos' <= Len(bags[bag]) =>
           ~(bags[bag][pos'].time < bags[bag][1].time + start_offset)
  BY <1>1 DEF SkipOffset, MayRead, HasNext, BagStart
<1>3. bags[bag][1].time \in Nat /\ start_offset \in Nat
  BY <1>0, <1>1, BagsType, MessageType DEF TypeInv, TypeOK
<1>4. pos' # 1
  BY <1>1, <1>2, <1>3
<1> QED
  BY <1>1, <1>2, <1>4

\* A sleep uses up some of the time it may take.
LEMMA SleepAdvances ==
  ASSUME TypeInv, UNCHANGED pc,
         \/ PauseSleep /\ UNCHANGED pause_start
         \/ ThrottleSleep /\ UNCHANGED <<msg, bag_t0, real_t0>>
         \/ ExtensionBusy
  PROVE  SleepLeft > 0 /\ SleepLeft' < SleepLeft
<1>1. /\ now \in Nat /\ pause_start \in Nat /\ wait_t0 \in Nat
      /\ bag_t0 \in Nat /\ real_t0 \in Nat
      /\ MaxPause \in Nat /\ Timeout \in Nat /\ Speed \in Nat
  BY TimeAssumption DEF TypeInv, TypeOK
<1>2. CASE PauseSleep /\ UNCHANGED pause_start
  <2>1. /\ pc = "paused" /\ pc' = "paused" /\ now < pause_start + MaxPause
        /\ now' = now + 1 /\ pause_start' = pause_start
    BY <1>2 DEF PauseSleep
  <2>2. /\ SleepLeft = pause_start + MaxPause - now
        /\ SleepLeft' = pause_start' + MaxPause - now'
    BY <2>1 DEF SleepLeft
  <2> QED
    BY <1>1, <2>1, <2>2
<1>3. CASE ThrottleSleep /\ UNCHANGED <<msg, bag_t0, real_t0>>
  <2>1. /\ pc = "throttle" /\ pc' = "throttle" /\ now' = now + 1
        /\ Speed > 0 /\ (now - real_t0) * Speed + bag_t0 < msg[1].time
        /\ msg' = msg /\ bag_t0' = bag_t0 /\ real_t0' = real_t0
    BY <1>3 DEF ThrottleSleep, TooEarly
  <2> DEFINE elapsed == (now - real_t0) * Speed
  <2>2. msg[1].time \in Int
    <3>1. bags \in Playlists /\ bag \in 1..Len(bags) /\ pos - 1 \in 1..Len(bags[bag])
          /\ msg = <<bags[bag][pos - 1]>>
      BY <2>1, BagsType DEF TypeInv, TypeOK, Control, AtHand, Reading
    <3> QED
      BY <3>1, BagsType, MessageType
  <2>3. elapsed \in Int /\ (now + 1 - real_t0) * Speed = elapsed + Speed
    <3>1. \A a, b \in Int : a * b \in Int /\ (a + 1) * b = a * b + b
      OBVIOUS
    <3>2. now + 1 - real_t0 = (now - real_t0) + 1 /\ now - real_t0 \in Int
      BY <1>1
    <3> QED
      BY <1>1, <3>1, <3>2
  <2>4. SleepLeft = msg[1].time - (bag_t0 + elapsed)
    BY <2>1 DEF SleepLeft
  <2>5. SleepLeft' = msg[1].time - (bag_t0 + (now + 1 - real_t0) * Speed)
    <3>1. SleepLeft' = msg'[1].time - (bag_t0' + (now' - real_t0') * Speed)
      BY <2>1 DEF SleepLeft
    <3>2. msg'[1].time = msg[1].time /\ bag_t0' = bag_t0
      BY <2>1
    <3>3. now' - real_t0' = now + 1 - real_t0
      BY <1>1, <2>1
    <3> QED
      BY <3>1, <3>2, <3>3
  <2>6. elapsed + bag_t0 < msg[1].time
    BY <2>1
  <2> HIDE DEF elapsed
  <2> QED
    BY <1>1, <2>1, <2>2, <2>3, <2>4, <2>5, <2>6
<1>4. CASE ExtensionBusy
  <2>1. /\ pc = "needs_wait" /\ pc' = "needs_wait" /\ now' = now + 1
        /\ wait_t0' = wait_t0 /\ ~(now + 1 - wait_t0 > Timeout)
    BY <1>4 DEF ExtensionBusy
  <2>2. /\ SleepLeft = wait_t0 + Timeout - now
        /\ SleepLeft' = wait_t0' + Timeout - now'
    BY <2>1 DEF SleepLeft
  <2> QED
    BY <1>1, <2>1, <2>2
<1> QED
  BY <1>2, <1>3, <1>4

\* No step of the player goes back or round: a bag, a message, a stage of its way or a
\* tick of a bounded sleep is behind it with every step.
THEOREM PlaybackGoesOn == Spec => PlaybackAdvances
<1> DEFINE Advances ==
      \/ bag' > bag
      \/ bag' = bag /\ pc = "open" /\ pc' # "open"
      \/ bag' = bag /\ pos' > pos /\ pc' # "open"
      \/ UNCHANGED reader /\ Stage[pc'] > Stage[pc]
      \/ UNCHANGED <<reader, pc>> /\ SleepLeft > 0 /\ SleepLeft' < SleepLeft
<1>1. ASSUME TypeInv, PlaybackInv, PlayerStep PROVE Advances
  <2>0. bag \in Nat /\ pos \in Nat
    BY <1>1 DEF TypeInv, TypeOK
  <2>1. CASE BagStep
    <3>1. CASE OpenBag
      BY <3>1 DEF OpenBag
    <3>2. CASE BagEnds
      BY <2>0, <3>2 DEF BagEnds
    <3>3. CASE BagsRead \/ SpinReturns \/ SpinThrows
      BY <3>3 DEF BagsRead, SpinReturns, SpinThrows, Stage
    <3> QED
      BY <2>1, <3>1, <3>2, <3>3 DEF BagStep
  <2>2. CASE ReadStep
    <3>1. UNCHANGED bag
      BY <2>2 DEF ReadStep
    <3>2. CASE Interrupted
      BY <3>1, <3>2 DEF Interrupted, HasNext, GiveUp, reader, Stage
    <3>3. CASE SkipOffset
      BY <1>1, <3>1, <3>3, SeekAdvances
    <3>4. CASE ReadNext
      <4>1. pos' = pos + 1 /\ pc' \in {"wait", "paused", "throttle"}
        BY <3>4, Zenon DEF ReadNext, GiveUp
      <4> QED
        BY <2>0, <3>1, <4>1
    <3> QED
      BY <2>2, <3>2, <3>3, <3>4 DEF ReadStep
  <2>3. CASE PauseStep
    <3>1. UNCHANGED <<reader, pause_start>>
      BY <2>3 DEF PauseStep
    <3>2. CASE PauseSleep
      <4>1. UNCHANGED pc
        BY <3>2 DEF PauseSleep
      <4> QED
        BY <1>1, <3>1, <3>2, <4>1, SleepAdvances
    <3>3. CASE Resume \/ PauseInterrupted
      <4>1. pc = "paused" /\ pc' \in {"throttle", "wait"}
        BY <3>3 DEF Resume, PauseInterrupted, GiveUp
      <4> QED
        BY <3>1, <4>1 DEF Stage
    <3> QED
      BY <2>3, <3>2, <3>3 DEF PauseStep
  <2>4. CASE MessageStep
    <3>1. UNCHANGED <<reader, msg, bag_t0, real_t0>>
      BY <2>4 DEF MessageStep, clocks
    <3>2. CASE ThrottleSleep
      <4>1. UNCHANGED pc
        BY <3>2 DEF ThrottleSleep
      <4> QED
        BY <1>1, <3>1, <3>2, <4>1, SleepAdvances
    <3>3. CASE ExtensionBusy /\ UNCHANGED pc
      BY <1>1, <3>1, <3>3, SleepAdvances
    <3>4. CASE ExtensionBusy /\ ~UNCHANGED pc
      BY <3>1, <3>4 DEF ExtensionBusy, Stage
    <3>5. CASE ThrottleEnds \/ TypeMismatch \/ ExtensionReady
      BY <3>1, <3>5 DEF ThrottleEnds, TypeMismatch, GiveUp, ExtensionReady, Stage
    <3>6. CASE Deliver
      <4>1. pc = "dispatch" /\ pc' \in {"wait", "needs_wait"}
        BY <3>6 DEF Deliver, GiveUp
      <4> QED
        BY <3>1, <4>1 DEF Stage
    <3> QED
      BY <2>4, <3>2, <3>3, <3>4, <3>5, <3>6 DEF MessageStep
  <2> QED
    BY <1>1, <2>1, <2>2, <2>3, <2>4 DEF PlayerStep
<1>2. ASSUME Shutdown, TypeInv PROVE ~UNCHANGED ok
  BY <1>2 DEF Shutdown
<1>3. TypeInv /\ PlaybackInv /\ [Next]_vars => [UNCHANGED ok => Advances]_vars
  BY <1>1, <1>2 DEF Next, Terminated
<1> QED
  BY <1>3, InitType, TypeStep, InitPlayback, PlaybackStep, PTL DEF Spec, PlaybackAdvances
=============================================================================
