------------------------ MODULE RosbagSessionProofs ------------------------
(***************************************************************************)
(* Theorems about RosbagSession, for any bags, settings, speed, unusable   *)
(* clouds and interleaving of the threads.  The composition implements     *)
(* each of its two components, so that what GlimRosProofs and              *)
(* RosbagPlayerProofs prove of them separately holds of them together;     *)
(* what is left to prove is how the player hands over to the node.         *)
(***************************************************************************)
EXTENDS RosbagSession, FiniteSetTheorems, SequenceTheorems, TLAPS

\* The components with what is proved of them.
ProvedNode == INSTANCE GlimRosRefinement WITH Mains <- {"rosbag"}

ProvedPlayer ==
  INSTANCE RosbagPlayerProofs WITH pc <- p_pc, auto_quit <- p_auto_quit

-----------------------------------------------------------------------------
(* ProvedNode and Node are two instances of GlimRos, ProvedPlayer and      *)
(* Player two of RosbagPlayer.  Their definitions have the same bodies, to *)
(* the prover under different names: equal once they are all expanded.     *)

LEMMA SameData ==
  /\ ProvedPlayer!Message = Player!Message
  /\ ProvedPlayer!Setting = Player!Setting
  /\ \A b : ProvedPlayer!IsBag(b) <=> Player!IsBag(b)
BY DEF Player!Message, Player!Setting, Player!IsBag,
       ProvedPlayer!Message, ProvedPlayer!Setting, ProvedPlayer!IsBag

\* What RosbagPlayer assumes of its constants.
LEMMA PlayerData ==
  /\ \A list \in Playlists : /\ list \in Seq(Seq(ProvedPlayer!Message))
                             /\ \A i \in 1..Len(list) : ProvedPlayer!IsBag(list[i])
  /\ Settings \subseteq ProvedPlayer!Setting
  /\ Speed \in Nat /\ Timeout \in Nat /\ MaxPause \in Nat
BY SameData, PlaylistsAssumption, SettingsAssumption, TimeAssumption

LEMMA SameInit ==
  (Node!Init <=> ProvedNode!Init) /\ (Player!Init <=> ProvedPlayer!Init)
BY DEF Node!Init, ProvedNode!Init, Player!Init, ProvedPlayer!Init

LEMMA SameVars ==
  /\ UNCHANGED Node!vars <=> UNCHANGED ProvedNode!vars
  /\ UNCHANGED Player!vars <=> UNCHANGED ProvedPlayer!vars
BY DEF Node!vars, Node!config, Node!env, Node!ext, Node!odom, Node!sub, Node!glob,
       Node!hands, Node!threads,
       ProvedNode!vars, ProvedNode!config, ProvedNode!env, ProvedNode!ext, ProvedNode!odom,
       ProvedNode!sub, ProvedNode!glob, ProvedNode!hands, ProvedNode!threads,
       Player!vars, Player!inputs, Player!reader, Player!clocks, Player!time, Player!history,
       ProvedPlayer!vars, ProvedPlayer!inputs, ProvedPlayer!reader, ProvedPlayer!clocks,
       ProvedPlayer!time, ProvedPlayer!history

LEMMA SameNodeNext == Node!Next <=> ProvedNode!Next
<1> USE DEF Node!config, Node!env, Node!ext, Node!odom, Node!sub, Node!glob, Node!hands,
            Node!threads, Node!vars,
            ProvedNode!config, ProvedNode!env, ProvedNode!ext, ProvedNode!odom,
            ProvedNode!sub, ProvedNode!glob, ProvedNode!hands, ProvedNode!threads,
            ProvedNode!vars
<1>1. Node!Environment <=> ProvedNode!Environment
  BY DEF Node!Environment, Node!Interrupt, Node!ExtensionCloses,
         ProvedNode!Environment, ProvedNode!Interrupt, ProvedNode!ExtensionCloses
<1>2. Node!WorkerStep <=> ProvedNode!WorkerStep
  BY DEF Node!WorkerStep, Node!OdometryStep, Node!OdometryEnd, Node!SubMappingStep,
         Node!SubMappingEnd, Node!GlobalMappingStep, Node!GlobalMappingEnd,
         ProvedNode!WorkerStep, ProvedNode!OdometryStep, ProvedNode!OdometryEnd,
         ProvedNode!SubMappingStep, ProvedNode!SubMappingEnd,
         ProvedNode!GlobalMappingStep, ProvedNode!GlobalMappingEnd
<1>3. /\ Node!points_callback <=> ProvedNode!points_callback
      /\ Node!TimerStep <=> ProvedNode!TimerStep
  BY DEF Node!Dispatches, Node!points_callback, Node!TimerStep, Node!TimerBegin,
         Node!TakeFrames, Node!InsertFrame, Node!TimerSubmaps, Node!TakeSubmaps,
         Node!InsertSubmap, Node!TimerEnd,
         ProvedNode!Dispatches, ProvedNode!points_callback, ProvedNode!TimerStep,
         ProvedNode!TimerBegin, ProvedNode!TakeFrames, ProvedNode!InsertFrame,
         ProvedNode!TimerSubmaps, ProvedNode!TakeSubmaps, ProvedNode!InsertSubmap,
         ProvedNode!TimerEnd
<1>4. Node!WaitStep <=> ProvedNode!WaitStep
  BY DEF Node!WaitStep, Node!JoinOdometry, Node!OdometryJoined, Node!TakeFrames,
         Node!JoinSubMapping, Node!SubMappingJoined, Node!TakeSubmaps,
         Node!JoinGlobalMapping, Node!GlobalMappingJoined, Node!WaitReturns,
         ProvedNode!WaitStep, ProvedNode!JoinOdometry, ProvedNode!OdometryJoined,
         ProvedNode!TakeFrames, ProvedNode!JoinSubMapping, ProvedNode!SubMappingJoined,
         ProvedNode!TakeSubmaps, ProvedNode!JoinGlobalMapping,
         ProvedNode!GlobalMappingJoined, ProvedNode!WaitReturns
<1>5. /\ Node!SpinReturns <=> ProvedNode!SpinReturns
      /\ Node!PlaybackEnds <=> ProvedNode!PlaybackEnds
      /\ Node!Unload <=> ProvedNode!Unload
      /\ Node!save <=> ProvedNode!save
      /\ Node!Quit <=> ProvedNode!Quit
      /\ Node!Terminated <=> ProvedNode!Terminated
  BY DEF Node!SpinReturns, Node!PlaybackEnds, Node!GoToWait, Node!EnterWait, Node!Unload,
         Node!Destructor, Node!save, Node!Quit, Node!Terminated,
         ProvedNode!SpinReturns, ProvedNode!PlaybackEnds, ProvedNode!GoToWait,
         ProvedNode!EnterWait, ProvedNode!Unload, ProvedNode!Destructor,
         ProvedNode!save, ProvedNode!Quit, ProvedNode!Terminated
<1> QED
  BY <1>1, <1>2, <1>3, <1>4, <1>5 DEF Node!Next, ProvedNode!Next

LEMMA SamePlayerNext == Player!Next <=> ProvedPlayer!Next
<1> USE DEF Player!inputs, Player!reader, Player!clocks, Player!time, Player!history,
            Player!vars, Player!GiveUp,
            ProvedPlayer!inputs, ProvedPlayer!reader, ProvedPlayer!clocks,
            ProvedPlayer!time, ProvedPlayer!history, ProvedPlayer!vars,
            ProvedPlayer!GiveUp
<1>1. Player!BagStep <=> ProvedPlayer!BagStep
  BY DEF Player!BagStep, Player!OpenBag, Player!BagEnds, Player!BagsRead,
         Player!SpinReturns, Player!SpinThrows,
         ProvedPlayer!BagStep, ProvedPlayer!OpenBag, ProvedPlayer!BagEnds,
         ProvedPlayer!BagsRead, ProvedPlayer!SpinReturns, ProvedPlayer!SpinThrows
<1>2. Player!ReadStep <=> ProvedPlayer!ReadStep
  BY DEF Player!ReadStep, Player!HasNext, Player!MayRead, Player!Interrupted,
         Player!BagStart, Player!RealStart, Player!SeekResets, Player!SkipOffset,
         Player!PastRange, Player!Keyboard, Player!ReadNext,
         ProvedPlayer!ReadStep, ProvedPlayer!HasNext, ProvedPlayer!MayRead,
         ProvedPlayer!Interrupted, ProvedPlayer!BagStart, ProvedPlayer!RealStart,
         ProvedPlayer!SeekResets, ProvedPlayer!SkipOffset, ProvedPlayer!PastRange,
         ProvedPlayer!Keyboard, ProvedPlayer!ReadNext
<1>3. Player!PauseStep <=> ProvedPlayer!PauseStep
  BY DEF Player!PauseStep, Player!PauseSleep, Player!Keyboard, Player!AfterPause,
         Player!Resume, Player!PauseInterrupted,
         ProvedPlayer!PauseStep, ProvedPlayer!PauseSleep, ProvedPlayer!Keyboard,
         ProvedPlayer!AfterPause, ProvedPlayer!Resume, ProvedPlayer!PauseInterrupted
<1>4. Player!MessageStep <=> ProvedPlayer!MessageStep
  BY DEF Player!MessageStep, Player!TooEarly, Player!ThrottleSleep, Player!ThrottleEnds,
         Player!TypeMismatch, Player!PastEnd, Player!Deliver, Player!ExtensionBusy,
         Player!ExtensionReady,
         ProvedPlayer!MessageStep, ProvedPlayer!TooEarly, ProvedPlayer!ThrottleSleep,
         ProvedPlayer!ThrottleEnds, ProvedPlayer!TypeMismatch, ProvedPlayer!PastEnd,
         ProvedPlayer!Deliver, ProvedPlayer!ExtensionBusy, ProvedPlayer!ExtensionReady
<1>5. /\ Player!Shutdown <=> ProvedPlayer!Shutdown
      /\ Player!Terminated <=> ProvedPlayer!Terminated
  BY DEF Player!Shutdown, Player!Terminated, ProvedPlayer!Shutdown,
         ProvedPlayer!Terminated
<1> QED
  BY <1>1, <1>2, <1>3, <1>4, <1>5
  DEF Player!Next, Player!PlayerStep, ProvedPlayer!Next, ProvedPlayer!PlayerStep

LEMMA SameNode == Node!Spec <=> ProvedNode!Spec
<1>1. [Node!Next]_(Node!vars) <=> [ProvedNode!Next]_(ProvedNode!vars)
  BY SameNodeNext, SameVars
<1> QED
  BY <1>1, SameInit, PTL DEF Node!Spec, ProvedNode!Spec

LEMMA SamePlayer == Player!Spec <=> ProvedPlayer!Spec
<1>1. [Player!Next]_(Player!vars) <=> [ProvedPlayer!Next]_(ProvedPlayer!vars)
  BY SamePlayerNext, SameVars
<1> QED
  BY <1>1, SameInit, PTL DEF Player!Spec, ProvedPlayer!Spec
-----------------------------------------------------------------------------
(* The player.  The node's steps leave it alone, except that one of them   *)
(* may be the shutdown it does not expect.                                 *)

LEMMA NodeLeavesPlayer ==
  ASSUME ok \in BOOLEAN, UNCHANGED player_but_ok, ok' = ok \/ ok' = FALSE
  PROVE  [Player!Next]_(Player!vars)
<1> USE DEF player_but_ok, Player!inputs, Player!reader, Player!clocks, Player!time,
            Player!history
<1>1. CASE ok' = ok
  BY <1>1 DEF Player!vars
<1>2. CASE ok /\ ok' = FALSE
  BY <1>2 DEF Player!Next, Player!Shutdown
<1> QED
  BY <1>1, <1>2

LEMMA PlayerStepRefines ==
  ASSUME ok \in BOOLEAN, [Next]_vars PROVE [Player!Next]_(Player!vars)
<1> USE DEF Node!env
<1>1. CASE PlayerMoves
  BY <1>1 DEF PlayerMoves, Player!Next
<1>2. CASE TimerCallback
  <2>1. ok' = (ok /\ ext_ok) /\ UNCHANGED player_but_ok
    BY <1>2 DEF TimerCallback, Node!TimerBegin
  <2>2. ok' = ok \/ ok' = FALSE
    BY <2>1
  <2> QED
    BY <2>1, <2>2, NodeLeavesPlayer
<1>3. CASE EnterWait
  BY <1>3, NodeLeavesPlayer DEF EnterWait, Node!GoToWait
<1>4. CASE NodeMoves
  <2>1. UNCHANGED player_but_ok
    BY <1>4 DEF NodeMoves
  <2>2. CASE Node!TimerStep /\ pc # "spin"
    BY <2>1, <2>2, NodeLeavesPlayer
    DEF Node!TimerStep, Node!TimerBegin, Node!Dispatches, Node!InsertFrame,
        Node!TimerSubmaps, Node!InsertSubmap, Node!TimerEnd
  <2>3. CASE Node!WaitStep
    BY <2>1, <2>3, NodeLeavesPlayer
    DEF Node!WaitStep, Node!JoinOdometry, Node!OdometryJoined, Node!JoinSubMapping,
        Node!SubMappingJoined, Node!JoinGlobalMapping, Node!GlobalMappingJoined,
        Node!WaitReturns
  <2>4. CASE Node!save \/ Node!Quit
    BY <2>1, <2>4, NodeLeavesPlayer DEF Node!save, Node!Quit
  <2> QED
    BY <1>4, <2>2, <2>3, <2>4 DEF NodeMoves
<1>5. CASE Workers
  BY <1>5, NodeLeavesPlayer
  DEF Workers, Elsewhere, Node!WorkerStep, Node!OdometryStep, Node!OdometryEnd,
      Node!SubMappingStep, Node!SubMappingEnd, Node!GlobalMappingStep,
      Node!GlobalMappingEnd
<1>6. CASE Environment
  BY <1>6, NodeLeavesPlayer
  DEF Environment, Elsewhere, Node!Environment, Node!Interrupt, Node!ExtensionCloses
<1>7. CASE UNCHANGED vars
  BY <1>7, NodeLeavesPlayer DEF vars
<1> QED
  BY <1>1, <1>2, <1>3, <1>4, <1>5, <1>6, <1>7 DEF Next, Terminated

\* What is proved of the player, in the session.
PlayerInv == ProvedPlayer!TypeInv /\ ProvedPlayer!PlaybackInv

LEMMA InitPlayer == Init => PlayerInv
<1> SUFFICES ASSUME Init PROVE PlayerInv
  OBVIOUS
<1>1. ProvedPlayer!Init
  BY SameInit DEF Init
<1> QED
  BY <1>1, PlayerData, ProvedPlayer!InitType, ProvedPlayer!InitPlayback DEF PlayerInv

LEMMA NextPlayer == PlayerInv /\ [Next]_vars => PlayerInv'
<1> SUFFICES ASSUME PlayerInv, [Next]_vars PROVE PlayerInv'
  OBVIOUS
<1>1. ok \in BOOLEAN
  BY DEF PlayerInv, ProvedPlayer!TypeInv, ProvedPlayer!TypeOK
<1>2. [ProvedPlayer!Next]_(ProvedPlayer!vars)
  BY <1>1, PlayerStepRefines, SamePlayerNext, SameVars
<1>3. ProvedPlayer!TypeInv'
  BY <1>2, PlayerData, ProvedPlayer!TypeStep DEF PlayerInv
<1> QED
  BY <1>2, <1>3, PlayerData, ProvedPlayer!PlaybackStep DEF PlayerInv

\* In the node's process the player does nothing it would not do by itself.
THEOREM SessionRunsThePlayer == Spec => Player!Spec
<1>1. PlayerInv => ok \in BOOLEAN
  BY DEF PlayerInv, ProvedPlayer!TypeInv, ProvedPlayer!TypeOK
<1>2. Init => Player!Init
  BY DEF Init
<1> QED
  BY <1>1, <1>2, InitPlayer, NextPlayer, PlayerStepRefines, PTL DEF Spec, Player!Spec
-----------------------------------------------------------------------------
(* The node.  GlimRos lets wait(false) begin only when rclcpp is down, and *)
(* wait(true) whenever the node spins: what main() passes on is right      *)
(* because of how the player came to its end.                              *)

Spinning == {"spin"} \cup Node!TimerPcs

\* The thread is in a callback of the node, in the player, or behind both.
HostInv ==
  /\ main = "rosbag"
  /\ pc \notin Spinning => p_pc = "wait"
  /\ p_pc = "wait" /\ ~p_auto_quit => ~ok
  /\ due => p_pc = "needs_wait"

\* After the player's last step main() is in wait(), told to quit by itself unless it
\* was rclcpp that made spin() return.
LEMMA PlayerEnds ==
  ASSUME Player!PlayerStep
  PROVE  p_pc # "wait" /\ (p_pc' = "wait" /\ ~p_auto_quit' => ~ok /\ ok' = ok)
<1> USE DEF Player!GiveUp
<1>1. ok' = ok
  BY DEF Player!PlayerStep
<1>2. CASE Player!BagStep
  BY <1>1, <1>2 DEF Player!BagStep, Player!OpenBag, Player!BagEnds, Player!BagsRead,
                    Player!SpinReturns, Player!SpinThrows
<1>3. CASE Player!ReadStep
  BY <1>1, <1>3 DEF Player!ReadStep, Player!HasNext, Player!MayRead, Player!Interrupted,
                    Player!SkipOffset, Player!ReadNext
<1>4. CASE Player!PauseStep
  BY <1>1, <1>4 DEF Player!PauseStep, Player!PauseSleep, Player!Resume,
                    Player!PauseInterrupted
<1>5. CASE Player!MessageStep
  BY <1>1, <1>5 DEF Player!MessageStep, Player!ThrottleSleep, Player!ThrottleEnds,
                    Player!TypeMismatch, Player!Deliver, Player!ExtensionBusy,
                    Player!ExtensionReady
<1> QED
  BY <1>2, <1>3, <1>4, <1>5 DEF Player!PlayerStep

LEMMA NextHost ==
  ASSUME HostInv, ok \in BOOLEAN, [Next]_vars PROVE HostInv'
<1> USE DEF HostInv, Spinning, Node!TimerPcs, Node!env, Node!config
<1>1. CASE PlayerMoves
  <2>1. UNCHANGED <<main, pc>> /\ pc = "spin"
    BY <1>1 DEF PlayerMoves, Node!points_callback, node_but_ok
  <2>2. due' => p_pc' = "needs_wait"
    BY <1>1 DEF PlayerMoves
  <2>3. p_pc' = "wait" /\ ~p_auto_quit' => ~ok'
    BY <1>1, PlayerEnds DEF PlayerMoves
  <2> QED
    BY <2>1, <2>2, <2>3
<1>2. CASE TimerCallback
  <2>1. /\ UNCHANGED <<main, p_pc, p_auto_quit>> /\ due' = FALSE
        /\ ok' = (ok /\ ext_ok)
        /\ pc' \in Spinning
    BY <1>2 DEF TimerCallback, Node!TimerBegin, player_but_ok
  <2> QED
    BY <2>1
<1>3. CASE EnterWait
  BY <1>3 DEF EnterWait, Node!GoToWait, player_but_ok
<1>4. CASE NodeMoves
  <2>1. UNCHANGED <<p_pc, p_auto_quit, due>>
    BY <1>4 DEF NodeMoves, player_but_ok
  <2>2. CASE Node!TimerStep /\ pc # "spin"
    BY <2>1, <2>2
    DEF Node!TimerStep, Node!TimerBegin, Node!Dispatches, Node!InsertFrame,
        Node!TimerSubmaps, Node!InsertSubmap, Node!TimerEnd
  <2>3. CASE Node!WaitStep
    BY <2>1, <2>3
    DEF Node!WaitStep, Node!JoinOdometry, Node!OdometryJoined, Node!JoinSubMapping,
        Node!SubMappingJoined, Node!JoinGlobalMapping, Node!GlobalMappingJoined,
        Node!WaitReturns
  <2>4. CASE Node!save \/ Node!Quit
    BY <2>1, <2>4 DEF Node!save, Node!Quit
  <2> QED
    BY <1>4, <2>2, <2>3, <2>4 DEF NodeMoves
<1>5. CASE Workers
  BY <1>5
  DEF Workers, Elsewhere, Node!WorkerStep, Node!OdometryStep, Node!OdometryEnd,
      Node!SubMappingStep, Node!SubMappingEnd, Node!GlobalMappingStep,
      Node!GlobalMappingEnd, player_but_ok
<1>6. CASE Environment
  BY <1>6
  DEF Environment, Elsewhere, Node!Environment, Node!Interrupt, Node!ExtensionCloses,
      player_but_ok
<1>7. CASE UNCHANGED vars
  BY <1>7 DEF vars, node_but_ok, player_but_ok
<1> QED
  BY <1>1, <1>2, <1>3, <1>4, <1>5, <1>6, <1>7 DEF Next, Terminated

LEMMA NodeStepRefines ==
  ASSUME HostInv, p_auto_quit \in BOOLEAN, [Next]_vars PROVE [Node!Next]_(Node!vars)
<1> USE DEF Node!Next
<1>1. CASE PlayerMoves
  <2>1. CASE Node!points_callback
    BY <2>1
  <2>2. CASE UNCHANGED node_but_ok
    <3>1. ok' = ok
      BY <1>1 DEF PlayerMoves, Player!PlayerStep
    <3> QED
      BY <2>2, <3>1 DEF node_but_ok, Node!vars, Node!config, Node!env, Node!ext, Node!odom,
                        Node!sub, Node!glob, Node!hands, Node!threads
  <2> QED
    BY <1>1, <2>1, <2>2 DEF PlayerMoves
<1>2. CASE TimerCallback
  BY <1>2 DEF TimerCallback, Node!TimerStep
<1>3. CASE EnterWait
  <2>1. Node!GoToWait(p_auto_quit) /\ p_pc = "wait" /\ main = "rosbag"
    BY <1>3 DEF EnterWait, HostInv
  <2>2. CASE p_auto_quit = TRUE
    BY <2>1, <2>2 DEF Node!PlaybackEnds
  <2>3. CASE p_auto_quit = FALSE
    <3>1. ~ok
      BY <2>1, <2>3 DEF HostInv
    <3> QED
      BY <2>1, <2>3, <3>1 DEF Node!SpinReturns
  <2> QED
    BY <2>2, <2>3
<1>4. CASE NodeMoves
  BY <1>4 DEF NodeMoves
<1>5. CASE Workers \/ Environment
  BY <1>5 DEF Workers, Environment, Elsewhere
<1>6. CASE UNCHANGED vars
  BY <1>6 DEF vars, node_but_ok, Node!vars, Node!config, Node!env, Node!ext, Node!odom,
              Node!sub, Node!glob, Node!hands, Node!threads
<1> QED
  BY <1>1, <1>2, <1>3, <1>4, <1>5, <1>6 DEF Next, Terminated

LEMMA InitHost == Init => HostInv
BY DEF Init, HostInv, Spinning, Node!Init, Player!Init

LEMMA PlayerTypes == PlayerInv => ok \in BOOLEAN /\ p_auto_quit \in BOOLEAN
BY DEF PlayerInv, ProvedPlayer!TypeInv, ProvedPlayer!TypeOK

\* The node in the player's process is the node of GlimRos: main() tells it to wait
\* for a viewer only when rclcpp is down, and calls it back only while it spins.
THEOREM SessionRunsTheNode == Spec => NodeSpec
<1>1. Init => Node!Init
  BY DEF Init
<1> QED
  BY <1>1, InitPlayer, NextPlayer, PlayerTypes, InitHost, NextHost, NodeStepRefines, PTL
  DEF Spec, NodeSpec, Node!Spec
\* What MainsAssumption and MaxCloudsAssumption say of the node in the session.
LEMMA NodeData ==
  {"rosbag"} \subseteq {"rosnode", "rosbag", "component"} /\ MaxClouds \in Nat
BY MaxCloudsAssumption

LEMMA NodeInvariance == Spec => []ProvedNode!IInv
<1>1. Spec => ProvedNode!Spec
  BY SessionRunsTheNode, SameNode, PTL DEF NodeSpec
<1> QED
  BY <1>1, NodeData, ProvedNode!Invariance, PTL

-----------------------------------------------------------------------------
(* From the player to the node: clouds delivered and clouds accepted.      *)

\* The usable clouds among the messages given to the callbacks.
Given == {p \in Range(delivered) : Usable(Player!At(p))}

IntakeInv == IsFiniteSet(Given) /\ accepted = Cardinality(Given)

LEMMA Delivering ==
  ASSUME Player!PlayerStep
  PROVE  /\ bags' = bags
         /\ \/ delivered' = delivered
            \/ p_pc = "dispatch" /\ delivered' = Append(delivered, <<bag, pos - 1>>)
<1>1. bags' = bags
  BY DEF Player!PlayerStep, Player!inputs
<1>2. CASE Player!BagStep \/ Player!ReadStep \/ Player!PauseStep
  BY <1>1, <1>2 DEF Player!BagStep, Player!ReadStep, Player!PauseStep, Player!history
<1>3. CASE Player!MessageStep
  BY <1>1, <1>3 DEF Player!MessageStep, Player!ThrottleSleep, Player!ThrottleEnds,
                    Player!TypeMismatch, Player!Deliver, Player!ExtensionBusy,
                    Player!ExtensionReady, Player!history
<1> QED
  BY <1>2, <1>3 DEF Player!PlayerStep

\* The message at hand has not been given before, and it is the one Usable looks at.
LEMMA AtHandIsNew ==
  ASSUME PlayerInv, p_pc = "dispatch", delivered' = Append(delivered, <<bag, pos - 1>>)
  PROVE  /\ delivered' # delivered
         /\ Player!At(<<bag, pos - 1>>) = msg[1]
         /\ <<bag, pos - 1>> \notin Range(delivered)
         /\ Range(delivered') = Range(delivered) \cup {<<bag, pos - 1>>}
<1> DEFINE Place == (Nat \ {0}) \X (Nat \ {0})
           p == <<bag, pos - 1>>
           n == Len(delivered)
<1>1. p_pc \in ProvedPlayer!AtHand /\ p_pc \notin ProvedPlayer!Ends
  BY DEF ProvedPlayer!AtHand, ProvedPlayer!Ends
<1>2. /\ delivered \in Seq(Place) /\ bag \in Nat \ {0} /\ pos \in Nat \ {0}
      /\ pos > 1 /\ msg = <<bags[bag][pos - 1]>>
  BY <1>1 DEF PlayerInv, ProvedPlayer!TypeInv, ProvedPlayer!TypeOK, ProvedPlayer!Control
<1>3. p \in Place
  BY <1>2
<1>4. Player!At(p) = msg[1]
  BY <1>2 DEF Player!At
<1>5. p \notin Range(delivered)
  <2>1. Range(delivered) = ProvedPlayer!Due
    BY <1>1 DEF PlayerInv, ProvedPlayer!PlaybackInv, ProvedPlayer!GivenInv,
                ProvedPlayer!Range, Range
  <2>2. p \notin ProvedPlayer!Due
    BY <1>1 DEF ProvedPlayer!Due, ProvedPlayer!Current
  <2> QED
    BY <2>1, <2>2
<1>6. /\ n \in Nat /\ DOMAIN delivered = 1..n /\ DOMAIN delivered' = 1..n + 1
      /\ delivered'[n + 1] = p
      /\ \A i \in 1..n : delivered'[i] = delivered[i]
  BY <1>2, <1>3, LenProperties, AppendProperties
<1> HIDE DEF n, p
<1>7. Range(delivered') = Range(delivered) \cup {p}
  BY <1>6 DEF Range
<1>8. delivered' # delivered
  BY <1>5, <1>7
<1> QED
  BY <1>4, <1>5, <1>7, <1>8 DEF p
LEMMA InitIntake == Init => IntakeInv
<1> SUFFICES ASSUME Init PROVE IntakeInv
  OBVIOUS
<1>1. accepted = 0 /\ delivered = <<>>
  BY DEF Init, Node!Init, Player!Init
<1>2. Given = {}
  BY <1>1 DEF Given, Range
<1> QED
  BY <1>1, <1>2, FS_EmptySet DEF IntakeInv

LEMMA NextIntake ==
  ASSUME PlayerInv, IntakeInv, [Next]_vars PROVE IntakeInv'
<1>1. CASE UNCHANGED <<accepted, bags, delivered>>
  BY <1>1 DEF IntakeInv, Given, Player!At
<1>2. CASE PlayerMoves
  <2>1. /\ Player!PlayerStep
        /\ IF delivered' # delivered /\ Usable(msg[1])
           THEN accepted' = accepted + 1
           ELSE accepted' = accepted
    BY <1>2 DEF PlayerMoves, Node!points_callback, node_but_ok
  <2>2. bags' = bags
    BY <2>1, Delivering
  <2>3. CASE delivered' = delivered
    BY <1>1, <2>1, <2>2, <2>3
  <2>4. CASE p_pc = "dispatch" /\ delivered' = Append(delivered, <<bag, pos - 1>>)
    <3> DEFINE p == <<bag, pos - 1>>
    <3>1. /\ delivered' # delivered
          /\ Player!At(p) = msg[1]
          /\ p \notin Range(delivered)
          /\ Range(delivered') = Range(delivered) \cup {p}
      BY <2>4, AtHandIsNew
    <3> HIDE DEF p
    <3>2. Given' = {q \in Range(delivered) \cup {p} : Usable(Player!At(q))}
      BY <2>2, <3>1 DEF Given, Player!At
    <3>3. CASE Usable(msg[1])
      <4>1. Given' = Given \cup {p} /\ p \notin Given
        BY <3>1, <3>2, <3>3 DEF Given
      <4>2. accepted' = accepted + 1
        BY <2>1, <3>1, <3>3
      <4> QED
        BY <4>1, <4>2, FS_AddElement DEF IntakeInv
    <3>4. CASE ~Usable(msg[1])
      <4>1. Given' = Given /\ accepted' = accepted
        BY <2>1, <3>1, <3>2, <3>4 DEF Given
      <4> QED
        BY <4>1 DEF IntakeInv
    <3> QED
      BY <3>3, <3>4
  <2> QED
    BY <2>1, <2>3, <2>4, Delivering
<1>3. CASE TimerCallback \/ EnterWait
  BY <1>1, <1>3 DEF TimerCallback, Node!TimerBegin, EnterWait, Node!GoToWait, player_but_ok
<1>4. CASE NodeMoves
  <2>1. UNCHANGED <<bags, delivered>>
    BY <1>4 DEF NodeMoves, player_but_ok
  <2>2. CASE Node!TimerStep /\ pc # "spin"
    BY <1>1, <2>1, <2>2
    DEF Node!TimerStep, Node!TimerBegin, Node!InsertFrame, Node!TimerSubmaps,
        Node!InsertSubmap, Node!TimerEnd
  <2>3. CASE Node!WaitStep
    BY <1>1, <2>1, <2>3
    DEF Node!WaitStep, Node!JoinOdometry, Node!OdometryJoined, Node!JoinSubMapping,
        Node!SubMappingJoined, Node!JoinGlobalMapping, Node!GlobalMappingJoined,
        Node!WaitReturns
  <2>4. CASE Node!save \/ Node!Quit
    BY <1>1, <2>1, <2>4 DEF Node!save, Node!Quit
  <2> QED
    BY <1>4, <2>2, <2>3, <2>4 DEF NodeMoves
<1>5. CASE Workers
  BY <1>1, <1>5
  DEF Workers, Elsewhere, Node!WorkerStep, Node!OdometryStep, Node!OdometryEnd,
      Node!SubMappingStep, Node!SubMappingEnd, Node!GlobalMappingStep,
      Node!GlobalMappingEnd, player_but_ok
<1>6. CASE Environment
  BY <1>1, <1>6
  DEF Environment, Elsewhere, Node!Environment, Node!Interrupt, Node!ExtensionCloses,
      player_but_ok
<1>7. CASE UNCHANGED vars
  BY <1>1, <1>7 DEF vars, node_but_ok, player_but_ok
<1> QED
  BY <1>2, <1>3, <1>4, <1>5, <1>6, <1>7 DEF Next, Terminated

-----------------------------------------------------------------------------
(* From the bags to the dump.                                              *)

LEMMA SameExpected == Player!Expected = ProvedPlayer!Expected
BY DEF Player!Expected, Player!Offered, Player!Places, Player!At, Player!Before,
       Player!Opening, Player!OutOfRange, Player!Unplayable, Player!Closes,
       ProvedPlayer!Expected, ProvedPlayer!Offered, ProvedPlayer!Places, ProvedPlayer!At,
       ProvedPlayer!Before, ProvedPlayer!Opening, ProvedPlayer!OutOfRange,
       ProvedPlayer!Unplayable, ProvedPlayer!Closes

\* A node that has written a dump is past wait(), so the player is past its bags.
LEMMA DumpsAreFull ==
  ASSUME ProvedNode!IInv, PlayerInv, HostInv, IntakeInv PROVE BagsReachTheDump
<1> SUFFICES ASSUME sub_mapping, global_mapping, NEW i \in 1..Len(dumps)
             PROVE  /\ Node!IsPartition(dumps[i])
                    /\ Node!LastFrame(dumps[i]) = Clouds(Range(delivered))
                    /\ ok => Node!LastFrame(dumps[i]) = Clouds(Player!Expected)
  BY DEF BagsReachTheDump
<1>1. accepted = Clouds(Range(delivered))
  BY DEF IntakeInv, Given, Clouds
<1>2. Node!IsPartition(dumps[i]) /\ Node!LastFrame(dumps[i]) = accepted
  BY DEF ProvedNode!IInv, ProvedNode!DumpsComplete, ProvedNode!IsPartition,
         ProvedNode!IsRun, ProvedNode!LastFrame, ProvedNode!EndOf,
         Node!IsPartition, Node!IsRun, Node!LastFrame, Node!EndOf
<1>3. ASSUME ok PROVE Range(delivered) = Player!Expected
  <2>1. dumps # <<>>
    BY EmptySeq
  <2>2. pc \notin Spinning
    BY <2>1 DEF ProvedNode!IInv, ProvedNode!IControl, ProvedNode!Position,
                ProvedNode!Spinning, ProvedNode!TimerPcs, Spinning, Node!TimerPcs
  <2>3. p_pc = "wait" /\ p_pc \in ProvedPlayer!Ends
    BY <2>2 DEF HostInv, ProvedPlayer!Ends
  <2>4. ProvedPlayer!PlaybackIsExact
    BY <2>3 DEF PlayerInv, ProvedPlayer!PlaybackInv, ProvedPlayer!GivenInv
  <2> QED
    BY <1>3, <2>3, <2>4, SameExpected
    DEF ProvedPlayer!PlaybackIsExact, ProvedPlayer!Range, Range
<1> QED
  BY <1>1, <1>2, <1>3

\* From the bags to the dump, with both mapping stages: each dump holds, in order, the
\* usable clouds of the messages the settings ask for, or what had been delivered when
\* rclcpp went down.
THEOREM EveryBagReachesTheDump == Spec => []BagsReachTheDump
<1>1. Spec => [](PlayerInv /\ HostInv /\ IntakeInv)
  BY InitPlayer, NextPlayer, PlayerTypes, InitHost, NextHost, InitIntake, NextIntake, PTL
  DEF Spec
<1> QED
  BY <1>1, NodeInvariance, DumpsAreFull, PTL
-----------------------------------------------------------------------------
(* The abstract specification. *)

LEMMA SameService == Node!ServiceSpec <=> ProvedNode!ServiceSpec
<1> USE DEF Node!TimerPcs, ProvedNode!TimerPcs
<1>1. Node!Service!Init <=> ProvedNode!Service!Init
  BY DEF Node!Service!Init, ProvedNode!Service!Init
<1>2. Node!Service!Next <=> ProvedNode!Service!Next
  BY DEF Node!Service!Next, Node!Service!Accept, Node!Service!Close, Node!Service!Integrate,
         Node!Service!Dump, Node!Service!Run, Node!Service!EndOf, Node!Service!LastFrame,
         ProvedNode!Service!Next, ProvedNode!Service!Accept, ProvedNode!Service!Close,
         ProvedNode!Service!Integrate, ProvedNode!Service!Dump, ProvedNode!Service!Run,
         ProvedNode!Service!EndOf, ProvedNode!Service!LastFrame
<1>3. UNCHANGED Node!Service!vars <=> UNCHANGED ProvedNode!Service!vars
  BY DEF Node!Service!vars, ProvedNode!Service!vars
<1>4. [Node!Service!Next]_(Node!Service!vars)
        <=> [ProvedNode!Service!Next]_(ProvedNode!Service!vars)
  BY <1>2, <1>3
<1> QED
  BY <1>1, <1>4, PTL
  DEF Node!ServiceSpec, ProvedNode!ServiceSpec, Node!Service!Spec, ProvedNode!Service!Spec

\* A glim_rosbag process keeps the promise of MapService, whatever its player does.
THEOREM SessionKeepsTheService == Spec => Node!ServiceSpec
<1>1. Spec => ProvedNode!Spec
  BY SessionRunsTheNode, SameNode, PTL DEF NodeSpec
<1>2. ProvedNode!Spec => ProvedNode!ServiceSpec
  BY NodeData, ProvedNode!Implements, Zenon
<1> QED
  BY <1>1, <1>2, SameService, PTL
=============================================================================
