---------------------------- MODULE RosbagSession ----------------------------
(***************************************************************************)
(* A run of glim_rosbag: the player of RosbagPlayer and the node of        *)
(* GlimRos in one process, the player's thread being the node's executor.  *)
(* They share rclcpp::ok().  The player hands each cloud to the node and   *)
(* calls timer_callback before it goes on; wherever it calls spin_some the *)
(* node's own timer may call timer_callback as well.  The workers run at   *)
(* any time.  Nobody publishes on the node's topics meanwhile.             *)
(*                                                                         *)
(* A cloud is usable unless it cannot be converted or fails the time check *)
(* of the node, which Unusable says of its stamp.                          *)
(***************************************************************************)
EXTENDS Integers, Sequences, FiniteSets, Functions

CONSTANTS Playlists, Settings, Speed, Timeout, MaxPause,  \* of the player
          MaxClouds,                                      \* of the node
          Unusable                                        \* stamps of clouds

ASSUME UnusableAssumption == Unusable \subseteq Nat
ASSUME TimeAssumption == Speed \in Nat /\ Timeout \in Nat /\ MaxPause \in Nat
ASSUME MaxCloudsAssumption == MaxClouds \in Nat

VARIABLES
  ok,                                          \* rclcpp::ok(), of both
  main, sub_mapping, global_mapping, dump_on_unload, pc, auto_quit,
  ext_ok, ext_loaded, ext_saved, accepted, odom_in, odom_window, odom_out,
  hand_frames, sub_in, sub_frames, sub_out, hand_submaps, glob_in, glob_map,
  ending, running, dumps,                      \* of the node
  bags, opt, bag, pos, msg, start_offset, bag_t0, real_t0, pause_start,
  wait_t0, now, delivered, played, late,
  p_pc, p_auto_quit,                           \* of the player
  due                                          \* timer_callback is to be called

Node == INSTANCE GlimRos WITH Mains <- {"rosbag"}

Player == INSTANCE RosbagPlayer WITH pc <- p_pc, auto_quit <- p_auto_quit

ASSUME PlaylistsAssumption ==
  \A list \in Playlists : /\ list \in Seq(Seq(Player!Message))
                          /\ \A i \in 1..Len(list) : Player!IsBag(list[i])
ASSUME SettingsAssumption == Settings \subseteq Player!Setting

node_but_ok ==
  <<main, sub_mapping, global_mapping, dump_on_unload, pc, auto_quit, ext_ok,
    ext_loaded, ext_saved, accepted, odom_in, odom_window, odom_out, hand_frames,
    sub_in, sub_frames, sub_out, hand_submaps, glob_in, glob_map, ending, running,
    dumps>>
player_but_ok ==
  <<bags, opt, bag, pos, msg, start_offset, bag_t0, real_t0, pause_start, wait_t0,
    now, delivered, played, late, p_pc, p_auto_quit>>
vars == <<ok, node_but_ok, player_but_ok, due>>

Init == Node!Init /\ Player!Init /\ due = FALSE

-----------------------------------------------------------------------------

Usable(m) == m.topic = "points" /\ m.stamp \notin Unusable

\* A step of the player while the node's callbacks are at rest.  A message handed to
\* a callback owes the node a timer_callback, unless the player gives up after it.
PlayerMoves ==
  /\ pc = "spin" /\ ~due
  /\ Player!PlayerStep
  /\ IF delivered' # delivered /\ Usable(msg[1])
     THEN Node!points_callback
     ELSE UNCHANGED node_but_ok
  /\ due' = (delivered' # delivered /\ p_pc' = "needs_wait")

\* timer_callback, called by the player or through spin_some and spin.
TimerCallback ==
  /\ due \/ p_pc \in {"has_next", "paused", "needs_wait", "spin"}
  /\ Node!TimerBegin
  /\ due' = FALSE
  /\ UNCHANGED player_but_ok

\* Mutant: the value read_bag sets when it gives up does not reach wait().
EnterWaitOfSetting ==
  /\ p_pc = "wait" /\ ~due
  /\ Node!GoToWait(opt.auto_quit)
  /\ UNCHANGED <<player_but_ok, due>>

\* main() leaves playback or spin for wait(auto_quit).
EnterWait ==
  /\ p_pc = "wait" /\ ~due
  /\ Node!GoToWait(p_auto_quit)
  /\ UNCHANGED <<player_but_ok, due>>

\* What the node does on its own: the rest of timer_callback, wait, save, the end.
NodeMoves ==
  /\ \/ Node!TimerStep /\ pc # "spin"
     \/ Node!WaitStep \/ Node!save \/ Node!Quit
  /\ UNCHANGED <<player_but_ok, due>>

\* The workers and the outside world, until an exception ends the process.
Elsewhere(Step) ==
  /\ p_pc # "terminated"
  /\ Step
  /\ UNCHANGED <<player_but_ok, due>>

Workers == Elsewhere(Node!WorkerStep)

Environment == Elsewhere(Node!Environment)

Terminated == (p_pc = "terminated" \/ pc = "destroyed") /\ UNCHANGED vars

Next ==
  \/ PlayerMoves \/ TimerCallback \/ EnterWait \/ NodeMoves
  \/ Workers \/ Environment \/ Terminated

Spec == Init /\ [][Next]_vars

\* The thread runs: spin_some returns to the player after a few callbacks, and
\* every sleep and pause ends.  The workers work.
FairSpec ==
  /\ Spec
  /\ SF_vars(PlayerMoves)
  /\ WF_vars(due /\ TimerCallback) /\ WF_vars(EnterWait) /\ WF_vars(NodeMoves)
  /\ WF_vars(Workers)

-----------------------------------------------------------------------------
(* Properties. *)

\* In the player's process the node does nothing it would not do by itself: main()
\* calls wait(false) only after rclcpp went down, the player calls the callbacks only
\* one after the other and only until wait(), and so on - what holds of GlimRos for
\* any host holds here.
NodeSpec == Node!Spec

Clouds(places) == Cardinality({p \in places : Usable(Player!At(p))})

\* From the bags to the dump: with both mapping stages, a dump holds every usable
\* cloud of the messages the settings ask for, in order, and nothing else, unless
\* rclcpp went down; and even then all that was delivered - though the player
\* leaves read_bag in the middle of a bag, owing the node a timer_callback, and the
\* node hands frames on from spin_some as well.
BagsReachTheDump ==
  sub_mapping /\ global_mapping =>
    \A i \in 1..Len(dumps) :
      /\ Node!IsPartition(dumps[i])
      /\ Node!LastFrame(dumps[i]) = Clouds(Range(delivered))
      /\ ok => Node!LastFrame(dumps[i]) = Clouds(Player!Expected)

\* A run that is to quit by itself, or that gave up on its bags, ends without anyone
\* shutting it down or closing a viewer.
BatchEnds ==
  (opt.auto_quit \/ p_pc = "wait") ~> (pc = "destroyed" \/ p_pc = "terminated")
=============================================================================
