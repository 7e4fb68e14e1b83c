---------------------------- MODULE RosbagPlayer ----------------------------
(***************************************************************************)
(* glim_rosbag: the main() that reads bags and calls the node's callbacks  *)
(* itself, one message after the other, in one thread.                     *)
(*                                                                         *)
(* Time is a counter of ticks.  It passes where the player sleeps (pause,  *)
(* throttling, a busy extension) and, at most one tick a message, where    *)
(* the callbacks work and the player waits for a slow odometry.  Recording *)
(* times, the wall clock, the timeout and the settings all count ticks.    *)
(*                                                                         *)
(* A message is a record: its topic, the time it was recorded, the stamp   *)
(* in its header, and whether the bag declares the type its topic needs.   *)
(* Images go the way of IMU messages.  What an extension module subscribed *)
(* to on a topic of its own ("ext") has any type.  A place is a bag and a  *)
(* position in it.                                                         *)
(***************************************************************************)
EXTENDS Integers, Sequences, Functions

CONSTANTS
  Playlists,  \* the lists of bags considered, as sorted by file name
  Settings,   \* the parameter settings considered
  Speed,      \* playback_speed, 0 for as fast as possible
  Timeout,    \* the second after which a busy extension is given up on
  MaxPause    \* bound: the user resumes within so many ticks

Message == [topic : {"imu", "points", "ext"}, time : Nat \ {0}, stamp : Nat,
            typed : BOOLEAN]

\* A bag gives its messages by recording time; none was recorded at time 0.
IsBag(b) ==
  \A i, j \in 1..Len(b) : i < j => b[i].time <= b[j].time

\* Zero turns an offset, a duration or playback_until off; end_time is always on, its
\* default beyond all stamps.  unreadable are the bags that cannot be opened.
Setting == [start_offset : Nat, until : Nat, duration : Nat, end_time : Nat,
            auto_quit : BOOLEAN, unreadable : SUBSET (Nat \ {0})]

ASSUME PlaylistsAssumption ==
  \A list \in Playlists :
    list \in Seq(Seq(Message)) /\ \A i \in 1..Len(list) : IsBag(list[i])
ASSUME SettingsAssumption == Settings \subseteq Setting
ASSUME TimeAssumption == Speed \in Nat /\ Timeout \in Nat /\ MaxPause \in Nat

VARIABLES
  bags,          \* bag_filenames
  opt,           \* the parameters
  pc,            \* where main() is
  bag, pos,      \* the bag being read, and the reader's position in it
  msg,           \* the message at hand, a sequence of at most one
  start_offset,  \* the offset still to be skipped
  bag_t0,        \* recording time playback counts from, 0 when not known
  real_t0,       \* wall clock playback counts from, 0 when not known
  pause_start,   \* when the pause began
  wait_t0,       \* when the player began to wait for an extension
  now,           \* the wall clock
  ok,            \* rclcpp::ok()
  auto_quit,     \* what wait() will be told
  delivered,     \* history: the places of the messages given to the callbacks
  played,        \* history: ticks since the clocks were set, pauses left out
  late           \* history: messages delivered after rclcpp went down

inputs == <<bags, opt>>
reader == <<bag, pos>>
clocks == <<start_offset, bag_t0, real_t0>>
time == <<now, played>>
history == <<delivered, late>>
vars == <<inputs, reader, msg, clocks, pc, pause_start, wait_t0, time, ok,
          auto_quit, history>>

Ends == {"spin", "wait", "terminated"}
Pcs == {"open", "has_next", "paused", "throttle", "dispatch", "needs_wait"} \cup Ends

Init ==
  /\ bags \in Playlists
  /\ opt \in Settings
  /\ pc = "open"
  /\ bag = 1 /\ pos = 1
  /\ msg = <<>>
  /\ start_offset = opt.start_offset
  /\ bag_t0 = 0 /\ real_t0 = 0
  /\ pause_start = 0 /\ wait_t0 = 0
  /\ now = 1
  /\ ok = TRUE
  /\ auto_quit = opt.auto_quit
  /\ delivered = <<>>
  /\ played = 0
  /\ late = 0

\* SIGINT, or a timer_callback that finds an extension closed.
Shutdown ==
  /\ ok
  /\ ok' = FALSE
  /\ UNCHANGED <<inputs, reader, msg, clocks, pc, pause_start, wait_t0, time,
                 auto_quit, history>>

-----------------------------------------------------------------------------
(* The bags.  The actions of a section leave alone what the section does,  *)
(* see PlayerStep.                                                         *)

\* The storage is guessed, the reader opened; what open() throws nobody catches.
OpenBag ==
  /\ pc = "open"
  /\ bag <= Len(bags)
  /\ pos' = 1
  /\ pc' = IF bag \in opt.unreadable THEN "terminated" ELSE "has_next"
  /\ UNCHANGED bag

\* The bag has no more messages.
BagEnds ==
  /\ pc = "has_next"
  /\ pos > Len(bags[bag])
  /\ bag' = bag + 1
  /\ pc' = "open"
  /\ UNCHANGED pos

\* main() after the bags.
BagsRead ==
  /\ pc = "open"
  /\ bag > Len(bags)
  /\ pc' = IF auto_quit THEN "wait" ELSE "spin"
  /\ UNCHANGED reader

SpinReturns ==
  /\ pc = "spin"
  /\ ~ok
  /\ pc' = "wait"
  /\ UNCHANGED reader

\* spin_some and spin need a context that is up; once it is not, they may throw,
\* and nobody catches that either.  has_next and paused are here because rclcpp
\* may go down right after the test of ok().
SpinThrows ==
  /\ ~ok
  /\ \/ pc \in {"has_next", "paused", "needs_wait"}
     \/ pc = "open" /\ bag > Len(bags) /\ ~auto_quit
  /\ pc' = "terminated"
  /\ UNCHANGED reader

-----------------------------------------------------------------------------
(* read_bag: the next message. *)

\* Mutant: auto_quit keeps the value of the parameter.
GiveUpQuietly == pc' = "wait" /\ UNCHANGED auto_quit

\* read_bag returns false: the remaining bags are left, wait() will not spin.
GiveUp == pc' = "wait" /\ auto_quit' = TRUE

HasNext == pc = "has_next" /\ pos <= Len(bags[bag])

\* Mutant: the loop does not look at rclcpp::ok().
MayReadDeaf == HasNext

MayRead == HasNext /\ ok

Interrupted ==
  /\ HasNext
  /\ ~ok
  /\ GiveUp
  /\ UNCHANGED <<pos, msg, clocks, pause_start>>

\* The bag time and wall clock to count from, set by the first message.
BagStart(m) == IF bag_t0 = 0 THEN m.time ELSE bag_t0
RealStart == IF real_t0 = 0 THEN now ELSE real_t0

\* Mutants: nothing is reset after the seek; bag_t0 stays at the first message.
SeekAgain(m) == bag_t0' = BagStart(m) /\ UNCHANGED <<start_offset, real_t0>>
SeekKeepsBagTime(m) == start_offset' = 0 /\ bag_t0' = BagStart(m) /\ real_t0' = 0

\* The seek is done once, and playback counts from the message it leads to.
SeekResets(m) == start_offset' = 0 /\ bag_t0' = 0 /\ real_t0' = 0

\* seek() goes to the first message of this bag that is not too early, or to its end.
SkipOffset ==
  /\ MayRead
  /\ start_offset > 0
  /\ LET b == bags[bag]
         Early(i) == b[i].time < BagStart(b[pos]) + start_offset
     IN \E p \in 1..Len(b) + 1 :
          /\ \A i \in 1..p - 1 : Early(i)
          /\ p <= Len(b) => ~Early(p)
          /\ pos' = p
  /\ SeekResets(bags[bag][pos])
  /\ UNCHANGED <<pc, msg, pause_start, auto_quit>>

PastRange(m) ==
  \/ opt.until > 0 /\ m.time > opt.until
  \/ opt.duration > 0 /\ m.time > BagStart(m) + opt.duration

\* keyboard.update(): whether the space bar was hit an odd number of times.
Keyboard == BOOLEAN

\* read_next, the range checks, and the first look at the keyboard.
ReadNext ==
  /\ MayRead
  /\ start_offset = 0
  /\ LET m == bags[bag][pos]
     IN /\ msg' = <<m>>
        /\ bag_t0' = BagStart(m)
        /\ IF PastRange(m)
           THEN GiveUp /\ UNCHANGED pause_start
           ELSE /\ \E paused \in Keyboard :
                     pc' = IF paused THEN "paused" ELSE "throttle"
                /\ pause_start' = IF pc' = "paused" THEN now ELSE pause_start
                /\ UNCHANGED auto_quit
  /\ real_t0' = RealStart
  /\ pos' = pos + 1
  /\ UNCHANGED start_offset

-----------------------------------------------------------------------------
(* The pause. *)

PauseSleep ==
  /\ pc = "paused"
  /\ ok
  /\ now < pause_start + MaxPause
  /\ now' = now + 1
  /\ UNCHANGED <<pc, real_t0, auto_quit>>

\* Mutants: real_t0 moves the wrong way; the pause counts as played.
AfterPauseBackwards(t0) == t0 - (now - pause_start)
AfterPauseUnadjusted(t0) == t0

AfterPause(t0) == t0 + (now - pause_start)

Resume ==
  /\ pc = "paused"
  /\ ok
  /\ TRUE \in Keyboard
  /\ real_t0' = AfterPause(real_t0)
  /\ pc' = "throttle"
  /\ UNCHANGED <<now, auto_quit>>

PauseInterrupted ==
  /\ pc = "paused"
  /\ ~ok
  /\ GiveUp
  /\ UNCHANGED <<now, real_t0>>

-----------------------------------------------------------------------------
(* Throttling, the callbacks, and waiting for an extension. *)

\* The playback speed: sleep while the wall clock is behind the bag.
TooEarly ==
  Speed > 0 /\ (now - real_t0) * Speed + bag_t0 < msg[1].time

ThrottleSleep ==
  /\ pc = "throttle"
  /\ TooEarly
  /\ now' = now + 1
  /\ played' = played + 1
  /\ UNCHANGED <<pc, wait_t0, auto_quit, history>>

ThrottleEnds ==
  /\ pc = "throttle"
  /\ ~TooEarly
  /\ pc' = "dispatch"
  /\ UNCHANGED <<wait_t0, time, auto_quit, history>>

TypeMismatch ==
  /\ pc = "dispatch"
  /\ msg[1].topic # "ext" /\ ~msg[1].typed
  /\ GiveUp
  /\ UNCHANGED <<wait_t0, time, history>>

\* Mutant: a cloud right at the end counts as past it.
PastEndEarly(m) ==
  m.topic = "points" /\ m.stamp >= opt.end_time

PastEnd(m) == m.topic = "points" /\ m.stamp > opt.end_time

\* The callback of the topic, then - unless end_time is reached - the sleep a
\* slow odometry asks for, the extensions' subscriptions and timer_callback.
Deliver ==
  /\ pc = "dispatch"
  /\ LET m == msg[1]
     IN /\ m.topic = "ext" \/ m.typed
        /\ delivered' = Append(delivered, <<bag, pos - 1>>)
        /\ IF PastEnd(m)
           THEN GiveUp /\ UNCHANGED <<time, wait_t0>>
           ELSE /\ \E d \in {0, 1} : now' = now + d /\ played' = played + d
                /\ wait_t0' = now'
                /\ pc' = "needs_wait"
                /\ UNCHANGED auto_quit
  /\ late' = IF ok THEN late ELSE late + 1

\* Mutant: t0 is taken inside the loop.
ExtensionBusyRestarts ==
  /\ pc = "needs_wait"
  /\ now' = now + 1
  /\ played' = played + 1
  /\ wait_t0' = now'
  /\ UNCHANGED <<pc, auto_quit, history>>

\* needs_wait() is true: sleep, and give up when it takes too long.
ExtensionBusy ==
  /\ pc = "needs_wait"
  /\ now' = now + 1
  /\ played' = played + 1
  /\ pc' = IF now + 1 - wait_t0 > Timeout THEN "has_next" ELSE "needs_wait"
  /\ UNCHANGED <<wait_t0, auto_quit, history>>

ExtensionReady ==
  /\ pc = "needs_wait"
  /\ pc' = "has_next"
  /\ UNCHANGED <<wait_t0, time, auto_quit, history>>

-----------------------------------------------------------------------------

\* What wait() and save() do is the subject of GlimRos.
Terminated == pc \in {"wait", "terminated"} /\ UNCHANGED vars

BagStep ==
  /\ OpenBag \/ BagEnds \/ BagsRead \/ SpinReturns \/ SpinThrows
  /\ UNCHANGED <<msg, clocks, pause_start, wait_t0, time, auto_quit, history>>

ReadStep ==
  /\ Interrupted \/ SkipOffset \/ ReadNext
  /\ UNCHANGED <<bag, wait_t0, time, history>>

PauseStep ==
  /\ PauseSleep \/ Resume \/ PauseInterrupted
  /\ UNCHANGED <<reader, msg, start_offset, bag_t0, pause_start, wait_t0, played,
                 history>>

MessageStep ==
  /\ ThrottleSleep \/ ThrottleEnds \/ TypeMismatch \/ Deliver
     \/ ExtensionBusy \/ ExtensionReady
  /\ UNCHANGED <<reader, msg, clocks, pause_start>>

PlayerStep ==
  (BagStep \/ ReadStep \/ PauseStep \/ MessageStep) /\ UNCHANGED <<inputs, ok>>

Next == Shutdown \/ PlayerStep \/ Terminated

Spec == Init /\ [][Next]_vars

\* The thread runs, every sleep ends, and the user lifts a pause.
FairSpec == Spec /\ WF_vars(PlayerStep)

-----------------------------------------------------------------------------
(* What is to be played, defined from the bags and the settings alone. *)

Places == UNION {{b} \X (1..Len(bags[b])) : b \in 1..Len(bags)}

At(p) == bags[p[1]][p[2]]

Before(p, q) == p[1] < q[1] \/ (p[1] = q[1] /\ p[2] < q[2])

\* The messages from the offset on, which counts within the first bag that has any.
Offered ==
  {p \in Places : (\A b \in 1..p[1] - 1 : bags[b] = <<>>) =>
                    At(p).time >= bags[p[1]][1].time + opt.start_offset}

Opening == CHOOSE p \in Offered : \A q \in Offered : ~Before(q, p)

OutOfRange(p) ==
  \/ opt.until > 0 /\ At(p).time > opt.until
  \/ opt.duration > 0 /\ At(p).time - At(Opening).time > opt.duration

\* Playback stops before a message out of range or of the wrong type, and after
\* the first cloud past the end.
Unplayable(p) == OutOfRange(p) \/ (At(p).topic # "ext" /\ ~At(p).typed)

Closes(p) == At(p).topic = "points" /\ At(p).stamp > opt.end_time

Expected ==
  {p \in Offered : /\ ~Unplayable(p)
                   /\ \A q \in Offered : Before(q, p) => ~Unplayable(q) /\ ~Closes(q)}

-----------------------------------------------------------------------------
(* Properties. *)

\* Every variable stays in its type.
TypeOK ==
  /\ bags \in Playlists /\ opt \in Settings
  /\ pc \in Pcs
  /\ bag \in Nat \ {0} /\ pos \in Nat \ {0}
  /\ msg \in Seq(Message) /\ Len(msg) <= 1
  /\ start_offset \in Nat
  /\ bag_t0 \in Nat /\ real_t0 \in Nat
  /\ pause_start \in Nat /\ wait_t0 \in Nat /\ now \in Nat
  /\ ok \in BOOLEAN /\ auto_quit \in BOOLEAN
  /\ delivered \in Seq((Nat \ {0}) \X (Nat \ {0}))
  /\ played \in Nat /\ late \in Nat

\* The callbacks get the messages the settings ask for, in the order of the bags,
\* none left out and none twice, and all of them unless rclcpp goes down: the seek,
\* the clocks it resets and the early returns of read_bag fit together over the
\* bags.
PlaybackIsExact ==
  LET given == Range(delivered)
  IN /\ \A i, j \in DOMAIN delivered : i < j => Before(delivered[i], delivered[j])
     /\ given \subseteq Expected
     /\ \A p \in Expected \ given : \A q \in given : ~Before(p, q)
     /\ ok /\ pc \in {"spin", "wait"} => given = Expected

\* However often the user pauses and whatever slows the callbacks, no message is
\* played before its time: "Adjust real_t0 to account for pause duration to avoid
\* fast-forward".
NoFastForward ==
  [][delivered' # delivered /\ Speed > 0 =>
       msg[1].time <= At(delivered'[1]).time + played * Speed]_vars

\* Once rclcpp is down at most the message at hand reaches the callbacks, though
\* the throttling and needs_wait loops do not look at it.
LateAtMostOne == late <= 1

\* How far a message has come, and for how many ticks more the player may sleep.
Stage ==
  [open |-> 0, paused |-> 1, throttle |-> 2, dispatch |-> 3, needs_wait |-> 4,
   has_next |-> 5, spin |-> 6, wait |-> 7, terminated |-> 7]

SleepLeft ==
  CASE pc = "paused"     -> pause_start + MaxPause - now
    [] pc = "throttle"   -> msg[1].time - (bag_t0 + (now - real_t0) * Speed)
    [] pc = "needs_wait" -> wait_t0 + Timeout - now
    [] OTHER             -> 0

\* Each step of the player leaves a bag, opens one, reads or skips a message, brings
\* the message at hand on, or sleeps for one tick of a time that was finite when the
\* sleep began: a seek never leads back, and no loop begins its wait again.  As the
\* bags are finite, only finitely many steps can do so.
PlaybackAdvances ==
  [][UNCHANGED ok =>
       \/ bag' > bag
       \/ bag' = bag /\ pc = "open" /\ pc' # "open"
       \/ bag' = bag /\ pos' > pos /\ pc' # "open"
       \/ UNCHANGED reader /\ Stage[pc'] > Stage[pc]
       \/ UNCHANGED <<reader, pc>> /\ SleepLeft > 0 /\ SleepLeft' < SleepLeft]_vars

\* Playback comes to an end whatever the bags, the settings and the extensions
\* are: neither the offset's seek nor a hung extension keeps it going round.
PlaybackFinishes == <>(pc \in Ends)
=============================================================================
