# Specifications of glim_ros2

glim_ros2 puts the GLIM mapping library on ROS 2. The library estimates, submaps
and optimizes; what this repository adds is the plumbing around it, and that is
what is specified here: the way of clouds, IMU data and images between threads, the
player that replays bags through the same callbacks, the RViz extension, the QoS
settings, and how all of it ends without losing what is still on its way.

The repository has no tests and its README says nothing of behaviour, so the
modules follow the code (`src/` below is the repository root). The glim library,
rclcpp, rosbag2 and tf2 are external: they are modelled by what this code relies
on, and `PROJECT.json` marks those definitions.

## 1. Inventory

| Part | State it keeps | Operations | Correct when |
|---|---|---|---|
| GlimROS node (`src/glim_ros/glim_ros.cpp`) | three async workers, any of the last two absent; extension modules; acceleration scale; "meta" frame ids in GlobalConfig | constructor, `imu_callback`, `image_callback`, `points_callback`, `timer_callback` (1 ms), `needs_wait`, `wait`, `save`, destructor | frames reach the map once and in order; IMU data comes before what it is needed for and in the right unit; a dump is complete; the process ends |
| glim_rosnode (`src/glim_rosnode.cpp`) | - | spin, shutdown, `wait(false)`, `save` | as above |
| component container (the node is a registered component) | - | load, unload | as above, with `dump_on_unload` |
| glim_rosbag (`src/glim_rosbag.cpp`) | list of bags, reader position, `start_offset`, `bag_t0`, `real_t0`, pause flag | `read_bag` for each bag, then spin / `wait` / `save` | exactly the asked-for messages, in order, at the right pace; it ends |
| RvizViewer (`src/glim_ros/rviz_viewer.cpp`) | frame ids, trajectory with its anchor (mutex), invoke queue (mutex), submaps, time of the last map | `odometry_new_frame`, `globalmap_on_update_submaps`, `invoke`, `spin_once`, destructor | maps and transforms are consistent and form one chain; ids are right; its thread ends |
| QoS settings (`src/glim_ros/ros_qos.cpp`) | none | `get_qos_settings` | configured values win, unknown ones have no effect, the caller's default only without any |
| validator_node | none of its own | forwards to the library | - |
| offline_viewer, map_editor | none | command line, then a viewer of the library | - |

Threads and how they meet:

- The executor thread is also the thread of `main()`. It runs all node callbacks
  and, in glim_rosbag, the player. It shares state with the workers only through
  their queues (`insert_*`, `get_results`) and through GlobalConfig.
- In glim_rosbag the player calls the node's callbacks directly, `timer_callback`
  after each message, and lets the node's own timer in wherever it calls `spin_some`.
  Both look at `rclcpp::ok()`.
- The workers (odometry, sub mapping, global mapping) run at any time, and call
  the callbacks that extension modules registered.
- RvizViewer has a thread of its own, which runs the tasks that the global mapping
  thread put in `invoke_queue`.
- The outside world shuts rclcpp down, closes extensions, presses space, subscribes.

What is hard, and listed line by line under "hazards" in `PROJECT.json`: the
hand-overs between threads; the order of join, fetch and insert at the end, with
stages missing, and a second time in the destructor; destruction of extensions
whose callbacks stay registered; the two clock origins of the player over seek,
pause and several bags; shutdown in the middle of anything; data captured by one
thread and used by another later.

## 2. Modules

| Module | What it is |
|---|---|
| `FrameRuns` | vocabulary: a run of frames, a partition of frames into submaps. No recursion, so that proofs can use it |
| `MapService` | abstract specification: what a GLIM process promises to whoever feeds it clouds |
| `GlimRos` | the node, the three workers and the three hosts; implements `MapService` |
| `MCGlimRos` | the hosts TLC checks |
| `FrameRunsLemmas` | lemmas on runs, partitions and sequences moved from queue to queue |
| `GlimRosProofs` | theorems about `GlimRos` |
| `GlimRosRefinement` | the theorem that `GlimRos` implements `MapService` |
| `SensorInput`, `MCSensorInput` | IMU data and images on their way to the stages, together with the frames; the readings TLC tries |
| `RosbagPlayer`, `MCRosbagPlayer` | the player; the playlists and settings TLC plays |
| `RosbagSession`, `MCRosbagSession` | a glim_rosbag process: `RosbagPlayer` and `GlimRos` composed |
| `RosbagSessionProofs` | the composition implements both components, and what follows from that |
| `RvizViewer`, `MCRvizViewer` | the viewer extension, with the frame id part of the node's callbacks; the frame ids TLC tries |
| `RosQos`, `MCRosQos` | `get_qos_settings`; the profiles and depths TLC tries |
| `SensorInputProofs`, `RosbagPlayerProofs`, `RvizViewerProofs`, `RosQosProofs` | theorems about the module each is named after |

Operators whose comment begins with "Mutant" are deliberately wrong variants of
the definition after them. Nothing uses them; put in its place, each makes the
property listed for it in `PROJECT.json` fail, which shows that the property
depends on that code.

### GlimRos

Frames are numbered in the order of acceptance; a submap is the sequence of its
frames and a map a sequence of submaps. `pc` is the line the executor/main thread
is at; each call into a worker is one action, so workers interleave with every
call. A loop over `marginalized_frames` or `submaps` is `InsertFrame` or
`InsertSubmap`, repeated; `timer_callback` and `wait` share them, as they share
the code's shape.

| Code | Model |
|---|---|
| constructor, 42-204 | `Init`: `sub_mapping` and `global_mapping` may be null, `dump_on_unload` any |
| `points_callback`, 281-313 | `points_callback`; early returns change none of this state |
| `timer_callback`, 325-348 | `TimerBegin`, `InsertFrame`, `TimerSubmaps`, `InsertSubmap`, `TimerEnd` |
| `wait`, 350-383 | `JoinOdometry` ... `GlobalMappingJoined`, `WaitReturns` |
| `save`, 385-390 | `save` |
| destructor, 206-215 | `Destructor`, entered by `Unload` (component) or `Quit` (main returns) |
| both `main`s | `SpinReturns`, `PlaybackEnds` (both by `GoToWait`), `Quit` |

Callbacks run while the executor spins (`Dispatches`): rclcpp dispatches none once
it is down, but glim_rosbag calls them itself.

A `join()` is two actions: it raises the end flag, and returns when the thread has
ended. The workers' own steps choose freely how many frames are marginalized and
when a submap is complete.

### SensorInput

`imu_callback` settles the scale of accelerations and asks the time keeper;
`Insert` then hands the data to one stage after the other, as `image_callback` does,
while the stages work. Frames and submaps are abstracted to the amount of data they
may have been made with, which is what `DataComesFirst` compares. Norms are in
tenths, scales are 1 or 9.807 (`One`, `Gravity`), and `unit` is what the sensor
really measures in. `callback_pc` and `timer_pc` are apart so that the mutual
exclusion of the two, which ROS's default callback group grants, is a guard one can
take away (mutant `TimerMayRunAside`). After the executor has ended no data comes
any more; `wait` adds nothing here.

### RosbagPlayer

One thread, so one action per stretch of `read_bag` between two places where time
passes or somebody else acts. Time is a counter; sleeping is what advances it, and
a message's callbacks may cost a tick. The keyboard is a free choice to pause where
`keyboard.update()` is called. `needs_wait()` answers anything. Opening a bag may
throw (`opt.unreadable`), and so may `spin_some` and `spin` once rclcpp is down
(`SpinThrows`): nobody catches either, and `pc` is "terminated". `seek` goes to the
first message of the current bag at or after the given time, or to its end. A place
is a bag and a position in it; `delivered` is the history of the places whose
messages were given to a callback. `Offered` and `Expected` are the sets of places
to be played, defined from the bags and settings alone.

### RosbagSession

The two modules side by side, sharing `ok`; the player's thread is the node's
executor. A player step that delivers a usable cloud is also the node's
`points_callback`, and owes a `timer_callback` (`due`) unless it returns from
`read_bag`. Where the player calls `spin_some`, the node's timer may fire as well.
What `GlimRos` leaves open in `PlaybackEnds` is decided here by the player; that
the player never goes beyond what `GlimRos` allows is `NodeSpec`. Nobody
publishes on the node's topics while bags are played; messages from there would be
mapped too, and `BagsReachTheDump` speaks of bags only.

### RvizViewer

A pose is replaced by the version of the anchor it was computed with and the power
of `T_imu_lidar` in it. Four threads act, each with the variables it may change:
executor (`imu_callback`, `PointsFrameId`, `PointsInsert`), odometry
(`FrameEstimated`, `FrameIds`, `Locate`, `Publish`), global mapping
(`SubmapsUpdated`, `Invoke`), and the viewer's (`SpinOnce`, `RunTask`,
`SpinOnceEnds`, `ThreadEnds`). The two mutexes are the atomicity of `Locate` and
`SubmapsUpdated` (trajectory) and of `Invoke` and `SpinOnce` (queue). The destructor
is `Destroy`, which raises the flag, and `ThreadJoined`.

`on_update_submaps` may report any list of submaps that has at least one and does not
shrink: one more than before, several, or, as after an optimization, none. `reports`
is the history of the lengths. A task (`TaskOf`) carries the last submap of the list
and a pose for each; a pose is the submap it belongs to and the update that reported
it, and `NoPose` stands for whatever is read past the end. `sent_tf`
and `sent` are what the last call published, `tf` the edges of all transforms ever
sent. A topic without subscribers is published all the same: nobody sees it. An id
that is not set is `Empty`. The ids "map" and "odom" stand for `map_frame_id` and
`odom_frame_id`; that no sensor is configured or labelled with one of them is up to
whoever configures the node, and is part of `IsSetup`.

### RosQos

The local variables of `get_qos` are the state, one action per parameter. A
configuration is the set of parameters present and a value for each; a value "?" is
one rmw does not know. `SettingsAsWritten` says what is meant from the
configuration alone. An int becomes a size_t modulo `SizeMax + 1`.

## 3. Runs

| Run | Bounds | Distinct states | What it shows |
|---|---|---|---|
| `node` | 3 clouds, all hosts, stages and `dump_on_unload` | 59 460 | `InFlightIsARun`, `NothingLost`, `DumpsComplete`, `MapQuietDuringSave`, `UnloadIsQuiet`; `wait` never stands where nobody lets it go on (`WaitIsNeverStuck`), and once the node is let go of every step brings the end nearer (`ShutdownAdvances`), and shutdown leads to the end of the process (`ShutdownCompletes`); `GlimRos` implements `MapService` (`ServiceSpec`) |
| `player` | 4 playlists of up to 2 bags, 144 settings, pauses up to 2 ticks | 817 280 | the right messages, in time, at most one after shutdown; no step goes back or round (`PlaybackAdvances`); playback ends |
| `session_dump` | 2 playlists, 3 clouds, all stages and settings | 1 059 272 | from the bags to the dump; the player calls the node only as `GlimRos` allows (`NodeSpec`) |
| `session_ends` | 2 playlists of 1 bag | 217 456 | a batch run ends by itself |
| `sensor_input` | 3 messages, 2 clouds, 5 norms | 616 000 | data before frames, stages alike, the unit |
| `qos_settings` | 7 profile names, 3 depths, an int of 8 bits and a size_t of 16 | 254 016 | settings as written |
| `viewer_frames` | 2 clouds, 2 updates of 1 submap, 6 setups of frame ids | 1.13 million | ids, transforms and poses agree |
| `viewer_map` | 4 updates of up to 4 submaps, period 2, no clouds | 97 488 | maps follow the updates; the destructor returns |
| `map_all_submaps`, `map_every_ten_seconds`, `aligned_points`, `lidar_transform` | 1 cloud, 1 or 2 submaps and updates | - | disagreements, see section 5 |

Why these bounds are enough. Three clouds are the least that can be in three
different places while a fourth place is fetched from: one in a submap, one in a
callback's locals, one in a worker; the theorems take the bound away for the
node's safety. Four updates in the viewer let one be assembled, one wait in the
local list and two arrive in the queue, and each may bring no submap, one, or
several; clouds play no part in it. The frames need two updates, because an anchor
has to change between two calls. Two clouds and three messages let a frame be handed
over while the next one is made with data of a callback that is under way. The
readings of the IMU lie on both sides of each of the four thresholds, and what is at rest in one
unit is a possible reading in the other. The setups configure or detect the ids,
with a base apart, one id for both sensors and the LiDAR as base. The session plays
at full speed (`Speed = 0`): its pace is the player's own matter. Its clouds are
usable or not, its bags end early by a broken message, by `end_time` or not at all.
The playlists hold no bag, an empty bag, a second
bag, one that cannot be opened, a bag recorded before the one played first, a topic of the wrong type and a
topic only an extension knows; the settings hold an offset inside and past the
first bag and limits that strike and that do not (an `end_time` that is not set is later than every
stamp, as in the code). Every reachable combination of
them is played.

Fairness. `GlimRos`: the executor and main thread keeps running, a worker with
work does it (the operating system schedules both), and a container exits once
rclcpp is down. Of `SpinReturns` fairness is strong: between its callbacks the executor
looks at `rclcpp::ok()` again and again, and a callback can always be under way when
it does not. Nothing is assumed of the user: neither a shutdown nor the closing
of an extension ever has to happen. `RosbagPlayer`: the thread runs, sleeps end,
and the user lifts a pause (the constant `MaxPause`). No fairness is needed of an
extension; that is what the one-second timeout is for. `RosbagSession`: the same
of both; strong for the player's steps, because `spin_some` runs what is ready and
then returns, however often the timer fires. `RvizViewer`: its thread,
the mapping thread's call in progress, the join of an ended thread, and the clock go
on.

Deadlock is checked in every run; a process that has ended stutters explicitly
(`Terminated`).

## 4. Proofs

Every safety property a passing run checks - invariants, action properties and the
two refinements - is a theorem for all values of the constants. The theorems and
their lemmas are in eight modules.

| Module | Theorem | Statement |
|---|---|---|
| `GlimRosProofs` | `TypeCorrect` | `Spec => []TypeOK` |
| | `OrderKept` | `Spec => []InFlightIsARun` |
| | `NothingIsLost` | `Spec => []NothingLost` |
| | `EveryDumpIsComplete` | `Spec => []DumpsComplete` |
| | `MapIsQuiet` | `Spec => []MapQuietDuringSave` |
| | `UnloadingIsQuiet` | `Spec => []UnloadIsQuiet` |
| | `WaitReturnsByItself` | `Spec => []WaitIsNeverStuck` |
| | `ShutdownIsFinite` | `Spec => ShutdownAdvances` |
| `GlimRosRefinement` | `Implements` | `Spec => ServiceSpec` |
| `RosbagPlayerProofs` | `TypeCorrect` | `Spec => []TypeOK` |
| | `ExactPlayback` | `Spec => []PlaybackIsExact` |
| | `NeverTooEarly` | `Spec => NoFastForward` |
| | `OneMessageLate` | `Spec => []LateAtMostOne` |
| | `PlaybackGoesOn` | `Spec => PlaybackAdvances` |
| `RosbagSessionProofs` | `SessionRunsThePlayer` | `Spec => Player!Spec` |
| | `SessionRunsTheNode` | `Spec => NodeSpec` |
| | `EveryBagReachesTheDump` | `Spec => []BagsReachTheDump` |
| | `SessionKeepsTheService` | `Spec => Node!ServiceSpec` |
| `SensorInputProofs` | `TypeCorrect` | `Spec => []TypeOK` |
| | `InputPrecedesProducts` | `Spec => []DataComesFirst` |
| | `StagesSeeTheSame` | `Spec => []StagesAgree` |
| | `UnitsStayRight` | `Spec => []UnitsRight` |
| `RvizViewerProofs` | `TypeCorrect` | `Spec => []TypeOK` |
| | `LidarIdIsTheSensors` | `Spec => []LidarIdDetected` |
| | `OneAnchorPerFrame` | `Spec => []TransformAgreesWithPose` |
| | `OneChain` | `Spec => []TransformsFormAChain` |
| | `MapsFollowUpdates` | `Spec => []MapFollowsUpdates` |
| `RosQosProofs` | `QosAsWritten` | `Spec => []SettingsAsWritten` |
| | `QosDefault` | `Spec => []DefaultWhenUnconfigured` |

Every inductive invariant below was checked by TLC on the instance of the
component's run before it was proved.

### GlimRos

For any number of clouds, any subset of hosts and any configuration. None of the
invariants is inductive. That a dump is complete, for instance, depends on the
workers being empty when `save` runs, which depends on where the main thread is and
on which workers have ended. `IInv` adds that control part, `IControl`:

- `Position`: what each `pc` implies (for example: in `wait_submaps` the sub mapping
  thread has ended and its output is empty);
- `EndOrder`: stages end in the order of the pipeline, each empty, and a stage is
  told to end only when everything before it has been handed over;
- `Missing`: the queues behind a missing stage are empty.

`NextControl` shows it inductive, action by action, without looking at frames.
The data part looks at no control: every step either carries frames on
(`Carries`), takes one in at the young end (`TakesIn`), makes the oldest ones a
submap (`Groups`), or, with a stage missing, drops the oldest (`Drops`). That is
lemma `Flow`; `RunStep` and `LossStep` then conclude from these four cases alone.
`DumpStep` uses both: with `Drained`, at `save` nothing is under way, so
`NothingLost` says that the map is everything. `UnloadingIsQuiet` adds the small
invariant `Unloaded` on top of `IControl`.

How the node ends has two theorems. `WaitReturnsByItself` says that where `wait`
stands still it waits for a worker that was told to end, or not at all; `WaitInv` adds
to `Position` that whoever entered `wait` either told it to quit by itself or found
rclcpp down, and neither is taken back. `ShutdownIsFinite` says that from then on the
natural number `Left` falls with every step of the thread and of a worker and does
not change with any other. `Left` counts the hand-overs each frame and submap still
faces (a frame in the odometry's input seven, a submap in the global mapping's input
one), the workers that run, and the way through `wait` and `save`, once more for the
destructor as long as the extensions are loaded. `WorkerAdvances`, `InsertAdvances`,
`WaitAdvances` and `ThreadAdvances` are the four kinds of steps. The two theorems
are the part of `ShutdownCompletes` that does not depend on fairness, for any number
of clouds: there is always somebody whose step is due, and there are finitely many
steps to take.

`Implements` is step simulation. `points_callback` is the service's `Accept`; the
three ways out of the executor are `Close`; `save` is `Dump`, by `Drained` and
`NothingLost`, or invisible without global mapping; a step of the global mapping
thread is `Integrate`, because the head of its queue is the submap that follows the
map in the partition `Submaps` (`IntegrateStep`); everything else is a stutter.
`Integrate` also asks that the new submap ends at or before the last accepted cloud.
`NothingLost` says so of the last submap of the partition only, and to go from there
to the earlier ones would take an induction over the map. `Bounded` states it of
every submap and is inductive together with `IInv` instead: the only step that adds
to `Submaps` (`Groups`) adds at the end.

`FrameRunsLemmas` holds what is known of runs, partitions and of elements moved
from one sequence to the next, each fact stated once. The assumptions on constants
are `MainsAssumption` and `MaxCloudsAssumption`.

### RosbagPlayer

For any lists of bags, settings, speed, timeout and `MaxPause`; the bags give their
messages by recording time, none of them 0 (`PlaylistsAssumption`, the bags' side of
which is rosbag2's). The invariant has four parts.

- `TypeInv` is `TypeOK`, where the reader may stand (`Control`: `pos` within the bag
  and, where main() has a message at hand, the message before `pos`), and that a
  pause begins no later than now, without which `real_t0` might not be a time.
- `SeekInv`, `OpeningInv`, `GivenInv` (together `PlaybackInv`) are about `Passed`,
  the places the reader has gone past. While the bags are read, what was given is
  what was passed and offered, less the message at hand, and none of it ends
  playback; once the reading has ended, `PlaybackIsExact` itself is the invariant.
  As long as the offset is to be skipped, every bag so far was empty; after the seek
  all that is ahead is offered. `bag_t0` is the time of the `Opening`, the first
  place offered, as soon as it was passed: that is what makes the limit on the
  duration the same in the code and in `Expected`, through the seek's reset to 0.
- `ClockInv`: `now - real_t0` is `played`, and `pause_start - real_t0` is during a
  pause; and at "dispatch" the message is due by that clock. With
  `OpeningInv` this gives `NoFastForward`.
- `LateInv`: nothing was late while rclcpp is up or the message at hand is not yet
  delivered. Only after a test of `ok()` is a message taken in hand.

`PlaybackGoesOn` is the part of `PlaybackFinishes` that does not depend on fairness:
ordered by bag, position, stage of the message and time left to sleep, every step of
the player goes forward, and each of these is bounded. It needs the invariant for the
seek (`SeekStarts`: when the offset is skipped nothing has been passed and `bag_t0` is
not known, so that the first message is always too early and `seek` cannot stay where
it is) and for the sleeps, which count from times that stay put while they last.

Steps are grouped by what they do to `Passed` and `delivered`: `QuietStep` (neither
changes), `FinalStep` (the reading ends; with `StoppedRight` when it is an unplayable
message that ends it), and one lemma each for the seek, `ReadNext` and `Deliver`.
Defining places, not flattening bags into one sequence, keeps all of this free of
induction over data.

### RosbagSession

For any bags and settings, any speed and any set of unusable clouds. The session's
state is that of its two components, and the theorems use the components' theorems
instead of proving anything twice. `SessionRunsThePlayer` and `SessionRunsTheNode` show
that every step of the session is a step of `RosbagPlayer` or a stutter, and a step of
`GlimRos` with the host "rosbag" or a stutter. For the player that is a matter of looking at
each step. For the node it is not: `GlimRos` lets `wait(false)` begin only when rclcpp is
down, and whether what the player passes on respects that depends on how it came to
its end (`PlayerEnds`). `HostInv` says who has the thread: the node's callbacks, the
player, or what follows both. `PlayerInv` and the node's `IInv` then hold in the session
by the components' own lemmas, which the module instantiates (`ProvedNode`,
`ProvedPlayer`). An instance is for the prover a module of its own, so the lemmas named
`Same...` state that the definitions of `Node` and `ProvedNode`, `Player` and
`ProvedPlayer` are the same, by expanding both.

What is left to prove of the composition is the hand-over. `IntakeInv` says that the
node has accepted as many clouds as usable places were delivered; `AtHandIsNew`, from
the player's order of places, says that a delivery adds a place and does not repeat
one. At a dump, `EveryDumpIsComplete` says that the map is all that was accepted,
`IntakeInv` that this is what was delivered, and `ExactPlayback` that with rclcpp up it
is what was to be played; `DumpsAreFull` says that a dump is only written once the player
is past its bags. `SessionKeepsTheService` is `Implements` for the node in the session.

### SensorInput

For any norms and any number of messages and clouds. `IInv` adds to `TypeOK`:
`TimerControl`, the mutual exclusion of timer and sensor callbacks; `InStep`, which
stages still lack the message at hand during a callback; `MadeWithin`, that each
queue's products were made with data the next stage has been given (a product may be
ahead of a stage only while odometry or a mapping thread holds it); and
`ScaleSettled`, that the first IMU message settles `acc_scale` and that everything
handed on carries it. `DataComesFirst` needs `InStep` and `TimerControl` together:
when `timer_callback` takes frames nobody is in the middle of a sensor callback, so
all stages have the same data.

### RvizViewer

For any setups, clouds, submaps and period. `TypeOK` is not inductive: `TypeInv` adds
that there is room for a cloud being inserted and that a task is made for an update
there was. `DetectedFirst` (the id is stored before a cloud can be a frame) gives
`LidarIdDetected`. `IdsFollowSetup` and `EdgesKnown` (ids in transforms are never
empty, so `Resolve` never changes them again, and every edge is one of three) give
`TransformsFormAChain`. Its first part, that the edges last, needs no condition; that they
are a chain cannot be had where the transform of the LiDAR is sent under an id that is
the IMU's or the base's as well, and the property says so. `PlacedOnce` gives
`TransformAgreesWithPose`. `TasksInOrder` says that the viewer's submaps, its local
tasks and the queue hold what update 1, 2, ... brought, in order and without a gap: the
k-th task that runs is that of the k-th update and finds k submaps. Hence
`MapFollowsUpdates`: piece i of a map is the last submap of update i, at the i-th of the
poses the map's own update captured, if it captured so many. With one new submap for
each update that is every submap once and at its own pose; section 5 says what else it
may be. Later updates do not disturb it because a map never shows more than the
viewer's submaps (`MapIsPast`).

### RosQos

For any profile names, any depths that an int can have and any widths of int and
size_t of which size_t is the wider one (`WidthAssumption`, `DepthsAssumption`).
`IInv` says, before each parameter is read, that `profile` is what the parameters
read so far (`ReadBefore`) make of the base profile, and that `is_configured` says
whether one of them means anything (`Seen`).

### Only model-checked

All liveness (`ShutdownCompletes`, `PlaybackFinishes`, `BatchEnds`,
`DestructorReturns`): fairness and ENABLED are out of the prover's reach. For the first
two, `WaitIsNeverStuck`, `ShutdownAdvances` and `PlaybackAdvances` are proved, from which
they follow with fairness; that step, from a number that falls to an end that is
reached, is an induction the prover cannot make. The runs that expect a violation state what
does not hold.

## 5. Disagreements between comments and code

All four are in `rviz_viewer.cpp`.

- Line 510 says "Concatenate all the submap points". Each call of
  `globalmap_on_update_submaps` leaves a task that pushes the last submap it was told of
  (474, 490) and places submap i with `submap_poses[i]` (519). That is right when every
  call brings exactly one new submap, which nothing in the callback ensures. In run
  `map_all_submaps` a call brings none, so that a submap is in the map twice and the
  second time at whatever lies past the end of the poses; or two, so that one is missing.
- Line 496 says "Publish global map every 10 seconds". The code looks at the clock
  only in the task of a submap that has just arrived, and returns when the last map
  is younger than ten seconds; nothing comes back to it later. Run
  `map_every_ten_seconds` shows a behaviour with a listener all the time and a
  submap in the viewer in which no map is ever published, though time passes and
  every thread runs.
- Line 454 says "Publish points aligned to the world frame"; by line 172 that is
  "the global optimization-based world frame". The points are transformed with the
  pose the odometry gave the frame and labelled with `map_frame_id`, without
  `T_world_odom`. Run `aligned_points`: after one update of the anchor they are off.
- Line 242 says "IMU -> LiDAR", as 189 says "Odom -> Base" and 230 "World -> Odom" of
  a transform from parent to child. `T_lidar_imu` is sent where the LiDAR odometry
  (264) uses its inverse. Run `lidar_transform`: the tf tree and `lidar_odom`
  disagree on where the LiDAR is.

## 6. What is not modelled

- Of the node: parsing and preprocessing of messages, time offsets (a constant added
  to every stamp), the parameter `keep_raw_points`, and the checks that reject data,
  which are free choices. The "meta" entry `image_frame` is stored and never read
  here.
- Of the player: how a storage is chosen, deserialization, glob patterns, the start
  delay, the speed counter. No message is recorded at time 0, which the code uses
  for "not known" (`bag_t0`): nothing in the repository says what offset and
  duration mean there. Times are whole numbers: how doubles round when an offset is
  compared or counted down is left out.
- Of the viewer: arithmetic of poses, the messages at the end of a scan (which
  repeat the others with one more factor), a cloud that odometry leaves in the world
  frame, an empty `frame_id` in a message (`IsSetup`: every header has one, or
  detection would find nothing), data races on GlobalConfig, and on_update_submaps calls
  with an empty list or a shorter one than before. When the viewer is destroyed in a component container, where the
  destructor clears the extensions before it waits, workers may still call it;
  `Destroy` models the programs with a `main()`, whose order `UnloadIsQuiet`
  establishes.
- How fast odometry works through its queue (`workload` only makes the player sleep
  longer), and how long a mapping stage takes.
- validator_node forwards messages and a timer to the library's DataValidator, in one
  thread and without state; offline_viewer and map_editor parse a command line and
  start a viewer of the library; build files, images, workflows and the RViz
  configuration have no behaviour to check.

## 7. Plan

Every part of the repository that has state or concurrency of its own is modelled and
checked, alone and, for glim_rosbag, in composition; the safety properties are theorems.
What could follow when the code or the tools change:

- liveness as theorems, once the prover knows fairness: `ShutdownAdvances` and
  `PlaybackAdvances` are the variants such proofs need, and `BatchEnds` would combine them;
- the component container with the viewer inside it, if the destructor comes to wait
  before it clears the extension modules: `UnloadIsQuiet` can then lose its condition
  on `main`;
- what offset and duration mean in a bag that begins at time 0, once the code says so.
