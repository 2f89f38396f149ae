# A TLA+ verification project for the Ranger navigation workspace

The repository is a ROS 2 workspace that drives an AgileX Ranger along recorded
waypoints. Most of its lines are vendored (Navigation 2, robot_localization,
sensor drivers); its own logic is the path from an operator's request to the
frames on the robot's CAN bus. This directory holds TLA+ models of the parts of
that path whose correctness depends on the order in which threads, callbacks and
messages meet, TLC configurations that check them on small instances, and TLAPS
proofs of the central results for every instance.

## The system

    operator --WaypointTask--> waypoint_runner --FollowWaypoints--> waypoint_follower
                                                       (SimpleActionServer)   |
                                                    NavigateToPose (bt_navigator: BtActionNode)
                                                                              |
    lidars --clouds--> scans_merger --/scan--> amcl, costmaps       FollowPath (SimpleActionServer)
                                                                              |
       lifecycle_manager brings all                                   controller_server
       Nav2 servers up and down, and                                          | cmd_vel_nav
       watches them                                                   velocity_smoother
                                                                              | cmd_vel
                                      robot <--CAN frames, reports--> ranger_base_node (ugv_sdk)

| Component | State it keeps | Operations | What is hard | What makes it correct |
|---|---|---|---|---|
| `wego_2d_nav/waypoint_runner` | run state, scene, index completed last, base and local index, goal handle, cancel flags | `setTask` (scenes, PAUSE, CONTINUE), goal response, feedback, result | one service and reentrant action callbacks on four threads; indices shared without a lock; results not matched to goals | a continued route leaves out no pose; Idle and Paused mean that the robot stands |
| `nav2_util::SimpleActionServer` | current and pending handle, preempt, active and stop flags, a `std::async` future | `handle_goal`, `handle_cancel`, `handle_accepted`, `work`, `activate`, `deactivate`, the calls offered to the execute callback | three threads, reads without the lock, a future that is ready later than the lock is free, a timeout | every accepted goal is kept, finished once, and finished |
| `nav2_waypoint_follower` | pose index, failed indices, status and future of the last NavigateToPose goal | `followWaypoints`, client callbacks, parameters, activation | late and old answers, preemption, cancellation, deactivation timeout, unchecked pointers | feedback and results describe the goal they are sent for |
| `nav2_behavior_tree::BtActionNode` | goal handle, future of an unanswered goal, result, update flag | `tick`, `halt`, result callback | answers and results that cross an update, acknowledgement timeouts, halts | the outcome is that of the goal sent last; halting cancels; the action ends |
| `nav2_controller` | the plan, time of the last valid command, publisher | `computeControl`, activation | preemption, cancellation and deactivation during the loop, exceptions of plugins, a costmap out of date | velocities belong to a live goal; every way out leaves a zero |
| `nav2_velocity_smoother` | last command and its time, last velocity, `stopped_` | command callback, timer, activation | a last message that is not zero | the robot comes to rest |
| `nav2_lifecycle_manager` | bonds, timers, clients, `system_active_` | startup, pause, resume, reset, shutdown, bond and respawn checks | failures half way, crashes, respawn, null entries | servers active in order; what is active is watched; a broken system is brought down and back |
| `scan_merger_2` | last scans, received and error flags | front and rear callback, `publishMessages`, params service | a silent or late lidar, a failed transform | no scan is shown twice, a silent lidar costs one scan, a beam shows its closest point |
| `ranger_ros2/ranger_base` | robot model, motion mode, publishers, odometry | construction, `Run`, `TwistCmdCallback`, `PublishStateToROS` | mode and command are separate frames; the odometry follows reports | a command meets the mode it was computed for |
| `ugv_sdk` (Ranger over CAN) | state decoded last, port, I/O thread | `SetMotionMode`, `SetMotionCommand`, `SendFrame`, `ReadFromPort` | I/O thread beside callers, refused frames, buffers that outlive their owner | what is reported and sent fits together again after a fault |
| `nav2_planner`, `nav2_smoother`, `nav2_behaviors` | plugins | actions on SimpleActionServer | numeric | covered as far as the action server goes |
| `bt_navigator`, `costmap_2d`, `amcl`, `map_server`, `robot_localization`, drivers, launch files | | | numeric, device I/O, libraries outside the repository | not modelled |

`PROJECT.json` lists all components, the hazards with their lines, and for each
definition the source lines it stands for.

## Modules

* `GoalLifecycle` is the abstract promise of an action server: a goal is refused or
  accepted once, one goal is executed at a time, beginning a goal finishes the one
  before, a finished goal stays finished.
* `SimpleActionServer` models the class. Sections under `update_mutex_` are single
  actions; a thread is cut wherever the code releases the mutex or reads without it:
  `work_condition` (the loop test reads two members without the lock), `work_finish`
  (one round under the lock) and `work_end` (the future becomes ready). `deactivate`
  is cut into its flag, its timeouts and its end. The execute callback is left open:
  between `execute_call`s it may do anything the class offers. `LifecyclePromise`
  instantiates `GoalLifecycle` with the current handle as the goal executed and the
  pending goal and the one being accepted as those waiting.
* `WaypointFollower` extends it with the real callback, `followWaypoints`, cut between
  its calls into the server and where it spins its client's executor. The
  `navigate_to_pose` server is external: any answer and any result at any time,
  answers in order. Every step of the callback is one that `SimpleActionServer` allows
  (lemma `FollowerIsServer`), so what is proved there holds here. Two history variables
  say what the code does not record: that the drive under way was cancelled, and that
  the rejection of an earlier goal was taken for one of the goal sent last.
* `ControllerServer` extends it with the other callback of this kind, `computeControl`,
  cut between its calls into the server and at the wait for the costmap. A goal is
  reduced to what the code branches on (are its controller and its goal checker known,
  is its path empty), a velocity to a number. `followed_after` says whose path the
  controller has after a goal was rejected: looking up the goal checker fails when
  `current_controller_` has been switched already. Lemma `ControllerIsServer` is the one
  of the follower. `VelocitySmoother`
  models the node behind it on one axis with integer velocities. `DriveChain` connects
  the two by the topic between them, which holds one message, and lets the lifecycle
  manager activate and deactivate each at any time.
* `BtActionNode` models the client side of the same action: the leaf of the behaviour
  tree that sends goals, replaces them when the path changes and turns the result into
  SUCCESS or FAILURE. Its executor runs only where `tick` and `halt` spin it, and the
  code is cut there. The `follow_path` server is seen at the level of `GoalLifecycle`,
  whose actions it reuses: that is what `ControllerKeepsPromise` proves of it. A result
  may also be UNKNOWN, which throws out of the tick; the tree catches it and halts.
* `WaypointRunner` models `setTask` and the three client callbacks, cut between a read
  of shared state and the write that depends on it. `WaypointSystem` puts it together
  with a server seen at the level of `GoalLifecycle`, which is what `FollowerKeepsPromise`
  proves of the follower, with requests in order and answers, feedback and results after any delay.
* `LifecycleManager` models the manager with any number of servers. Its services and
  timers share one thread, so an operation runs to its end, but it takes one step per
  server: servers crash, come back and lose heartbeats in between. A server's answer is
  the state machine of rclcpp_lifecycle: a transition is taken, refused, fails, or never
  answered because the server dies in it. The call throws when the server is gone, and
  when a live one is late: `change_state` is not there within 5 s, or `get_state` not
  answered within 2 s, before or after the transition. (The launch file of this
  workspace loads manager and servers into one container, where a crash takes both; the
  launch files of Navigation 2 also start them as processes of their own, with respawn.)
* `ScansMerger` models the two callbacks with the `publishMessages` they call (one
  thread, so one step each); `ScanSectors` models the loop that fills the scan, with
  rounding from double to float as a monotone, idempotent function. `LaserScanMerger`
  is the node: a callback that publishes fills the scan of its message before the next
  callback runs.
* `RangerBase` models the base driver with the part of ugv_sdk it uses. A Twist is
  reduced to what the code branches on, a motion command to the mode it was computed
  for and whether it was scaled. Motion modes stay numbers because ranger_msgs and
  ugv_sdk number them differently. `TwistCmdCallback` is cut between its two frames:
  the I/O thread may decode a report there. A write to a full socket is refused or
  waits; one that waits reads its frame from a stack frame that is gone, so it sends
  any of the frames the node may have built there, or junk.

Definitions named `X_something` next to `X` are faulty variants: replacing `X` by one
of them must violate the property `PROJECT.json` pairs with it, which shows that the
property depends on that line of code.

## Runs

| Run | Bounds | Shows |
|---|---|---|
| `server_goals` | three goals, handlers on a thread of their own, no completion callback | no accepted goal is dropped or finished twice, the callback is quiet after `deactivate`, the promise to clients is kept, every goal ends unless one of three named moments occurs |
| `follower_route` | two goals, of two poses each or of one and none | feedback counts processed poses, success covers the route, the robot is driven for live goals outside three named situations, crashes happen only where listed, the follower hangs only after another goal left a drive behind |
| `system_patient` | two scenes, files of one or two poses, or missing, or empty; three goals; the server may forget results | the index completed last is right, CONTINUE leaves out nothing, Idle and Paused mean standing, and so does a node ended by a late PAUSE |
| `system_hasty` | one scene of two poses, two goals, requests at any time; the server may forget an aborted goal | a pause ends unless its result is UNKNOWN, PAUSE throws only after the route's end or for a forgotten goal |
| `system_skips` (violation) | two scenes, three goals, requests at any time | a scene requested during another one makes CONTINUE leave out poses |
| `bt_action` | three goals, any result, UNKNOWN too | the outcome of the action is that of the goal sent last, `goal_handle_` is there where it is read, `halt` cancels a goal that was answered, a running action ends |
| `drive_chain` | two goals (both good, or the second with an unknown goal checker or an empty path), one cycle of failure tolerance, speeds forwards and backwards, a reversal takes two periods | velocities are published for a live goal's path, a zero is the last velocity whenever the callback is not running, a cancellation ends its goal, the robot comes to rest, also when the wait for the costmap hangs, null goals are dereferenced only after a deactivation timed out |
| `lifecycle_bringup` | three servers, four requests, three faults, two respawn checks | an active system is watched by bonds that work, servers are active in order, no missing bond is dereferenced, the hard reset goes on through every server that answers, a system whose servers are all there comes back |
| `lifecycle_down` (violation) | the same | the hard reset leaves servers active |
| `scans` | four stamps, any cloud over five points, five beams | a silent lidar costs one scan, never both in error, merged scans are neighbours, none shown twice, every beam holds its closest point and points at it |
| `base_driver` | Mini V1 and Mini V2; standing, turning and sideways; two queued frames; one write that waits | a command meets its mode, and robot and odometry settle on a motion that is asked for again and again |
| `base_side_slip` (violation) | Mini V1 | the Mini V1 is never switched to side slip |

The bounds are the smallest at which the hazards occur. Three goals are a current
one, a pending one and a third that replaces it or meets the worker's end, or, for the
behaviour tree, one that is replaced, its replacement and one sent after either was
given up; two are a goal and its successor. Two poses distinguish the first from the
last. Three goals of the runner are a route, its continuation and another scene. Four
stamps let a lidar be silent, late and back; the five points are two in one beam, one
on the body and two where the angle wraps. Three servers have a first, a last and one
between; three faults are a crash, a second one during the reset and a failure of the
startup after it; four requests are a startup, two operations that may fail half way
and one that starts from there. Two queued frames are a mode and its command, and
refuse the next callback's; the Mini V1 has conversions of its own, all other models
share one path. Three messages reach the modes ackermann, spinning, side slip (V1) and
parallel (the others).

No run checks for deadlock: goals, requests, faults and stamps are finite in number, a
process that crashed stays down, and an action server without requests is idle. That
what must happen does happen is stated by the liveness properties instead.

### Fairness

* `server_goals`: the executor and the worker are operating system threads, so each of
  their steps is weakly fair, and the execute callback returns. Clients, `activate`,
  `deactivate` and exceptions are never forced. Without `deactivate_end` fairness,
  `deactivate` would poll a finished worker for ever, which its loop excludes.
* `system_hasty`: the server answers and finishes its goals, a `setTask` that started
  goes on, goal responses and results are delivered. No request is ever forced.
* `bt_action`: the tree is ticked on, a halt that started goes on, time passes, the
  server comes to the end of its goals. Answers and results are handled under strong
  fairness: they wait in the executor's queue, which is served whenever the node spins,
  and a spin handles what has arrived before it ends. Halts and new paths are never
  forced.
* `drive_chain`: the threads of the action server and `computeControl` run, except that
  nothing makes the costmap current; the message is delivered, the smoother's timer
  fires and time passes. `RobotStops` assumes that at some point no more goals are
  executed, or the callback stays in its wait for the costmap, and that the smoother
  stays active; `CancelStops` assumes that the wait for the
  costmap is left again and again, and none of the server's three moments.
* `lifecycle_bringup`: the manager's thread runs, its timers fire, and a bond without
  heartbeats breaks. Neither requests nor the respawn of a server are forced.
* `base_driver`: the loop of `Run` goes round, callbacks return, the I/O thread and the
  robot act, and messages keep coming (the smoother sends 20 a second). Strong fairness
  is used once, for a message that finds the queue empty; `EventuallySettles` assumes
  in addition that the bus drains (`BusDrains`: a frame takes under a millisecond, the
  loop sends two in 20 ms), without which no frame need ever get through.

## Proofs

Nothing is assumed but the named assumptions on the constants. Every safety invariant,
action property and refinement that a passing run checks is also a theorem, for any
value of the constants; `PROJECT.json` pairs each with its property.

* `SimpleActionServer_proofs`: for any set of goals, either threading and either
  completion callback. `IInv` joins the type invariant, `NoLostGoal`,
  `HandlesDistinctAndLive`, `PreemptIffPending`, `QuietWhenInactive`,
  `StopWhenInactive` (an inactive server that has finished deactivating has
  `stop_execution_` up, so a worker that starts late leaves at once; without it
  `QuietWhenInactive` is not inductive) and `StopWhenDeactivating`, on which the proofs
  about the two callbacks build. `ServerKeepsPromise` is the refinement: lemmas
  `TerminationIsFinish` and `StartIsBegin` map the two ways a handle changes to steps
  of `GoalLifecycle`, one lemma per action does the rest. `ResultsNeverChange` is an
  action property that follows from the same invariant.
* `WaypointFollower_proofs`: for any goals and routes. `FollowerIsServer` shows
  that every step of `followWaypoints` is one `SimpleActionServer` allows, so `IInv`
  and the promise hold here (`FollowerKeepsPromise`). `FInv` adds what the function
  knows at each of its steps: the goal it follows is the one the server holds, or one
  that a deactivation gave up (`GoalHeld`); the poses in front of `goal_index` are those
  reached or given up in this goal (`IndexCounts`); and a goal that was not taken up has
  none (`NothingProcessedBefore`), without which the count would not start from zero for
  a goal that preempts. Feedback, success and crashes follow. `DInv` adds that a drive
  nobody cancelled or misjudged is awaited by the loop (`DriveAwaited`), and that a
  NavigateToPose goal left over is that of a goal that has ended (`LeftByAnother`):
  driving and the endless wait follow from it.
* `DriveChain_proofs`: the same for `computeControl` (`ControllerIsServer`,
  `ControllerKeepsPromise`). `CInv` says which goal the loop has the path of
  (`KnowsGoal`: the current one, or, after a goal was rejected, one before it), that the
  publisher is active from `on_activate` to the end of `on_deactivate`, and that a
  velocity other than zero is left published only inside the loop (`MovesOnlyInLoop`).
  `SmootherKeepsLimits` is about the node behind it: whatever is asked of it, what it
  sends is within its limits and moves towards the command.
* `BtActionNode_proofs`: for any number of goals. `BInv` ties what the node remembers to
  the goal sent last: `future_goal_handle_` is about it (`FutureIsLast`), so is
  `goal_handle_` once no answer is awaited (`HandleIsLast`), and so is a result that is
  there (`ResultIsLast`, which also says that it ends the tick: that is what keeps the
  result of one action out of the next). `HaltIsHeard` needs `CancelSent` and that the
  node's knowledge of a status is behind the server's (`SeenBehind`).
* `LifecycleManager_proofs`: for any number of servers, with and without bonds and
  respawn. `LInv` records what an operation has behind it: an activation has active or
  crashed servers before it and their bonds, a deactivation none active after it
  (`ActivatesInOrder`, `DeactivatesInReverse`), one that takes servers down has cleared
  `system_active_` first, and a manager without clients has nothing left to watch.
* `WaypointSystem_proofs`: for any scenes, files and number of goals. `SysInv` holds for
  every operator: the client is behind the server (`ClientBehind`), and `current_goal_`
  is one the client still knows or that has ended in a way `HandleKnown` lists. It gives
  `PauseThrowsLate`. `PatientInv`
  is for the operator who requests a scene or CONTINUE only when no goal is under way
  (the constant `Patient`): one goal at a time, which the shared indices describe while
  it runs and while the next one is prepared, no empty route (its result would count a
  pose in front of it), and every pose in front of where a goal has come to was
  processed. `HandleIsLast` adds that `current_goal_` is the goal sent last once it was
  answered, by which no goal is alive when a PAUSE that is too late ends the node
  (`ThrowsStanding`). The hypothesis is needed: without it run `system_skips` violates
  `PausedIsCompleted`.
* `LaserScanMerger_proofs`: about the node, for any number of stamps, any clouds, number
  of beams and monotone rounding. `NodeImplementsMerger` carries the results about the
  two callbacks over to it. `MergerInv` adds to the properties what links the flags to
  each other: who waits, whose skipped scan is flagged, that a waiting scan is the last
  one, that what was shown is past. For the scan itself, lemmas on integer division
  place a point in its beam's sector and the announced beam angle within one sector of
  it; `Rounding` shows that comparing a double with a stored float keeps the minimum of
  the rounded ranges.
* `RangerBase_proofs`: for any models, messages, queue length and number of waiting
  writes. `OtherCommandsFitMode` looks at the head of the queue; `BaseInv` says it of
  every position (`QueueFits`: a sure command stands right behind its own mode frame,
  or is first and the robot is in its mode), with `SwitchIsLast` for a callback between
  its two frames and `EnableFirst`, by which no mode frame reaches a robot that is not
  yet under CAN control.

Only model-checked are the liveness properties (`EveryGoalEnds`, `PauseEnds`,
`EventuallySettles`, `EveryActionEnds`, `RobotStops`, `CancelStops`, `ComesBack`): the
prover handles neither fairness nor `ENABLED`.

## Findings

Shown by a run:

1. A scene requested while another runs takes over its progress, so CONTINUE would
   leave out poses nobody visited (`system_skips`).
2. The Mini V1 is never switched to side slip: the number ranger_msgs uses for it means
   park to ugv_sdk (`base_side_slip`).
3. The hard reset of the lifecycle manager, which is to go on through failures, stops at
   a crashed server and leaves the servers before it active; the startup after the
   respawn then fails (`lifecycle_down`).

Cases that properties of passing runs exempt by name:

4. A goal accepted after the worker left its loop but before its future is ready is
   parked with nobody to run it, although `simple_action_server.hpp:195` says that state
   should not be reached; a deactivation just before the loop test, and a pending goal
   at a null completion callback, leave goals behind too (`MissedByWorker`).
5. In the follower, the result of an earlier NavigateToPose goal blocks the thread for
   good when the latest goal is not answered yet, and dereferences null when it was
   rejected; an empty list that preempts is indexed (`BlocksOnlyAfterAnother`,
   `CrashesExplained`). The rejection of an earlier goal counts as a failure of the
   latest: the follower moves on, or ends its goal, while the robot drives to the pose
   (`DrivesForLiveGoal`; it also drives on through the list when a deactivation timed out).
   `missed_waypoints` may list poses of an earlier, cancelled or preempted goal, which
   is why `SuccessCoversRoute` asks for inclusion, not equality.
6. A goal that preempts with an unknown controller or goal checker is terminated, and
   the control loop drives on along the path of a goal before, which no client can
   cancel any more (`FollowsCurrentGoal`). With an unknown goal checker that is the path
   which the new goal's controller was given last, maybe by an older goal.
7. `halt()` of a behaviour tree action while the answer to its goal is awaited cancels
   the goal before it or none: the new goal goes on (`HaltEndsGoal`). An acknowledgement
   that times out forgets a goal the server may accept later, a rejected update loses
   the handle of the goal before, and an update flag left over from one action sends
   the first goal of the next one twice.
8. The lifecycle manager dereferences its clients after a shutdown (`OnlyShutdownKills`),
   waits for good on a server that dies inside a transition, and ends the hard reset
   at a live server that does not answer in time (`HardResetStopsAtSilent`).
9. A pause takes the servers down from the last to the first, so the velocity smoother
   is inactive before the controller publishes its zero, which does not reach the base;
   `RobotStops` is about a smoother that stays active.
10. An UNKNOWN result leaves the runner in Pausing (`PauseEnds`), and a hasty operator's
    PAUSE can end it while the robot drives another route (`PauseThrowsStanding` is
    stated for the patient one).

## What is left out

Speeds, angles and the odometry's integration; the contents of scans beyond range and
angle; file parsing beyond the number of poses; logging; ROS discovery and quality of
service (the topics and actions used here are reliable). In `RangerBase` the robot is
switched on before the node and nobody takes over by remote control. Torn reads of
shared pointers and ints are not modelled beyond the orders of single accesses: a torn
read of `current_handle_` in `publish_feedback()`, of the runner's indices and of the
handle that `goalResponseCallback` stores. Three ways a process ends are actions
without a property, because nothing in the repository promises otherwise: a second call
of the merger's params service, a base driver that could not connect, and a CAN read
error. The first odometry steps use a struct without initial values, and mode and
velocity are reported in separate frames; only that the odometry settles is covered.

Not modelled: the numeric parts of Navigation 2 and robot_localization (planners,
controllers, costmaps, filters), device I/O around vendor SDKs (lidars, IMU, other
robots of ugv_sdk), byte layouts of the CAN protocol, and configuration. They make up
most of the repository's lines; their behaviour is floating point arithmetic or lives
outside the repository, and a finite model would not say anything about it.

## Plan

1. Mode and velocity reports as separate frames in `RangerBase`, and what the odometry
   integrates at a switch; CAN port opening and closing.
2. The controller's activation composed with `LifecycleManager`, and the smoother with
   `RangerBase`.
