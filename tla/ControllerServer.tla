-------------------------- MODULE ControllerServer --------------------------
(***************************************************************************)
(* nav2_controller::ControllerServer: the execute callback                 *)
(* computeControl() of the FollowPath action, running on the worker thread *)
(* of SimpleActionServer, and the velocities it publishes.                 *)
(*                                                                         *)
(* The callback is split where it calls into the server and where it waits *)
(* for the costmap, because other threads act there.  Poses, paths and     *)
(* velocities are reduced to what the loop branches on: a goal names a     *)
(* controller and a goal checker that exist or not, its path is empty or   *)
(* not, a velocity is one of Speeds or zero.                               *)
(*                                                                         *)
(* External: the controller, progress checker and goal checker plugins,    *)
(* which may answer anything at any time, the localisation and the         *)
(* costmap.                                                                *)
(***************************************************************************)
EXTENDS SimpleActionServer, Integers

CONSTANTS Setups,                \* the kinds of goals sent, with a configuration
          Speeds,                \* velocities a controller may ask for, not zero
          failure_tolerance      \* failure_tolerance_ in control cycles; -1 is for ever

Kinds == {"good", "no_controller", "no_checker", "empty_path"}

ASSUME ControllerAssumption ==
  /\ Setups \subseteq [kind : [Goals -> Kinds], publish_zero_velocity : BOOLEAN]
  /\ Speeds \subseteq Int \ {0}
  /\ failure_tolerance \in Nat \cup {-1}

VARIABLES
  kind,              \* kind of each goal, as clients chose it
  step,              \* where computeControl() is
  plan,              \* the goal whose path this call gave the controller last
  failures,          \* control cycles since last_valid_cmd_time_
  publish_zero_velocity,  \* publish_zero_velocity_, as configured
  vel_active,        \* vel_publisher_ is activated
  cmd_vel,           \* the velocity published last
  in_flight          \* it is not delivered yet; the queue holds one message

topicVars == <<cmd_vel, in_flight>>
controlVars == <<step, plan, failures, vel_active, topicVars>>
setupVars == <<kind, publish_zero_velocity>>
allVars == <<vars, controlVars, setupVars>>

Steps == {"entry", "active?", "cancel?", "cancelling", "costmap", "update", "accept",
          "reject", "empty", "velocity", "reached?", "success", "return",
          "crashed"}   \* dereferenced a null goal

ControllerInit ==
  /\ Init
  /\ \E s \in Setups : kind = s.kind /\ publish_zero_velocity = s.publish_zero_velocity
  /\ step = "entry"
  /\ plan = NoGoal
  /\ failures = 0
  /\ vel_active = FALSE
  /\ cmd_vel = 0 /\ in_flight = FALSE
-----------------------------------------------------------------------------
(* The callback is at s; everything of the server but the handles stays as it is. *)
At(s) ==
  /\ worker = "exec"
  /\ step = s
  /\ UNCHANGED <<server_active, stop_execution, accepting, deactivating, vel_active>>

(* publishVelocity: an inactive publisher drops the message.  The other test, that somebody
   subscribed, holds: the smoother subscribes when it is configured, and the lifecycle manager
   configures every server before it activates one. *)
publishVelocity(v) ==
  IF vel_active THEN cmd_vel' = v /\ in_flight' = TRUE ELSE UNCHANGED topicVars

publishZeroVelocity == publishVelocity(0)

(* Mutant: the handlers of computeControl's exceptions only terminate the goal. *)
throws_moving ==
  /\ terminate_current
  /\ step' = "return"
  /\ UNCHANGED topicVars

(* The catch blocks of computeControl. *)
throws ==
  /\ publishZeroVelocity
  /\ terminate_current
  /\ step' = "return"

(* setPlannerPath for goal g, or its exception. *)
setPlannerPath(g, then) ==
  IF kind[g] = "empty_path"
    THEN throws /\ UNCHANGED plan
    ELSE /\ plan' = g
         /\ step' = then
         /\ UNCHANGED <<handleVars, topicVars>>

(* findControllerId and findGoalCheckerId both succeed. *)
ids_found(g) == kind[g] \notin {"no_controller", "no_checker"}

(* computeControl up to its loop. *)
control_entry ==
  /\ At("entry")
  /\ \/ /\ ~is_active(current_handle)
        /\ step' = "crashed"
        /\ UNCHANGED <<handleVars, plan, topicVars>>
     \/ /\ is_active(current_handle) /\ ~ids_found(current_handle)
        /\ terminate_current
        /\ step' = "return"
        /\ UNCHANGED <<plan, topicVars>>
     \/ /\ is_active(current_handle) /\ ids_found(current_handle)
        /\ setPlannerPath(current_handle, "active?")
  /\ failures' = 0
  /\ UNCHANGED worker

(* Mutant: the loop never asks for a cancellation. *)
control_active_deaf ==
  /\ At("active?")
  /\ step' = IF server_active THEN "costmap" ELSE "return"
  /\ UNCHANGED <<handleVars, worker, plan, failures, topicVars>>

control_active ==
  /\ At("active?")
  /\ step' = IF server_active THEN "cancel?" ELSE "return"
  /\ UNCHANGED <<handleVars, worker, plan, failures, topicVars>>

(* The loop asks whether a cancellation was requested. *)
control_cancel_test ==
  /\ At("cancel?")
  /\ step' = IF is_cancel_requested THEN "cancelling" ELSE "costmap"
  /\ UNCHANGED <<handleVars, worker, plan, failures, topicVars>>

(* The cancelled branch of the loop. *)
control_cancelled ==
  /\ At("cancelling")
  /\ terminate_all
  /\ publishZeroVelocity
  /\ step' = "return"
  /\ UNCHANGED <<worker, plan, failures>>

(* The loop that sleeps until the costmap is current, leaving it at a time of the costmap's
   choice, or never. *)
control_costmap ==
  /\ At("costmap")
  /\ step' = "update"
  /\ UNCHANGED <<handleVars, worker, plan, failures, topicVars>>

(* updateGlobalPath: is_preempt_requested *)
control_update ==
  /\ At("update")
  /\ step' = IF preempt_requested THEN "accept" ELSE "velocity"
  /\ UNCHANGED <<handleVars, worker, plan, failures, topicVars>>

(* Mutant: the path of the goal before is kept. *)
control_accept_keeps_path ==
  /\ At("accept")
  /\ \/ /\ accept_pending_goal
        /\ step' = "velocity"
     \/ /\ ~is_active(pending_handle)
        /\ step' = "crashed"
        /\ UNCHANGED handleVars
  /\ UNCHANGED <<worker, plan, failures, topicVars>>

(* The paths the loop may follow once goal g has preempted.  current_controller_ is switched
   before the goal checker is looked for: when there is none, the loop goes on with the
   controller that g names and whatever path that one was given last, if any. *)
followed_after(g) ==
  CASE kind[g] = "good" -> {g}
    [] kind[g] = "no_checker" ->
         {plan, NoGoal} \cup {h \in Goals : kind[h] = "good" /\ status[h] \in Terminal}
    [] OTHER -> {plan}

(* updateGlobalPath: accept_pending_goal, whose result is dereferenced. *)
control_accept ==
  /\ At("accept")
  /\ \/ /\ accept_pending_goal
        /\ plan' \in followed_after(pending_handle)
        /\ step' = CASE kind[pending_handle] = "good" -> "velocity"
                     [] kind[pending_handle] = "empty_path" -> "empty"
                     [] OTHER -> "reject"
     \/ /\ ~is_active(pending_handle)
        /\ step' = "crashed"
        /\ UNCHANGED <<handleVars, plan>>
  /\ UNCHANGED <<worker, failures, topicVars>>

(* An unknown controller or goal checker: updateGlobalPath ends the goal and returns, and the
   loop of computeControl goes on. *)
control_reject ==
  /\ At("reject")
  /\ terminate_current
  /\ step' = "velocity"
  /\ UNCHANGED <<worker, plan, failures, topicVars>>

(* An empty path: setPlannerPath throws. *)
control_empty == At("empty") /\ throws /\ UNCHANGED <<worker, plan, failures>>

(* computeAndPublishVelocity: a velocity; or none, which is met with zero while the patience
   lasts; or an exception. *)
control_velocity ==
  /\ At("velocity")
  /\ \/ /\ \E v \in Speeds : publishVelocity(v)
        /\ failures' = 0
        /\ step' = "reached?"
        /\ UNCHANGED handleVars
     \/ /\ failure_tolerance = -1 \/ failures < failure_tolerance
        /\ publishZeroVelocity
        /\ failures' = IF failure_tolerance = -1 THEN 0 ELSE failures + 1
        /\ step' = "reached?"
        /\ UNCHANGED handleVars
     \/ throws /\ UNCHANGED failures
  /\ UNCHANGED <<worker, plan>>

(* isGoalReached, or an exception of the goal checker *)
control_reached ==
  /\ At("reached?")
  /\ \/ /\ \E reached \in BOOLEAN : step' = IF reached THEN "success" ELSE "active?"
        /\ UNCHANGED <<handleVars, topicVars>>
     \/ throws
  /\ UNCHANGED <<worker, plan, failures>>

control_success ==
  /\ At("success")
  /\ IF publish_zero_velocity THEN publishZeroVelocity ELSE UNCHANGED topicVars
  /\ succeeded_current \/ (~is_active(current_handle) /\ UNCHANGED handleVars)
  /\ step' = "return"
  /\ UNCHANGED <<worker, plan, failures>>

(* computeControl returns.  The next call overwrites the plan and the time before it reads
   them, so they are forgotten here. *)
control_return ==
  /\ At("return")
  /\ worker' = "post"
  /\ step' = "entry"
  /\ plan' = NoGoal /\ failures' = 0
  /\ UNCHANGED <<handleVars, topicVars>>

computeControl ==
  \/ control_entry \/ control_active \/ control_cancel_test \/ control_cancelled
  \/ control_costmap \/ control_update \/ control_accept \/ control_reject \/ control_empty
  \/ control_velocity \/ control_reached \/ control_success \/ control_return
-----------------------------------------------------------------------------
on_activate ==
  /\ activate
  /\ vel_active' = TRUE
  /\ UNCHANGED <<step, plan, failures, topicVars>>

(* on_deactivate, once deactivate() has returned. *)
on_deactivate ==
  /\ deactivate_end
  /\ publishZeroVelocity
  /\ vel_active' = FALSE
  /\ UNCHANGED <<step, plan, failures>>

(* A crash takes the whole process with it. *)
ServerStep ==
  /\ \/ /\ Executor \/ deactivate_begin \/ deactivate_timeout \/ work_condition \/ work_finish \/ work_end
        /\ UNCHANGED controlVars
     \/ on_activate
     \/ on_deactivate

ControllerNext ==
  /\ step # "crashed"
  /\ ServerStep \/ computeControl
  /\ UNCHANGED setupVars

ControllerSpec == ControllerInit /\ [][ControllerNext]_allVars
-----------------------------------------------------------------------------
ControllerTypeOK ==
  /\ TypeOK
  /\ [kind |-> kind, publish_zero_velocity |-> publish_zero_velocity] \in Setups
  /\ step \in Steps
  /\ plan \in Goals \cup {NoGoal}
  /\ failures \in Nat
  /\ vel_active \in BOOLEAN
  /\ cmd_vel \in Speeds \cup {0} /\ in_flight \in BOOLEAN

(* Whenever computeControl is not running, the velocity published last is zero, unless the
   server is being deactivated, which ends with a zero, or was told not to publish one. *)
StandsWhenIdle ==
  publish_zero_velocity /\ cmd_vel # 0 =>
    \/ worker = "exec"
    \/ deactivating

(* Until a deactivation takes its goals away, the robot follows the path of a live goal, the one
   the server holds.  Otherwise a goal with an unknown controller or goal checker has preempted:
   it was terminated, and the loop goes on along the path of a goal before, for which nobody
   can ask a cancellation any more. *)
FollowsCurrentGoal ==
  step = "reached?" /\ cmd_vel # 0 /\ ~stop_execution =>
    \/ plan = current_handle /\ is_active(plan)
    \/ /\ current_handle = NoGoal
       /\ \E g \in Goals : ~ids_found(g) /\ status[g] \in Terminal

(* The callback dereferences null goals only after deactivate() has given up waiting for it. *)
CrashesOnlyOnDeactivation == step = "crashed" => stop_execution

(* A cancellation ends the goal, unless one of the server's own races loses it or the loop
   hangs for good waiting for the costmap, where it looks at nothing else. *)
CancelStops ==
  []~MissedByWorker /\ []<>(step # "costmap") =>
    \A g \in Goals : status[g] = "canceling" ~> status[g] \in Terminal \/ step = "crashed"
=============================================================================
