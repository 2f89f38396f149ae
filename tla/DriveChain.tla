----------------------------- MODULE DriveChain -----------------------------
(***************************************************************************)
(* The controller server and the velocity smoother behind it, as the       *)
(* navigation launch file connects them: the controller's cmd_vel is the   *)
(* smoother's input, on a topic that keeps one message.  The lifecycle     *)
(* manager activates and deactivates each of them at its own time.         *)
(***************************************************************************)
EXTENDS ControllerServer, VelocitySmoother

chainVars == <<allVars, smootherVars>>

DriveInit == ControllerInit /\ SmootherInit

ControllerStep == ControllerNext /\ UNCHANGED smootherVars

(* The message in flight reaches the smoother. *)
Deliver ==
  /\ in_flight
  /\ in_flight' = FALSE
  /\ inputCommandCallback(cmd_vel)
  /\ UNCHANGED <<vars, step, plan, failures, vel_active, cmd_vel, setupVars>>

SmootherStep ==
  /\ smootherTimer \/ TimeoutPasses \/ smoother_on_activate \/ smoother_on_deactivate
  /\ UNCHANGED allVars

(* All nodes run in one container, which a crash takes with it. *)
DriveNext == step # "crashed" /\ (ControllerStep \/ Deliver \/ SmootherStep)

DriveSpec == DriveInit /\ [][DriveNext]_chainVars

(* A step of the controller server's process that some action A takes. *)
Takes(A) == step # "crashed" /\ A /\ UNCHANGED <<setupVars, smootherVars>>

(* The controller's threads run, except that the costmap may never become current; messages
   are delivered, the timer fires and time passes. *)
DriveFairness ==
  /\ WF_chainVars(Takes(handle_accepted /\ UNCHANGED controlVars))
  /\ WF_chainVars(Takes((work_condition \/ work_finish \/ work_end) /\ UNCHANGED controlVars))
  /\ WF_chainVars(Takes(step # "costmap" /\ computeControl))
  /\ WF_chainVars(Takes(on_deactivate))
  /\ WF_chainVars(Deliver)
  /\ WF_chainVars(smootherTimer /\ UNCHANGED allVars)
  /\ WF_chainVars(TimeoutPasses /\ UNCHANGED allVars)

FairDriveSpec == DriveSpec /\ DriveFairness
-----------------------------------------------------------------------------
(* "Send a zero-velocity command at velocity timeout to stop the robot, in case not properly
   handled": however the controller ended, told to publish a zero or not, and also when its
   loop hangs waiting for a costmap that stays out of date, the robot is told to stop, for
   good, as long as the smoother stays active. *)
RobotStops ==
  <>[](timer /\ (worker # "exec" \/ step = "costmap")) => <>[](smoothed = 0)
=============================================================================
