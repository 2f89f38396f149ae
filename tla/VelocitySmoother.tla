-------------------------- MODULE VelocitySmoother --------------------------
(***************************************************************************)
(* nav2_velocity_smoother::VelocitySmoother, open loop, on one axis: a     *)
(* timer moves the velocity sent last towards the command received last,   *)
(* and towards zero when no command came for velocity_timeout.             *)
(*                                                                         *)
(* Callbacks and timer run on one thread.  Velocities are integers, limits *)
(* of acceleration are per period of the timer.  With one axis there is    *)
(* nothing to scale, so eta is 1.                                          *)
(***************************************************************************)
EXTENDS Integers

CONSTANTS min_velocity, max_velocity,  \* min_velocities_, max_velocities_
          max_accel, max_decel,        \* per period; max_decels_ without its sign
          deadband                     \* deadband_velocities_

ASSUME SmootherAssumption ==
  /\ min_velocity \in Int /\ max_velocity \in Int
  /\ min_velocity <= 0 /\ 0 <= max_velocity
  /\ max_accel \in Nat \ {0} /\ max_decel \in Nat \ {0}
  /\ deadband \in Nat

VARIABLES
  timer,       \* timer_ exists: the node is active
  has_command, \* command_ is not null
  command,     \* command_
  timed_out,   \* now() - last_command_time_ > velocity_timeout_
  last_cmd,    \* last_cmd_
  stopped,     \* stopped_
  smoothed     \* the velocity published last

smootherVars == <<timer, has_command, command, timed_out, last_cmd, stopped, smoothed>>

Abs(v) == IF v < 0 THEN -v ELSE v

(* std::clamp *)
clamp(v, low, high) == IF v < low THEN low ELSE IF v > high THEN high ELSE v

(* applyConstraints: one period's change towards the command, by the limit for speeding up
   or the one for slowing down. *)
applyConstraints(v_curr, v_cmd) ==
  LET limit == IF Abs(v_cmd) >= Abs(v_curr) /\ v_curr * v_cmd >= 0 THEN max_accel ELSE max_decel
  IN v_curr + clamp(v_cmd - v_curr, -limit, limit)

SmootherInit ==
  /\ timer = FALSE
  /\ has_command = FALSE /\ command = 0
  /\ timed_out = FALSE
  /\ last_cmd = 0 /\ stopped = TRUE /\ smoothed = 0

(* inputCommandCallback; the subscription exists before the node is active.  validateTwist drops
   NaN and infinite components, which are no velocities here. *)
inputCommandCallback(v) ==
  /\ has_command' = TRUE /\ command' = v
  /\ timed_out' = FALSE
  /\ UNCHANGED <<timer, last_cmd, stopped, smoothed>>

(* velocity_timeout_ passes without a command. *)
TimeoutPasses ==
  /\ has_command /\ ~timed_out
  /\ timed_out' = TRUE
  /\ UNCHANGED <<timer, has_command, command, last_cmd, stopped, smoothed>>

(* Mutant: after the timeout nothing is sent. *)
smootherTimer_silent ==
  /\ timer /\ has_command
  /\ IF timed_out
       THEN stopped' = TRUE /\ UNCHANGED <<command, last_cmd, smoothed>>
       ELSE /\ command' = clamp(command, min_velocity, max_velocity)
            /\ stopped' = FALSE
            /\ last_cmd' = applyConstraints(last_cmd, command')
            /\ smoothed' = IF Abs(last_cmd') < deadband THEN 0 ELSE last_cmd'
  /\ UNCHANGED <<timer, has_command, timed_out>>

smootherTimer ==
  /\ timer /\ has_command
  /\ IF timed_out /\ (last_cmd = 0 \/ stopped)
       THEN stopped' = TRUE /\ UNCHANGED <<command, last_cmd, smoothed>>
       ELSE /\ command' = clamp(IF timed_out THEN 0 ELSE command, min_velocity, max_velocity)
            /\ stopped' = FALSE
            /\ last_cmd' = applyConstraints(last_cmd, command')
            /\ smoothed' = IF Abs(last_cmd') < deadband THEN 0 ELSE last_cmd'
  /\ UNCHANGED <<timer, has_command, timed_out>>

(* on_activate creates the timer, on_deactivate destroys it; neither publishes. *)
smoother_on_activate ==
  /\ ~timer /\ timer' = TRUE
  /\ UNCHANGED <<has_command, command, timed_out, last_cmd, stopped, smoothed>>

smoother_on_deactivate ==
  /\ timer /\ timer' = FALSE
  /\ UNCHANGED <<has_command, command, timed_out, last_cmd, stopped, smoothed>>
=============================================================================
