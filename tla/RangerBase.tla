----------------------------- MODULE RangerBase -----------------------------
(***************************************************************************)
(* The base driver: RangerROSMessenger, which turns /cmd_vel into CAN      *)
(* frames and the robot's reports into odometry, on top of ugv_sdk.        *)
(*                                                                         *)
(* One thread runs PublishStateToROS and then the pending TwistCmdCallback *)
(* calls, so these never overlap.  The I/O thread of AsyncCAN decodes the  *)
(* robot's frames beside them: a callback is cut between the two frames it *)
(* sends, where the Ranger Mini V1 reads the state decoded last.           *)
(*                                                                         *)
(* Speeds and angles are left out.  Of a Twist the model keeps what the    *)
(* code branches on, of a motion command the mode it was computed for and  *)
(* whether its speed was converted for spinning, of the reports the motion *)
(* mode.  Motion modes stay numbers: ranger_msgs and ugv_sdk number them   *)
(* differently.                                                            *)
(*                                                                         *)
(* External: the robot obeys frames in order and reports its mode; the CAN *)
(* socket refuses a frame or makes the writer wait when TxLen frames are   *)
(* queued.  The model stops with the node.                                 *)
(***************************************************************************)
EXTENDS Naturals, Sequences

CONSTANTS
  Models,    \* values of the parameter robot_model
  Twists,    \* messages on /cmd_vel
  TxLen,     \* frames the socket takes before it refuses one
  MaxWaits   \* bound on the writes that had to wait

(* A Twist: linear.x # 0, linear.y # 0, and a turn tighter than min_turn_radius. *)
AnyTwist == {t \in [forward : BOOLEAN, lateral : BOOLEAN, tight : BOOLEAN] : t.lateral => ~t.tight}
Stop == [forward |-> FALSE, lateral |-> FALSE, tight |-> FALSE]

ASSUME BaseAssumption ==
  /\ Models \subseteq {"ranger_mini_v1", "ranger_mini_v2", "ranger_mini_v3", "ranger"}
  /\ Twists \subseteq AnyTwist
  /\ TxLen \in Nat \ {0} /\ MaxWaits \in Nat

(* ranger_msgs/MotionState *)
MOTION_MODE_DUAL_ACKERMAN == 0
MOTION_MODE_PARALLEL == 1
MOTION_MODE_SPINNING == 2
MOTION_MODE_SIDE_SLIP == 3

(* RangerInterface::MotionMode, where it differs *)
kSpinning == 2
kPark == 3
kSideSlip == 4

Modes == 0 .. 3       \* what the driver asks for and the robot reports
Unset == 255          \* some other byte: core_state_msgs_ has no initial value

EnableFrame == [id |-> "enable"]
ModeFrame(m) == [id |-> "mode", mode |-> m]
(* "sure" remembers that no write of the mode frame before it failed. *)
CommandFrame(m, scaled, sure) == [id |-> "command", for |-> m, scaled |-> scaled, sure |-> sure]
JunkFrame == [id |-> "junk"]

ModeFrames == {ModeFrame(m) : m \in Modes}
CommandFrames == {CommandFrame(m, s, b) : m \in Modes, s \in BOOLEAN, b \in BOOLEAN}
Frames == {EnableFrame, JunkFrame} \cup ModeFrames \cup CommandFrames

Standing == [for |-> 0, scaled |-> FALSE]

VARIABLES
  robot_model,   \* robot_model_
  node,          \* what the main thread does
  subscribed,    \* SetupSubscription has run: publishers and subscriber exist
  init_run,      \* static init_run of PublishStateToROS
  twist,         \* the message TwistCmdCallback was called with last
  sure,          \* the last SetMotionMode lost no frame
  core_mode,     \* motion_mode_state.motion_mode of core_state_msgs_
  tx,            \* frames written and not yet on the bus
  waits,         \* number of writes that had to wait
  robot          \* the robot: enabled, mode, last command

driverVars == <<robot_model, node, subscribed, init_run, twist, sure>>
vars == <<driverVars, core_mode, tx, waits, robot>>
-----------------------------------------------------------------------------
(* LoadParameters: the test for ranger_mini_v3 stands alone and its ELSE also takes ranger_mini_v2. *)
robot_type ==
  IF robot_model = "ranger_mini_v1" THEN "kRangerMiniV1"
  ELSE IF robot_model = "ranger_mini_v3" THEN "kRangerMiniV3"
  ELSE "kRanger"

IsMiniV1 == robot_type = "kRangerMiniV1"

(* The mode TwistCmdCallback chooses for a message; parking_mode_ is never set. *)
mode_for(t) ==
  IF t.lateral
    THEN IF ~t.forward /\ IsMiniV1 THEN MOTION_MODE_SIDE_SLIP ELSE MOTION_MODE_PARALLEL
    ELSE IF t.tight THEN MOTION_MODE_SPINNING ELSE MOTION_MODE_DUAL_ACKERMAN

(* Mutant: no frame for a mode the robot is in by its last report. *)
SetMotionMode_if_other(m) == IF m = core_mode THEN <<>> ELSE <<ModeFrame(m)>>

(* SetMotionMode: the frames that a request for mode m sends. *)
SetMotionMode(m) ==
  IF ~IsMiniV1 THEN <<ModeFrame(m)>>
  ELSE IF m = kPark THEN <<>>
  ELSE <<ModeFrame(IF m = kSideSlip THEN 3 ELSE m)>>

(* Mutant: the number of another mode. *)
Converted_side_slip(m) == IsMiniV1 /\ m = MOTION_MODE_SPINNING /\ core_mode = kSideSlip

(* SetMotionCommand: the Mini V1 converts the speed of a turn in place, passed by the modes
   SPINNING and SIDE_SLIP only, when the mode reported last is spinning. *)
Converted(m) ==
  /\ IsMiniV1
  /\ m \in {MOTION_MODE_SPINNING, MOTION_MODE_SIDE_SLIP}
  /\ core_mode = kSpinning

SetMotionCommand(m) == CommandFrame(m, Converted(m), sure)

(* What a write may put on the bus after it had to wait: the frame was on the stack of a
   function that has returned, where another call may have built its own. *)
StaleFrames ==
  {JunkFrame} \cup UNION {{ModeFrame(m), CommandFrame(m, Converted(m), FALSE)} : m \in {mode_for(t) : t \in Twists}}

(* SendFrame: the frame is queued; or the queue is full and the frame is refused, which is
   only logged; or the write waits and reads the frame when its owner has returned.  Nothing
   bounds the writes that wait in the code; MaxWaits does here, and the next write comes when
   the bus has taken one of them. *)
SendFrame(frame) ==
  \/ /\ Len(tx) < TxLen
     /\ tx' = Append(tx, frame)
     /\ UNCHANGED waits
  \/ /\ Len(tx) = TxLen
     /\ UNCHANGED <<tx, waits>>
  \/ /\ Len(tx) >= TxLen
     /\ waits < MaxWaits
     /\ waits' = waits + 1
     /\ \E stale \in StaleFrames : tx' = Append(tx, stale)

(* The motion model by which UpdateOdometry integrates in a mode. *)
motion_model(m) ==
  CASE m = MOTION_MODE_DUAL_ACKERMAN -> "dual_ackermann"
    [] m = MOTION_MODE_PARALLEL -> "parallel"
    [] m \in {MOTION_MODE_SIDE_SLIP, kSideSlip} -> "side_slip"
    [] m = MOTION_MODE_SPINNING -> "spinning"
    [] OTHER -> "none"
-----------------------------------------------------------------------------
BaseInit ==
  /\ robot_model \in Models
  /\ node = "starting"
  /\ subscribed = FALSE
  /\ init_run = TRUE
  /\ twist = Stop
  /\ sure = TRUE
  /\ core_mode \in Modes \cup {Unset}
  /\ tx = <<>> /\ waits = 0
  /\ robot = [enabled |-> FALSE, mode |-> 0, command |-> Standing]

(* RangerROSMessenger(): connect, ask for CAN control, subscribe; or leave everything out when
   the port has a wrong name or cannot be opened.  Run() follows either way. *)
Construct ==
  /\ node = "starting"
  /\ node' = "running"
  /\ \/ subscribed' = TRUE /\ tx' = Append(tx, EnableFrame)
     \/ UNCHANGED <<subscribed, tx>>
  /\ UNCHANGED <<robot_model, init_run, twist, sure, core_mode, waits, robot>>

(* The process ends, and its memory with it. *)
Dies ==
  /\ node' = "down"
  /\ init_run' = TRUE /\ twist' = Stop /\ sure' = TRUE /\ core_mode' = Unset
  /\ UNCHANGED <<robot_model, subscribed, tx, waits, robot>>

(* PublishStateToROS and UpdateOdometry.  The first call only notes the time.  Later ones
   integrate by motion_model(core_mode); without publishers they dereference a null pointer.
   motion_mode_ is written and read within one call here and in TwistCmdCallback, so it is no
   variable of the model. *)
PublishStateToROS ==
  /\ node = "running"
  /\ \/ /\ init_run \/ subscribed
        /\ init_run' = FALSE
        /\ UNCHANGED <<robot_model, node, subscribed, twist, sure, core_mode, tx, waits, robot>>
     \/ ~init_run /\ ~subscribed /\ Dies

(* TwistCmdCallback up to SetMotionMode, for message t. *)
Twist_mode(t) ==
  /\ node = "running" /\ subscribed
  /\ node' = "switched"
  /\ twist' = t
  /\ LET frames == SetMotionMode(mode_for(t))
     IN IF frames = <<>>
          THEN sure' = TRUE /\ UNCHANGED <<tx, waits>>
          ELSE /\ SendFrame(Head(frames))
               /\ sure' = (Len(tx) < TxLen)
  /\ UNCHANGED <<robot_model, subscribed, init_run, core_mode, robot>>

(* TwistCmdCallback from the switch to its end. *)
Twist_command ==
  /\ node = "switched"
  /\ node' = "running"
  /\ SendFrame(SetMotionCommand(mode_for(twist)))
  /\ sure' = TRUE
  /\ UNCHANGED <<robot_model, subscribed, init_run, twist, core_mode, robot>>

(* ReadFromPort, ParseCANFrame, UpdateRobotCoreState: the I/O thread decodes a report, sent by
   the robot at any time. *)
UpdateRobotCoreState(reported) == core_mode' = reported

ReadFromPort ==
  /\ node \in {"running", "switched"} /\ subscribed
  /\ UpdateRobotCoreState(robot.mode)
  /\ UNCHANGED <<driverVars, tx, waits, robot>>

(* A read error: the handler calls Close, which joins the thread it runs in; the exception
   leaves that thread and ends the process. *)
ReadFails == node \in {"running", "switched"} /\ subscribed /\ Dies

(* External: the robot after frame f.  It takes modes and commands under CAN control only. *)
Obeyed(f) ==
  IF f.id = "enable" THEN [robot EXCEPT !.enabled = TRUE]
  ELSE IF f.id = "mode" /\ robot.enabled THEN [robot EXCEPT !.mode = f.mode]
  ELSE IF f.id = "command" /\ robot.enabled
         THEN [robot EXCEPT !.command = [for |-> f.for, scaled |-> f.scaled]]
  ELSE robot

RobotObeys ==
  /\ node # "down" /\ tx # <<>>
  /\ tx' = Tail(tx)
  /\ robot' = Obeyed(Head(tx))
  /\ UNCHANGED <<driverVars, core_mode, waits>>

BaseNext ==
  \/ Construct
  \/ PublishStateToROS
  \/ \E t \in Twists : Twist_mode(t)
  \/ Twist_command
  \/ ReadFromPort
  \/ ReadFails
  \/ RobotObeys

BaseSpec == BaseInit /\ [][BaseNext]_vars

(* The loop of Run goes round, callbacks return, the I/O thread runs, the robot obeys and
   reports, and messages keep coming, again and again one that finds the queue drained if it
   drains at all. *)
BaseFairness ==
  /\ WF_vars(PublishStateToROS)
  /\ SF_vars(\E t \in Twists : Twist_mode(t) /\ tx = <<>>)
  /\ WF_vars(Twist_command)
  /\ WF_vars(ReadFromPort)
  /\ WF_vars(RobotObeys)

FairBaseSpec == BaseSpec /\ BaseFairness
-----------------------------------------------------------------------------
(* Every variable has its type; the queues keep to their bounds. *)
BaseTypeOK ==
  /\ robot_model \in Models
  /\ node \in {"starting", "running", "switched", "down"}
  /\ subscribed \in BOOLEAN /\ init_run \in BOOLEAN /\ sure \in BOOLEAN
  /\ twist \in Twists \cup {Stop}
  /\ core_mode \in Modes \cup {Unset}
  /\ tx \in Seq(Frames) /\ Len(tx) <= TxLen + waits
  /\ waits \in 0 .. MaxWaits
  /\ robot \in [enabled : BOOLEAN, mode : Modes, command : [for : Modes, scaled : BOOLEAN]]

(* The robot is about to obey a command whose own mode frame was not lost. *)
NextIsSure == robot.enabled /\ tx # <<>> /\ Head(tx).id = "command" /\ Head(tx).sure

(* TwistCmdCallback "switches motion_mode" with every message: a command whose mode frame was
   not lost reaches the robot in the mode it was computed for, whatever was sent, lost or
   garbled before. *)
CommandFitsMode == NextIsSure => Head(tx).for = robot.mode

(* The same without the side slip of the Mini V1, which is never switched to. *)
OtherCommandsFitMode ==
  NextIsSure => (IsMiniV1 /\ Head(tx).for = MOTION_MODE_SIDE_SLIP) \/ Head(tx).for = robot.mode

(* The robot moves as message t says and the odometry follows it. *)
Settled(t) ==
  /\ robot.mode = mode_for(t)
  /\ robot.command.for = mode_for(t)
  /\ robot.command.scaled = (IsMiniV1 /\ mode_for(t) = MOTION_MODE_SPINNING)
  /\ motion_model(core_mode) = motion_model(mode_for(t))

(* The bus keeps up: a frame takes less than a millisecond, the loop sends two in 20 ms. *)
BusDrains == []<>(node = "running" /\ tx = <<>>)

(* However modes, lost frames, late reports and the conversion that depends on them mixed
   before: if from some time on every message asks for the same motion, the bus keeps up and
   the node does not die, robot and odometry settle on that motion; side slip of the Mini V1
   excepted. *)
EventuallySettles ==
  \A t \in Twists :
    /\ <>[](twist = t /\ ~(IsMiniV1 /\ mode_for(t) = MOTION_MODE_SIDE_SLIP))
    /\ BusDrains
    => <>[]Settled(t)
=============================================================================
