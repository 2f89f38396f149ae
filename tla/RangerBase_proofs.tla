-------------------------- MODULE RangerBase_proofs --------------------------
(***************************************************************************)
(* For every set of robots and messages and every queue length, a command  *)
(* reaches the robot in the mode it was computed for unless its own mode   *)
(* frame was lost or it is the side slip of a Mini V1.  The property looks *)
(* at the head of the queue only; the invariant that carries it through a  *)
(* step says the same of every command that is queued.                     *)
(***************************************************************************)
EXTENDS RangerBase, TLAPS

(* What position i of the queue meets: the frame before it switches the robot to mode m, or the
   robot is there already. *)
Follows(i, m) == IF i = 1 THEN robot.mode = m ELSE tx[i - 1] = ModeFrame(m)

(* The one request that sends no mode frame. *)
NoSwitch(m) == IsMiniV1 /\ m = MOTION_MODE_SIDE_SLIP

(* Nothing is sent before the connection stands, and the request for CAN control is first: no
   mode frame is wasted on a robot that does not obey yet. *)
EnableFirst ==
  /\ node = "starting" => ~subscribed
  /\ ~subscribed => tx = <<>>
  /\ subscribed /\ ~robot.enabled => tx # <<>> /\ Head(tx) = EnableFrame
  /\ node = "switched" => subscribed

(* Between the two frames of a callback nothing else is queued. *)
SwitchIsLast ==
  node = "switched" /\ sure => NoSwitch(mode_for(twist)) \/ Follows(Len(tx) + 1, mode_for(twist))

(* Every queued command whose mode frame is sure comes right after it. *)
QueueFits ==
  \A i \in 1 .. Len(tx), m \in Modes, s \in BOOLEAN :
    tx[i] = CommandFrame(m, s, TRUE) => NoSwitch(m) \/ Follows(i, m)

BaseInv == BaseTypeOK /\ EnableFirst /\ SwitchIsLast /\ QueueFits
-----------------------------------------------------------------------------
LEMMA ModeOfTwist ==
  ASSUME NEW t \in Twists \cup {Stop}
  PROVE  mode_for(t) \in Modes
<1>1. t \in [forward : BOOLEAN, lateral : BOOLEAN, tight : BOOLEAN]
  <2>1. CASE t \in Twists
    BY <2>1, BaseAssumption DEF AnyTwist
  <2>2. CASE t = Stop
    BY <2>2 DEF Stop
  <2>3. QED
    BY <2>1, <2>2
<1>2. t.forward \in BOOLEAN /\ t.lateral \in BOOLEAN /\ t.tight \in BOOLEAN
  BY <1>1
<1>3. QED
  BY <1>2 DEF mode_for, Modes, MOTION_MODE_SIDE_SLIP, MOTION_MODE_PARALLEL, MOTION_MODE_SPINNING,
              MOTION_MODE_DUAL_ACKERMAN, IsMiniV1

(* SetMotionMode sends the frame of its mode, except for the side slip of the Mini V1. *)
LEMMA ModeFrameSent ==
  ASSUME NEW m \in Modes
  PROVE  /\ NoSwitch(m) => SetMotionMode(m) = <<>>
         /\ ~NoSwitch(m) => SetMotionMode(m) = <<ModeFrame(m)>>
BY DEF SetMotionMode, NoSwitch, Modes, kPark, kSideSlip, MOTION_MODE_SIDE_SLIP

LEMMA FrameTypes ==
  \A m \in Modes, s, b \in BOOLEAN : ModeFrame(m) \in Frames /\ CommandFrame(m, s, b) \in Frames
BY DEF Frames, ModeFrames, CommandFrames

(* No stale frame is a sure command. *)
LEMMA StaleIsNotSure ==
  ASSUME NEW f \in StaleFrames
  PROVE  /\ f \in Frames
         /\ \A m \in Modes, s \in BOOLEAN : f # CommandFrame(m, s, TRUE)
<1>1. CASE f = JunkFrame
  <2>1. f \in Frames
    BY <1>1 DEF Frames
  <2>2. \A m \in Modes, s \in BOOLEAN : f # CommandFrame(m, s, TRUE)
    BY <1>1 DEF JunkFrame, CommandFrame
  <2>3. QED
    BY <2>1, <2>2
<1>2. CASE f # JunkFrame
  <2>1. PICK t \in Twists : f \in {ModeFrame(mode_for(t)), CommandFrame(mode_for(t), Converted(mode_for(t)), FALSE)}
    BY <1>2 DEF StaleFrames
  <2>2. mode_for(t) \in Modes
    BY ModeOfTwist
  <2>3. Converted(mode_for(t)) \in BOOLEAN
    BY DEF Converted
  <2>4. PICK n \in Modes, c \in BOOLEAN : f = ModeFrame(n) \/ f = CommandFrame(n, c, FALSE)
    BY <2>1, <2>2, <2>3, Zenon
  <2>5. f \in Frames
    BY <2>4, FrameTypes
  <2>6. \A m \in Modes, s \in BOOLEAN : f # CommandFrame(m, s, TRUE)
    BY <2>4 DEF ModeFrame, CommandFrame
  <2>7. QED
    BY <2>5, <2>6
<1>3. QED
  BY <1>1, <1>2

(* What SendFrame does to the queue. *)
LEMMA Sent ==
  ASSUME BaseTypeOK, NEW f \in Frames, SendFrame(f)
  PROVE  /\ tx' \in Seq(Frames) /\ waits' \in 0 .. MaxWaits /\ Len(tx') <= TxLen + waits'
         /\ Len(tx) < TxLen => tx' = Append(tx, f)
         /\ ~(Len(tx) < TxLen) => tx' = tx \/ \E stale \in StaleFrames : tx' = Append(tx, stale)
<1>1. tx \in Seq(Frames) /\ Len(tx) \in Nat /\ Len(tx) <= TxLen + waits /\ waits \in 0 .. MaxWaits
      /\ TxLen \in Nat /\ MaxWaits \in Nat
  BY BaseAssumption DEF BaseTypeOK
<1>2. CASE Len(tx) < TxLen /\ tx' = Append(tx, f) /\ UNCHANGED waits
  BY <1>1, <1>2
<1>3. CASE Len(tx) = TxLen /\ UNCHANGED <<tx, waits>>
  BY <1>1, <1>3
<1>4. CASE Len(tx) >= TxLen /\ waits < MaxWaits /\ waits' = waits + 1
           /\ \E stale \in StaleFrames : tx' = Append(tx, stale)
  <2>1. PICK stale \in StaleFrames : tx' = Append(tx, stale)
    BY <1>4
  <2>2. stale \in Frames
    BY StaleIsNotSure
  <2>3. QED
    BY <1>1, <1>4, <2>1, <2>2
<1>5. QED
  BY <1>2, <1>3, <1>4 DEF SendFrame

(* A frame at the end of the queue leaves the commands before it in their place. *)
LEMMA AppendKeepsFit ==
  ASSUME tx \in Seq(Frames), QueueFits, NEW f \in Frames, tx' = Append(tx, f),
         UNCHANGED <<robot, robot_model>>,
         \A m \in Modes, s \in BOOLEAN :
           f = CommandFrame(m, s, TRUE) => NoSwitch(m) \/ Follows(Len(tx) + 1, m)
  PROVE  QueueFits'
<1>1. SUFFICES ASSUME NEW i \in 1 .. Len(tx'), NEW m \in Modes, NEW s \in BOOLEAN,
                      tx'[i] = CommandFrame(m, s, TRUE)
               PROVE  NoSwitch(m)' \/ Follows(i, m)'
  BY DEF QueueFits
<1>2. NoSwitch(m)' = NoSwitch(m)
  BY DEF NoSwitch, IsMiniV1, robot_type
<1>3. Len(tx) \in Nat /\ Len(tx') = Len(tx) + 1 /\ \A k \in 1 .. Len(tx) : tx'[k] = tx[k]
  OBVIOUS
<1>4. CASE i \in 1 .. Len(tx)
  <2>1. tx[i] = CommandFrame(m, s, TRUE)
    BY <1>1, <1>3, <1>4
  <2>2. NoSwitch(m) \/ Follows(i, m)
    BY <1>4, <2>1 DEF QueueFits
  <2>3. i # 1 => i - 1 \in 1 .. Len(tx)
    BY <1>3, <1>4
  <2>4. QED
    BY <1>2, <1>3, <2>2, <2>3 DEF Follows
<1>5. CASE i = Len(tx) + 1
  <2>1. tx'[i] = f
    BY <1>5
  <2>2. NoSwitch(m) \/ Follows(Len(tx) + 1, m)
    BY <1>1, <2>1
  <2>3. QED
    BY <1>2, <1>3, <1>5, <2>2 DEF Follows
<1>6. QED
  BY <1>3, <1>4, <1>5
-----------------------------------------------------------------------------
LEMMA HeadKept ==
  ASSUME NEW q \in Seq(Frames), q # <<>>, NEW f \in Frames
  PROVE  Append(q, f) # <<>> /\ Head(Append(q, f)) = Head(q)
<1>1. Len(q) \in Nat \ {0} /\ Append(q, f) \in Seq(Frames) /\ Len(Append(q, f)) = Len(q) + 1
  OBVIOUS
<1>2. Append(q, f)[1] = q[1] /\ Append(q, f) # <<>>
  BY <1>1
<1>3. QED
  BY <1>1, <1>2

LEMMA InitHolds == BaseInit => BaseInv
<1> SUFFICES ASSUME BaseInit PROVE BaseInv
  OBVIOUS
<1>1. tx = <<>> /\ Len(tx) = 0 /\ tx \in Seq(Frames)
  BY DEF BaseInit
<1>2. BaseTypeOK
  <2>1. robot \in [enabled : BOOLEAN, mode : Modes, command : [for : Modes, scaled : BOOLEAN]]
    BY DEF BaseInit, Modes, Standing
  <2>2. Len(tx) <= TxLen + waits /\ waits \in 0 .. MaxWaits
    BY <1>1, BaseAssumption DEF BaseInit
  <2>3. QED
    BY <1>1, <2>1, <2>2 DEF BaseInit, BaseTypeOK
<1>3. EnableFirst /\ SwitchIsLast /\ QueueFits
  BY <1>1 DEF BaseInit, EnableFirst, SwitchIsLast, QueueFits
<1>4. QED
  BY <1>2, <1>3 DEF BaseInv

(* A step that leaves queue, robot and parameters alone leaves the queue's fit alone. *)
LEMMA QueueKept ==
  ASSUME QueueFits, UNCHANGED <<tx, robot, robot_model>>
  PROVE  QueueFits'
<1>1. \A m \in Modes : NoSwitch(m)' = NoSwitch(m)
  BY DEF NoSwitch, IsMiniV1, robot_type
<1>2. \A i \in 1 .. Len(tx), m \in Modes : Follows(i, m)' = Follows(i, m)
  BY DEF Follows
<1>3. QED
  BY <1>1, <1>2 DEF QueueFits

LEMMA ConstructKeeps ==
  ASSUME BaseInv, Construct
  PROVE  BaseInv'
<1> USE DEF BaseInv
<1>1. tx = <<>> /\ ~subscribed
  BY DEF Construct, EnableFirst
<1>2. tx' = <<>> \/ tx' = <<EnableFrame>>
  BY <1>1 DEF Construct
<1>3. EnableFrame \in Frames
  BY DEF Frames
<1>4. tx' \in Seq(Frames) /\ Len(tx') <= TxLen + waits'
  <2>1. waits' \in Nat /\ TxLen \in Nat \ {0}
    BY BaseAssumption DEF BaseTypeOK, Construct
  <2>2. \A q : q = <<>> \/ q = <<EnableFrame>> => q \in Seq(Frames) /\ Len(q) <= 1
    <3>1. <<>> \in Seq(Frames) /\ Len(<<>>) <= 1
      OBVIOUS
    <3>2. <<EnableFrame>> \in Seq(Frames) /\ Len(<<EnableFrame>>) <= 1
      BY <1>3
    <3>3. QED
      BY <3>1, <3>2, Zenon
  <2>3. tx' \in Seq(Frames) /\ Len(tx') <= 1
    BY <1>2, <2>2
  <2>4. Len(tx') \in Nat /\ TxLen >= 1
    BY <2>1, <2>3
  <2>5. QED
    BY <2>1, <2>3, <2>4
<1>5. BaseTypeOK'
  BY <1>4 DEF BaseTypeOK, Construct
<1>6. EnableFirst'
  BY <1>1, <1>2 DEF EnableFirst, Construct
<1>7. SwitchIsLast'
  BY DEF SwitchIsLast, Construct
<1>8. QueueFits'
  <2>1. \A i \in 1 .. Len(tx') : tx'[i] = EnableFrame
    BY <1>2
  <2>2. \A m \in Modes, s \in BOOLEAN : EnableFrame # CommandFrame(m, s, TRUE)
    BY DEF EnableFrame, CommandFrame
  <2>3. QED
    BY <2>1, <2>2 DEF QueueFits
<1>9. QED
  BY <1>5, <1>6, <1>7, <1>8

LEMMA DiesKeeps ==
  ASSUME BaseInv, node # "starting", Dies
  PROVE  BaseInv'
<1> USE DEF BaseInv
<1>1. BaseTypeOK'
  BY DEF BaseTypeOK, Dies, Unset
<1>2. EnableFirst' /\ SwitchIsLast'
  BY DEF EnableFirst, SwitchIsLast, Dies
<1>3. QueueFits'
  BY QueueKept DEF Dies
<1>4. QED
  BY <1>1, <1>2, <1>3

LEMMA PublishKeeps ==
  ASSUME BaseInv, PublishStateToROS
  PROVE  BaseInv'
<1>1. CASE Dies
  BY <1>1, DiesKeeps DEF PublishStateToROS
<1>2. CASE ~Dies
  <2> USE DEF BaseInv
  <2>1. init_run' = FALSE /\ UNCHANGED <<robot_model, node, subscribed, twist, sure, core_mode, tx, waits, robot>>
    BY <1>2 DEF PublishStateToROS
  <2>2. BaseTypeOK'
    BY <2>1 DEF BaseTypeOK
  <2>3. EnableFirst' /\ SwitchIsLast'
    BY <2>1 DEF EnableFirst, SwitchIsLast, PublishStateToROS
  <2>4. QueueFits'
    BY <2>1, QueueKept
  <2>5. QED
    BY <2>2, <2>3, <2>4
<1>3. QED
  BY <1>1, <1>2

LEMMA ReadKeeps ==
  ASSUME BaseInv, ReadFromPort
  PROVE  BaseInv'
<1> USE DEF BaseInv
<1>1. core_mode' \in Modes /\ UNCHANGED <<robot_model, node, subscribed, init_run, twist, sure, tx, waits, robot>>
  BY DEF ReadFromPort, UpdateRobotCoreState, driverVars, BaseTypeOK
<1>2. BaseTypeOK'
  BY <1>1 DEF BaseTypeOK
<1>3. EnableFirst'
  BY <1>1 DEF EnableFirst
<1>4. SwitchIsLast'
  BY <1>1 DEF SwitchIsLast, NoSwitch, IsMiniV1, robot_type, mode_for, Follows
<1>5. QueueFits'
  BY <1>1, QueueKept
<1>6. QED
  BY <1>2, <1>3, <1>4, <1>5

LEMMA TwistModeKeeps ==
  ASSUME BaseInv, NEW t \in Twists, Twist_mode(t)
  PROVE  BaseInv'
<1> USE DEF BaseInv
<1> DEFINE m == mode_for(t)
<1>1. m \in Modes /\ ModeFrame(m) \in Frames
  BY ModeOfTwist, FrameTypes
<1>2. node' = "switched" /\ subscribed /\ twist' = t
      /\ UNCHANGED <<robot_model, subscribed, init_run, core_mode, robot>>
  BY DEF Twist_mode
<1>3. mode_for(twist)' = m /\ NoSwitch(mode_for(twist))' = NoSwitch(m)
  BY <1>2 DEF NoSwitch, IsMiniV1, robot_type, mode_for
<1>4. tx \in Seq(Frames) /\ Len(tx) \in Nat
  BY DEF BaseTypeOK
<1>5. CASE NoSwitch(m)
  <2>1. sure' = TRUE /\ UNCHANGED <<tx, waits>>
    BY <1>1, <1>5, ModeFrameSent DEF Twist_mode
  <2>2. BaseTypeOK'
    BY <1>2, <2>1 DEF BaseTypeOK
  <2>3. EnableFirst'
    BY <1>2, <2>1 DEF EnableFirst
  <2>4. SwitchIsLast'
    BY <1>3, <1>5 DEF SwitchIsLast
  <2>5. QueueFits'
    BY <1>2, <2>1, QueueKept
  <2>6. QED
    BY <2>2, <2>3, <2>4, <2>5
<1>6. CASE ~NoSwitch(m)
  <2>1. SendFrame(ModeFrame(m)) /\ sure' = (Len(tx) < TxLen)
    <3>1. SetMotionMode(m) = <<ModeFrame(m)>>
      BY <1>1, <1>6, ModeFrameSent
    <3>2. SetMotionMode(m) # <<>> /\ Head(SetMotionMode(m)) = ModeFrame(m)
      BY <3>1
    <3>3. QED
      BY <3>2 DEF Twist_mode
  <2>2. tx' \in Seq(Frames) /\ waits' \in 0 .. MaxWaits /\ Len(tx') <= TxLen + waits'
    BY <1>1, <2>1, Sent
  <2>3. BaseTypeOK'
    BY <1>2, <2>1, <2>2 DEF BaseTypeOK
  <2>4. tx' = tx \/ \E f \in Frames : /\ tx' = Append(tx, f)
                                      /\ \A n \in Modes, s \in BOOLEAN : f # CommandFrame(n, s, TRUE)
    <3>1. \A n \in Modes, s \in BOOLEAN : ModeFrame(m) # CommandFrame(n, s, TRUE)
      BY DEF ModeFrame, CommandFrame
    <3>2. CASE Len(tx) < TxLen
      BY <1>1, <2>1, <3>1, <3>2, Sent
    <3>3. CASE ~(Len(tx) < TxLen)
      BY <1>1, <2>1, <3>3, Sent, StaleIsNotSure
    <3>4. QED
      BY <3>2, <3>3
  <2>5. EnableFirst'
    <3>1. tx # <<>> => tx' # <<>> /\ Head(tx') = Head(tx)
      BY <1>4, <2>4, HeadKept
    <3>2. QED
      BY <1>2, <3>1 DEF EnableFirst
  <2>6. SwitchIsLast'
    <3>1. ASSUME sure' PROVE tx' = Append(tx, ModeFrame(m))
      BY <1>1, <2>1, <3>1, Sent
    <3>2. ASSUME sure' PROVE tx'[Len(tx')] = ModeFrame(m) /\ Len(tx') \in Nat \ {0}
      BY <1>1, <1>4, <3>1, <3>2
    <3>3. QED
      BY <1>3, <3>2 DEF SwitchIsLast, Follows
  <2>7. QueueFits'
    BY <1>2, <1>4, <2>4, QueueKept, AppendKeepsFit
  <2>8. QED
    BY <2>3, <2>5, <2>6, <2>7
<1>7. QED
  BY <1>5, <1>6

LEMMA TwistCommandKeeps ==
  ASSUME BaseInv, Twist_command
  PROVE  BaseInv'
<1> USE DEF BaseInv
<1> DEFINE m == mode_for(twist)
           c == SetMotionCommand(m)
<1>1. m \in Modes /\ Converted(m) \in BOOLEAN /\ sure \in BOOLEAN
  BY ModeOfTwist DEF BaseTypeOK, Converted
<1>2. c \in Frames
  BY <1>1, FrameTypes DEF SetMotionCommand
<1>3. node = "switched" /\ node' = "running" /\ SendFrame(c) /\ sure' = TRUE
      /\ UNCHANGED <<robot_model, subscribed, init_run, twist, core_mode, robot>>
  BY DEF Twist_command
<1>4. tx \in Seq(Frames) /\ Len(tx) \in Nat
  BY DEF BaseTypeOK
<1>5. BaseTypeOK'
  <2>1. tx' \in Seq(Frames) /\ waits' \in 0 .. MaxWaits /\ Len(tx') <= TxLen + waits'
    BY <1>2, <1>3, Sent
  <2>2. QED
    BY <1>3, <2>1 DEF BaseTypeOK
<1>6. tx' = tx \/ \E f \in Frames : /\ tx' = Append(tx, f)
                                    /\ \A n \in Modes, s \in BOOLEAN :
                                         f = CommandFrame(n, s, TRUE) => NoSwitch(n) \/ Follows(Len(tx) + 1, n)
  <2>1. \A n \in Modes, s \in BOOLEAN : c = CommandFrame(n, s, TRUE) => sure /\ n = m
    BY <1>1 DEF SetMotionCommand, CommandFrame
  <2>2. \A n \in Modes, s \in BOOLEAN : c = CommandFrame(n, s, TRUE) => NoSwitch(n) \/ Follows(Len(tx) + 1, n)
    BY <1>3, <2>1 DEF SwitchIsLast
  <2>3. CASE Len(tx) < TxLen
    BY <1>2, <1>3, <2>2, <2>3, Sent
  <2>4. CASE ~(Len(tx) < TxLen)
    BY <1>2, <1>3, <2>4, Sent, StaleIsNotSure
  <2>5. QED
    BY <2>3, <2>4
<1>7. EnableFirst'
  <2>1. tx # <<>> => tx' # <<>> /\ Head(tx') = Head(tx)
    BY <1>4, <1>6, HeadKept
  <2>2. QED
    BY <1>3, <2>1 DEF EnableFirst
<1>8. SwitchIsLast'
  BY <1>3 DEF SwitchIsLast
<1>9. QueueFits'
  BY <1>3, <1>4, <1>6, QueueKept, AppendKeepsFit
<1>10. QED
  BY <1>5, <1>7, <1>8, <1>9

LEMMA ObeyKeeps ==
  ASSUME BaseInv, RobotObeys
  PROVE  BaseInv'
<1> USE DEF BaseInv
<1> DEFINE f == Head(tx)
<1>1. tx \in Seq(Frames) /\ tx # <<>> /\ tx' = Tail(tx) /\ robot' = Obeyed(f)
      /\ UNCHANGED <<robot_model, node, subscribed, init_run, twist, sure, core_mode, waits>>
  BY DEF RobotObeys, BaseTypeOK, driverVars
<1>2. Len(tx) \in Nat \ {0} /\ tx' \in Seq(Frames) /\ Len(tx') = Len(tx) - 1 /\ f = tx[1] /\ f \in Frames
  BY <1>1
<1>3. \A i \in 1 .. Len(tx') : tx'[i] = tx[i + 1]
  BY <1>1, <1>2
<1>4. robot \in [enabled : BOOLEAN, mode : Modes, command : [for : Modes, scaled : BOOLEAN]]
  BY DEF BaseTypeOK
<1>5. \/ f.id = "enable" \/ f.id = "junk"
      \/ f.id = "mode" /\ f.mode \in Modes
      \/ f.id = "command" /\ f.for \in Modes /\ f.scaled \in BOOLEAN
  BY <1>2 DEF Frames, ModeFrames, CommandFrames, EnableFrame, JunkFrame, ModeFrame, CommandFrame
<1>6. BaseTypeOK'
  <2>1. robot' \in [enabled : BOOLEAN, mode : Modes, command : [for : Modes, scaled : BOOLEAN]]
    BY <1>1, <1>4, <1>5 DEF Obeyed
  <2>2. Len(tx') <= TxLen + waits'
    BY <1>1, <1>2, BaseAssumption DEF BaseTypeOK
  <2>3. QED
    BY <1>1, <1>2, <2>1, <2>2 DEF BaseTypeOK
<1>7. subscribed
  BY <1>1 DEF EnableFirst
<1>8. EnableFirst'
  <2>1. robot'.enabled
    <3>1. CASE robot.enabled
      BY <1>1, <1>4, <3>1 DEF Obeyed
    <3>2. CASE ~robot.enabled
      <4>1. f.id = "enable"
        BY <1>7, <3>2 DEF EnableFirst, EnableFrame
      <4>2. QED
        BY <1>1, <1>4, <4>1 DEF Obeyed
    <3>3. QED
      BY <3>1, <3>2
  <2>2. QED
    BY <1>1, <1>7, <2>1 DEF EnableFirst
<1>9. ASSUME NEW m \in Modes, NEW i \in 1 .. Len(tx), Follows(i + 1, m)
      PROVE  Follows(i, m)'
  <2>1. tx[i] = ModeFrame(m)
    BY <1>2, <1>9 DEF Follows
  <2>2. CASE i = 1
    <3>1. f.id = "mode" /\ f.mode = m
      BY <1>2, <2>1, <2>2 DEF ModeFrame
    <3>2. robot.enabled
      BY <1>4, <1>7, <3>1 DEF EnableFirst, EnableFrame
    <3>3. robot'.mode = m
      BY <1>1, <1>4, <3>1, <3>2 DEF Obeyed
    <3>4. QED
      BY <2>2, <3>3 DEF Follows
  <2>3. CASE i # 1
    <3>1. i - 1 \in 1 .. Len(tx') /\ tx'[i - 1] = tx[i]
      BY <1>2, <1>3, <2>3
    <3>2. QED
      BY <2>1, <2>3, <3>1 DEF Follows
  <2>4. QED
    BY <2>2, <2>3
<1>10. \A m \in Modes : NoSwitch(m)' = NoSwitch(m)
  BY <1>1 DEF NoSwitch, IsMiniV1, robot_type
<1>11. SwitchIsLast'
  <2>1. mode_for(twist) \in Modes /\ mode_for(twist)' = mode_for(twist)
        /\ NoSwitch(mode_for(twist))' = NoSwitch(mode_for(twist))
    BY <1>1, ModeOfTwist DEF BaseTypeOK, mode_for, NoSwitch, IsMiniV1, robot_type
  <2>2. PICK n \in 1 .. Len(tx), m \in Modes : n = Len(tx) /\ n = Len(tx') + 1 /\ m = mode_for(twist)
    BY <1>2, <2>1
  <2>3. Follows(n + 1, m) => Follows(n, m)'
    BY <1>9
  <2>4. Follows(Len(tx) + 1, mode_for(twist)) => Follows(n + 1, m)
    BY <2>2 DEF Follows
  <2>5. Follows(n, m)' => Follows(Len(tx) + 1, mode_for(twist))'
    BY <2>1, <2>2 DEF Follows
  <2>6. QED
    BY <1>1, <2>1, <2>3, <2>4, <2>5 DEF SwitchIsLast
<1>12. QueueFits'
  <2>1. SUFFICES ASSUME NEW i \in 1 .. Len(tx'), NEW m \in Modes, NEW s \in BOOLEAN,
                        tx'[i] = CommandFrame(m, s, TRUE)
                 PROVE  NoSwitch(m)' \/ Follows(i, m)'
    BY DEF QueueFits
  <2>2. i + 1 \in 1 .. Len(tx) /\ i \in 1 .. Len(tx) /\ tx[i + 1] = CommandFrame(m, s, TRUE)
    <3>1. Len(tx') \in Nat /\ Len(tx) = Len(tx') + 1
      BY <1>2
    <3>2. i + 1 \in 1 .. Len(tx) /\ i \in 1 .. Len(tx)
      BY <3>1
    <3>3. tx[i + 1] = CommandFrame(m, s, TRUE)
      BY <1>3, <2>1
    <3>4. QED
      BY <3>2, <3>3
  <2>3. NoSwitch(m) \/ Follows(i + 1, m)
    BY <2>2 DEF QueueFits
  <2>4. QED
    BY <1>9, <1>10, <2>2, <2>3
<1>13. QED
  BY <1>6, <1>8, <1>11, <1>12

(* Every step of the driver and the robot keeps the invariant. *)
LEMMA StepKeeps == BaseInv /\ [BaseNext]_vars => BaseInv'
<1> SUFFICES ASSUME BaseInv, [BaseNext]_vars PROVE BaseInv'
  OBVIOUS
<1>1. CASE UNCHANGED vars
  <2> USE DEF BaseInv
  <2>1. UNCHANGED <<robot_model, node, subscribed, init_run, twist, sure, core_mode, tx, waits, robot>>
    BY <1>1 DEF vars, driverVars
  <2>2. BaseTypeOK' /\ EnableFirst'
    BY <2>1 DEF BaseTypeOK, EnableFirst
  <2>3. SwitchIsLast'
    BY <2>1 DEF SwitchIsLast, NoSwitch, IsMiniV1, robot_type, mode_for, Follows
  <2>4. QueueFits'
    BY <2>1, QueueKept
  <2>5. QED
    BY <2>2, <2>3, <2>4
<1>2. CASE ReadFails
  BY <1>2, DiesKeeps DEF ReadFails
<1>3. QED
  BY <1>1, <1>2, ConstructKeeps, PublishKeeps, TwistModeKeeps, TwistCommandKeeps, ReadKeeps, ObeyKeeps DEF BaseNext

(* The driver's state always has its type and its queues keep to their bounds. *)
THEOREM BaseTypes == BaseSpec => []BaseTypeOK
<1>1. BaseInv => BaseTypeOK
  BY DEF BaseInv
<1>2. QED
  BY <1>1, InitHolds, StepKeeps, PTL DEF BaseSpec

(* TwistCmdCallback sends the mode with every command, and SendFrame keeps their order: for
   every robot model, message set and queue length, whatever was refused or garbled before, a
   command whose mode frame was written is obeyed in that mode, except the side slip of the
   Mini V1, for which SetMotionMode writes none. *)
THEOREM CommandsFit == BaseSpec => []OtherCommandsFitMode
<1>1. BaseInv => OtherCommandsFitMode
  <2> SUFFICES ASSUME BaseInv, NextIsSure
               PROVE  (IsMiniV1 /\ Head(tx).for = MOTION_MODE_SIDE_SLIP) \/ Head(tx).for = robot.mode
    BY DEF OtherCommandsFitMode
  <2>1. tx \in Seq(Frames) /\ tx # <<>>
    BY DEF BaseInv, BaseTypeOK, NextIsSure
  <2>2. 1 \in 1 .. Len(tx) /\ Head(tx) = tx[1] /\ Head(tx) \in Frames
    BY <2>1
  <2>3. PICK m \in Modes, s \in BOOLEAN : Head(tx) = CommandFrame(m, s, TRUE)
    <3>1. Head(tx) \in CommandFrames
      BY <2>2 DEF NextIsSure, Frames, ModeFrames, EnableFrame, JunkFrame, ModeFrame
    <3>2. PICK m \in Modes, s, b \in BOOLEAN : Head(tx) = CommandFrame(m, s, b)
      BY <3>1 DEF CommandFrames
    <3>3. b = TRUE
      BY <3>2 DEF NextIsSure, CommandFrame
    <3>4. QED
      BY <3>2, <3>3
  <2>4. NoSwitch(m) \/ robot.mode = m
    <3>1. tx[1] = CommandFrame(m, s, TRUE)
      BY <2>2, <2>3
    <3>2. NoSwitch(m) \/ Follows(1, m)
      BY <2>2, <3>1 DEF BaseInv, QueueFits
    <3>3. QED
      BY <3>2 DEF Follows
  <2>5. Head(tx).for = m
    BY <2>3 DEF CommandFrame
  <2>6. QED
    BY <2>4, <2>5 DEF NoSwitch
<1>2. QED
  BY <1>1, InitHolds, StepKeeps, PTL DEF BaseSpec
=============================================================================
