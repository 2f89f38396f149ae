------------------------- MODULE DriveChain_proofs -------------------------
(***************************************************************************)
(* Proofs about the controller server and the velocity smoother behind it, *)
(* for any goals, any kinds of goals, any speeds and any limits.           *)
(***************************************************************************)
EXTENDS DriveChain, SimpleActionServer_proofs

-----------------------------------------------------------------------------
(* computeControl uses the server as an execute callback may. *)

LEMMA ControlIsServerStep == ASSUME computeControl PROVE [Next]_vars
<1>. USE DEF Next, Worker, At, vars, handleVars
<1>1. ASSUME throws, worker = "exec",
             UNCHANGED <<server_active, stop_execution, accepting, worker, deactivating>>
      PROVE  execute_call
  BY <1>1 DEF throws, execute_call
<1>2. CASE control_entry
  BY <1>1, <1>2 DEF control_entry, setPlannerPath, execute_call
<1>3. CASE control_active \/ control_cancel_test \/ control_costmap \/ control_update
  BY <1>3 DEF control_active, control_cancel_test, control_costmap, control_update
<1>4. CASE control_cancelled
  BY <1>4 DEF control_cancelled, execute_call
<1>5. CASE control_accept
  BY <1>5 DEF control_accept, execute_call
<1>6. CASE control_reject
  BY <1>6 DEF control_reject, execute_call
<1>7. CASE control_empty
  BY <1>1, <1>7 DEF control_empty
<1>8. CASE control_velocity
  BY <1>1, <1>8 DEF control_velocity
<1>9. CASE control_success
  BY <1>9 DEF control_success, execute_call
<1>10. CASE control_return
  BY <1>10 DEF control_return, execute_return
<1>11. CASE control_reached
  BY <1>1, <1>11 DEF control_reached
<1>. QED
  BY <1>2, <1>3, <1>4, <1>5, <1>6, <1>7, <1>8, <1>9, <1>10, <1>11 DEF computeControl

LEMMA ChainIsServerStep == ASSUME [DriveNext]_chainVars PROVE [Next]_vars
<1>1. CASE computeControl
  BY <1>1, ControlIsServerStep
<1>2. CASE ServerStep
  BY <1>2 DEF ServerStep, on_activate, on_deactivate, Next, Worker, Lifecycle
<1>3. CASE Deliver \/ SmootherStep \/ UNCHANGED chainVars
  BY <1>3 DEF Deliver, SmootherStep, chainVars, allVars
<1>. QED
  BY <1>1, <1>2, <1>3 DEF DriveNext, ControllerStep, ControllerNext

\* What was proved of SimpleActionServer holds here: computeControl, its lifecycle callbacks and
\* the nodes behind it take only steps the server's specification allows, or none.
LEMMA ControllerIsServer == DriveSpec => Spec
<1>1. DriveInit => Init
  BY DEF DriveInit, ControllerInit
<1>2. [DriveNext]_chainVars => [Next]_vars
  BY ChainIsServerStep
<1>. QED  BY <1>1, <1>2, PTL DEF DriveSpec, Spec

-----------------------------------------------------------------------------
(* What makes the properties of the controller inductive. *)

\* Outside the execute callback computeControl is at its entry.
EntryWhenNotRunning == worker # "exec" => step = "entry"

\* The publisher is active from on_activate to the end of on_deactivate.
PublisherActive == vel_active <=> server_active \/ deactivating

\* A goal with an unknown controller or goal checker was ended.
RejectedGoal == \E g \in Goals : ~ids_found(g) /\ status[g] \in Terminal

Loop == {"active?", "cancel?", "costmap", "update", "velocity", "reached?"}

\* What computeControl relies on at each of its steps, until a deactivation gives it up.
KnowsGoal ==
  worker = "exec" /\ ~stop_execution =>
    /\ step = "entry" => current_handle # NoGoal
    /\ step \in Loop => \/ plan = current_handle /\ plan # NoGoal
                        \/ current_handle = NoGoal /\ RejectedGoal
    /\ step = "accept" => pending_handle # NoGoal
    /\ step = "reject" => current_handle # NoGoal /\ ~ids_found(current_handle)

\* A velocity is left published only inside the loop, or when a deactivation interrupts it.
MovesOnlyInLoop ==
  publish_zero_velocity /\ cmd_vel # 0 =>
    deactivating \/ (worker = "exec" /\ step \notin {"entry", "return"})

CInv ==
  /\ ControllerTypeOK
  /\ EntryWhenNotRunning
  /\ PublisherActive
  /\ KnowsGoal
  /\ MovesOnlyInLoop
  /\ CrashesOnlyOnDeactivation

LEMMA ControllerInductiveInit == DriveInit => CInv
<1>. SUFFICES ASSUME DriveInit PROVE CInv
  OBVIOUS
<1>. USE DEF DriveInit, ControllerInit, Init
<1>1. TypeOK
  BY InductiveInit DEF IInv
<1>2. PICK s \in Setups : kind = s.kind /\ publish_zero_velocity = s.publish_zero_velocity
  OBVIOUS
<1>3. [kind |-> kind, publish_zero_velocity |-> publish_zero_velocity] = s
  BY <1>2, ControllerAssumption
<1>. QED
  BY <1>1, <1>2, <1>3
     DEF CInv, ControllerTypeOK, Steps, EntryWhenNotRunning, PublisherActive, KnowsGoal, MovesOnlyInLoop, CrashesOnlyOnDeactivation

\* The server's threads and the lifecycle, while computeControl stands still.
LEMMA ServerStepKeeps ==
  ASSUME IInv, IInv', CInv, ServerStep, UNCHANGED setupVars, RejectedGoal => RejectedGoal'
  PROVE  CInv'
<1>. USE ServerAssumption
<1>1. ControllerTypeOK'
  BY DEF CInv, ControllerTypeOK, IInv, ServerStep, on_activate, on_deactivate, controlVars,
         topicVars, setupVars, publishZeroVelocity, publishVelocity
<1>2. CASE UNCHANGED controlVars
           /\ (Executor \/ deactivate_begin \/ deactivate_timeout \/ work_condition
               \/ work_finish \/ work_end)
  <2>. USE <1>2 DEF controlVars, topicVars, setupVars
  <2>1. (worker' = "exec") => (worker = "exec" \/ (work_condition /\ step = "entry"))
    BY DEF CInv, EntryWhenNotRunning, Executor, handle_accepted, handle_goal, handle_cancel,
           deactivate_begin, deactivate_timeout, work_condition, work_finish, work_end
  <2>2. EntryWhenNotRunning'
    BY DEF CInv, EntryWhenNotRunning, Executor, handle_accepted, handle_goal, handle_cancel,
           deactivate_begin, deactivate_timeout, work_condition, work_finish, work_end,
           is_running
  <2>3. PublisherActive'
    <3>. USE DEF CInv, PublisherActive
    <3>1. CASE deactivate_begin
      BY <3>1 DEF deactivate_begin
    <3>2. CASE UNCHANGED <<server_active, stop_execution, deactivating>>
      BY <3>2
    <3>. QED
      BY <3>1, <3>2
         DEF Executor, handle_accepted, handle_goal, handle_cancel, deactivate_timeout,
             work_condition, work_finish, work_end
  <2>4. KnowsGoal'
    <3>. USE DEF CInv, KnowsGoal, Loop, ids_found
    <3>1. CASE handle_accepted
      BY <2>1, <3>1 DEF handle_accepted, is_running, work_condition
    <3>2. ASSUME NEW g \in Goals, handle_goal(g) \/ handle_cancel(g) PROVE KnowsGoal'
      BY <3>2 DEF handle_goal, handle_cancel
    <3>3. CASE deactivate_begin \/ deactivate_timeout
      BY <3>3 DEF deactivate_begin, deactivate_timeout, IInv, StopWhenDeactivating
    <3>4. CASE work_condition
      BY <2>1, <3>4 DEF work_condition, is_active, handleVars
    <3>5. CASE work_finish \/ work_end
      BY <2>1, <3>5 DEF work_finish, work_end, work_condition
    <3>. QED  BY <3>1, <3>2, <3>3, <3>4, <3>5 DEF Executor
  <2>5. MovesOnlyInLoop' /\ CrashesOnlyOnDeactivation'
    BY DEF CInv, MovesOnlyInLoop, CrashesOnlyOnDeactivation, EntryWhenNotRunning, Executor,
           handle_accepted, handle_goal, handle_cancel, deactivate_begin,
           deactivate_timeout, work_condition, work_finish, work_end, is_running
  <2>. QED  BY <1>1, <2>2, <2>3, <2>4, <2>5 DEF CInv
<1>3. CASE on_activate
  <2>. USE <1>3 DEF on_activate, activate, handleVars, topicVars, setupVars
  <2>1. worker # "exec" /\ step = "entry"
    BY DEF IInv, QuietWhenInactive, CInv, EntryWhenNotRunning
  <2>. QED
    BY <1>1, <2>1
       DEF CInv, EntryWhenNotRunning, PublisherActive, KnowsGoal, MovesOnlyInLoop,
           CrashesOnlyOnDeactivation
<1>4. CASE on_deactivate
  <2>. USE <1>4 DEF on_deactivate, deactivate_end, handleVars, topicVars, setupVars,
                    is_running, publishZeroVelocity, publishVelocity
  <2>. QED
    BY <1>1
       DEF CInv, EntryWhenNotRunning, PublisherActive, KnowsGoal, MovesOnlyInLoop,
           CrashesOnlyOnDeactivation, IInv, StopWhenDeactivating
<1>. QED  BY <1>2, <1>3, <1>4 DEF ServerStep

\* computeControl, step by step.
LEMMA ControlStepKeeps ==
  ASSUME IInv, IInv', CInv, computeControl, UNCHANGED setupVars, RejectedGoal => RejectedGoal'
  PROVE  CInv'
<1>. USE ServerAssumption, ControllerAssumption
<1>1. /\ worker = "exec"
      /\ UNCHANGED <<server_active, stop_execution, accepting, deactivating, vel_active>>
  BY DEF computeControl, control_entry, control_active, control_cancel_test,
         control_cancelled, control_costmap, control_update, control_accept, control_reject,
         control_empty, control_velocity, control_reached, control_success, control_return,
         At
<1>2. vel_active
  BY <1>1 DEF IInv, QuietWhenInactive, CInv, PublisherActive
<1>3. ASSUME NEW v, publishVelocity(v) PROVE cmd_vel' = v /\ in_flight' = TRUE
  BY <1>2, <1>3 DEF publishVelocity
<1>4. PublisherActive'
  BY <1>1 DEF CInv, PublisherActive
<1>5. TypeOK' /\ [kind |-> kind, publish_zero_velocity |-> publish_zero_velocity]' \in Setups
  BY DEF IInv, CInv, ControllerTypeOK, setupVars
<1>6. ASSUME throws, UNCHANGED <<worker, plan>>, failures' \in Nat PROVE CInv'
  BY <1>1, <1>3, <1>4, <1>5, <1>6
     DEF throws, publishZeroVelocity, CInv, ControllerTypeOK, Steps, EntryWhenNotRunning,
         KnowsGoal, Loop, MovesOnlyInLoop, CrashesOnlyOnDeactivation
<1>. USE DEF At, CInv, ControllerTypeOK, Steps, EntryWhenNotRunning, KnowsGoal, Loop,
             MovesOnlyInLoop, CrashesOnlyOnDeactivation, handleVars, topicVars, setupVars
<1>7. CASE control_entry
  <2>1. CASE throws /\ UNCHANGED plan
    BY <1>6, <1>7, <2>1 DEF control_entry
  <2>2. CASE ~is_active(current_handle)
    BY <1>1, <1>4, <1>5, <1>7, <2>2
       DEF control_entry, is_active, IInv, HandlesDistinctAndLive
  <2>3. CASE is_active(current_handle) /\ ~ids_found(current_handle)
    BY <1>1, <1>4, <1>5, <1>7, <2>3 DEF control_entry
  <2>4. CASE /\ is_active(current_handle)
             /\ plan' = current_handle /\ step' = "active?"
             /\ UNCHANGED <<handleVars, topicVars>>
    BY <1>1, <1>4, <1>5, <1>7, <2>4 DEF control_entry, is_active, TypeOK
  <2>. QED  BY <1>7, <2>1, <2>2, <2>3, <2>4 DEF control_entry, setPlannerPath
<1>8. CASE control_active \/ control_cancel_test \/ control_costmap
  BY <1>1, <1>2, <1>4, <1>5, <1>8
     DEF control_active, control_cancel_test, control_costmap, PublisherActive, ids_found
<1>9. CASE control_update
  BY <1>1, <1>4, <1>5, <1>9 DEF control_update, IInv, PreemptIffPending, ids_found
<1>10. CASE control_cancelled
  BY <1>1, <1>3, <1>4, <1>5, <1>10 DEF control_cancelled, publishZeroVelocity
<1>11. CASE control_accept
  <2>1. CASE accept_pending_goal
    <3>1. pending_handle \in Goals /\ current_handle' = pending_handle
      BY <2>1 DEF accept_pending_goal, is_active, IInv, TypeOK
    <3>2. /\ plan' \in followed_after(pending_handle)
          /\ step' = CASE kind[pending_handle] = "good" -> "velocity"
                       [] kind[pending_handle] = "empty_path" -> "empty"
                       [] OTHER -> "reject"
          /\ UNCHANGED <<worker, failures, topicVars>>
      BY <1>11, <2>1 DEF control_accept, accept_pending_goal
    <3>3. plan' \in Goals \cup {NoGoal}
      BY <3>1, <3>2 DEF followed_after
    <3>4. step' = "velocity" => plan' = pending_handle
      BY <3>2 DEF followed_after
    <3>5. kind[pending_handle] \in Kinds
      BY <3>1
    <3>6. step' = "reject" => ~ids_found(pending_handle)
      BY <3>2, <3>5 DEF ids_found, Kinds
    <3>7. kind'[current_handle'] = kind[pending_handle] /\ current_handle' # NoGoal
      BY <3>1
    <3>8. step' \in {"velocity", "empty", "reject"}
      BY <3>2
    <3>9. KnowsGoal'
      BY <3>1, <3>4, <3>6, <3>7, <3>8 DEF ids_found
    <3>10. ControllerTypeOK'
      BY <1>1, <1>5, <3>2, <3>3, <3>8
    <3>. QED  BY <1>1, <1>4, <1>11, <3>2, <3>8, <3>9, <3>10 DEF control_accept
  <2>2. CASE ~is_active(pending_handle) /\ step' = "crashed" /\ UNCHANGED <<handleVars, plan>>
    BY <1>1, <1>4, <1>5, <1>11, <2>2
       DEF control_accept, is_active, ids_found, IInv, HandlesDistinctAndLive, TypeOK
  <2>. QED  BY <1>11, <2>1, <2>2 DEF control_accept
<1>12. CASE control_reject
  BY <1>1, <1>4, <1>5, <1>12
     DEF control_reject, terminate_current, terminated, released, is_active, RejectedGoal,
         ids_found, Terminal, IInv, HandlesDistinctAndLive, TypeOK
<1>13. CASE control_empty
  BY <1>6, <1>13 DEF control_empty
<1>14. CASE control_velocity
  <2>1. CASE throws /\ UNCHANGED failures
    BY <1>6, <1>14, <2>1 DEF control_velocity
  <2>2. ASSUME NEW v \in Speeds \cup {0}, publishVelocity(v), failures' \in Nat,
               step' = "reached?", UNCHANGED handleVars
        PROVE  CInv'
    <3>1. cmd_vel' = v /\ in_flight' = TRUE
      BY <1>3, <2>2
    <3>2. step = "velocity" /\ UNCHANGED <<worker, plan>>
      BY <1>14 DEF control_velocity
    <3>3. ControllerTypeOK'
      BY <1>1, <1>5, <2>2, <3>1, <3>2
    <3>4. KnowsGoal'
      BY <1>1, <2>2, <3>2
    <3>. QED  BY <1>1, <1>4, <2>2, <3>1, <3>2, <3>3, <3>4
  <2>3. CASE /\ \E v \in Speeds : publishVelocity(v)
             /\ failures' = 0 /\ step' = "reached?" /\ UNCHANGED handleVars
    <3>1. PICK v \in Speeds : publishVelocity(v)
      BY <2>3
    <3>. QED  BY <2>2, <2>3, <3>1
  <2>4. CASE /\ publishZeroVelocity
             /\ failures' = IF failure_tolerance = -1 THEN 0 ELSE failures + 1
             /\ step' = "reached?" /\ UNCHANGED handleVars
    <3>1. failures' \in Nat /\ 0 \in Speeds \cup {0} /\ publishVelocity(0)
      BY <2>4 DEF publishZeroVelocity
    <3>. QED  BY <2>2, <2>4, <3>1
  <2>. QED  BY <1>14, <2>1, <2>3, <2>4 DEF control_velocity
<1>15. CASE control_success
  BY <1>1, <1>3, <1>4, <1>5, <1>15 DEF control_success, publishZeroVelocity
<1>16. CASE control_return
  BY <1>1, <1>4, <1>5, <1>16 DEF control_return
<1>17. CASE control_reached
  BY <1>1, <1>4, <1>5, <1>6, <1>17 DEF control_reached, ids_found
<1>. QED
  BY <1>7, <1>8, <1>9, <1>10, <1>11, <1>12, <1>13, <1>14, <1>15, <1>16, <1>17
     DEF computeControl

LEMMA ControllerInductiveStep ==
  ASSUME IInv, CInv, [DriveNext]_chainVars PROVE CInv'
<1>1. IInv' /\ FinalResults
  BY ChainIsServerStep, InductiveStep, FinalStep
<1>2. UNCHANGED setupVars
  BY DEF DriveNext, ControllerStep, ControllerNext, Deliver, SmootherStep, chainVars, allVars
<1>3. RejectedGoal => RejectedGoal'
  BY <1>1, <1>2 DEF RejectedGoal, FinalResults, ids_found, setupVars
<1>4. CASE ControllerNext
  BY <1>1, <1>2, <1>3, <1>4, ServerStepKeeps, ControlStepKeeps DEF ControllerNext
<1>5. CASE Deliver \/ SmootherStep \/ UNCHANGED chainVars
  <2>1. UNCHANGED <<vars, step, plan, failures, vel_active, cmd_vel, setupVars>>
        /\ in_flight' \in BOOLEAN
    BY <1>5 DEF Deliver, SmootherStep, chainVars, allVars, controlVars, topicVars, CInv,
                ControllerTypeOK
  <2>2. ControllerTypeOK'
    BY <1>1, <2>1 DEF CInv, ControllerTypeOK, IInv, setupVars
  <2>. QED
    BY <1>3, <2>1, <2>2
       DEF vars, handleVars, setupVars, CInv, EntryWhenNotRunning, PublisherActive, KnowsGoal,
           MovesOnlyInLoop, CrashesOnlyOnDeactivation, ids_found
<1>. QED  BY <1>4, <1>5 DEF DriveNext, ControllerStep

\* The inductive invariant holds in every state of the chain.
THEOREM ControllerInductive == DriveSpec => [](IInv /\ CInv)
<1>1. DriveSpec => []IInv
  BY ControllerIsServer, Inductive, PTL
<1>2. IInv /\ CInv /\ [DriveNext]_chainVars => CInv'
  BY ControllerInductiveStep
<1>. QED  BY <1>1, <1>2, ControllerInductiveInit, PTL DEF DriveSpec

-----------------------------------------------------------------------------
\* Every value the controller keeps has its type.
THEOREM ControllerTypeCorrect == DriveSpec => []ControllerTypeOK
<1>1. CInv => ControllerTypeOK
  BY DEF CInv
<1>. QED  BY <1>1, ControllerInductive, PTL

\* Whenever computeControl is not running, however it ended, the velocity published last is
\* zero, unless a deactivation is under way, which ends with one, or publish_zero_velocity is
\* off.
THEOREM ControllerStands == DriveSpec => []StandsWhenIdle
<1>1. CInv => StandsWhenIdle
  BY DEF CInv, MovesOnlyInLoop, StandsWhenIdle
<1>. QED  BY <1>1, ControllerInductive, PTL

\* A velocity is computed along the path of the goal the server holds, or of a goal before
\* one that was rejected while it preempted.
THEOREM ControllerFollowsGoal == DriveSpec => []FollowsCurrentGoal
<1>1. IInv /\ CInv => FollowsCurrentGoal
  BY ServerAssumption
     DEF CInv, KnowsGoal, EntryWhenNotRunning, Loop, RejectedGoal, FollowsCurrentGoal, IInv,
         HandlesDistinctAndLive, is_active, Live
<1>. QED  BY <1>1, ControllerInductive, PTL

\* computeControl dereferences a null goal only after a deactivation took it away.
THEOREM ControllerCrashes == DriveSpec => []CrashesOnlyOnDeactivation
<1>1. CInv => CrashesOnlyOnDeactivation
  BY DEF CInv
<1>. QED  BY <1>1, ControllerInductive, PTL

\* What SimpleActionServer promises its clients holds of FollowPath as the controller server
\* serves it, and no result it reported ever changes.
THEOREM ControllerKeepsPromise == DriveSpec => LifecyclePromise /\ ResultsAreFinal
  BY ControllerIsServer, ServerKeepsPromise, ResultsNeverChange, PTL

-----------------------------------------------------------------------------
(* The smoother behind the controller. *)

\* What the smoother sends is within its limits of velocity, whatever the controller asks.
WithinLimits ==
  /\ smoothed \in min_velocity .. max_velocity
  /\ last_cmd \in min_velocity .. max_velocity

\* One period of the timer moves the velocity by no more than the larger limit, and never
\* away from the command or past it.  (Through zero it is max_decel that limits both sides.)
SmoothStep(target) ==
  LET low == IF last_cmd < target THEN last_cmd ELSE target
      high == IF last_cmd < target THEN target ELSE last_cmd
  IN /\ last_cmd' \in low .. high
     /\ \E limit \in {max_accel, max_decel} : Abs(last_cmd' - last_cmd) <= limit

SInv == WithinLimits /\ command \in Int

LEMMA ConstraintsSmooth ==
  ASSUME NEW u \in Int, NEW c \in Int, last_cmd = u, last_cmd' = applyConstraints(u, c)
  PROVE  SmoothStep(c) /\ last_cmd' \in Int
<1>. DEFINE limit == IF Abs(c) >= Abs(u) /\ u * c >= 0 THEN max_accel ELSE max_decel
<1>1. limit \in {max_accel, max_decel}
  OBVIOUS
<1>2. last_cmd' = u + clamp(c - u, -limit, limit)
  BY DEF applyConstraints
<1>. HIDE DEF limit
<1>3. limit \in Nat
  BY <1>1, SmootherAssumption
<1>4. last_cmd' \in Int
  BY <1>2, <1>3 DEF clamp
<1>5. Abs(last_cmd' - u) <= limit
  BY <1>2, <1>3 DEF clamp, Abs
<1>6. last_cmd' \in (IF u < c THEN u ELSE c) .. (IF u < c THEN c ELSE u)
  BY <1>2, <1>3 DEF clamp
<1>. QED  BY <1>1, <1>4, <1>5, <1>6 DEF SmoothStep

LEMMA SmootherStepKeeps ==
  ASSUME CInv, SInv, [DriveNext]_chainVars
  PROVE  SInv' /\ (last_cmd' # last_cmd => SmoothStep(command'))
<1>. USE SmootherAssumption DEF SInv, WithinLimits, smootherVars
<1>1. CASE smootherTimer
  <2>1. CASE timed_out /\ (last_cmd = 0 \/ stopped)
    BY <1>1, <2>1 DEF smootherTimer
  <2>2. CASE ~(timed_out /\ (last_cmd = 0 \/ stopped))
    <3>1. command' \in Int /\ command' \in min_velocity .. max_velocity
      BY <1>1, <2>2 DEF smootherTimer, clamp
    <3>2. SmoothStep(command') /\ last_cmd' \in Int
      BY <1>1, <2>2, <3>1, ConstraintsSmooth DEF smootherTimer
    <3>3. last_cmd' \in min_velocity .. max_velocity
      BY <3>1, <3>2 DEF SmoothStep
    <3>4. smoothed' \in min_velocity .. max_velocity
      BY <1>1, <2>2, <3>3 DEF smootherTimer
    <3>. QED  BY <3>1, <3>2, <3>3, <3>4
  <2>. QED  BY <2>1, <2>2
<1>2. CASE Deliver
  <2>1. cmd_vel \in Int
    BY ControllerAssumption DEF CInv, ControllerTypeOK
  <2>. QED  BY <1>2, <2>1 DEF Deliver, inputCommandCallback
<1>3. CASE TimeoutPasses \/ smoother_on_activate \/ smoother_on_deactivate
  BY <1>3 DEF TimeoutPasses, smoother_on_activate, smoother_on_deactivate
<1>4. CASE ControllerStep \/ UNCHANGED chainVars
  BY <1>4 DEF ControllerStep, chainVars
<1>. QED  BY <1>1, <1>2, <1>3, <1>4 DEF DriveNext, SmootherStep

\* The robot is never told to exceed the smoother's limits of velocity, and the velocity the
\* smoother works from moves only towards the command, by no more than a limit of acceleration
\* in one period.
THEOREM SmootherKeepsLimits ==
  DriveSpec => []WithinLimits /\ [][last_cmd' # last_cmd => SmoothStep(command')]_chainVars
<1>1. DriveInit => SInv
  BY SmootherAssumption DEF DriveInit, SmootherInit, SInv, WithinLimits
<1>2. CInv /\ SInv /\ [DriveNext]_chainVars
        => SInv' /\ [last_cmd' # last_cmd => SmoothStep(command')]_chainVars
  BY SmootherStepKeeps
<1>3. SInv => WithinLimits
  BY DEF SInv
<1>. QED  BY <1>1, <1>2, <1>3, ControllerInductive, PTL DEF DriveSpec
=============================================================================
