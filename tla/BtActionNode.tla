---------------------------- MODULE BtActionNode ----------------------------
(***************************************************************************)
(* nav2_behavior_tree::BtActionNode, as FollowPathAction instantiates it:  *)
(* the leaf of bt_navigator's tree that sends a goal to an action server,  *)
(* sends a new one when the path on the blackboard changes, and turns the  *)
(* result into SUCCESS or FAILURE.                                         *)
(*                                                                         *)
(* One thread ticks and halts the tree.  Answers and results are handled   *)
(* by the node's own executor, which runs only where tick() and halt()     *)
(* spin it; the code is split there, because the server acts meanwhile.    *)
(* The follow_path server is seen as its clients see it, through the       *)
(* actions of GoalLifecycle, which SimpleActionServer implements.          *)
(* External: the tree around the node, and the rclcpp_action client, which *)
(* passes on answers and results in any order after any delay.             *)
(***************************************************************************)
EXTENDS GoalLifecycle, Naturals

ASSUME BtAssumption ==
  /\ Goals \subseteq Nat \ {0} /\ NoGoal \notin Goals
  /\ \A g \in Goals : 1 .. g \subseteq Goals

VARIABLES
  new_path,               \* the path on the blackboard is not goal_.path
  node_status,            \* status() of the node
  phase,                  \* where the tree's thread is
  goal_updated,           \* goal_updated_
  sent,                   \* goals sent so far; they are numbered in this order
  future_goal_handle,     \* the goal future_goal_handle_ is about, NoGoal when null
  expired,                \* now() - time_goal_sent_ >= server_timeout_
  goal_handle,            \* goal_handle_
  seen,                   \* goal_handle_->get_status(), as told by the server
  goal_result_available,  \* goal_result_available_
  result,                 \* result_.code
  client,                 \* what the action client knows of each goal
  cancels                 \* cancel requests under way to the server

goalVars == <<goal_updated, sent, future_goal_handle, expired>>
handleVars == <<goal_handle, seen>>
resultVars == <<goal_result_available, result>>
btVars == <<new_path, node_status, phase, goalVars, handleVars, resultVars, client, cancels>>
allVars == <<btVars, lifecycleVars>>

Live == {"executing", "canceling"}

\* Phases in which the node's executor spins.
Awaiting == {"await_first", "await_update"}
Spinning == Awaiting \cup {"spin", "halt_spin", "halt_cancel", "halt_result"}

BtInit ==
  /\ LifecycleInit
  /\ new_path = FALSE
  /\ node_status = "IDLE" /\ phase = "out"
  /\ goal_updated = FALSE /\ sent = 0 /\ future_goal_handle = NoGoal /\ expired = FALSE
  /\ goal_handle = NoGoal /\ seen = "unsent"
  /\ goal_result_available = FALSE /\ result = "unsent"
  /\ client = [g \in Goals |-> "unsent"]
  /\ cancels = {}
-----------------------------------------------------------------------------
(* Callbacks of the action client, run while the node spins. *)

answered(g) == client[g] \in {"accepted", "rejected"}

\* spin_until_future_complete stops at the moment its future is ready.
Spins ==
  /\ phase \in Spinning
  /\ phase \in Awaiting => ~answered(future_goal_handle)
  /\ UNCHANGED <<new_path, node_status, goalVars, goal_handle, cancels, lifecycleVars>>

\* The answer to a goal request; the result of an accepted goal is requested at once.
HandleResponse(g) ==
  /\ Spins
  /\ client[g] = "sent" /\ status[g] # "unsent"
  /\ client' = [client EXCEPT ![g] = IF status[g] = "rejected" THEN "rejected" ELSE "accepted"]
  /\ UNCHANGED <<phase, seen, resultVars>>

\* The status topic.
HandleStatus(g) ==
  /\ Spins
  /\ g = goal_handle
  /\ seen' = status[g]
  /\ UNCHANGED <<phase, client, resultVars>>

\* What every result does before the callback of the node sees it.
ResultArrives(g) ==
  /\ Spins
  /\ client[g] = "accepted" /\ status[g] \in Terminal
  /\ client' = [client EXCEPT ![g] = "result"]
  /\ seen' = IF g = goal_handle THEN status[g] ELSE seen

\* The code a result carries: the server has none for a goal it forgot.
codes(g) == {status[g], "unknown"}

\* Mutant: the identity of the goal is not looked at.
HandleResult_any(g) ==
  /\ ResultArrives(g)
  /\ IF future_goal_handle = NoGoal
       THEN goal_result_available' = TRUE /\ result' \in codes(g)
       ELSE UNCHANGED resultVars
  /\ UNCHANGED phase

\* Mutant: a result is looked at even while the answer to a newer goal is awaited.
HandleResult_eager(g) ==
  /\ ResultArrives(g)
  /\ phase' = IF goal_handle = NoGoal THEN "crashed" ELSE phase
  /\ IF goal_handle = g
       THEN goal_result_available' = TRUE /\ result' \in codes(g)
       ELSE UNCHANGED resultVars

\* result_callback: ignored while an answer is awaited, and when it is another goal's; reads
\* goal_handle_ without a test.
HandleResult(g) ==
  /\ ResultArrives(g)
  /\ phase' = IF future_goal_handle = NoGoal /\ goal_handle = NoGoal THEN "crashed" ELSE phase
  /\ IF future_goal_handle = NoGoal /\ goal_handle = g
       THEN goal_result_available' = TRUE /\ result' \in codes(g)
       ELSE UNCHANGED resultVars
-----------------------------------------------------------------------------
(* tick() *)

\* future_goal_handle_.reset()
forget_future == future_goal_handle' = NoGoal /\ expired' = FALSE

send_new_goal ==
  /\ sent' = sent + 1
  /\ client' = [client EXCEPT ![sent + 1] = "sent"]
  /\ future_goal_handle' = sent + 1
  /\ expired' = FALSE
  /\ goal_result_available' = FALSE /\ result' = "unsent"

\* Bound: the goals the model has, one kept for an update still to be sent.
GoalsLeft == sent + (IF goal_updated THEN 1 ELSE 0) + 1 \in Goals

\* The first tick: on_tick() reads the path, the goal is sent.
tick_first ==
  /\ phase = "out" /\ node_status = "IDLE" /\ GoalsLeft
  /\ node_status' = "RUNNING"
  /\ new_path' = FALSE
  /\ send_new_goal
  /\ phase' = "await_first"
  /\ UNCHANGED <<goal_updated, handleVars, cancels, lifecycleVars>>

\* A later tick: the answer is late, still awaited, or was received.
tick_again ==
  /\ phase = "out" /\ node_status = "RUNNING"
  /\ IF future_goal_handle # NoGoal /\ expired
       THEN forget_future /\ node_status' = "FAILURE" /\ UNCHANGED phase
       ELSE /\ phase' = IF future_goal_handle # NoGoal THEN "await_first" ELSE "run"
            /\ UNCHANGED <<node_status, future_goal_handle, expired>>
  /\ UNCHANGED <<new_path, goal_updated, sent, handleVars, resultVars, client,
                 cancels, lifecycleVars>>

\* Mutant: future_goal_handle_ is kept after its answer.
await_answered_keeps ==
  /\ phase \in Awaiting /\ client[future_goal_handle] = "accepted"
  /\ goal_handle' = future_goal_handle /\ seen' = "executing"
  /\ phase' = IF phase = "await_first" THEN "run" ELSE "spin"
  /\ UNCHANGED <<new_path, goalVars, node_status, resultVars, client, cancels, lifecycleVars>>

\* is_future_goal_handle_complete: the answer is there.  A rejection throws, and the handle of
\* the goal before is lost.
await_answered ==
  /\ phase \in Awaiting /\ answered(future_goal_handle)
  /\ forget_future
  /\ \/ /\ client[future_goal_handle] = "accepted"
        /\ goal_handle' = future_goal_handle /\ seen' = "executing"
        /\ phase' = IF phase = "await_first" THEN "run" ELSE "spin"
        /\ UNCHANGED node_status
     \/ /\ client[future_goal_handle] = "rejected"
        /\ goal_handle' = NoGoal /\ seen' = "unsent"
        /\ node_status' = "FAILURE" /\ phase' = "out"
  /\ UNCHANGED <<new_path, goal_updated, sent, resultVars, client, cancels,
                 lifecycleVars>>

\* It is not: the tick ends, and the action with it when server_timeout_ has passed.
await_timeout ==
  /\ phase \in Awaiting /\ ~answered(future_goal_handle)
  /\ phase' = "out"
  /\ IF expired
       THEN forget_future /\ node_status' = "FAILURE"
       ELSE UNCHANGED <<future_goal_handle, expired, node_status>>
  /\ UNCHANGED <<new_path, goal_updated, sent, handleVars, resultVars, client,
                 cancels, lifecycleVars>>

\* FollowPathAction::on_wait_for_result, and the update it may lead to: goal_handle_ is read
\* without a test.  There is no result yet: sending the goal cleared goal_result_available_,
\* and a spin that sets it ends the tick.
tick_run ==
  /\ phase = "run"
  /\ new_path' = FALSE
  /\ LET updated == goal_updated \/ new_path
     IN IF updated /\ seen = "executing"
          THEN /\ goal_updated' = FALSE
               /\ send_new_goal
               /\ phase' = "await_update"
          ELSE /\ goal_updated' = updated
               /\ phase' = IF goal_handle = NoGoal THEN "crashed" ELSE "spin"
               /\ UNCHANGED <<sent, future_goal_handle, expired, resultVars, client>>
  /\ UNCHANGED <<node_status, handleVars, cancels, lifecycleVars>>

\* After spin_some(): the result, if there is one, ends the action.  An unknown code throws
\* out of the tree: the navigation fails, and haltAllActions halts the node, goal_handle_ and all.
tick_end ==
  /\ phase = "spin"
  /\ \/ /\ ~goal_result_available
        /\ phase' = "out"
        /\ UNCHANGED <<node_status, handleVars>>
     \/ /\ goal_result_available /\ result \in Terminal
        /\ node_status' = IF result = "aborted" THEN "FAILURE" ELSE "SUCCESS"
        /\ goal_handle' = NoGoal /\ seen' = "unsent"
        /\ phase' = "out"
     \/ /\ goal_result_available /\ result = "unknown"
        /\ phase' = "halt_spin"
        /\ UNCHANGED <<node_status, handleVars>>
  /\ UNCHANGED <<new_path, goalVars, resultVars, client, cancels, lifecycleVars>>
-----------------------------------------------------------------------------
(* halt() *)

\* Mutant: the status is set first, and should_cancel_goal() finds nothing running.
halt_idle_first ==
  /\ phase = "out" /\ node_status = "RUNNING"
  /\ node_status' = "IDLE"
  /\ UNCHANGED <<new_path, phase, goalVars, handleVars, resultVars, client, cancels, lifecycleVars>>

halt ==
  /\ phase = "out" /\ node_status = "RUNNING"
  /\ IF goal_handle = NoGoal
       THEN node_status' = "IDLE" /\ UNCHANGED phase
       ELSE phase' = "halt_spin" /\ UNCHANGED node_status
  /\ UNCHANGED <<new_path, goalVars, handleVars, resultVars, client, cancels, lifecycleVars>>

\* should_cancel_goal() after its spin_some(), and the cancel request.
halt_cancel ==
  /\ phase = "halt_spin"
  /\ IF seen = "executing"
       THEN /\ cancels' = cancels \cup {goal_handle}
            /\ phase' = "halt_cancel" /\ UNCHANGED node_status
       ELSE /\ node_status' = "IDLE"
            /\ phase' = "out" /\ UNCHANGED cancels
  /\ UNCHANGED <<new_path, goalVars, handleVars, resultVars, client, lifecycleVars>>

\* The two waits, each ended by its answer or by server_timeout_.
halt_wait ==
  /\ \/ phase = "halt_cancel" /\ phase' = "halt_result" /\ UNCHANGED node_status
     \/ phase = "halt_result" /\ phase' = "out" /\ node_status' = "IDLE"
  /\ UNCHANGED <<new_path, goalVars, handleVars, resultVars, client, cancels, lifecycleVars>>
-----------------------------------------------------------------------------
(* The tree, time, and the handlers and the worker of SimpleActionServer. *)

\* The parent resets a child that is done.
TreeResets ==
  /\ phase = "out" /\ node_status \in {"SUCCESS", "FAILURE"}
  /\ node_status' = "IDLE"
  /\ UNCHANGED <<new_path, phase, goalVars, handleVars, resultVars, client, cancels, lifecycleVars>>

\* Another leaf of the tree writes a path; bounded by the goals left to send it.
PlannerWrites ==
  /\ phase = "out"
  /\ node_status = "RUNNING" => sent + 1 \in Goals
  /\ new_path' = TRUE
  /\ UNCHANGED <<node_status, phase, goalVars, handleVars, resultVars, client, cancels, lifecycleVars>>

TimeoutPasses ==
  /\ future_goal_handle # NoGoal /\ ~expired
  /\ expired' = TRUE
  /\ UNCHANGED <<new_path, node_status, phase, goal_updated, sent, future_goal_handle,
                 handleVars, resultVars, client, cancels, lifecycleVars>>

\* Requests arrive in the order they were sent.
ServerAnswers(g) ==
  /\ client[g] = "sent"
  /\ \A h \in 1 .. g - 1 : status[h] # "unsent"
  /\ Admit(g) \/ Refuse(g)
  /\ UNCHANGED btVars

ServerCancels(g) ==
  /\ g \in cancels
  /\ cancels' = cancels \ {g}
  /\ RequestCancel(g) \/ (status[g] # "executing" /\ UNCHANGED lifecycleVars)
  /\ UNCHANGED <<new_path, node_status, phase, goalVars, handleVars, resultVars, client>>

\* Finish({g}), with success for the goal being executed.
ServerEnds(g) ==
  /\ g \in Tracked
  /\ \E end \in Terminal :
       /\ MayEnd(status[g], end) /\ (end = "succeeded" => g = executing)
       /\ status' = [status EXCEPT ![g] = end]
  /\ executing' = IF g = executing THEN NoGoal ELSE executing
  /\ waiting' = waiting \ {g}
  /\ UNCHANGED btVars

\* Begin(g, S), with S the goal executed before, which is aborted.
ServerBegins(g) ==
  /\ g \in waiting
  /\ status' = IF executing = NoGoal THEN status ELSE [status EXCEPT ![executing] = "aborted"]
  /\ executing' = g
  /\ waiting' = waiting \ {g}
  /\ UNCHANGED btVars

Tick == tick_first \/ tick_again \/ await_answered \/ await_timeout \/ tick_run \/ tick_end
Halt == halt \/ halt_cancel \/ halt_wait
Spin == \E g \in Goals : HandleResponse(g) \/ HandleStatus(g) \/ HandleResult(g)
Server == \E g \in Goals : ServerAnswers(g) \/ ServerCancels(g) \/ ServerEnds(g) \/ ServerBegins(g)

BtNext ==
  /\ phase # "crashed"
  /\ Tick \/ Halt \/ Spin \/ TreeResets \/ PlannerWrites \/ TimeoutPasses \/ Server

BtSpec == BtInit /\ [][BtNext]_allVars

\* The tree is ticked on, a spin handles what has arrived before it ends, time passes and the
\* server comes to the end of its goals.
BtFairness ==
  /\ WF_allVars(phase # "crashed" /\ Tick)
  /\ WF_allVars(phase # "crashed" /\ (halt_cancel \/ halt_wait))
  /\ \A g \in Goals :
       SF_allVars(phase # "crashed" /\ (HandleResponse(g) \/ HandleResult(g)))
  /\ WF_allVars(phase # "crashed" /\ TimeoutPasses)
  /\ WF_allVars(phase # "crashed" /\ Server)

FairBtSpec == BtSpec /\ BtFairness
-----------------------------------------------------------------------------
\* The outcome of the action is that of the goal sent last, not of one it replaced, whose
\* abortion may arrive before or after the answer to the new goal.  (A goal that was canceled
\* counts as SUCCESS: on_cancelled.)
ReportsOwnResult ==
  /\ node_status = "SUCCESS" => status[sent] \in {"succeeded", "canceled"}
  /\ node_status = "FAILURE" /\ goal_result_available => status[sent] = "aborted"

\* goal_handle_ is dereferenced without a test in tick() and in the result callback, and is
\* reset at the end of an action whose older goals may still have results on their way: it is
\* never null there.
NeverDereferencesNull == phase # "crashed"

\* "we make sure to cancel the ROS2 action if it is still running": when halt() returns, the
\* goal sent last has ended or is being canceled, or the cancel request is still under way;
\* unless the answer to that goal was still awaited: halt() then cancels the goal before it,
\* or none, and the server goes on with the new one.
HaltEndsGoal ==
  [][node_status = "RUNNING" /\ node_status' = "IDLE" =>
       \/ future_goal_handle # NoGoal
       \/ sent \in cancels'
       \/ status'[sent] # "executing"]_allVars

\* A running action comes to an end: no result is ignored for good, whichever answers and
\* results cross an update of the path.
EveryActionEnds == node_status = "RUNNING" ~> node_status # "RUNNING"
=============================================================================
