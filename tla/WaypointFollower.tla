-------------------------- MODULE WaypointFollower --------------------------
(***************************************************************************)
(* nav2_waypoint_follower::WaypointFollower: the execute callback          *)
(* followWaypoints() that drives a list of poses one NavigateToPose goal   *)
(* at a time, running on the worker thread of SimpleActionServer.          *)
(*                                                                         *)
(* The callback is split where another thread can act between two of its   *)
(* calls into the server: the cancel test, the preemption test, accepting  *)
(* the pending goal, sending and publishing feedback, judging the outcome, *)
(* and spinning callback_group_executor_.  The answers of the              *)
(* navigate_to_pose server are only processed while it spins.              *)
(*                                                                         *)
(* The navigate_to_pose server (bt_navigator) is external: it answers a    *)
(* goal request with acceptance or rejection and an accepted goal with any *)
(* result, whenever it likes; answers to goal requests come back in order. *)
(***************************************************************************)
EXTENDS SimpleActionServer, Integers

CONSTANTS PoseCounts,      \* what clients may send: numbers of poses of all goals
          StopOnFailure    \* the value of stop_on_failure the node starts with

ASSUME FollowerAssumption ==
  /\ PoseCounts \subseteq [Goals -> Nat]
  /\ StopOnFailure \in BOOLEAN

VARIABLES
  NumPoses,             \* goal->poses.size() of each goal, as clients chose it
  step,                 \* where followWaypoints() is
  goal,                 \* the local pointer to the goal being followed
  goal_index,           \* the pose being navigated to
  new_goal,             \* the next pose has to be sent
  current_goal_status,  \* current_goal_status_
  failed_ids,           \* failed_ids_, as the set of indices it lists
  stop_on_failure,      \* stop_on_failure_
  nav,                  \* future_goal_handle_: the NavigateToPose goal sent last
  old_sent,             \* earlier NavigateToPose goals without an answer yet
  old_live,             \* earlier NavigateToPose goals without a result yet
  cancelled,            \* history: a cancel of all goals was answered after that goal was sent
  misjudged,            \* history: the rejection of an earlier goal was taken for that goal's
  reached, failed,      \* history: poses of each goal reached, poses given up
  missed,               \* missed_waypoints of the result of each goal
  feedback              \* last current_waypoint published for each goal

localVars == <<step, goal, goal_index, new_goal>>
navVars == <<nav, old_sent, old_live, current_goal_status, cancelled, misjudged>>
recordVars == <<reached, failed, missed, feedback, failed_ids>>
followerVars == <<localVars, navVars, recordVars, stop_on_failure>>
serverVars == <<handleVars, server_active, stop_execution, accepting, worker, deactivating>>
allVars == <<vars, followerVars, NumPoses>>

Steps == {"entry", "cancel?", "cancelling", "preempt?", "accept", "send", "judge",
          "spin", "return",
          "blocked",   \* inside future_goal_handle_.get() with no answer to wait for
          "crashed"}   \* dereferenced a null goal or read past the list of poses

Indices == {0} \cup UNION {0 .. n[g] : n \in PoseCounts, g \in Goals}

FollowerTypeOK ==
  /\ TypeOK
  /\ NumPoses \in PoseCounts
  /\ step \in Steps
  /\ goal \in Goals \cup {NoGoal}
  /\ goal_index \in Indices
  /\ new_goal \in BOOLEAN
  /\ current_goal_status \in {"UNKNOWN", "PROCESSING", "FAILED", "SUCCEEDED"}
  /\ failed_ids \subseteq Indices
  /\ stop_on_failure \in BOOLEAN
  /\ nav \in {"none", "sent", "accepted", "rejected", "ended"}
  /\ old_sent \in Nat /\ old_live \in Nat
  /\ cancelled \in BOOLEAN /\ misjudged \in BOOLEAN
  /\ reached \in [Goals -> SUBSET Indices]
  /\ failed \in [Goals -> SUBSET Indices]
  /\ missed \in [Goals -> SUBSET Indices]
  /\ feedback \in [Goals -> Indices \cup {-1}]

FollowerInit ==
  /\ Init
  /\ NumPoses \in PoseCounts
  /\ step = "entry"
  /\ goal = NoGoal
  /\ goal_index = 0
  /\ new_goal = TRUE
  /\ current_goal_status = "UNKNOWN"
  /\ failed_ids = {}
  /\ stop_on_failure = StopOnFailure
  /\ nav = "none"
  /\ old_sent = 0 /\ old_live = 0
  /\ cancelled = FALSE /\ misjudged = FALSE
  /\ reached = [g \in Goals |-> {}]
  /\ failed = [g \in Goals |-> {}]
  /\ missed = [g \in Goals |-> {}]
  /\ feedback = [g \in Goals |-> -1]

-----------------------------------------------------------------------------
(* followWaypoints() *)

\* The callback is at s; everything of the server but the handles stays as it is.
At(s) ==
  /\ worker = "exec"
  /\ step = s
  /\ UNCHANGED <<server_active, stop_execution, accepting, deactivating, stop_on_failure>>

\* get_current_goal(), the test that the server is active, and an empty list.
follow_entry ==
  /\ At("entry")
  /\ goal' = current_handle
  /\ goal_index' = 0
  /\ new_goal' = TRUE
  /\ IF server_active /\ current_handle # NoGoal /\ NumPoses[current_handle] = 0
       THEN succeeded_current
       ELSE UNCHANGED handleVars
  /\ step' = CASE ~server_active -> "return"
               [] server_active /\ current_handle = NoGoal -> "crashed"
               [] OTHER -> IF NumPoses[current_handle] = 0 THEN "return" ELSE "cancel?"
  /\ UNCHANGED <<worker, navVars, recordVars>>

follow_cancel_test ==
  /\ At("cancel?")
  /\ step' = IF is_cancel_requested THEN "cancelling" ELSE "preempt?"
  /\ UNCHANGED <<handleVars, worker, goal, goal_index, new_goal, navVars, recordVars>>

\* [Mutant] the cancel branch without its return.
follow_cancelled_goes_on ==
  /\ At("cancelling")
  /\ terminate_all
  /\ step' = "preempt?"
  /\ UNCHANGED <<worker, goal, goal_index, new_goal, navVars, recordVars>>

\* The answer to async_cancel_all_goals is here: terminate_all() and return.
follow_cancelled ==
  /\ At("cancelling")
  /\ terminate_all
  /\ cancelled' = TRUE
  /\ step' = "return"
  /\ UNCHANGED <<worker, goal, goal_index, new_goal, nav, old_sent, old_live,
                 current_goal_status, misjudged, recordVars>>

\* [Mutant] accept_pending_goal() called whether or not a preemption was requested.
follow_preempt_test_dropped ==
  /\ At("preempt?")
  /\ step' = "accept"
  /\ UNCHANGED <<handleVars, worker, goal, goal_index, new_goal, navVars, recordVars>>

follow_preempt_test ==
  /\ At("preempt?")
  /\ step' = IF preempt_requested THEN "accept" ELSE "send"
  /\ UNCHANGED <<handleVars, worker, goal, goal_index, new_goal, navVars, recordVars>>

\* [Mutant] preemption that goes on at the index of the goal before.
follow_accept_keeps_index ==
  /\ At("accept")
  /\ \/ accept_pending_goal /\ goal' = pending_handle
     \/ ~is_active(pending_handle) /\ UNCHANGED handleVars /\ goal' = NoGoal
  /\ new_goal' = TRUE
  /\ step' = "send"
  /\ UNCHANGED <<goal_index, worker, navVars, recordVars>>

\* accept_pending_goal() returns null when the pending goal went away after the test.
follow_accept ==
  /\ At("accept")
  /\ \/ accept_pending_goal /\ goal' = pending_handle
     \/ ~is_active(pending_handle) /\ UNCHANGED handleVars /\ goal' = NoGoal
  /\ goal_index' = 0
  /\ new_goal' = TRUE
  /\ step' = "send"
  /\ UNCHANGED <<worker, navVars, recordVars>>

\* publish_feedback(), which drops feedback for a goal that is no longer active.
publish_feedback ==
  feedback' = IF is_active(current_handle)
                THEN [feedback EXCEPT ![current_handle] = goal_index]
                ELSE feedback

\* [Mutant] the pose is sent again in every turn of the loop: new_goal is not cleared.
follow_send_repeats ==
  /\ At("send")
  /\ \/ /\ IF goal = NoGoal THEN TRUE ELSE goal_index >= NumPoses[goal]
        /\ step' = "crashed"
        /\ UNCHANGED <<navVars, feedback>>
     \/ /\ goal # NoGoal
        /\ goal_index < NumPoses[goal]
        /\ nav' = "sent"
        /\ old_sent' = IF nav = "sent" THEN old_sent + 1 ELSE old_sent
        /\ old_live' = IF nav = "accepted" THEN old_live + 1 ELSE old_live
        /\ cancelled' = FALSE /\ misjudged' = FALSE
        /\ current_goal_status' = "PROCESSING"
        /\ publish_feedback
        /\ step' = "judge"
  /\ UNCHANGED <<handleVars, worker, goal, goal_index, new_goal, reached, failed, missed, failed_ids>>

\* Send the next pose if there is one to send, then publish the index as feedback.
\* Sending replaces future_goal_handle_; what the goal before it is still owed arrives
\* all the same.
follow_send ==
  /\ At("send")
  /\ \/ /\ new_goal
        /\ IF goal = NoGoal THEN TRUE ELSE goal_index >= NumPoses[goal]
        /\ step' = "crashed"
        /\ UNCHANGED <<navVars, feedback, new_goal>>
     \/ /\ new_goal
        /\ goal # NoGoal
        /\ goal_index < NumPoses[goal]
        /\ nav' = "sent"
        /\ old_sent' = IF nav = "sent" THEN old_sent + 1 ELSE old_sent
        /\ old_live' = IF nav = "accepted" THEN old_live + 1 ELSE old_live
        /\ cancelled' = FALSE /\ misjudged' = FALSE
        /\ current_goal_status' = "PROCESSING"
        /\ new_goal' = FALSE
        /\ publish_feedback
        /\ step' = "judge"
     \/ /\ ~new_goal
        /\ publish_feedback
        /\ step' = "judge"
        /\ UNCHANGED <<navVars, new_goal>>
  /\ UNCHANGED <<handleVars, worker, goal, goal_index, reached, failed, missed, failed_ids>>

\* The result carries failed_ids_ if the goal is still there to receive one.
report(ids) ==
  /\ missed' = IF is_active(current_handle)
                 THEN [missed EXCEPT ![current_handle] = ids] ELSE missed
  /\ failed_ids' = {}

\* [Mutant] the list taken for done one pose early.
advance_early(ids) ==
  /\ goal_index' = goal_index + 1
  /\ new_goal' = TRUE
  /\ IF goal_index + 2 >= NumPoses[goal]
       THEN /\ report(ids)
            /\ succeeded_current \/ (~is_active(current_handle) /\ UNCHANGED handleVars)
            /\ step' = "return"
       ELSE /\ failed_ids' = ids
            /\ step' = "spin"
            /\ UNCHANGED <<handleVars, missed>>

\* goal_index++; the list is done when it reaches the end.
advance(ids) ==
  /\ goal_index' = goal_index + 1
  /\ new_goal' = TRUE
  /\ IF goal_index + 1 >= NumPoses[goal]
       THEN /\ report(ids)
            /\ succeeded_current \/ (~is_active(current_handle) /\ UNCHANGED handleVars)
            /\ step' = "return"
       ELSE /\ failed_ids' = ids
            /\ step' = "spin"
            /\ UNCHANGED <<handleVars, missed>>

give_up(ids) ==
  /\ report(ids)
  /\ terminate_current
  /\ step' = "return"
  /\ UNCHANGED <<goal_index, new_goal>>

follow_failed ==
  /\ At("judge")
  /\ current_goal_status = "FAILED"
  /\ failed' = [failed EXCEPT ![goal] = @ \cup {goal_index}]
  /\ LET ids == failed_ids \cup {goal_index}
     IN  IF stop_on_failure THEN give_up(ids) ELSE advance(ids)
  /\ UNCHANGED <<worker, goal, navVars, reached, feedback>>

\* processAtWaypoint() is a plugin and may fail.
follow_succeeded ==
  /\ At("judge")
  /\ current_goal_status = "SUCCEEDED"
  /\ \E is_task_executed \in BOOLEAN :
       IF ~is_task_executed /\ stop_on_failure
         THEN /\ give_up(failed_ids \cup {goal_index})
              /\ failed' = [failed EXCEPT ![goal] = @ \cup {goal_index}]
              /\ UNCHANGED reached
         ELSE /\ advance(failed_ids)
              /\ reached' = [reached EXCEPT ![goal] = @ \cup {goal_index}]
              /\ UNCHANGED failed
  /\ UNCHANGED <<worker, goal, navVars, feedback>>

follow_processing ==
  /\ At("judge")
  /\ current_goal_status \in {"PROCESSING", "UNKNOWN"}
  /\ step' = "spin"
  /\ UNCHANGED <<handleVars, worker, goal, goal_index, new_goal, navVars, recordVars>>

\* spin_some() returns and the loop goes round.
follow_again ==
  /\ At("spin")
  /\ step' = "cancel?"
  /\ UNCHANGED <<handleVars, worker, goal, goal_index, new_goal, navVars, recordVars>>

follow_return ==
  /\ At("return")
  /\ worker' = "post"
  /\ step' = "entry"
  /\ UNCHANGED <<handleVars, goal, goal_index, new_goal, navVars, recordVars>>

-----------------------------------------------------------------------------
(* Callbacks of the navigate_to_pose client, run by spin_some() in the loop and by
   spin_until_future_complete() while the answer to a cancel request is awaited. *)

Spinning ==
  /\ worker = "exec"
  /\ step \in {"spin", "cancelling"}
  /\ UNCHANGED <<serverVars, goal, goal_index, new_goal, recordVars, stop_on_failure>>

\* goalResponseCallback() does not ask which goal was answered: a rejection, of
\* whichever goal, fails the current pose.
goalResponseCallback ==
  /\ Spinning
  /\ \E accepted \in BOOLEAN :
       /\ IF old_sent > 0
            THEN /\ old_sent' = old_sent - 1
                 /\ old_live' = old_live + (IF accepted THEN 1 ELSE 0)
                 /\ UNCHANGED nav
            ELSE /\ nav = "sent"
                 /\ nav' = IF accepted THEN "accepted" ELSE "rejected"
                 /\ UNCHANGED <<old_sent, old_live>>
       /\ current_goal_status' = IF accepted THEN current_goal_status ELSE "FAILED"
       /\ misjudged' = (misjudged \/ (old_sent > 0 /\ ~accepted))
  /\ UNCHANGED <<step, cancelled>>

resultCallback_current ==
  /\ Spinning
  /\ nav = "accepted"
  /\ nav' = "ended"
  /\ current_goal_status' \in {"SUCCEEDED", "FAILED", "UNKNOWN"}
  /\ UNCHANGED <<step, old_sent, old_live, cancelled, misjudged>>

\* The result of an earlier goal.  future_goal_handle_.get() waits for the answer to
\* the goal sent last, which only this thread could process, and is null if that goal
\* was rejected.
resultCallback_old ==
  /\ Spinning
  /\ old_live > 0
  /\ old_live' = old_live - 1
  /\ step' = CASE nav = "sent" -> "blocked"
               [] nav = "rejected" -> "crashed"
               [] OTHER -> step
  /\ UNCHANGED <<nav, old_sent, current_goal_status, cancelled, misjudged>>

-----------------------------------------------------------------------------
(* The other threads. *)

\* dynamicParametersCallback(), delivered by the node's executor and registered while the
\* node is active.
dynamicParametersCallback ==
  /\ ExecutorFree /\ step # "crashed"
  /\ server_active
  /\ stop_on_failure' = ~stop_on_failure
  /\ UNCHANGED <<vars, localVars, navVars, recordVars>>

\* A crash takes the whole process with it.
ServerStep ==
  /\ step # "crashed"
  /\ Executor \/ Lifecycle \/ work_condition \/ work_finish \/ work_end
  /\ UNCHANGED followerVars

FollowWaypoints ==
  \/ follow_entry \/ follow_cancel_test \/ follow_cancelled
  \/ follow_preempt_test \/ follow_accept \/ follow_send
  \/ follow_failed \/ follow_succeeded \/ follow_processing
  \/ follow_again \/ follow_return

NavCallback == goalResponseCallback \/ resultCallback_current \/ resultCallback_old

FollowerNext ==
  /\ ServerStep \/ FollowWaypoints \/ NavCallback \/ dynamicParametersCallback
  /\ UNCHANGED NumPoses

FollowerSpec == FollowerInit /\ [][FollowerNext]_allVars

-----------------------------------------------------------------------------
(* Properties. *)

\* The callback dereferences goal and goal->poses[goal_index] without a test.  That can
\* only go wrong when deactivate() timed out and took the pending goal away between
\* is_preempt_requested() and accept_pending_goal(), when an empty list preempts (the
\* test for one is made at entry only), or when a result of an earlier goal arrives
\* after the latest was rejected.
CrashesExplained ==
  step = "crashed" =>
    \/ goal = NoGoal /\ stop_execution
    \/ goal # NoGoal /\ NumPoses[goal] = 0
    \/ nav = "rejected"

\* The runner takes "current_waypoint - 1" for the last completed index: whatever was
\* preempted, cancelled or late, every pose before the published index has been
\* navigated to or given up, in this goal.
FeedbackCountsProcessed ==
  \A g \in Goals : \A i \in Indices :
    i < feedback[g] => i \in reached[g] \cup failed[g]

\* A goal succeeds only when every one of its poses was reached or given up, and a pose
\* that was given up is in the missed_waypoints of the result.
SuccessCoversRoute ==
  \A g \in Goals : status[g] = "succeeded" =>
    /\ reached[g] \cup failed[g] = 0 .. NumPoses[g] - 1
    /\ failed[g] \subseteq missed[g]

\* The robot drives towards a pose, in the callback, after it and between goals, only for the
\* goal the server holds, whose client still waits for a result.  There are three exceptions:
\* the drive was cancelled, and the robot only has to stop; deactivate() gave up waiting, and
\* the callback drives on through the list although the client was told ABORTED; or the
\* rejection of an earlier goal was taken for a failure of this one, and the follower moves on
\* or ends its goal while the robot drives to the pose it gave up.
DrivesForLiveGoal ==
  nav \in {"sent", "accepted"} /\ ~cancelled /\ ~stop_execution /\ ~misjudged
    => goal = current_handle /\ is_active(goal)

\* future_goal_handle_.get() in resultCallback() blocks the callback for good only after
\* another goal was preempted, cancelled or given up and left a NavigateToPose goal behind:
\* however late answers and results come, a goal alone never hangs the follower.
BlocksOnlyAfterAnother ==
  step = "blocked" => \E g \in Goals \ {goal} : status[g] \in {"aborted", "canceled"}
=============================================================================
