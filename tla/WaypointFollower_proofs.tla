----------------------- MODULE WaypointFollower_proofs -----------------------
(***************************************************************************)
(* Proofs about WaypointFollower for any goals and any numbers of poses.   *)
(***************************************************************************)
EXTENDS WaypointFollower, SimpleActionServer_proofs

LEMMA FollowIsServerStep == ASSUME FollowWaypoints PROVE [Next]_vars
<1>. USE DEF Next, Worker, At, vars, handleVars
<1>1. CASE follow_entry
  BY <1>1 DEF follow_entry, execute_call
<1>2. CASE follow_cancelled
  BY <1>2 DEF follow_cancelled, execute_call
<1>3. CASE follow_accept
  BY <1>3 DEF follow_accept, execute_call
<1>4. CASE follow_failed
  BY <1>4 DEF follow_failed, give_up, advance, execute_call
<1>5. CASE follow_succeeded
  BY <1>5 DEF follow_succeeded, give_up, advance, execute_call
<1>6. CASE follow_return
  BY <1>6 DEF follow_return, execute_return
<1>7. CASE follow_cancel_test \/ follow_preempt_test \/ follow_send \/ follow_processing
           \/ follow_again
  BY <1>7 DEF follow_cancel_test, follow_preempt_test, follow_send, follow_processing,
              follow_again
<1>. QED  BY <1>1, <1>2, <1>3, <1>4, <1>5, <1>6, <1>7 DEF FollowWaypoints

LEMMA FollowerIsServerStep == ASSUME [FollowerNext]_allVars PROVE [Next]_vars
<1>1. CASE FollowWaypoints
  BY <1>1, FollowIsServerStep
<1>2. CASE ServerStep
  BY <1>2 DEF ServerStep, Next, Worker
<1>3. CASE NavCallback
  BY <1>3 DEF NavCallback, goalResponseCallback, resultCallback_current, resultCallback_old,
              Spinning, serverVars, vars
<1>4. CASE dynamicParametersCallback \/ UNCHANGED allVars
  BY <1>4 DEF dynamicParametersCallback, allVars
<1>. QED  BY <1>1, <1>2, <1>3, <1>4 DEF FollowerNext

\* Every step of followWaypoints, of its callbacks and of the threads around it is a step of
\* SimpleActionServer, whose execute callback is open, so its invariants carry over.
LEMMA FollowerIsServer == FollowerSpec => Spec
<1>1. FollowerInit => Init
  BY DEF FollowerInit
<1>2. [FollowerNext]_allVars => [Next]_vars
  BY FollowerIsServerStep
<1>. QED  BY <1>1, <1>2, PTL DEF FollowerSpec, Spec

-----------------------------------------------------------------------------
(* What makes the properties of the follower inductive. *)

Processed(g) == reached[g] \cup failed[g]

\* Outside the execute callback followWaypoints is at its entry.
EntryWhenNotRunning == worker # "exec" => step = "entry"

\* It is entered for a goal, unless a deactivation took it away.
EntryHasGoal ==
  worker = "exec" /\ step = "entry" /\ ~stop_execution => current_handle # NoGoal

\* No pose of a goal is processed before followWaypoints takes it up.
NotTakenUp(g) ==
  \/ status[g] = "unsent"
  \/ g \in {pending_handle, accepting}
  \/ g = current_handle /\ step = "entry" /\ worker # "post"

NothingProcessedBefore == \A g \in Goals : NotTakenUp(g) => Processed(g) = {}

InLoop == {"cancel?", "cancelling", "preempt?", "accept", "send", "judge", "spin", "blocked"}

\* The goal followed is the one the server holds, until deactivate() gives up waiting.
GoalHeld ==
  \/ goal = current_handle /\ goal # NoGoal
  \/ stop_execution /\ current_handle = NoGoal
     /\ goal # NoGoal /\ status[goal] \in {"aborted", "canceled"}

\* Its poses are processed in order, and those given up are listed.
IndexCounts ==
  /\ Processed(goal) = 0 .. goal_index - 1
  /\ failed[goal] \subseteq failed_ids
  /\ \/ goal_index < NumPoses[goal]
     \/ step = "send" /\ new_goal /\ goal_index = 0 /\ NumPoses[goal] = 0

FollowsGoal ==
  step \in InLoop =>
    /\ \/ GoalHeld /\ IndexCounts
       \/ goal = NoGoal /\ step = "send" /\ new_goal /\ stop_execution
    /\ step = "judge" => ~new_goal
    /\ step = "accept" /\ ~stop_execution => pending_handle # NoGoal

FInv ==
  /\ FollowerTypeOK
  /\ EntryWhenNotRunning
  /\ EntryHasGoal
  /\ NothingProcessedBefore
  /\ FollowsGoal
  /\ FeedbackCountsProcessed
  /\ SuccessCoversRoute
  /\ CrashesExplained

LEMMA IndexFits ==
  ASSUME NumPoses \in PoseCounts, NEW g \in Goals, NEW i \in 0 .. NumPoses[g]
  PROVE  i \in Indices /\ NumPoses[g] \in Nat
  BY FollowerAssumption DEF Indices

LEMMA IndicesAreNaturals == Indices \subseteq Nat
  BY FollowerAssumption DEF Indices

LEMMA FollowerInductiveInit == FollowerInit => FInv
<1>. SUFFICES ASSUME FollowerInit PROVE FInv
  OBVIOUS
<1>. USE DEF FollowerInit
<1>1. TypeOK
  BY InductiveInit DEF IInv
<1>2. 0 \in Indices
  BY DEF Indices
<1>3. FollowerTypeOK
  BY <1>1, <1>2, FollowerAssumption DEF FollowerTypeOK, Steps
<1>4. FeedbackCountsProcessed
  BY IndicesAreNaturals DEF FeedbackCountsProcessed
<1>5. SuccessCoversRoute
  BY DEF SuccessCoversRoute, Init
<1>. QED
  BY <1>3, <1>4, <1>5
     DEF FInv, Init, EntryWhenNotRunning, EntryHasGoal, NothingProcessedBefore, Processed,
         FollowsGoal, InLoop, CrashesExplained

-----------------------------------------------------------------------------
(* The threads around followWaypoints. *)

\* Facts about a step of the server's threads: no goal succeeds, and no goal becomes one that
\* is not taken up yet.
LEMMA ServerThreads ==
  ASSUME IInv, IInv', EntryWhenNotRunning, ServerStep
  PROVE  /\ \A g \in Goals : status'[g] = "succeeded" => status[g] = "succeeded"
         /\ \A g \in Goals : NotTakenUp(g)' => NotTakenUp(g)
         /\ EntryWhenNotRunning'
<1>. USE ServerAssumption
<1>. DEFINE Conclusion ==
       /\ \A g \in Goals : status'[g] = "succeeded" => status[g] = "succeeded"
       /\ \A g \in Goals : NotTakenUp(g)' => NotTakenUp(g)
       /\ EntryWhenNotRunning'
<1>0. step' = step
  BY DEF ServerStep, followerVars, localVars
<1>. USE <1>0 DEF NotTakenUp, EntryWhenNotRunning, IInv, TypeOK, HandlesDistinctAndLive, Live,
                  Statuses, Terminal, is_active, is_running, terminated, released, handleVars
<1>1. CASE handle_accepted
  BY <1>1 DEF handle_accepted
<1>2. ASSUME NEW g \in Goals, handle_goal(g) \/ handle_cancel(g) PROVE Conclusion
  BY <1>2 DEF handle_goal, handle_cancel
<1>3. CASE activate \/ deactivate_begin \/ deactivate_end
  BY <1>3 DEF activate, deactivate_begin, deactivate_end
<1>4. CASE deactivate_timeout
  BY <1>4 DEF deactivate_timeout, terminate_all
<1>5. CASE work_condition \/ work_end
  BY <1>5 DEF work_condition, work_end
<1>6. CASE work_finish
  BY <1>6 DEF work_finish, terminate_all, terminate_current
<1>. QED  BY <1>1, <1>2, <1>3, <1>4, <1>5, <1>6 DEF ServerStep, Executor, Lifecycle

\* While the callback runs, only deactivate() takes a goal from it.
LEMMA HoldsWhileRunning ==
  ASSUME IInv, IInv', worker = "exec", ServerStep
  PROVE  /\ stop_execution => stop_execution'
         /\ ~stop_execution' => current_handle' = current_handle
         /\ ~stop_execution' /\ pending_handle # NoGoal => pending_handle' # NoGoal
         /\ goal # NoGoal /\ goal \in Goals /\ GoalHeld => GoalHeld'
<1>. USE ServerAssumption
<1>0. UNCHANGED goal
  BY DEF ServerStep, followerVars, localVars
<1>1. server_active \/ deactivating
  BY DEF IInv, QuietWhenInactive
<1>. USE <1>0 DEF GoalHeld, IInv, TypeOK, HandlesDistinctAndLive, Live, Statuses, Terminal,
                  is_active, is_running, terminated, released, handleVars
<1>2. CASE handle_accepted
  BY <1>2 DEF handle_accepted
<1>3. ASSUME NEW g \in Goals, handle_goal(g) \/ handle_cancel(g)
      PROVE  /\ UNCHANGED <<stop_execution, current_handle, pending_handle>>
             /\ goal # NoGoal /\ goal \in Goals /\ GoalHeld => GoalHeld'
  BY <1>3 DEF handle_goal, handle_cancel
<1>4. CASE activate
  BY <1>1, <1>4 DEF activate
<1>5. CASE deactivate_begin
  BY <1>5 DEF deactivate_begin
<1>6. CASE deactivate_timeout
  BY <1>6 DEF deactivate_timeout, terminate_all, StopWhenDeactivating
<1>7. CASE deactivate_end \/ work_condition \/ work_finish \/ work_end
  BY <1>7 DEF deactivate_end, work_condition, work_finish, work_end
<1>. QED  BY <1>2, <1>3, <1>4, <1>5, <1>6, <1>7 DEF ServerStep, Executor, Lifecycle

LEMMA ServerStepKeeps ==
  ASSUME IInv, IInv', FInv, ServerStep, UNCHANGED NumPoses PROVE FInv'
<1>. USE ServerAssumption
<1>1. /\ \A g \in Goals : status'[g] = "succeeded" => status[g] = "succeeded"
      /\ \A g \in Goals : NotTakenUp(g)' => NotTakenUp(g)
      /\ EntryWhenNotRunning'
  BY ServerThreads DEF FInv
<1>2. UNCHANGED <<cancelled, misjudged, step, goal, goal_index, new_goal, nav, old_sent, old_live,
                  current_goal_status, reached, failed, missed, feedback, failed_ids,
                  stop_on_failure, NumPoses>>
  BY DEF ServerStep, followerVars, localVars, navVars, recordVars
<1>3. FollowerTypeOK'
  BY <1>2 DEF FInv, FollowerTypeOK, IInv
<1>4. EntryHasGoal'
  <2>. SUFFICES ASSUME worker' = "exec", step = "entry", ~stop_execution'
                PROVE  current_handle' # NoGoal
    BY <1>2 DEF EntryHasGoal
  <2>1. CASE worker = "exec"
    BY <2>1, HoldsWhileRunning DEF FInv, EntryHasGoal
  <2>2. CASE worker # "exec"
    <3>1. work_condition
      BY <2>2 DEF ServerStep, Executor, Lifecycle, handle_accepted, handle_goal,
         handle_cancel, activate, deactivate_begin, deactivate_timeout, deactivate_end,
         work_finish, work_end
    <3>. QED  BY <3>1 DEF work_condition, is_active, handleVars
  <2>. QED  BY <2>1, <2>2
<1>5. NothingProcessedBefore'
  BY <1>1, <1>2 DEF FInv, NothingProcessedBefore, Processed
<1>6. FollowsGoal'
  <2>. SUFFICES ASSUME step \in InLoop PROVE FollowsGoal'
    BY <1>2 DEF FollowsGoal
  <2>1. worker = "exec"
    BY DEF FInv, EntryWhenNotRunning, InLoop
  <2>2. goal \in Goals \cup {NoGoal}
    BY DEF FInv, FollowerTypeOK
  <2>. QED
    BY <1>2, <2>1, <2>2, HoldsWhileRunning
       DEF FInv, FollowsGoal, GoalHeld, IndexCounts, Processed
<1>7. FeedbackCountsProcessed'
  BY <1>2 DEF FInv, FeedbackCountsProcessed
<1>8. SuccessCoversRoute'
  BY <1>1, <1>2 DEF FInv, SuccessCoversRoute
<1>9. CrashesExplained'
  BY <1>2 DEF CrashesExplained, ServerStep
<1>. QED  BY <1>1, <1>3, <1>4, <1>5, <1>6, <1>7, <1>8, <1>9 DEF FInv

LEMMA NavCallbackKeeps ==
  ASSUME IInv, IInv', FInv, NavCallback, UNCHANGED NumPoses PROVE FInv'
<1>1. /\ worker = "exec" /\ step \in {"spin", "cancelling"}
      /\ UNCHANGED <<status, current_handle, pending_handle, stop_execution, accepting, worker,
                     goal, goal_index, new_goal, reached, failed, missed, feedback,
                     failed_ids, stop_on_failure>>
  BY DEF NavCallback, goalResponseCallback, resultCallback_current, resultCallback_old,
         Spinning, serverVars, handleVars, recordVars
<1>2. /\ step' \in {step, "blocked", "crashed"}
      /\ step' = "crashed" => nav' = "rejected"
  BY <1>1 DEF NavCallback, goalResponseCallback, resultCallback_current, resultCallback_old
<1>3. /\ nav' \in {"none", "sent", "accepted", "rejected", "ended"}
      /\ old_sent' \in Nat /\ old_live' \in Nat
      /\ current_goal_status' \in {"UNKNOWN", "PROCESSING", "FAILED", "SUCCEEDED"}
      /\ cancelled' \in BOOLEAN /\ misjudged' \in BOOLEAN
  <2>. USE DEF FInv, FollowerTypeOK
  <2>1. CASE goalResponseCallback
    BY <2>1 DEF goalResponseCallback
  <2>2. CASE resultCallback_current
    BY <2>2 DEF resultCallback_current
  <2>3. CASE resultCallback_old
    BY <2>3 DEF resultCallback_old
  <2>. QED  BY <2>1, <2>2, <2>3 DEF NavCallback
<1>4. FollowerTypeOK'
  BY <1>1, <1>2, <1>3 DEF FInv, FollowerTypeOK, IInv, Steps
<1>5. EntryWhenNotRunning' /\ EntryHasGoal' /\ CrashesExplained'
  BY <1>1, <1>2 DEF EntryWhenNotRunning, EntryHasGoal, CrashesExplained
<1>6. NothingProcessedBefore'
  BY <1>1, <1>2 DEF FInv, NothingProcessedBefore, NotTakenUp, Processed
<1>7. FollowsGoal'
  BY <1>1, <1>2 DEF FInv, FollowsGoal, GoalHeld, IndexCounts, Processed, InLoop
<1>8. FeedbackCountsProcessed' /\ SuccessCoversRoute'
  BY <1>1 DEF FInv, FeedbackCountsProcessed, SuccessCoversRoute
<1>. QED  BY <1>4, <1>5, <1>6, <1>7, <1>8 DEF FInv

-----------------------------------------------------------------------------
(* followWaypoints *)

\* The pose of goal_index is reached or given up: the list goes on, is done, or is given up.
LEMMA JudgeKeeps ==
  ASSUME IInv, IInv', FInv, At("judge"),
         UNCHANGED <<NumPoses, worker, goal, navVars, feedback>>,
         NEW ids \in SUBSET Indices, failed'[goal] \subseteq ids,
         reached' \in [Goals -> SUBSET Indices], failed' \in [Goals -> SUBSET Indices],
         \A g \in Goals : g # goal => reached'[g] = reached[g] /\ failed'[g] = failed[g],
         reached'[goal] \cup failed'[goal] = Processed(goal) \cup {goal_index},
         advance(ids) \/ give_up(ids)
  PROVE  FInv'
<1>. USE ServerAssumption
<1>1. /\ goal \in Goals /\ goal_index \in Nat /\ NumPoses \in PoseCounts
      /\ NumPoses[goal] \in Nat /\ goal_index < NumPoses[goal]
      /\ worker = "exec" /\ step = "judge"
      /\ GoalHeld /\ Processed(goal) = 0 .. goal_index - 1
  BY FollowerAssumption, IndicesAreNaturals
     DEF FInv, FollowerTypeOK, FollowsGoal, InLoop, IndexCounts, GoalHeld, At
<1>2. reached'[goal] \cup failed'[goal] = 0 .. goal_index
  BY <1>1
<1>3. goal_index \in Indices /\ goal_index + 1 \in Indices
  BY <1>1, IndexFits
<1>4. /\ UNCHANGED <<server_active, stop_execution, accepting, deactivating, stop_on_failure>>
      /\ UNCHANGED <<cancelled, misjudged, NumPoses, worker, goal, nav, old_sent, old_live, current_goal_status,
                     feedback, pending_handle>>
      /\ goal_index' \in {goal_index, goal_index + 1}
      /\ new_goal' \in BOOLEAN /\ step' \in {"return", "spin"} /\ failed_ids' \in SUBSET Indices
  BY DEF At, navVars, advance, give_up, report, succeeded_current, terminate_current,
         handleVars, FInv, FollowerTypeOK
<1>5. missed' = missed \/ (current_handle = goal /\ missed' = [missed EXCEPT ![goal] = ids])
  BY <1>1 DEF advance, give_up, report, is_active, GoalHeld
<1>6. FollowerTypeOK'
  BY <1>1, <1>3, <1>4, <1>5 DEF FInv, FollowerTypeOK, IInv, Steps
<1>7. EntryWhenNotRunning' /\ EntryHasGoal' /\ CrashesExplained'
  BY <1>1, <1>4 DEF EntryWhenNotRunning, EntryHasGoal, CrashesExplained
<1>8. \A g \in Goals : NotTakenUp(g)' => NotTakenUp(g) /\ g # goal
  <2>1. \A g \in Goals : status'[g] = "unsent" => status[g] = "unsent"
    BY DEF advance, give_up, succeeded_current, terminate_current, terminated, handleVars,
           IInv, TypeOK
  <2>2. status[goal] # "unsent" /\ goal \notin {pending_handle, accepting}
    BY <1>1 DEF GoalHeld, IInv, HandlesDistinctAndLive, Live
  <2>. QED  BY <1>1, <1>4, <2>1, <2>2 DEF NotTakenUp
<1>9. NothingProcessedBefore'
  BY <1>8 DEF FInv, NothingProcessedBefore, Processed
<1>10. FollowsGoal'
  <2>. SUFFICES ASSUME step' = "spin" PROVE FollowsGoal'
    BY <1>4 DEF FollowsGoal, InLoop
  <2>1. /\ goal_index' = goal_index + 1 /\ goal_index + 1 < NumPoses[goal]
        /\ failed_ids' = ids /\ UNCHANGED handleVars
    BY <1>1 DEF advance, give_up
  <2>2. GoalHeld'
    BY <1>1, <1>4, <2>1 DEF GoalHeld, handleVars
  <2>3. IndexCounts'
    BY <1>1, <1>2, <1>4, <2>1 DEF IndexCounts, Processed
  <2>. QED  BY <2>2, <2>3 DEF FollowsGoal
<1>11. FeedbackCountsProcessed'
  BY <1>1, <1>2, <1>4, IndicesAreNaturals
     DEF FInv, FeedbackCountsProcessed, FollowerTypeOK, Processed
<1>12. SuccessCoversRoute'
  <2>. SUFFICES ASSUME NEW g \in Goals, status'[g] = "succeeded"
                PROVE  /\ reached'[g] \cup failed'[g] = 0 .. NumPoses[g] - 1
                       /\ failed'[g] \subseteq missed'[g]
    BY <1>4 DEF SuccessCoversRoute
  <2>1. CASE g = goal
    <3>1. status[goal] # "succeeded"
      BY <1>1 DEF GoalHeld, IInv, HandlesDistinctAndLive, Live
    <3>2. succeeded_current /\ advance(ids) /\ goal_index + 1 >= NumPoses[goal]
      BY <1>1, <2>1, <3>1
         DEF advance, give_up, terminate_current, terminated, handleVars, IInv, TypeOK
    <3>3. current_handle = goal /\ is_active(current_handle)
      BY <1>1, <3>2 DEF succeeded_current, is_active, GoalHeld
    <3>4. missed' = [missed EXCEPT ![goal] = ids]
      BY <3>2, <3>3 DEF advance, report
    <3>5. missed'[goal] = ids
      BY <1>1, <3>4 DEF FInv, FollowerTypeOK
    <3>6. NumPoses[goal] - 1 = goal_index
      BY <1>1, <3>2
    <3>. QED  BY <1>2, <2>1, <3>5, <3>6
  <2>2. CASE g # goal
    <3>1. status[g] = "succeeded"
      BY <1>1, <2>2
         DEF advance, give_up, succeeded_current, terminate_current, terminated, handleVars,
             is_active, GoalHeld, IInv, TypeOK
    <3>2. missed'[g] = missed[g]
      BY <1>5, <2>2 DEF FInv, FollowerTypeOK
    <3>. QED  BY <2>2, <3>1, <3>2 DEF FInv, SuccessCoversRoute
  <2>. QED  BY <2>1, <2>2
<1>. QED  BY <1>6, <1>7, <1>9, <1>10, <1>11, <1>12 DEF FInv

\* Steps that leave the records alone: what is left to show is where the callback is now.
LEMMA QuietStepKeeps ==
  ASSUME IInv, IInv', FInv, step' \in Steps, worker = "exec",
         UNCHANGED <<NumPoses, stop_on_failure, nav, old_sent, old_live,
                     current_goal_status, reached, failed, missed, feedback, failed_ids>>,
         goal' \in Goals \cup {NoGoal}, goal_index' \in Indices, new_goal' \in BOOLEAN,
         cancelled' \in BOOLEAN, misjudged' \in BOOLEAN,
         \A g \in Goals : status'[g] = "succeeded" => status[g] = "succeeded",
         \A g \in Goals : NotTakenUp(g)' => NotTakenUp(g),
         worker' = "exec" \/ step' = "entry", worker' = "exec" => step' # "entry",
         FollowsGoal', CrashesExplained'
  PROVE  FInv'
<1>1. FollowerTypeOK'
  BY DEF FInv, FollowerTypeOK, IInv
<1>2. EntryWhenNotRunning' /\ EntryHasGoal'
  BY DEF EntryWhenNotRunning, EntryHasGoal
<1>3. NothingProcessedBefore'
  BY DEF FInv, NothingProcessedBefore, Processed
<1>4. FeedbackCountsProcessed' /\ SuccessCoversRoute'
  BY DEF FInv, FeedbackCountsProcessed, SuccessCoversRoute
<1>. QED  BY <1>1, <1>2, <1>3, <1>4 DEF FInv

LEMMA EntryKeeps ==
  ASSUME IInv, IInv', FInv, follow_entry, UNCHANGED NumPoses PROVE FInv'
<1>. USE ServerAssumption
<1>1. /\ worker = "exec" /\ worker' = "exec" /\ step = "entry"
      /\ goal' = current_handle /\ goal_index' = 0 /\ new_goal' = TRUE
      /\ UNCHANGED <<NumPoses, stop_on_failure, stop_execution, accepting, nav, old_sent,
                     old_live, current_goal_status, reached, failed, missed, feedback,
                     failed_ids>>
      /\ current_handle \in Goals \cup {NoGoal} /\ 0 \in Indices
      /\ cancelled' \in BOOLEAN /\ misjudged' \in BOOLEAN
  BY DEF follow_entry, At, navVars, recordVars, IInv, TypeOK, Indices, FInv, FollowerTypeOK
<1>2. current_handle # NoGoal => Processed(current_handle) = {} /\ is_active(current_handle)
  BY <1>1 DEF FInv, NothingProcessedBefore, NotTakenUp, IInv, HandlesDistinctAndLive,
              is_active
<1>3. \A g \in Goals : NotTakenUp(g)' => NotTakenUp(g)
  BY <1>1 DEF follow_entry, NotTakenUp, succeeded_current, handleVars, IInv, TypeOK
<1>4. CASE ~server_active
  <2>1. step' = "return" /\ UNCHANGED handleVars
    BY <1>4 DEF follow_entry
  <2>2. FollowsGoal' /\ CrashesExplained'
    BY <2>1 DEF FollowsGoal, InLoop, CrashesExplained
  <2>. QED  BY <1>1, <1>3, <2>1, <2>2, QuietStepKeeps DEF Steps, handleVars
<1>5. CASE server_active /\ current_handle = NoGoal
  <2>1. step' = "crashed" /\ UNCHANGED handleVars
    BY <1>5 DEF follow_entry
  <2>2. stop_execution
    BY <1>1, <1>5 DEF FInv, EntryHasGoal
  <2>3. FollowsGoal' /\ CrashesExplained'
    BY <1>1, <1>5, <2>1, <2>2 DEF FollowsGoal, InLoop, CrashesExplained
  <2>. QED  BY <1>1, <1>3, <2>1, <2>3, QuietStepKeeps DEF Steps, handleVars
<1>6. CASE server_active /\ current_handle # NoGoal /\ NumPoses[current_handle] # 0
  <2>1. step' = "cancel?" /\ UNCHANGED handleVars
    BY <1>6 DEF follow_entry
  <2>2. GoalHeld'
    BY <1>1, <1>6, <2>1 DEF GoalHeld, handleVars
  <2>3. IndexCounts'
    <3>1. NumPoses[current_handle] \in Nat
      BY <1>1, <1>6, FollowerAssumption DEF FInv, FollowerTypeOK
    <3>2. failed[current_handle] = {}
      BY <1>2, <1>6 DEF Processed
    <3>. QED  BY <1>1, <1>2, <1>6, <3>1, <3>2 DEF IndexCounts, Processed
  <2>4. FollowsGoal' /\ CrashesExplained'
    BY <2>1, <2>2, <2>3 DEF FollowsGoal, CrashesExplained
  <2>. QED  BY <1>1, <1>3, <2>1, <2>4, QuietStepKeeps DEF Steps, handleVars
<1>7. CASE server_active /\ current_handle # NoGoal /\ NumPoses[current_handle] = 0
  <2>1. step' = "return" /\ succeeded_current
    BY <1>7 DEF follow_entry
  <2>2. FollowerTypeOK'
    BY <1>1, <2>1 DEF FInv, FollowerTypeOK, IInv, Steps
  <2>3. EntryWhenNotRunning' /\ EntryHasGoal' /\ FollowsGoal' /\ CrashesExplained'
    BY <1>1, <2>1 DEF EntryWhenNotRunning, EntryHasGoal, FollowsGoal, InLoop,
                      CrashesExplained
  <2>4. NothingProcessedBefore' /\ FeedbackCountsProcessed'
    BY <1>1, <1>3 DEF FInv, NothingProcessedBefore, Processed, FeedbackCountsProcessed
  <2>5. SuccessCoversRoute'
    <3>1. reached[current_handle] = {} /\ failed[current_handle] = {}
      BY <1>2, <1>7 DEF Processed
    <3>2. ASSUME NEW g \in Goals, status'[g] = "succeeded", g # current_handle
          PROVE  status[g] = "succeeded"
      BY <2>1, <3>2 DEF succeeded_current, IInv, TypeOK
    <3>. QED  BY <1>1, <1>7, <3>1, <3>2 DEF FInv, SuccessCoversRoute
  <2>. QED  BY <2>2, <2>3, <2>4, <2>5 DEF FInv
<1>. QED  BY <1>4, <1>5, <1>6, <1>7

LEMMA AcceptKeeps ==
  ASSUME IInv, IInv', FInv, follow_accept, UNCHANGED NumPoses PROVE FInv'
<1>. USE ServerAssumption
<1>1. /\ worker = "exec" /\ worker' = "exec" /\ step = "accept" /\ step' = "send"
      /\ goal_index' = 0 /\ new_goal' = TRUE
      /\ UNCHANGED <<NumPoses, stop_on_failure, stop_execution, accepting, nav, old_sent,
                     old_live, current_goal_status, reached, failed, missed, feedback,
                     failed_ids>>
      /\ 0 \in Indices /\ cancelled' \in BOOLEAN /\ misjudged' \in BOOLEAN
  BY DEF follow_accept, At, navVars, recordVars, Indices, FInv, FollowerTypeOK
<1>2. CrashesExplained'
  BY <1>1 DEF CrashesExplained
<1>3. CASE accept_pending_goal /\ goal' = pending_handle
  <2>1. /\ pending_handle \in Goals /\ current_handle' = pending_handle
        /\ pending_handle' = NoGoal
    BY <1>3 DEF accept_pending_goal, is_active, IInv, TypeOK
  <2>2. Processed(pending_handle) = {}
    BY <2>1 DEF FInv, NothingProcessedBefore, NotTakenUp
  <2>3. /\ \A g \in Goals : status'[g] = "succeeded" => status[g] = "succeeded"
        /\ \A g \in Goals : status'[g] = "unsent" => status[g] = "unsent"
    BY <1>3 DEF accept_pending_goal, IInv, TypeOK
  <2>4. \A g \in Goals : NotTakenUp(g)' => NotTakenUp(g)
    BY <1>1, <2>1, <2>3 DEF NotTakenUp
  <2>5. IndexCounts'
    <3>1. NumPoses[pending_handle] \in Nat
      BY <2>1, FollowerAssumption DEF FInv, FollowerTypeOK
    <3>2. failed[pending_handle] = {}
      BY <2>2 DEF Processed
    <3>. QED  BY <1>1, <1>3, <2>2, <3>1, <3>2 DEF IndexCounts, Processed
  <2>6. FollowsGoal'
    BY <1>1, <1>3, <2>1, <2>5 DEF FollowsGoal, GoalHeld
  <2>. QED  BY <1>1, <1>2, <1>3, <2>1, <2>3, <2>4, <2>6, QuietStepKeeps DEF Steps
<1>4. CASE ~is_active(pending_handle) /\ UNCHANGED handleVars /\ goal' = NoGoal
  <2>1. pending_handle = NoGoal
    BY <1>4 DEF is_active, IInv, HandlesDistinctAndLive
  <2>2. stop_execution
    BY <1>1, <2>1 DEF FInv, FollowsGoal, InLoop
  <2>3. FollowsGoal'
    BY <1>1, <1>4, <2>2 DEF FollowsGoal
  <2>4. \A g \in Goals : NotTakenUp(g)' => NotTakenUp(g)
    BY <1>1, <1>4 DEF NotTakenUp, handleVars
  <2>. QED  BY <1>1, <1>2, <1>4, <2>3, <2>4, QuietStepKeeps DEF Steps, handleVars
<1>. QED  BY <1>3, <1>4 DEF follow_accept

LEMMA SendKeeps ==
  ASSUME IInv, IInv', FInv, follow_send, UNCHANGED NumPoses PROVE FInv'
<1>. USE ServerAssumption
<1>1. /\ worker = "exec" /\ worker' = "exec" /\ step = "send"
      /\ UNCHANGED <<NumPoses, stop_on_failure, stop_execution, accepting, goal, goal_index,
                     status, current_handle, pending_handle, reached, failed, missed,
                     failed_ids>>
      /\ goal \in Goals \cup {NoGoal}
  BY DEF follow_send, At, handleVars, FInv, FollowerTypeOK
<1>2. \A g \in Goals : NotTakenUp(g)' => NotTakenUp(g)
  BY <1>1 DEF follow_send, NotTakenUp
<1>3. CASE /\ new_goal /\ IF goal = NoGoal THEN TRUE ELSE goal_index >= NumPoses[goal]
           /\ step' = "crashed" /\ UNCHANGED <<navVars, feedback, new_goal>>
  <2>1. CrashesExplained'
    BY <1>1, <1>3, IndicesAreNaturals, FollowerAssumption
       DEF CrashesExplained, FInv, FollowsGoal, InLoop, GoalHeld, IndexCounts, FollowerTypeOK
  <2>2. FollowsGoal'
    BY <1>3 DEF FollowsGoal, InLoop
  <2>. QED
    BY <1>1, <1>2, <1>3, <2>1, <2>2, QuietStepKeeps DEF Steps, navVars, FInv, FollowerTypeOK
<1>4. CASE /\ goal # NoGoal /\ new_goal' = FALSE /\ step' = "judge" /\ publish_feedback
           /\ goal_index < NumPoses[goal]
           /\ nav' \in {"none", "sent", "accepted", "rejected", "ended"}
           /\ old_sent' \in Nat /\ old_live' \in Nat
           /\ current_goal_status' \in {"UNKNOWN", "PROCESSING", "FAILED", "SUCCEEDED"}
           /\ cancelled' \in BOOLEAN /\ misjudged' \in BOOLEAN
  <2>1. GoalHeld /\ IndexCounts
    BY <1>1, <1>4 DEF FInv, FollowsGoal, InLoop
  <2>2. \/ feedback' = feedback
        \/ current_handle = goal /\ feedback' = [feedback EXCEPT ![goal] = goal_index]
    BY <1>4, <2>1 DEF publish_feedback, is_active, GoalHeld
  <2>3. FollowerTypeOK'
    <3>1. feedback' \in [Goals -> Indices \cup {-1}]
      BY <2>2 DEF FInv, FollowerTypeOK
    <3>2. TypeOK'
      BY DEF IInv
    <3>. QED  BY <1>1, <1>4, <3>1, <3>2 DEF FInv, FollowerTypeOK, Steps
  <2>4. EntryWhenNotRunning' /\ EntryHasGoal' /\ CrashesExplained'
    BY <1>1, <1>4 DEF EntryWhenNotRunning, EntryHasGoal, CrashesExplained
  <2>5. NothingProcessedBefore' /\ SuccessCoversRoute'
    BY <1>1, <1>2 DEF FInv, NothingProcessedBefore, Processed, SuccessCoversRoute
  <2>6. FollowsGoal'
    BY <1>1, <1>4, <2>1 DEF FollowsGoal, GoalHeld, IndexCounts, Processed
  <2>7. FeedbackCountsProcessed'
    <3>. SUFFICES ASSUME NEW g \in Goals, NEW i \in Indices, i < feedback'[g]
                  PROVE  i \in reached[g] \cup failed[g]
      BY <1>1 DEF FeedbackCountsProcessed
    <3>1. CASE feedback'[g] = feedback[g]
      BY <3>1 DEF FInv, FeedbackCountsProcessed
    <3>2. CASE g = goal /\ feedback'[g] = goal_index
      <4>1. goal_index \in Nat /\ i \in Nat
        BY IndicesAreNaturals DEF FInv, FollowerTypeOK
      <4>2. i \in 0 .. goal_index - 1
        BY <3>2, <4>1
      <4>. QED  BY <2>1, <3>2, <4>2 DEF IndexCounts, Processed
    <3>. QED  BY <1>1, <2>2, <3>1, <3>2 DEF FInv, FollowerTypeOK
  <2>. QED  BY <2>3, <2>4, <2>5, <2>6, <2>7 DEF FInv
<1>5. CASE ~new_goal
  <2>1. goal # NoGoal /\ goal_index < NumPoses[goal]
    BY <1>1, <1>5 DEF FInv, FollowsGoal, InLoop, GoalHeld, IndexCounts
  <2>2. new_goal' = FALSE
    BY <1>5 DEF follow_send, FInv, FollowerTypeOK
  <2>. QED
    BY <1>4, <1>5, <2>1, <2>2 DEF follow_send, navVars, FInv, FollowerTypeOK
<1>6. CASE /\ goal # NoGoal /\ goal_index < NumPoses[goal] /\ nav' = "sent"
           /\ old_sent' = IF nav = "sent" THEN old_sent + 1 ELSE old_sent
           /\ old_live' = IF nav = "accepted" THEN old_live + 1 ELSE old_live
           /\ current_goal_status' = "PROCESSING"
           /\ cancelled' = FALSE /\ misjudged' = FALSE
           /\ new_goal' = FALSE /\ publish_feedback /\ step' = "judge"
  <2>1. old_sent' \in Nat /\ old_live' \in Nat
    BY <1>6 DEF FInv, FollowerTypeOK
  <2>. QED  BY <1>4, <1>6, <2>1
<1>. QED  BY <1>3, <1>5, <1>6 DEF follow_send

LEMMA FollowKeeps ==
  ASSUME IInv, IInv', FInv, FollowWaypoints, UNCHANGED NumPoses PROVE FInv'
<1>. USE ServerAssumption
<1>0. /\ worker = "exec"
      /\ goal \in Goals \cup {NoGoal} /\ goal_index \in Indices /\ new_goal \in BOOLEAN
  BY DEF FollowWaypoints, follow_entry, follow_cancel_test, follow_cancelled,
         follow_preempt_test, follow_accept, follow_send, follow_failed, follow_succeeded,
         follow_processing, follow_again, follow_return, At, FInv, FollowerTypeOK
<1>1. CASE follow_cancel_test \/ follow_preempt_test \/ follow_processing \/ follow_again
  <2>1. /\ step \in {"cancel?", "preempt?", "judge", "spin"}
        /\ step' \in {"cancelling", "preempt?", "accept", "send", "spin", "cancel?"}
        /\ step' = "accept" => preempt_requested
        /\ cancelled' \in BOOLEAN /\ misjudged' \in BOOLEAN
        /\ UNCHANGED <<NumPoses, stop_on_failure, nav, old_sent, old_live,
                     current_goal_status, reached, failed, missed, feedback, failed_ids,
                     status, current_handle, pending_handle, accepting, stop_execution,
                     worker, goal, goal_index, new_goal>>
    BY <1>1 DEF follow_cancel_test, follow_preempt_test, follow_processing, follow_again, At,
                handleVars, navVars, recordVars, FInv, FollowerTypeOK
  <2>2. FollowsGoal' /\ CrashesExplained'
    BY <2>1 DEF FInv, FollowsGoal, InLoop, GoalHeld, IndexCounts, Processed,
                CrashesExplained, IInv, PreemptIffPending
  <2>3. \A g \in Goals : NotTakenUp(g)' => NotTakenUp(g)
    BY <2>1 DEF NotTakenUp
  <2>. QED  BY <1>0, <2>1, <2>2, <2>3, QuietStepKeeps DEF Steps
<1>2. CASE follow_cancelled \/ follow_return
  <2>1. /\ \/ step' = "return" /\ UNCHANGED worker
           \/ step' = "entry" /\ worker' = "post"
        /\ cancelled' \in BOOLEAN /\ misjudged' \in BOOLEAN
        /\ UNCHANGED <<NumPoses, stop_on_failure, nav, old_sent, old_live,
                     current_goal_status, reached, failed, missed, feedback, failed_ids,
                     accepting, goal, goal_index, new_goal>>
    BY <1>2 DEF follow_cancelled, follow_return, At, navVars, recordVars, FInv, FollowerTypeOK
  <2>2. /\ \A g \in Goals : status'[g] = "succeeded" => status[g] = "succeeded"
        /\ \A g \in Goals : status'[g] = "unsent" => status[g] = "unsent"
        /\ pending_handle' \in {pending_handle, NoGoal}
    BY <1>2 DEF follow_cancelled, follow_return, terminate_all, terminated, released,
                handleVars, IInv, TypeOK
  <2>3. \A g \in Goals : NotTakenUp(g)' => NotTakenUp(g)
    BY <1>0, <2>1, <2>2 DEF NotTakenUp
  <2>4. FollowsGoal' /\ CrashesExplained'
    BY <2>1 DEF FollowsGoal, InLoop, CrashesExplained
  <2>. QED  BY <1>0, <2>1, <2>2, <2>3, <2>4, QuietStepKeeps DEF Steps
<1>3. CASE follow_failed
  <2>. DEFINE ids == failed_ids \cup {goal_index}
  <2>1. goal \in Goals /\ failed[goal] \subseteq failed_ids
    BY <1>0, <1>3 DEF follow_failed, At, FInv, FollowsGoal, InLoop, GoalHeld, IndexCounts
  <2>2. /\ failed' = [failed EXCEPT ![goal] = @ \cup {goal_index}] /\ reached' = reached
        /\ advance(ids) \/ give_up(ids)
        /\ UNCHANGED <<worker, goal, navVars, feedback>> /\ At("judge")
    BY <1>3 DEF follow_failed
  <2>3. /\ ids \in SUBSET Indices /\ failed'[goal] = failed[goal] \cup {goal_index}
        /\ reached' \in [Goals -> SUBSET Indices] /\ failed' \in [Goals -> SUBSET Indices]
        /\ \A g \in Goals : g # goal => reached'[g] = reached[g] /\ failed'[g] = failed[g]
    BY <1>0, <2>1, <2>2 DEF FInv, FollowerTypeOK
  <2>4. /\ failed'[goal] \subseteq ids
        /\ reached'[goal] \cup failed'[goal] = Processed(goal) \cup {goal_index}
    BY <2>1, <2>2, <2>3 DEF Processed
  <2>. HIDE DEF ids
  <2>. QED  BY <2>2, <2>3, <2>4, JudgeKeeps
<1>4. CASE follow_succeeded
  <2>1. goal \in Goals /\ failed[goal] \subseteq failed_ids
    BY <1>0, <1>4 DEF follow_succeeded, At, FInv, FollowsGoal, InLoop, GoalHeld, IndexCounts
  <2>2. PICK ids \in SUBSET Indices :
          /\ advance(ids) \/ give_up(ids)
          /\ failed_ids \subseteq ids
          /\ \/ /\ failed' = [failed EXCEPT ![goal] = @ \cup {goal_index}]
                /\ reached' = reached /\ goal_index \in ids
             \/ /\ reached' = [reached EXCEPT ![goal] = @ \cup {goal_index}]
                /\ failed' = failed
    <3>1. failed_ids \in SUBSET Indices /\ failed_ids \cup {goal_index} \in SUBSET Indices
      BY <1>0 DEF FInv, FollowerTypeOK
    <3>. QED  BY <1>4, <3>1 DEF follow_succeeded
  <2>3. UNCHANGED <<worker, goal, navVars, feedback>> /\ At("judge")
    BY <1>4 DEF follow_succeeded
  <2>4. /\ failed'[goal] \subseteq ids
        /\ reached' \in [Goals -> SUBSET Indices] /\ failed' \in [Goals -> SUBSET Indices]
        /\ \A g \in Goals : g # goal => reached'[g] = reached[g] /\ failed'[g] = failed[g]
        /\ reached'[goal] \cup failed'[goal] = Processed(goal) \cup {goal_index}
    BY <1>0, <2>1, <2>2 DEF FInv, FollowerTypeOK, Processed
  <2>. QED  BY <2>2, <2>3, <2>4, JudgeKeeps
<1>. QED
  BY <1>1, <1>2, <1>3, <1>4, EntryKeeps, AcceptKeeps, SendKeeps DEF FollowWaypoints

LEMMA FollowerInductiveStep ==
  ASSUME IInv, FInv, [FollowerNext]_allVars PROVE FInv'
<1>1. IInv'
  BY FollowerIsServerStep, InductiveStep
<1>2. CASE (dynamicParametersCallback /\ UNCHANGED NumPoses) \/ UNCHANGED allVars
  <2>1. /\ stop_on_failure' \in BOOLEAN
        /\ UNCHANGED <<cancelled, misjudged, step, goal, goal_index, new_goal, nav, old_sent, old_live,
                       current_goal_status, reached, failed, missed, feedback, failed_ids,
                       NumPoses, status, current_handle, pending_handle, accepting,
                       stop_execution, worker>>
    BY <1>2 DEF dynamicParametersCallback, allVars, vars, handleVars, followerVars, localVars,
                navVars, recordVars, FInv, FollowerTypeOK
  <2>2. FollowerTypeOK'
    BY <1>1, <2>1 DEF FInv, FollowerTypeOK, IInv
  <2>3. EntryWhenNotRunning' /\ EntryHasGoal' /\ CrashesExplained'
    BY <2>1 DEF FInv, EntryWhenNotRunning, EntryHasGoal, CrashesExplained
  <2>4. FollowsGoal'
    BY <2>1 DEF FInv, FollowsGoal, GoalHeld, IndexCounts, Processed
  <2>5. NothingProcessedBefore' /\ FeedbackCountsProcessed' /\ SuccessCoversRoute'
    BY <2>1 DEF FInv, NothingProcessedBefore, NotTakenUp, Processed, FeedbackCountsProcessed,
                SuccessCoversRoute
  <2>. QED  BY <2>2, <2>3, <2>4, <2>5 DEF FInv
<1>. QED
  BY <1>1, <1>2, ServerStepKeeps, FollowKeeps, NavCallbackKeeps DEF FollowerNext

-----------------------------------------------------------------------------
(* What the robot drives for, and what a finished goal leaves behind. *)

OnItsWay == nav \in {"sent", "accepted"}

\* The pose on its way is awaited in the loop, unless it was cancelled or misjudged.
DriveAwaited ==
  OnItsWay /\ ~cancelled /\ ~misjudged =>
    current_goal_status = "PROCESSING" /\ step \in InLoop \cup {"crashed"}

CrashKeepsGoal ==
  step = "crashed" => stop_execution \/ (goal = current_handle /\ goal # NoGoal)

\* Another goal than the one followed has ended without success.
Another ==
  \E g \in Goals : status[g] \in {"aborted", "canceled"} /\ (step \in InLoop => g # goal)

\* Only such a goal leaves a NavigateToPose goal without its answer or its result.
LeftByAnother ==
  \/ old_sent > 0 \/ old_live > 0 \/ cancelled \/ misjudged \/ step = "blocked"
  \/ step \in InLoop /\ goal # NoGoal /\ new_goal /\ OnItsWay
  => Another

DInv == DriveAwaited /\ CrashKeepsGoal /\ LeftByAnother

LEMMA DriveInductiveInit == FollowerInit => DInv
  BY DEF FollowerInit, DInv, DriveAwaited, OnItsWay, CrashKeepsGoal, LeftByAnother, InLoop

\* Another goal stays another while the callback follows the same one.
LEMMA AnotherStays ==
  ASSUME IInv, [Next]_vars, Another, UNCHANGED goal, step' \in InLoop => step \in InLoop
  PROVE  Another'
<1>1. \A g \in Goals : status[g] \in {"aborted", "canceled"} => status'[g] = status[g]
  BY FinalStep DEF FinalResults, Terminal
<1>. QED  BY <1>1 DEF Another

LEMMA DriveServerStep ==
  ASSUME IInv, IInv', FInv, DInv, ServerStep, [Next]_vars PROVE DInv'
<1>1. UNCHANGED <<step, goal, new_goal, nav, old_sent, old_live, current_goal_status,
                  cancelled, misjudged>> /\ step # "crashed"
  BY DEF ServerStep, followerVars, localVars, navVars
<1>2. Another => Another'
  BY <1>1, AnotherStays
<1>. QED  BY <1>1, <1>2 DEF DInv, DriveAwaited, OnItsWay, CrashKeepsGoal, LeftByAnother

LEMMA DriveNavCallback ==
  ASSUME IInv, FInv, DInv, NavCallback, [Next]_vars PROVE DInv'
<1>1. /\ step \in {"spin", "cancelling"} /\ step' \in {step, "blocked", "crashed"}
      /\ UNCHANGED <<goal, new_goal, cancelled, current_handle, stop_execution>>
      /\ old_sent \in Nat /\ old_live \in Nat
  BY DEF NavCallback, goalResponseCallback, resultCallback_current, resultCallback_old,
         Spinning, serverVars, handleVars, FInv, FollowerTypeOK
<1>2. Another => Another'
  BY <1>1, AnotherStays DEF InLoop
<1>3. step \in InLoop /\ (stop_execution \/ (goal = current_handle /\ goal # NoGoal))
  BY <1>1 DEF FInv, FollowsGoal, GoalHeld, InLoop
<1>4. CrashKeepsGoal'
  BY <1>1, <1>3 DEF CrashKeepsGoal
<1>5. CASE goalResponseCallback
  <2>1. PICK accepted \in BOOLEAN :
       /\ IF old_sent > 0
            THEN /\ old_sent' = old_sent - 1
                 /\ old_live' = old_live + (IF accepted THEN 1 ELSE 0)
                 /\ UNCHANGED nav
            ELSE /\ nav = "sent"
                 /\ nav' = IF accepted THEN "accepted" ELSE "rejected"
                 /\ UNCHANGED <<old_sent, old_live>>
       /\ current_goal_status' = IF accepted THEN current_goal_status ELSE "FAILED"
       /\ misjudged' = (misjudged \/ (old_sent > 0 /\ ~accepted))
    BY <1>5 DEF goalResponseCallback
  <2>2. step' = step
    BY <1>5 DEF goalResponseCallback
  <2>3. OnItsWay' => OnItsWay
    BY <2>1 DEF OnItsWay
  <2>4. DriveAwaited'
    BY <1>1, <1>3, <2>1, <2>2, <2>3 DEF DInv, DriveAwaited, OnItsWay
  <2>5. LeftByAnother'
    BY <1>1, <1>2, <1>3, <2>1, <2>2, <2>3 DEF DInv, LeftByAnother
  <2>. QED  BY <1>4, <2>4, <2>5 DEF DInv
<1>6. CASE resultCallback_current
  BY <1>1, <1>2, <1>4, <1>6
     DEF resultCallback_current, DInv, DriveAwaited, OnItsWay, LeftByAnother
<1>7. CASE resultCallback_old
  <2>1. old_live > 0 /\ UNCHANGED <<nav, old_sent, current_goal_status, misjudged>>
    BY <1>7 DEF resultCallback_old
  <2>2. Another'
    BY <1>2, <2>1 DEF DInv, LeftByAnother
  <2>. QED
    BY <1>1, <1>3, <1>4, <2>1, <2>2 DEF DInv, DriveAwaited, OnItsWay, LeftByAnother, InLoop
<1>. QED  BY <1>5, <1>6, <1>7 DEF NavCallback

\* Steps of the loop that send nothing and keep the goal.
LEMMA DriveQuiet ==
  ASSUME IInv, FInv, DInv, [Next]_vars, step \in InLoop \cup {"return"},
         step' \in InLoop \cup {"return", "entry"}, step' # "blocked",
         step' \in InLoop => step \in InLoop,
         step' \notin InLoop => cancelled' \/ misjudged \/ ~OnItsWay,
         new_goal' = new_goal \/ cancelled \/ misjudged \/ ~OnItsWay,
         UNCHANGED <<goal, nav, old_sent, old_live, current_goal_status, misjudged>>,
         cancelled' = cancelled \/ (cancelled' = TRUE /\ Another')
  PROVE  DInv'
<1>1. Another => Another'
  BY AnotherStays
<1>2. step' # "crashed"
  BY DEF InLoop
<1>. QED
  BY <1>1, <1>2 DEF DInv, DriveAwaited, OnItsWay, CrashKeepsGoal, LeftByAnother, FInv,
                    FollowerTypeOK

LEMMA DriveFollow ==
  ASSUME IInv, IInv', FInv, FInv', DInv, FollowWaypoints, [Next]_vars PROVE DInv'
<1>. USE ServerAssumption
<1>1. CASE follow_entry
  <2>1. /\ step = "entry" /\ goal' = current_handle /\ step' \in {"return", "crashed", "cancel?"}
        /\ UNCHANGED <<nav, old_sent, old_live, current_goal_status, cancelled, misjudged>>
        /\ step' = "cancel?" => current_handle # NoGoal
    BY <1>1 DEF follow_entry, At, navVars
  <2>2. OnItsWay => cancelled \/ misjudged
    BY <2>1 DEF DInv, DriveAwaited, InLoop
  <2>3. Another => Another'
    <3>1. \A g \in Goals : status[g] \in {"aborted", "canceled"} => status'[g] = status[g]
      BY FinalStep DEF FinalResults, Terminal
    <3>2. current_handle # NoGoal => status[current_handle] \notin {"aborted", "canceled"}
      BY DEF IInv, HandlesDistinctAndLive, Live
    <3>3. step' \in InLoop => current_handle # NoGoal
      BY <2>1 DEF InLoop
    <3>. QED  BY <2>1, <3>1, <3>2, <3>3 DEF Another
  <2>4. CrashKeepsGoal'
    BY <1>1, <2>1 DEF follow_entry, CrashKeepsGoal, At, FInv, EntryHasGoal
  <2>. QED  BY <2>1, <2>2, <2>3, <2>4 DEF DInv, DriveAwaited, OnItsWay, LeftByAnother, InLoop
<1>2. CASE follow_cancel_test \/ follow_preempt_test \/ follow_processing \/ follow_again
  <2>1. /\ step \in InLoop /\ step' \in InLoop /\ step' # "blocked"
        /\ UNCHANGED <<goal, new_goal, nav, old_sent, old_live, current_goal_status,
                       cancelled, misjudged>>
    BY <1>2 DEF follow_cancel_test, follow_preempt_test, follow_processing, follow_again, At,
                navVars, InLoop
  <2>. QED  BY <2>1, DriveQuiet
<1>3. CASE follow_cancelled
  <2>1. /\ step = "cancelling" /\ step' = "return" /\ cancelled' = TRUE
        /\ UNCHANGED <<goal, new_goal, nav, old_sent, old_live, current_goal_status, misjudged>>
    BY <1>3 DEF follow_cancelled, At
  <2>2. goal \in Goals /\ status'[goal] \in {"aborted", "canceled"}
    <3>1. GoalHeld /\ goal \in Goals
      BY <2>1 DEF FInv, FollowerTypeOK, FollowsGoal, InLoop, GoalHeld
    <3>. QED
      BY <1>3, <3>1 DEF follow_cancelled, terminate_all, terminated, is_active, GoalHeld, Live,
                        IInv, TypeOK, HandlesDistinctAndLive
  <2>3. Another'
    BY <2>1, <2>2 DEF Another, InLoop
  <2>. QED  BY <2>1, <2>3, DriveQuiet DEF InLoop
<1>4. CASE follow_return
  <2>1. /\ step = "return" /\ step' = "entry"
        /\ UNCHANGED <<goal, new_goal, nav, old_sent, old_live, current_goal_status,
                       cancelled, misjudged>>
    BY <1>4 DEF follow_return, At, navVars
  <2>2. cancelled \/ misjudged \/ ~OnItsWay
    BY <2>1 DEF DInv, DriveAwaited, InLoop
  <2>. QED  BY <2>1, <2>2, DriveQuiet DEF InLoop
<1>5. CASE follow_failed \/ follow_succeeded
  <2>1. /\ step = "judge" /\ step' \in {"return", "spin"} /\ current_goal_status # "PROCESSING"
        /\ UNCHANGED <<goal, nav, old_sent, old_live, current_goal_status, cancelled, misjudged>>
    BY <1>5 DEF follow_failed, follow_succeeded, advance, give_up, At, navVars
  <2>2. cancelled \/ misjudged \/ ~OnItsWay
    BY <2>1 DEF DInv, DriveAwaited
  <2>. QED  BY <2>1, <2>2, DriveQuiet DEF InLoop
<1>6. CASE follow_accept
  <2>1. /\ step = "accept" /\ step' = "send" /\ new_goal' = TRUE
        /\ UNCHANGED <<nav, old_sent, old_live, current_goal_status, cancelled, misjudged>>
    BY <1>6 DEF follow_accept, At, navVars
  <2>2. goal \in Goals /\ GoalHeld
    BY <2>1 DEF FInv, FollowerTypeOK, FollowsGoal, InLoop, GoalHeld
  <2>3. CASE accept_pending_goal /\ goal' = pending_handle
    <3>1. /\ pending_handle \in Goals /\ status[pending_handle] \in Live
          /\ pending_handle # current_handle
      BY <2>3 DEF accept_pending_goal, is_active, IInv, TypeOK, HandlesDistinctAndLive
    <3>2. status'[goal] \in {"aborted", "canceled"} /\ goal # goal'
      BY <2>2, <2>3, <3>1 DEF accept_pending_goal, is_active, GoalHeld, IInv, TypeOK,
                              HandlesDistinctAndLive, Live
    <3>3. Another'
      BY <2>2, <3>2 DEF Another
    <3>. QED  BY <2>1, <3>3 DEF DInv, DriveAwaited, OnItsWay, CrashKeepsGoal, LeftByAnother, InLoop
  <2>4. CASE UNCHANGED handleVars /\ goal' = NoGoal
    <3>1. Another => Another'
      BY <2>4 DEF Another, handleVars
    <3>. QED
      BY <2>1, <2>4, <3>1 DEF DInv, DriveAwaited, OnItsWay, CrashKeepsGoal, LeftByAnother, InLoop
  <2>. QED  BY <1>6, <2>3, <2>4 DEF follow_accept
<1>7. CASE follow_send
  <2>1. /\ step = "send" /\ step' \in {"crashed", "judge"}
        /\ UNCHANGED <<goal, current_handle, stop_execution>>
        /\ old_sent \in Nat /\ old_live \in Nat
    BY <1>7 DEF follow_send, At, handleVars, FInv, FollowerTypeOK
  <2>2. Another => Another'
    BY <2>1, AnotherStays DEF InLoop
  <2>3. CrashKeepsGoal'
    BY <2>1 DEF CrashKeepsGoal, FInv, FollowsGoal, GoalHeld, InLoop
  <2>4. CASE new_goal /\ step' = "crashed" /\ UNCHANGED navVars
    BY <2>1, <2>2, <2>3, <2>4
       DEF navVars, DInv, DriveAwaited, OnItsWay, LeftByAnother, InLoop
  <2>5. CASE ~new_goal /\ step' = "judge" /\ UNCHANGED <<navVars, new_goal>>
    BY <2>1, <2>2, <2>3, <2>5
       DEF navVars, DInv, DriveAwaited, OnItsWay, LeftByAnother, InLoop
  <2>6. CASE /\ new_goal /\ goal # NoGoal /\ nav' = "sent" /\ step' = "judge"
             /\ old_sent' = IF nav = "sent" THEN old_sent + 1 ELSE old_sent
             /\ old_live' = IF nav = "accepted" THEN old_live + 1 ELSE old_live
             /\ cancelled' = FALSE /\ misjudged' = FALSE
             /\ current_goal_status' = "PROCESSING" /\ new_goal' = FALSE
    <3>1. OnItsWay => Another
      BY <2>1, <2>6 DEF DInv, LeftByAnother, InLoop
    <3>2. old_sent' > 0 \/ old_live' > 0 => Another
      BY <2>1, <2>6, <3>1 DEF DInv, LeftByAnother, OnItsWay
    <3>3. LeftByAnother'
      BY <2>2, <2>6, <3>2 DEF LeftByAnother
    <3>. QED  BY <2>3, <2>6, <3>3 DEF DInv, DriveAwaited, InLoop
  <2>. QED  BY <1>7, <2>4, <2>5, <2>6 DEF follow_send
<1>. QED  BY <1>1, <1>2, <1>3, <1>4, <1>5, <1>6, <1>7 DEF FollowWaypoints

LEMMA DriveInductiveStep ==
  ASSUME IInv, IInv', FInv, FInv', DInv, [FollowerNext]_allVars PROVE DInv'
<1>1. [Next]_vars
  BY FollowerIsServerStep
<1>2. CASE dynamicParametersCallback \/ UNCHANGED allVars
  <2>1. UNCHANGED <<step, goal, new_goal, nav, old_sent, old_live, current_goal_status,
                    cancelled, misjudged, status, current_handle, stop_execution>>
    BY <1>2 DEF dynamicParametersCallback, allVars, vars, handleVars, followerVars, localVars,
                navVars
  <2>. QED
    BY <2>1 DEF DInv, DriveAwaited, OnItsWay, CrashKeepsGoal, LeftByAnother, Another
<1>. QED
  BY <1>1, <1>2, DriveServerStep, DriveNavCallback, DriveFollow DEF FollowerNext

-----------------------------------------------------------------------------
(* The theorems. *)

\* Whatever clients send, cancel and preempt, whenever the node is deactivated and whatever
\* navigate_to_pose answers, the follower's state and the server's keep both invariants.
THEOREM FollowerInductive == FollowerSpec => [](IInv /\ FInv)
<1>1. FollowerSpec => []IInv
  BY FollowerIsServer, Inductive, PTL
<1>2. IInv /\ FInv /\ [FollowerNext]_allVars => FInv'
  BY FollowerInductiveStep
<1>. QED  BY <1>1, <1>2, FollowerInductiveInit, PTL DEF FollowerSpec

\* followWaypoints() dereferences a null goal or reads past the poses only in the three ways
\* CrashesExplained names, for any number of goals and any lists of poses.
THEOREM FollowerCrashes == FollowerSpec => []CrashesExplained
<1>1. FInv => CrashesExplained
  BY DEF FInv
<1>. QED  BY <1>1, FollowerInductive, PTL

\* The current_waypoint published for a goal never runs ahead: every pose before it was
\* reached or given up in that very goal, whatever was preempted, cancelled or late.
THEOREM FeedbackIsHonest == FollowerSpec => []FeedbackCountsProcessed
<1>1. FInv => FeedbackCountsProcessed
  BY DEF FInv
<1>. QED  BY <1>1, FollowerInductive, PTL

\* A goal that succeeded had each of its poses reached or given up, and its result lists the
\* ones given up.
THEOREM SuccessIsHonest == FollowerSpec => []SuccessCoversRoute
<1>1. FInv => SuccessCoversRoute
  BY DEF FInv
<1>. QED  BY <1>1, FollowerInductive, PTL

\* The invariant about drives and about what finished goals leave behind.
LEMMA DriveInductive == FollowerSpec => []DInv
<1>1. IInv /\ FInv /\ (IInv /\ FInv)' /\ DInv /\ [FollowerNext]_allVars => DInv'
  BY DriveInductiveStep
<1>. QED  BY <1>1, DriveInductiveInit, FollowerInductive, PTL DEF FollowerSpec

\* A NavigateToPose goal is on its way only for the live goal the server holds, in the callback,
\* after it and between goals, unless it was cancelled, deactivate() gave up waiting, or the
\* rejection of an earlier one was taken for its own.
THEOREM FollowerDrivesForLiveGoal == FollowerSpec => []DrivesForLiveGoal
<1>1. IInv /\ FInv /\ DInv => DrivesForLiveGoal
  <2>. SUFFICES ASSUME IInv, FInv, DInv, OnItsWay, ~cancelled, ~misjudged, ~stop_execution
                PROVE  goal = current_handle /\ is_active(goal)
    BY DEF DrivesForLiveGoal, OnItsWay
  <2>1. goal = current_handle /\ goal # NoGoal
    BY DEF DInv, DriveAwaited, CrashKeepsGoal, FInv, FollowsGoal, GoalHeld
  <2>. QED  BY <2>1 DEF IInv, HandlesDistinctAndLive, is_active
<1>. QED  BY <1>1, FollowerInductive, DriveInductive, PTL

\* The follower waits for good inside future_goal_handle_.get() only after another goal was
\* preempted, cancelled or given up, for any number of goals and however late answers come.
THEOREM FollowerBlocksOnlyAfterAnother == FollowerSpec => []BlocksOnlyAfterAnother
<1>1. DInv => BlocksOnlyAfterAnother
  BY DEF DInv, LeftByAnother, Another, BlocksOnlyAfterAnother, InLoop
<1>. QED  BY <1>1, DriveInductive, PTL

\* What SimpleActionServer promises its clients holds of FollowWaypoints, and no result it
\* reported ever changes.
THEOREM FollowerKeepsPromise == FollowerSpec => LifecyclePromise /\ ResultsAreFinal
  BY FollowerIsServer, ServerKeepsPromise, ResultsNeverChange, PTL
=============================================================================
