------------------------- MODULE SimpleActionServer -------------------------
(***************************************************************************)
(* nav2_util::SimpleActionServer: one action server with a current goal, a *)
(* pending slot for the goal that preempts it, and a worker thread started *)
(* with std::async that runs the node's execute callback.                  *)
(*                                                                         *)
(* Three threads meet here.  The EXECUTOR delivers goal and cancel         *)
(* requests (handle_goal, handle_cancel, handle_accepted).  The WORKER     *)
(* runs work().  The LIFECYCLE caller runs activate() and deactivate().    *)
(* Every section under update_mutex_ is one action; a thread is split      *)
(* wherever the code lets go of the mutex or reads without it.             *)
(*                                                                         *)
(* The execute callback is left open: between its start and its return it  *)
(* may make any sequence of the calls this class offers it.                *)
(***************************************************************************)
EXTENDS Naturals, FiniteSets

CONSTANTS Goals,               \* the goals clients send
          NoGoal,              \* a null shared_ptr<ServerGoalHandle>
          SpinThread,          \* spin_thread_: handlers have a thread of their own
          CompletionCallback   \* completion_callback_ is not a null function

ASSUME ServerAssumption ==
  /\ NoGoal \notin Goals
  /\ SpinThread \in BOOLEAN
  /\ CompletionCallback \in BOOLEAN

VARIABLES
  status,             \* status of every goal, kept by rcl_action
  current_handle,     \* current_handle_
  pending_handle,     \* pending_handle_
  preempt_requested,  \* preempt_requested_
  server_active,      \* server_active_
  stop_execution,     \* stop_execution_
  accepting,          \* the goal between handle_goal and handle_accepted
  worker,             \* where the thread behind execution_future_ is
  deactivating        \* the lifecycle caller is inside deactivate()

handleVars == <<status, current_handle, pending_handle, preempt_requested>>
vars == <<handleVars, server_active, stop_execution, accepting, worker, deactivating>>

Terminal == {"succeeded", "aborted", "canceled"}
Live == {"executing", "canceling"}
Statuses == {"unsent", "rejected"} \cup Live \cup Terminal
WorkerStates == {"off",   \* no thread, or execution_future_ is ready
                 "loop",  \* about to evaluate the loop condition, without the mutex
                 "exec",  \* inside execute_callback_
                 "post",  \* the callback returned, the mutex is not taken yet
                 "exit"}  \* out of the loop, the future not yet ready

TypeOK ==
  /\ status \in [Goals -> Statuses]
  /\ current_handle \in Goals \cup {NoGoal}
  /\ pending_handle \in Goals \cup {NoGoal}
  /\ preempt_requested \in BOOLEAN
  /\ server_active \in BOOLEAN
  /\ stop_execution \in BOOLEAN
  /\ accepting \in Goals \cup {NoGoal}
  /\ worker \in WorkerStates
  /\ deactivating \in BOOLEAN

Init ==
  /\ status = [g \in Goals |-> "unsent"]
  /\ current_handle = NoGoal
  /\ pending_handle = NoGoal
  /\ preempt_requested = FALSE
  /\ server_active = FALSE
  /\ stop_execution = FALSE
  /\ accepting = NoGoal
  /\ worker = "off"
  /\ deactivating = FALSE

-----------------------------------------------------------------------------
(* Helpers. *)

is_active(h) == h # NoGoal /\ status[h] \in Live

is_running == worker # "off"

\* [Mutant] terminate() that takes every termination for a client's cancellation.
terminated_canceled(S) ==
  [g \in Goals |-> IF g \in S /\ is_active(g) THEN "canceled" ELSE status[g]]

\* The status terminate() leaves the goals of a set of handles in: canceled when
\* the client asked for it, aborted otherwise; handles that are not active keep theirs.
terminated(S) ==
  [g \in Goals |->
     IF g \in S /\ is_active(g)
       THEN IF status[g] = "canceling" THEN "canceled" ELSE "aborted"
       ELSE status[g]]

\* handle.reset() at the end of terminate(): only an active handle is reset.
released(h) == IF is_active(h) THEN NoGoal ELSE h

-----------------------------------------------------------------------------
(* Calls the execute callback may make; a call that returns early because its
   handle is not active changes nothing and is no step. *)

\* [Mutant] accept_pending_goal() that forgets to clear preempt_requested_.
accept_pending_goal_keeps_flag ==
  /\ is_active(pending_handle)
  /\ status' = IF is_active(current_handle) /\ current_handle # pending_handle
                 THEN [status EXCEPT ![current_handle] = "aborted"]
                 ELSE status
  /\ current_handle' = pending_handle
  /\ pending_handle' = NoGoal
  /\ UNCHANGED preempt_requested

\* [Mutant] accept_pending_goal() that forgets to abort the goal it replaces.
accept_pending_goal_no_abort ==
  /\ is_active(pending_handle)
  /\ current_handle' = pending_handle
  /\ pending_handle' = NoGoal
  /\ preempt_requested' = FALSE
  /\ UNCHANGED status

accept_pending_goal ==
  /\ is_active(pending_handle)
  /\ status' = IF is_active(current_handle) /\ current_handle # pending_handle
                 THEN [status EXCEPT ![current_handle] = "aborted"]
                 ELSE status
  /\ current_handle' = pending_handle
  /\ pending_handle' = NoGoal
  /\ preempt_requested' = FALSE

terminate_pending_goal ==
  /\ is_active(pending_handle)
  /\ status' = terminated({pending_handle})
  /\ pending_handle' = NoGoal
  /\ preempt_requested' = FALSE
  /\ UNCHANGED current_handle

terminate_all ==
  /\ status' = terminated({current_handle, pending_handle})
  /\ current_handle' = released(current_handle)
  /\ pending_handle' = released(pending_handle)
  /\ preempt_requested' = FALSE

terminate_current ==
  /\ status' = terminated({current_handle})
  /\ current_handle' = released(current_handle)
  /\ UNCHANGED <<pending_handle, preempt_requested>>

\* [Mutant] succeeded_current() without current_handle_.reset().
succeeded_current_no_reset ==
  /\ is_active(current_handle)
  /\ status' = [status EXCEPT ![current_handle] = "succeeded"]
  /\ UNCHANGED <<current_handle, pending_handle, preempt_requested>>

succeeded_current ==
  /\ is_active(current_handle)
  /\ status' = [status EXCEPT ![current_handle] = "succeeded"]
  /\ current_handle' = NoGoal
  /\ UNCHANGED <<pending_handle, preempt_requested>>

\* What the callback reads to learn of a cancellation.
is_cancel_requested ==
  /\ current_handle # NoGoal
  /\ IF pending_handle # NoGoal
       THEN status[pending_handle] = "canceling"
       ELSE status[current_handle] = "canceling"

-----------------------------------------------------------------------------
(* The executor thread. *)

\* Without a thread of its own the executor also runs the lifecycle transitions,
\* so nothing is delivered while deactivate() waits.
ExecutorFree == accepting = NoGoal /\ (SpinThread \/ ~deactivating)

handle_goal(g) ==
  /\ ExecutorFree
  /\ status[g] = "unsent"
  /\ IF server_active
       THEN /\ status' = [status EXCEPT ![g] = "executing"]
            /\ accepting' = g
       ELSE /\ status' = [status EXCEPT ![g] = "rejected"]
            /\ UNCHANGED accepting
  /\ UNCHANGED <<current_handle, pending_handle, preempt_requested,
                 server_active, stop_execution, worker, deactivating>>

handle_cancel(g) ==
  /\ ExecutorFree
  /\ status[g] = "executing"
  /\ status' = [status EXCEPT ![g] = "canceling"]
  /\ UNCHANGED <<current_handle, pending_handle, preempt_requested,
                 server_active, stop_execution, accepting, worker, deactivating>>

\* [Mutant] handle_accepted() that overwrites an occupied pending slot.
handle_accepted_overwrites ==
  /\ accepting # NoGoal
  /\ accepting' = NoGoal
  /\ IF is_active(current_handle) \/ is_running
       THEN /\ pending_handle' = accepting
            /\ preempt_requested' = TRUE
            /\ UNCHANGED <<current_handle, worker>>
       ELSE /\ current_handle' = accepting
            /\ worker' = "loop"
            /\ UNCHANGED <<pending_handle, preempt_requested>>
  /\ UNCHANGED <<status, server_active, stop_execution, deactivating>>

handle_accepted ==
  /\ accepting # NoGoal
  /\ accepting' = NoGoal
  /\ status' = terminated({pending_handle})
  /\ IF is_active(current_handle) \/ is_running
       THEN /\ pending_handle' = accepting
            /\ preempt_requested' = TRUE
            /\ UNCHANGED <<current_handle, worker>>
       ELSE /\ pending_handle' = released(pending_handle)
            /\ preempt_requested' = IF is_active(pending_handle)
                                      THEN FALSE ELSE preempt_requested
            /\ current_handle' = accepting
            /\ worker' = "loop"
  /\ UNCHANGED <<server_active, stop_execution, deactivating>>

-----------------------------------------------------------------------------
(* The worker thread: work(). *)

\* [Mutant] a loop condition that does not look at stop_execution_.
work_condition_ignores_stop ==
  /\ worker = "loop"
  /\ worker' = IF is_active(current_handle) THEN "exec" ELSE "exit"
  /\ UNCHANGED <<handleVars, server_active, stop_execution, accepting, deactivating>>

work_condition ==
  /\ worker = "loop"
  /\ worker' = IF ~stop_execution /\ is_active(current_handle) THEN "exec" ELSE "exit"
  /\ UNCHANGED <<handleVars, server_active, stop_execution, accepting, deactivating>>

\* One call of the execute callback into this class.
execute_call ==
  /\ worker = "exec"
  /\ \/ accept_pending_goal
     \/ terminate_pending_goal
     \/ terminate_all
     \/ terminate_current
     \/ succeeded_current
  /\ UNCHANGED <<server_active, stop_execution, accepting, worker, deactivating>>

execute_return ==
  /\ worker = "exec"
  /\ worker' = "post"
  /\ UNCHANGED <<handleVars, server_active, stop_execution, accepting, deactivating>>

\* execute_callback_ throws; a null completion_callback_ then throws as well, and
\* the thread ends in either case.
execute_throw ==
  /\ worker = "exec"
  /\ terminate_all
  /\ worker' = "exit"
  /\ UNCHANGED <<server_active, stop_execution, accepting, deactivating>>

\* [Mutant] the locked section that leaves the loop without looking at the pending slot.
work_finish_skips_pending ==
  /\ worker = "post"
  /\ IF stop_execution THEN terminate_all ELSE terminate_current
  /\ worker' = "exit"
  /\ UNCHANGED <<server_active, stop_execution, accepting, deactivating>>

\* The locked section after the callback.  When the current goal was left active it
\* is terminated and completion_callback_ is called: a null one throws out of work(),
\* and a pending goal stays where it is.
work_finish ==
  /\ worker = "post"
  /\ \/ /\ stop_execution
        /\ terminate_all
        /\ worker' = "exit"
     \/ /\ ~stop_execution
        /\ is_active(current_handle) /\ ~CompletionCallback
        /\ terminate_current
        /\ worker' = "exit"
     \/ /\ ~stop_execution
        /\ is_active(current_handle) => CompletionCallback
        /\ is_active(pending_handle)
        /\ status' = terminated({current_handle})
        /\ current_handle' = pending_handle
        /\ pending_handle' = NoGoal
        /\ preempt_requested' = FALSE
        /\ worker' = "loop"
     \/ /\ ~stop_execution
        /\ is_active(current_handle) => CompletionCallback
        /\ ~is_active(pending_handle)
        /\ terminate_current
        /\ worker' = "exit"
  /\ UNCHANGED <<server_active, stop_execution, accepting, deactivating>>

work_end ==
  /\ worker = "exit"
  /\ worker' = "off"
  /\ UNCHANGED <<handleVars, server_active, stop_execution, accepting, deactivating>>

-----------------------------------------------------------------------------
(* The lifecycle caller. *)

activate ==
  /\ ~server_active /\ ~deactivating
  /\ SpinThread \/ accepting = NoGoal
  /\ server_active' = TRUE
  /\ stop_execution' = FALSE
  /\ UNCHANGED <<handleVars, accepting, worker, deactivating>>

deactivate_begin ==
  /\ server_active
  /\ SpinThread \/ accepting = NoGoal
  /\ server_active' = FALSE
  /\ stop_execution' = TRUE
  /\ deactivating' = TRUE
  /\ UNCHANGED <<handleVars, accepting, worker>>

\* server_timeout_ has passed and the future is still not ready.
deactivate_timeout ==
  /\ deactivating
  /\ is_running
  /\ terminate_all
  /\ UNCHANGED <<server_active, stop_execution, accepting, worker, deactivating>>

deactivate_end ==
  /\ deactivating
  /\ ~is_running
  /\ deactivating' = FALSE
  /\ UNCHANGED <<handleVars, server_active, stop_execution, accepting, worker>>

-----------------------------------------------------------------------------
Executor == handle_accepted \/ \E g \in Goals : handle_goal(g) \/ handle_cancel(g)
Worker == work_condition \/ execute_call \/ execute_return \/ execute_throw
          \/ work_finish \/ work_end
Lifecycle == activate \/ deactivate_begin \/ deactivate_timeout \/ deactivate_end

Next == Executor \/ Worker \/ Lifecycle

Spec == Init /\ [][Next]_vars

\* The executor and the worker are threads the operating system keeps scheduling,
\* and the execute callback is assumed to come to an end.
Fairness ==
  /\ WF_vars(handle_accepted)
  /\ WF_vars(work_condition) /\ WF_vars(work_finish) /\ WF_vars(work_end)
  /\ WF_vars(execute_return)
  /\ WF_vars(deactivate_end)

FairSpec == Spec /\ Fairness

-----------------------------------------------------------------------------
(* Properties. *)

\* No accepted goal is dropped: whatever order requests, the worker and a
\* deactivation come in, a goal whose client still waits for a result is held in
\* current_handle_, in pending_handle_ or by the executor.  Overwriting a handle
\* without terminating its goal would leave the client waiting for good.
NoLostGoal ==
  \A g \in Goals : status[g] \in Live => g \in {current_handle, pending_handle, accepting}

\* A handle the server keeps is never one that was already finished, so no goal is
\* finished twice (rcl_action throws on that), and no goal has two handles.
HandlesDistinctAndLive ==
  /\ \A h \in {current_handle, pending_handle, accepting} \ {NoGoal} : status[h] \in Live
  /\ current_handle # NoGoal => current_handle \notin {pending_handle, accepting}
  /\ pending_handle # NoGoal => pending_handle # accepting

\* preempt_requested_ and pending_handle_ are set and cleared in different places;
\* the execute callback trusts the flag and dereferences what accept_pending_goal
\* returns, so the flag may be up only while there is a pending goal to accept.
PreemptIffPending == preempt_requested <=> pending_handle # NoGoal

\* Once deactivate() has returned, the execute callback does not run until the next
\* activate(): not even for a goal that was accepted before the deactivation and
\* whose thread starts after it.
QuietWhenInactive ==
  ~server_active /\ ~deactivating => worker \notin {"exec", "post"}

\* A goal is reported CANCELED only if its client asked for it, and a result once
\* reported never changes.
ResultsAreFinal ==
  [][\A g \in Goals :
       /\ status[g] \in Terminal \cup {"rejected"} => status'[g] = status[g]
       /\ status[g] # "canceling" => status'[g] # "canceled" \/ status[g] = "canceled"]_vars

\* The three moments at which the worker can leave a goal behind: a goal accepted
\* while the worker is past its loop but its future is not ready yet; stop_execution_
\* set just before the loop condition is read; a null completion_callback_ called with
\* a goal pending.
MissedByWorker ==
  \/ worker = "exit" /\ accepting # NoGoal
  \/ worker = "loop" /\ stop_execution
  \/ worker = "post" /\ ~CompletionCallback
       /\ current_handle # NoGoal /\ pending_handle # NoGoal

\* Unless one of those moments occurs, every accepted goal gets a result.
EveryGoalEnds ==
  []~MissedByWorker => \A g \in Goals : status[g] \in Live ~> status[g] \in Terminal

\* The server keeps the promise GoalLifecycle makes to clients: the current handle is
\* the goal executed, the pending goal and the one being accepted are the ones waiting.
Promise == INSTANCE GoalLifecycle
  WITH executing <- current_handle,
       waiting <- {pending_handle, accepting} \ {NoGoal}

LifecyclePromise == Promise!LifecycleSpec
=============================================================================
