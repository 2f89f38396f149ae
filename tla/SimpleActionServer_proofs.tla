--------------------- MODULE SimpleActionServer_proofs ---------------------
(***************************************************************************)
(* Proofs about SimpleActionServer for any set of goals and for both       *)
(* settings of spin_thread_ and completion_callback_.                      *)
(***************************************************************************)
EXTENDS SimpleActionServer, TLAPS

\* stop_execution_ is only ever read by the worker; QuietWhenInactive is inductive only
\* together with the fact that an inactive server that has ever run has it set.
StopWhenInactive ==
  ~server_active => stop_execution \/ (worker = "off" /\ accepting = NoGoal)

\* deactivate() clears server_active_ and sets stop_execution_ before it waits.
StopWhenDeactivating == deactivating => stop_execution /\ ~server_active

IInv ==
  /\ TypeOK
  /\ NoLostGoal
  /\ HandlesDistinctAndLive
  /\ PreemptIffPending
  /\ StopWhenInactive
  /\ StopWhenDeactivating
  /\ QuietWhenInactive

-----------------------------------------------------------------------------
\* Every value the server keeps has its type, in every reachable state.
THEOREM TypeCorrect == Spec => []TypeOK
<1>. USE ServerAssumption DEF TypeOK, Statuses, Live, Terminal, WorkerStates
<1>1. Init => TypeOK
  BY DEF Init
<1>2. TypeOK /\ [Next]_vars => TypeOK'
  <2>. SUFFICES ASSUME TypeOK, [Next]_vars PROVE TypeOK'
    OBVIOUS
  <2>. USE DEF terminated, released, is_active
  <2>1. ASSUME NEW g \in Goals, handle_goal(g) PROVE TypeOK'
    BY <2>1 DEF handle_goal
  <2>2. ASSUME NEW g \in Goals, handle_cancel(g) PROVE TypeOK'
    BY <2>2 DEF handle_cancel
  <2>3. CASE handle_accepted
    BY <2>3 DEF handle_accepted
  <2>4. CASE work_condition
    BY <2>4 DEF work_condition, handleVars
  <2>5. CASE execute_call
    <3>1. CASE accept_pending_goal
      BY <2>5, <3>1 DEF execute_call, accept_pending_goal
    <3>2. CASE terminate_pending_goal
      BY <2>5, <3>2 DEF execute_call, terminate_pending_goal
    <3>3. CASE terminate_all
      BY <2>5, <3>3 DEF execute_call, terminate_all
    <3>4. CASE terminate_current
      BY <2>5, <3>4 DEF execute_call, terminate_current
    <3>5. CASE succeeded_current
      BY <2>5, <3>5 DEF execute_call, succeeded_current
    <3>. QED  BY <2>5, <3>1, <3>2, <3>3, <3>4, <3>5 DEF execute_call
  <2>6. CASE execute_return
    BY <2>6 DEF execute_return, handleVars
  <2>7. CASE execute_throw
    BY <2>7 DEF execute_throw, terminate_all
  <2>8. CASE work_finish
    BY <2>8 DEF work_finish, terminate_all, terminate_current
  <2>9. CASE work_end
    BY <2>9 DEF work_end, handleVars
  <2>10. CASE activate \/ deactivate_begin \/ deactivate_end
    BY <2>10 DEF activate, deactivate_begin, deactivate_end, handleVars
  <2>11. CASE deactivate_timeout
    BY <2>11 DEF deactivate_timeout, terminate_all
  <2>12. CASE UNCHANGED vars
    BY <2>12 DEF vars, handleVars
  <2>. QED
    BY <2>1, <2>2, <2>3, <2>4, <2>5, <2>6, <2>7, <2>8, <2>9, <2>10, <2>11, <2>12
       DEF Next, Executor, Worker, Lifecycle
<1>. QED  BY <1>1, <1>2, PTL DEF Spec

-----------------------------------------------------------------------------
LEMMA InductiveInit == Init => IInv
  BY ServerAssumption
     DEF Init, IInv, TypeOK, NoLostGoal, HandlesDistinctAndLive, PreemptIffPending,
         StopWhenInactive, StopWhenDeactivating, QuietWhenInactive, Statuses, Live,
         Terminal, WorkerStates

\* terminate_all() leaves the server without a handle and ends no goal it does not hold.
LEMMA TerminateAll ==
  ASSUME IInv, terminate_all, UNCHANGED accepting
  PROVE  /\ current_handle' = NoGoal /\ pending_handle' = NoGoal /\ preempt_requested' = FALSE
         /\ status' \in [Goals -> Statuses]
         /\ NoLostGoal' /\ HandlesDistinctAndLive'
<1>. USE ServerAssumption
     DEF IInv, TypeOK, HandlesDistinctAndLive, Statuses, Live, Terminal
<1>1. current_handle' = NoGoal /\ pending_handle' = NoGoal /\ preempt_requested' = FALSE
  BY DEF terminate_all, released, is_active
<1>2. status' = terminated({current_handle, pending_handle})
  BY DEF terminate_all
<1>3. /\ status' \in [Goals -> Statuses]
      /\ \A g \in {current_handle, pending_handle} \cap Goals : status'[g] \notin Live
      /\ \A g \in Goals \ {current_handle, pending_handle} : status'[g] = status[g]
  BY <1>2 DEF terminated, is_active
<1>4. NoLostGoal'
  BY <1>1, <1>3 DEF NoLostGoal
<1>5. HandlesDistinctAndLive'
  BY <1>1, <1>3
<1>. QED  BY <1>1, <1>3, <1>4, <1>5

LEMMA InductiveStep == IInv /\ [Next]_vars => IInv'
<1>. SUFFICES ASSUME IInv, [Next]_vars PROVE IInv'
  OBVIOUS
<1>0. ASSUME terminate_all, UNCHANGED accepting
      PROVE  /\ current_handle' = NoGoal /\ pending_handle' = NoGoal /\ preempt_requested' = FALSE
             /\ status' \in [Goals -> Statuses]
             /\ NoLostGoal' /\ HandlesDistinctAndLive'
  BY <1>0, TerminateAll
<1>. USE ServerAssumption
     DEF IInv, TypeOK, NoLostGoal, HandlesDistinctAndLive, PreemptIffPending,
         StopWhenInactive, StopWhenDeactivating, QuietWhenInactive, Statuses, Live,
         Terminal, WorkerStates,
         terminated, released, is_active, is_running
<1>1. ASSUME NEW g \in Goals, handle_goal(g) PROVE IInv'
  <2>1. CASE server_active
    <3>1. status' = [status EXCEPT ![g] = "executing"] /\ accepting' = g
      BY <1>1, <2>1 DEF handle_goal
    <3>2. g \notin {current_handle, pending_handle, accepting} /\ g # NoGoal
      BY <1>1 DEF handle_goal
    <3>3. NoLostGoal' /\ HandlesDistinctAndLive'
      BY <1>1, <3>1, <3>2 DEF handle_goal, ExecutorFree
    <3>. QED  BY <1>1, <2>1, <3>1, <3>3 DEF handle_goal
  <2>2. CASE ~server_active
    BY <1>1, <2>2 DEF handle_goal
  <2>. QED  BY <2>1, <2>2
<1>2. ASSUME NEW g \in Goals, handle_cancel(g) PROVE IInv'
  BY <1>2 DEF handle_cancel, ExecutorFree
<1>3. CASE handle_accepted
  <2>1. CASE is_active(current_handle) \/ is_running
    <3>1. /\ pending_handle' = accepting /\ accepting' = NoGoal
          /\ current_handle' = current_handle /\ preempt_requested' = TRUE
          /\ status' = terminated({pending_handle}) /\ accepting # NoGoal
          /\ UNCHANGED <<server_active, stop_execution, worker, deactivating>>
      BY <1>3, <2>1 DEF handle_accepted
    <3>2. TypeOK' /\ PreemptIffPending'
      BY <3>1
    <3>3. NoLostGoal'
      BY <3>1
    <3>4. HandlesDistinctAndLive'
      BY <3>1
    <3>5. StopWhenInactive' /\ StopWhenDeactivating' /\ QuietWhenInactive'
      BY <2>1, <3>1
    <3>. QED  BY <3>2, <3>3, <3>4, <3>5
  <2>2. CASE ~(is_active(current_handle) \/ is_running)
    BY <1>3, <2>2 DEF handle_accepted
  <2>. QED  BY <2>1, <2>2
<1>4. CASE work_condition
  BY <1>4 DEF work_condition, handleVars
<1>5. CASE execute_call
  <2>1. CASE accept_pending_goal
    <3>1. /\ current_handle' = pending_handle /\ pending_handle' = NoGoal
          /\ preempt_requested' = FALSE
          /\ UNCHANGED <<server_active, stop_execution, accepting, worker, deactivating>>
      BY <1>5, <2>1 DEF execute_call, accept_pending_goal
    <3>2. CASE current_handle = NoGoal
      BY <2>1, <3>1, <3>2 DEF accept_pending_goal
    <3>3. CASE current_handle # NoGoal
      <4>1. status' = [status EXCEPT ![current_handle] = "aborted"]
        BY <2>1, <3>3 DEF accept_pending_goal
      <4>2. TypeOK' /\ NoLostGoal'
        BY <2>1, <3>1, <3>3, <4>1 DEF accept_pending_goal
      <4>3. HandlesDistinctAndLive'
        BY <2>1, <3>1, <3>3, <4>1 DEF accept_pending_goal
      <4>. QED  BY <3>1, <4>2, <4>3
    <3>. QED  BY <3>2, <3>3
  <2>2. CASE terminate_pending_goal
    <3>1. TypeOK' /\ NoLostGoal'
      BY <1>5, <2>2 DEF execute_call, terminate_pending_goal
    <3>2. HandlesDistinctAndLive'
      BY <1>5, <2>2 DEF execute_call, terminate_pending_goal
    <3>. QED  BY <1>5, <2>2, <3>1, <3>2 DEF execute_call, terminate_pending_goal
  <2>3. CASE terminate_all
    BY <1>5, <2>3, <1>0 DEF execute_call
  <2>4. CASE terminate_current
    BY <1>5, <2>4 DEF execute_call, terminate_current
  <2>5. CASE succeeded_current
    BY <1>5, <2>5 DEF execute_call, succeeded_current
  <2>. QED  BY <1>5, <2>1, <2>2, <2>3, <2>4, <2>5 DEF execute_call
<1>6. CASE execute_return
  BY <1>6 DEF execute_return, handleVars
<1>7. CASE execute_throw
  BY <1>7, <1>0 DEF execute_throw
<1>8. CASE work_finish
  <2>1. CASE stop_execution
    BY <1>8, <2>1, <1>0 DEF work_finish
  <2>2. CASE ~stop_execution /\ is_active(current_handle) /\ ~CompletionCallback
    BY <1>8, <2>2 DEF work_finish, terminate_current
  <2>3. CASE /\ ~stop_execution
             /\ is_active(current_handle) => CompletionCallback
             /\ is_active(pending_handle)
    <3>1. /\ status' = terminated({current_handle})
          /\ current_handle' = pending_handle /\ pending_handle' = NoGoal
          /\ preempt_requested' = FALSE /\ worker' = "loop" /\ pending_handle # NoGoal
          /\ UNCHANGED <<server_active, stop_execution, accepting, deactivating>>
      BY <1>8, <2>3 DEF work_finish
    <3>2. TypeOK' /\ NoLostGoal'
      BY <3>1
    <3>3. HandlesDistinctAndLive'
      BY <3>1
    <3>. QED  BY <1>8, <2>3, <3>1, <3>2, <3>3 DEF work_finish
  <2>4. CASE /\ ~stop_execution
             /\ is_active(current_handle) => CompletionCallback
             /\ ~is_active(pending_handle)
    BY <1>8, <2>4 DEF work_finish, terminate_current
  <2>. QED  BY <2>1, <2>2, <2>3, <2>4
<1>9. CASE work_end
  BY <1>9 DEF work_end, handleVars
<1>10. CASE activate
  BY <1>10 DEF activate, handleVars
<1>11. CASE deactivate_begin
  BY <1>11 DEF deactivate_begin, handleVars
<1>12. CASE deactivate_timeout
  BY <1>12, <1>0 DEF deactivate_timeout
<1>13. CASE deactivate_end
  BY <1>13 DEF deactivate_end, handleVars
<1>14. CASE UNCHANGED vars
  BY <1>14 DEF vars, handleVars
<1>. QED
  BY <1>1, <1>2, <1>3, <1>4, <1>5, <1>6, <1>7, <1>8, <1>9, <1>10, <1>11, <1>12,
     <1>13, <1>14 DEF Next, Executor, Worker, Lifecycle

\* The inductive invariant holds in every reachable state.
THEOREM Inductive == Spec => []IInv
  BY InductiveInit, InductiveStep, PTL DEF Spec

\* No accepted goal is dropped, for any number of goals.
THEOREM GoalsAreKept == Spec => []NoLostGoal
<1>1. IInv => NoLostGoal
  BY DEF IInv
<1>. QED  BY <1>1, Inductive, PTL

\* The handles the server keeps are distinct and belong to unfinished goals.
THEOREM HandlesAreSound == Spec => []HandlesDistinctAndLive
<1>1. IInv => HandlesDistinctAndLive
  BY DEF IInv
<1>. QED  BY <1>1, Inductive, PTL

\* The preemption flag is up exactly while a goal is pending.
THEOREM PreemptFlagIsSound == Spec => []PreemptIffPending
<1>1. IInv => PreemptIffPending
  BY DEF IInv
<1>. QED  BY <1>1, Inductive, PTL

\* After deactivate() the execute callback is not running.
THEOREM DeactivationIsQuiet == Spec => []QuietWhenInactive
<1>1. IInv => QuietWhenInactive
  BY DEF IInv
<1>. QED  BY <1>1, Inductive, PTL

-----------------------------------------------------------------------------
(* The server implements GoalLifecycle. *)

WaitingGoals == {pending_handle, accepting} \ {NoGoal}
Held == {current_handle, pending_handle} \ {NoGoal}

\* Terminating handles the server holds is a legal end for each of their goals and for
\* no other.
LEMMA TerminatedEnds ==
  ASSUME IInv, NEW S \in SUBSET Held, status' = terminated(S)
  PROVE  Promise!Ends(S)
  BY ServerAssumption
     DEF IInv, TypeOK, HandlesDistinctAndLive, Held, terminated, is_active, Live,
         Terminal, Statuses, Promise!Ends, Promise!MayEnd, Promise!Statuses,
         Promise!Terminal

\* A call that terminates the handles S, and changes no other, is a step of the promise.
LEMMA TerminationIsFinish ==
  ASSUME IInv, NEW S \in SUBSET Held, status' = terminated(S),
         current_handle' = IF current_handle \in S THEN NoGoal ELSE current_handle,
         WaitingGoals' = WaitingGoals \ S
  PROVE  Promise!LifecycleNext \/ UNCHANGED <<status, current_handle, WaitingGoals>>
<1>1. CASE S = {}
  <2>1. status' = status
    BY <1>1 DEF IInv, TypeOK, terminated
  <2>. QED  BY <1>1, <2>1
<1>2. CASE S # {}
  <2>1. Promise!Ends(S)
    BY TerminatedEnds
  <2>2. Promise!Finish(S)
    BY <1>2, <2>1 DEF Promise!Finish, WaitingGoals
  <2>3. S \in SUBSET Promise!Tracked
    BY DEF Promise!Tracked, Held
  <2>. QED  BY <2>2, <2>3 DEF Promise!LifecycleNext
<1>. QED  BY <1>1, <1>2

\* Moving a waiting goal to the current handle, terminating the handles S, is a step of
\* the promise.
LEMMA StartIsBegin ==
  ASSUME IInv, NEW g \in WaitingGoals, NEW S \in SUBSET Held, g \notin S,
         current_handle \in S \cup {NoGoal},
         Promise!Ends(S), current_handle' = g,
         WaitingGoals' = WaitingGoals \ (S \cup {g})
  PROVE  Promise!LifecycleNext
<1>1. Promise!Begin(g, S)
  BY DEF Promise!Begin, WaitingGoals
<1>2. S \in SUBSET Promise!Tracked
  BY DEF Promise!Tracked, Held
<1>. QED  BY <1>1, <1>2 DEF Promise!LifecycleNext, WaitingGoals

LEMMA TerminateAllStep ==
  ASSUME IInv, terminate_all, UNCHANGED accepting
  PROVE  Promise!LifecycleNext \/ UNCHANGED <<status, current_handle, WaitingGoals>>
<1>1. status' = terminated(Held)
  BY ServerAssumption DEF terminate_all, terminated, Held, IInv, TypeOK, is_active
<1>2. /\ current_handle' = IF current_handle \in Held THEN NoGoal ELSE current_handle
      /\ WaitingGoals' = WaitingGoals \ Held
  BY ServerAssumption
     DEF terminate_all, released, Held, WaitingGoals, IInv, HandlesDistinctAndLive,
         is_active, TypeOK, Live
<1>. QED  BY <1>1, <1>2, TerminationIsFinish

LEMMA TerminateCurrentStep ==
  ASSUME IInv, terminate_current, UNCHANGED accepting
  PROVE  Promise!LifecycleNext \/ UNCHANGED <<status, current_handle, WaitingGoals>>
<1>. DEFINE S == {current_handle} \ {NoGoal}
<1>1. status' = terminated(S)
  BY ServerAssumption DEF terminate_current, terminated, IInv, TypeOK, is_active
<1>2. /\ current_handle' = IF current_handle \in S THEN NoGoal ELSE current_handle
      /\ WaitingGoals' = WaitingGoals \ S
  BY ServerAssumption
     DEF terminate_current, released, WaitingGoals, IInv, HandlesDistinctAndLive,
         is_active, TypeOK, Live
<1>3. S \in SUBSET Held
  BY DEF Held
<1>. QED  BY <1>1, <1>2, <1>3, TerminationIsFinish

LEMMA HandleAcceptedStep ==
  ASSUME IInv, handle_accepted
  PROVE  Promise!LifecycleNext \/ UNCHANGED <<status, current_handle, WaitingGoals>>
<1>. DEFINE S == {pending_handle} \ {NoGoal}
<1>. USE ServerAssumption
<1>1. status' = terminated(S)
  BY DEF handle_accepted, terminated, IInv, TypeOK, is_active
<1>2. S \in SUBSET Held
  BY DEF Held
<1>3. CASE is_active(current_handle) \/ is_running
  <2>1. /\ current_handle' = IF current_handle \in S THEN NoGoal ELSE current_handle
        /\ WaitingGoals' = WaitingGoals \ S
    BY <1>3 DEF handle_accepted, WaitingGoals, IInv, HandlesDistinctAndLive, TypeOK
  <2>. QED  BY <1>1, <1>2, <2>1, TerminationIsFinish
<1>4. CASE ~(is_active(current_handle) \/ is_running)
  <2>1. current_handle = NoGoal /\ accepting # NoGoal /\ accepting \notin S
    BY <1>4 DEF handle_accepted, IInv, HandlesDistinctAndLive, TypeOK, is_active, Live
  <2>2. pending_handle' = NoGoal /\ accepting' = NoGoal /\ current_handle' = accepting
    BY <1>4 DEF handle_accepted, released, IInv, HandlesDistinctAndLive, TypeOK,
                is_active, Live
  <2>3. WaitingGoals' = WaitingGoals \ (S \cup {accepting})
    BY <2>2 DEF WaitingGoals
  <2>4. Promise!Ends(S)
    BY <1>1, <1>2, TerminatedEnds
  <2>5. accepting \in WaitingGoals
    BY <2>1 DEF WaitingGoals
  <2>. QED  BY <1>2, <2>1, <2>2, <2>3, <2>4, <2>5, StartIsBegin
<1>. QED  BY <1>3, <1>4

LEMMA ExecuteCallStep ==
  ASSUME IInv, execute_call
  PROVE  Promise!LifecycleNext \/ UNCHANGED <<status, current_handle, WaitingGoals>>
<1>. USE ServerAssumption
<1>. DEFINE C == {current_handle} \ {NoGoal}
<1>0. UNCHANGED accepting /\ C \in SUBSET Held
  BY DEF execute_call, Held
<1>1. CASE accept_pending_goal
  <2>1. pending_handle # NoGoal /\ pending_handle \notin C
    BY <1>1 DEF accept_pending_goal, is_active, IInv, HandlesDistinctAndLive
  <2>2. current_handle' = pending_handle /\ pending_handle' = NoGoal
    BY <1>1 DEF accept_pending_goal
  <2>3. WaitingGoals' = WaitingGoals \ (C \cup {pending_handle})
    BY <1>0, <2>1, <2>2 DEF WaitingGoals, IInv, HandlesDistinctAndLive
  <2>4. Promise!Ends(C)
    BY <1>1, <2>1
       DEF accept_pending_goal, is_active, IInv, HandlesDistinctAndLive, TypeOK, Live,
           Terminal, Statuses, Promise!Ends, Promise!MayEnd, Promise!Statuses,
           Promise!Terminal
  <2>5. pending_handle \in WaitingGoals
    BY <2>1 DEF WaitingGoals
  <2>. QED  BY <1>0, <2>1, <2>2, <2>3, <2>4, <2>5, StartIsBegin
<1>2. CASE terminate_pending_goal
  <2>. DEFINE S == {pending_handle}
  <2>1. S \in SUBSET Held /\ status' = terminated(S)
    BY <1>2 DEF terminate_pending_goal, is_active, Held
  <2>2. /\ current_handle' = IF current_handle \in S THEN NoGoal ELSE current_handle
        /\ WaitingGoals' = WaitingGoals \ S
    BY <1>0, <1>2 DEF terminate_pending_goal, WaitingGoals, IInv, HandlesDistinctAndLive,
                 is_active
  <2>. QED  BY <2>1, <2>2, TerminationIsFinish
<1>3. CASE terminate_all
  BY <1>0, <1>3, TerminateAllStep
<1>4. CASE terminate_current
  BY <1>0, <1>4, TerminateCurrentStep
<1>5. CASE succeeded_current
  <2>1. current_handle # NoGoal
    BY <1>5 DEF succeeded_current, is_active
  <2>2. Promise!Ends(C)
    BY <1>5, <2>1
       DEF succeeded_current, is_active, IInv, TypeOK, Live, Terminal, Statuses,
           Promise!Ends, Promise!MayEnd, Promise!Statuses, Promise!Terminal
  <2>3. WaitingGoals' = WaitingGoals \ C /\ current_handle' = NoGoal
    BY <1>0, <1>5, <2>1
       DEF succeeded_current, WaitingGoals, IInv, HandlesDistinctAndLive
  <2>4. Promise!Finish(C)
    BY <2>1, <2>2, <2>3 DEF Promise!Finish, WaitingGoals
  <2>5. C \in SUBSET Promise!Tracked
    BY DEF Promise!Tracked
  <2>. QED  BY <2>4, <2>5 DEF Promise!LifecycleNext
<1>. QED  BY <1>1, <1>2, <1>3, <1>4, <1>5 DEF execute_call

LEMMA WorkFinishStep ==
  ASSUME IInv, work_finish
  PROVE  Promise!LifecycleNext \/ UNCHANGED <<status, current_handle, WaitingGoals>>
<1>. USE ServerAssumption
<1>0. UNCHANGED accepting
  BY DEF work_finish
<1>1. CASE terminate_all
  BY <1>0, <1>1, TerminateAllStep
<1>2. CASE terminate_current
  BY <1>0, <1>2, TerminateCurrentStep
<1>3. CASE /\ is_active(pending_handle)
           /\ status' = terminated({current_handle})
           /\ current_handle' = pending_handle
           /\ pending_handle' = NoGoal
  <2>. DEFINE S == {current_handle} \ {NoGoal}
  <2>1. S \in SUBSET Held /\ pending_handle # NoGoal /\ pending_handle \notin S
    BY <1>3 DEF Held, is_active, IInv, HandlesDistinctAndLive
  <2>2. status' = terminated(S)
    BY <1>3 DEF terminated, IInv, TypeOK, is_active
  <2>3. WaitingGoals' = WaitingGoals \ (S \cup {pending_handle})
    BY <1>0, <1>3, <2>1 DEF WaitingGoals, IInv, HandlesDistinctAndLive
  <2>4. Promise!Ends(S)
    BY <2>1, <2>2, TerminatedEnds
  <2>5. pending_handle \in WaitingGoals
    BY <2>1 DEF WaitingGoals
  <2>. QED  BY <1>3, <2>1, <2>3, <2>4, <2>5, StartIsBegin
<1>. QED  BY <1>1, <1>2, <1>3 DEF work_finish

LEMMA PromiseStep ==
  IInv /\ [Next]_vars => [Promise!LifecycleNext]_(<<status, current_handle, WaitingGoals>>)
<1>. SUFFICES ASSUME IInv, [Next]_vars
              PROVE  Promise!LifecycleNext
                     \/ UNCHANGED <<status, current_handle, WaitingGoals>>
  OBVIOUS
<1>. USE ServerAssumption
<1>1. ASSUME NEW g \in Goals, handle_goal(g)
      PROVE  Promise!LifecycleNext
  <2>1. Promise!Refuse(g) \/ Promise!Admit(g)
    BY <1>1 DEF handle_goal, ExecutorFree, Promise!Refuse, Promise!Admit
  <2>. QED  BY <2>1 DEF Promise!LifecycleNext
<1>2. ASSUME NEW g \in Goals, handle_cancel(g)
      PROVE  Promise!LifecycleNext
  <2>1. Promise!RequestCancel(g)
    BY <1>2 DEF handle_cancel, Promise!RequestCancel
  <2>. QED  BY <2>1 DEF Promise!LifecycleNext
<1>3. CASE handle_accepted
  BY <1>3, HandleAcceptedStep
<1>4. CASE execute_call
  BY <1>4, ExecuteCallStep
<1>5. CASE execute_throw \/ deactivate_timeout
  BY <1>5, TerminateAllStep DEF execute_throw, deactivate_timeout
<1>6. CASE work_finish
  BY <1>6, WorkFinishStep
<1>7. CASE work_condition \/ execute_return \/ work_end \/ activate \/ deactivate_begin
           \/ deactivate_end
  BY <1>7 DEF work_condition, execute_return, work_end, activate, deactivate_begin,
              deactivate_end, handleVars, WaitingGoals
<1>8. CASE UNCHANGED vars
  BY <1>8 DEF vars, handleVars, WaitingGoals
<1>. QED
  BY <1>1, <1>2, <1>3, <1>4, <1>5, <1>6, <1>7, <1>8 DEF Next, Executor, Worker, Lifecycle

\* SimpleActionServer implements GoalLifecycle: whatever the execute callback, the
\* requests and the lifecycle do, clients see goals refused, admitted, begun one at a
\* time and finished as that specification allows.
THEOREM ServerKeepsPromise == Spec => LifecyclePromise
<1>1. Init => Promise!LifecycleInit
  BY DEF Init, Promise!LifecycleInit
<1>2. IInv /\ [Next]_vars => [Promise!LifecycleNext]_(Promise!lifecycleVars)
  BY PromiseStep DEF Promise!lifecycleVars, WaitingGoals
<1>. QED
  BY <1>1, <1>2, Inductive, PTL DEF Spec, LifecyclePromise, Promise!LifecycleSpec

\* What one step may do to the status of a goal.
FinalResults ==
  \A g \in Goals :
    /\ status[g] \in Terminal \cup {"rejected"} => status'[g] = status[g]
    /\ status[g] # "canceling" => status'[g] # "canceled" \/ status[g] = "canceled"

LEMMA FinalStep == ASSUME IInv, [Next]_vars PROVE FinalResults
<1>. USE DEF Terminal, IInv, TypeOK, FinalResults
<1>1. CASE Promise!LifecycleNext
  <2>1. ASSUME NEW g \in Goals,
               Promise!Refuse(g) \/ Promise!Admit(g) \/ Promise!RequestCancel(g)
        PROVE  FinalResults
    BY <2>1 DEF Promise!Refuse, Promise!Admit, Promise!RequestCancel
  <2>2. ASSUME NEW S, Promise!Ends(S) PROVE FinalResults
    BY <2>2 DEF Promise!Ends, Promise!MayEnd
  <2>. QED
    BY <1>1, <2>1, <2>2 DEF Promise!LifecycleNext, Promise!Finish, Promise!Begin
<1>2. CASE UNCHANGED <<status, current_handle, WaitingGoals>>
  BY <1>2
<1>. QED  BY <1>1, <1>2, PromiseStep

\* No result changes once it is reported, and CANCELED is reported only to a client that
\* asked for it: both follow from the promise.
THEOREM ResultsNeverChange == Spec => ResultsAreFinal
<1>1. IInv /\ [Next]_vars => [FinalResults]_vars
  BY FinalStep
<1>. QED  BY <1>1, Inductive, PTL DEF Spec, ResultsAreFinal, FinalResults
=============================================================================
