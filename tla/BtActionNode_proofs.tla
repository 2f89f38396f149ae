------------------------- MODULE BtActionNode_proofs -------------------------
(***************************************************************************)
(* Proofs about BtActionNode for any number of goals, none or infinitely   *)
(* many, and whatever the server, the client and the tree do.              *)
(***************************************************************************)
EXTENDS BtActionNode, TLAPS

Phases == {"out", "run", "crashed"} \cup Spinning
HaltWaits == {"halt_cancel", "halt_result"}
Answered == {"accepted", "result"}
Given == Live \cup Terminal                    \* statuses of a goal that was accepted
Stopping == {"canceling"} \cup Terminal        \* of one that is canceled or over

BtTypeOK ==
  /\ status \in [Goals -> Statuses]
  /\ executing \in Goals \cup {NoGoal} /\ waiting \subseteq Goals
  /\ new_path \in BOOLEAN /\ goal_updated \in BOOLEAN /\ expired \in BOOLEAN
  /\ node_status \in {"IDLE", "RUNNING", "SUCCESS", "FAILURE"}
  /\ phase \in Phases
  /\ sent \in Nat
  /\ future_goal_handle \in Goals \cup {NoGoal}
  /\ goal_handle \in Goals \cup {NoGoal}
  /\ seen \in Statuses
  /\ goal_result_available \in BOOLEAN
  /\ result \in Statuses \cup {"unknown"}
  /\ client \in [Goals -> {"unsent", "sent", "accepted", "rejected", "result"}]
  /\ cancels \subseteq Goals

\* The server keeps only goals that are not over.
TrackedLive ==
  /\ \A g \in Tracked : status[g] \in Live
  /\ executing \notin waiting

\* A client is told of an acceptance only when there was one.
AnswersTrue == \A g \in Goals : client[g] \in Answered => status[g] \in Given

\* What the node knows of the goal of goal_handle_ is behind, never ahead.
SeenBehind ==
  goal_handle # NoGoal =>
    /\ status[goal_handle] \in Given
    /\ seen # "executing" => status[goal_handle] \in Stopping

\* future_goal_handle_ is about the goal sent last, whose result is not known.
FutureIsLast ==
  future_goal_handle # NoGoal => future_goal_handle = sent /\ ~goal_result_available

\* The tree's thread is inside the node only while it is RUNNING; whether it awaits an
\* answer is told by future_goal_handle_.
PhaseTells ==
  /\ phase # "out" => node_status = "RUNNING"
  /\ phase \in Awaiting => future_goal_handle # NoGoal
  /\ phase \in {"run", "spin"} => future_goal_handle = NoGoal
  /\ phase \in {"halt_spin"} \cup HaltWaits => goal_handle # NoGoal

\* When no answer is awaited, goal_handle_ is the goal sent last.
HandleIsLast ==
  node_status = "RUNNING" /\ future_goal_handle = NoGoal =>
    goal_handle = sent /\ goal_handle # NoGoal

\* A result that is there is that of the goal sent last, if the server knew it, and ends the tick.
ResultIsLast ==
  /\ goal_result_available =>
       /\ sent \in Goals /\ status[sent] \in Terminal /\ result \in codes(sent)
       /\ node_status = "RUNNING" => phase \notin {"out", "run"} \cup Awaiting
  /\ node_status = "SUCCESS" => goal_result_available

\* The cancel request of halt() is under way, or the server has seen it.
CancelSent == phase \in HaltWaits => goal_handle \in cancels \/ status[goal_handle] # "executing"

\* There is a goal left for a path that is not sent yet: the bounds of the model.
UpdateLeft == node_status = "RUNNING" /\ (goal_updated \/ new_path) => sent + 1 \in Goals

BInv ==
  /\ BtTypeOK
  /\ TrackedLive
  /\ AnswersTrue
  /\ SeenBehind
  /\ FutureIsLast
  /\ PhaseTells
  /\ HandleIsLast
  /\ ResultIsLast
  /\ CancelSent
  /\ UpdateLeft
  /\ ReportsOwnResult
  /\ NeverDereferencesNull

LEMMA BtInductiveInit == BtInit => BInv
<1>. SUFFICES ASSUME BtInit PROVE BInv
  OBVIOUS
<1>. USE BtAssumption DEF BtInit, LifecycleInit
<1>1. BtTypeOK
  BY DEF BtTypeOK, Statuses, Phases
<1>2. TrackedLive /\ AnswersTrue
  BY DEF TrackedLive, Tracked, AnswersTrue, Answered
<1>. QED
  BY <1>1, <1>2
     DEF BInv, Spinning, Awaiting, SeenBehind, FutureIsLast, PhaseTells, HandleIsLast,
         ResultIsLast, CancelSent, HaltWaits, UpdateLeft, ReportsOwnResult,
         NeverDereferencesNull

-----------------------------------------------------------------------------
(* The server. *)

\* What a step of the server may do to the status of a goal.
StatusStep ==
  \A g \in Goals :
    /\ status[g] \in Terminal => status'[g] = status[g]
    /\ status[g] \in Stopping => status'[g] \in Stopping
    /\ status[g] \in Given => status'[g] \in Given
    /\ status[g] # "executing" => status'[g] # "executing" \/ status[g] = "unsent"

LEMMA ServerStep ==
  ASSUME BInv, Server
  PROVE  /\ StatusStep /\ TrackedLive'
         /\ status' \in [Goals -> Statuses]
         /\ executing' \in Goals \cup {NoGoal} /\ waiting' \subseteq Goals
<1>. DEFINE Conclusion ==
       /\ StatusStep /\ TrackedLive'
       /\ status' \in [Goals -> Statuses]
       /\ executing' \in Goals \cup {NoGoal} /\ waiting' \subseteq Goals
<1>. USE BtAssumption DEF BInv, BtTypeOK, TrackedLive, Tracked, StatusStep, Stopping, Given,
                          Live, Terminal, Statuses
<1>1. ASSUME NEW g \in Goals, ServerAnswers(g) PROVE Conclusion
  <2>1. Admit(g) \/ Refuse(g)
    BY <1>1 DEF ServerAnswers
  <2>3. g \notin waiting /\ g # executing
    BY <2>1 DEF Admit, Refuse
  <2>4. TrackedLive'
    <3>1. CASE Admit(g)
      <4>1. /\ executing' = executing /\ waiting' = waiting \cup {g}
            /\ status'[g] = "executing" /\ \A h \in Goals : h # g => status'[h] = status[h]
        BY <3>1 DEF Admit
      <4>. QED  BY <2>3, <4>1
    <3>2. CASE Refuse(g)
      <4>1. /\ executing' = executing /\ waiting' = waiting
            /\ \A h \in Goals : h # g => status'[h] = status[h]
        BY <3>2 DEF Refuse
      <4>. QED  BY <2>3, <4>1
    <3>. QED  BY <2>1, <3>1, <3>2
  <2>5. StatusStep
    BY <2>1 DEF Admit, Refuse
  <2>6. /\ status' \in [Goals -> Statuses]
        /\ executing' \in Goals \cup {NoGoal} /\ waiting' \subseteq Goals
    BY <2>1 DEF Admit, Refuse
  <2>. QED  BY <2>4, <2>5, <2>6
<1>2. ASSUME NEW g \in Goals, ServerCancels(g) PROVE Conclusion
  <2>1. CASE RequestCancel(g)
    BY <2>1 DEF RequestCancel
  <2>2. CASE UNCHANGED lifecycleVars
    BY <2>2 DEF lifecycleVars
  <2>. QED  BY <1>2, <2>1, <2>2 DEF ServerCancels
<1>3. ASSUME NEW g \in Goals, ServerEnds(g) PROVE Conclusion
  <2>1. PICK end \in Terminal : MayEnd(status[g], end) /\ status' = [status EXCEPT ![g] = end]
    BY <1>3 DEF ServerEnds
  <2>5. TrackedLive'
    <3>1. executing' \in {executing, NoGoal} \ {g} /\ waiting' = waiting \ {g}
      BY <1>3 DEF ServerEnds
    <3>2. \A h \in Goals : h # g => status'[h] = status[h]
      BY <2>1
    <3>. QED  BY <3>1, <3>2
  <2>6. StatusStep
    BY <2>1 DEF MayEnd
  <2>. QED  BY <1>3, <2>1, <2>5, <2>6 DEF ServerEnds
<1>4. ASSUME NEW g \in Goals, ServerBegins(g) PROVE Conclusion
  BY <1>4 DEF ServerBegins
<1>. QED  BY <1>1, <1>2, <1>3, <1>4 DEF Server

LEMMA ServerKeeps == ASSUME BInv, Server PROVE BInv'
<1>. USE BtAssumption
<1>1. /\ StatusStep /\ TrackedLive'
      /\ status' \in [Goals -> Statuses]
      /\ executing' \in Goals \cup {NoGoal} /\ waiting' \subseteq Goals
  BY ServerStep
<1>2. /\ UNCHANGED <<new_path, node_status, phase, goalVars, handleVars, resultVars, client>>
      /\ cancels' \subseteq cancels
  BY DEF Server, ServerAnswers, ServerCancels, ServerEnds, ServerBegins, btVars
<1>3. \A g \in Goals : g \in cancels /\ g \notin cancels' => status'[g] # "executing"
  BY DEF Server, ServerAnswers, ServerCancels, ServerEnds, ServerBegins, btVars,
         RequestCancel, lifecycleVars, BInv, BtTypeOK
<1>4. \A g \in Goals : status[g] # "unsent" /\ status[g] # "executing" => status'[g] # "executing"
  BY <1>1 DEF StatusStep
<1>. USE <1>1, <1>2 DEF BInv, goalVars, handleVars, resultVars
<1>5. BtTypeOK'
  BY DEF BtTypeOK
<1>6. AnswersTrue' /\ SeenBehind'
  BY DEF BtTypeOK, StatusStep, AnswersTrue, SeenBehind
<1>7. FutureIsLast' /\ PhaseTells' /\ HandleIsLast' /\ UpdateLeft' /\ NeverDereferencesNull'
  BY DEF FutureIsLast, PhaseTells, HandleIsLast, UpdateLeft, NeverDereferencesNull
<1>8. ResultIsLast'
  BY DEF ResultIsLast, StatusStep, codes
<1>9. CancelSent'
  <2>. SUFFICES ASSUME phase \in HaltWaits, goal_handle \notin cancels'
                PROVE  status'[goal_handle] # "executing"
    BY DEF CancelSent
  <2>1. goal_handle \in Goals /\ status[goal_handle] \in Given
    BY DEF PhaseTells, BtTypeOK, SeenBehind
  <2>. QED  BY <1>3, <1>4, <2>1 DEF CancelSent, Given, Live, Terminal
<1>10. ReportsOwnResult'
  <2>1. node_status = "SUCCESS" => status[sent] \in Terminal
    BY DEF ReportsOwnResult, Terminal
  <2>2. node_status = "SUCCESS" => sent \in Goals
    BY DEF ResultIsLast
  <2>. QED  BY <2>1, <2>2 DEF ReportsOwnResult, ResultIsLast, StatusStep
<1>. QED  BY <1>5, <1>6, <1>7, <1>8, <1>9, <1>10

-----------------------------------------------------------------------------
(* The node's executor. *)

LEMMA SpinKeeps == ASSUME BInv, Spin PROVE BInv'
<1>. USE BtAssumption
<1>1. /\ phase \in Spinning /\ node_status = "RUNNING"
      /\ UNCHANGED <<new_path, node_status, goal_updated, sent, future_goal_handle, expired,
                     goal_handle, cancels, status, executing, waiting>>
  BY DEF Spin, HandleResponse, HandleStatus, HandleResult, ResultArrives, Spins, BInv,
         PhaseTells, Spinning, Awaiting, goalVars, lifecycleVars
<1>2. TrackedLive' /\ UpdateLeft' /\ HandleIsLast'
  BY <1>1 DEF BInv, TrackedLive, Tracked, UpdateLeft, HandleIsLast
<1>3. ASSUME NEW g \in Goals, HandleResponse(g) \/ HandleStatus(g) PROVE BInv'
  <2>1. phase' = phase /\ UNCHANGED resultVars
    BY <1>3 DEF HandleResponse, HandleStatus
  <2>2. /\ seen' \in Statuses
        /\ client' \in [Goals -> {"unsent", "sent", "accepted", "rejected", "result"}]
    BY <1>3 DEF HandleResponse, HandleStatus, BInv, BtTypeOK
  <2>3. BtTypeOK'
    BY <1>1, <2>1, <2>2 DEF BInv, BtTypeOK, resultVars
  <2>4. AnswersTrue'
    BY <1>1, <1>3
       DEF HandleResponse, HandleStatus, BInv, BtTypeOK, AnswersTrue, Answered, Given, Live,
           Terminal, Statuses
  <2>5. SeenBehind'
    BY <1>1, <1>3
       DEF HandleResponse, HandleStatus, BInv, BtTypeOK, SeenBehind, Given, Live, Terminal,
           Stopping
  <2>6. FutureIsLast' /\ PhaseTells' /\ ResultIsLast' /\ CancelSent' /\ ReportsOwnResult'
        /\ NeverDereferencesNull'
    BY <1>1, <2>1 DEF BInv, FutureIsLast, PhaseTells, ResultIsLast, CancelSent,
                      ReportsOwnResult, NeverDereferencesNull, resultVars, codes
  <2>. QED  BY <1>2, <2>3, <2>4, <2>5, <2>6 DEF BInv
<1>4. ASSUME NEW g \in Goals, HandleResult(g) PROVE BInv'
  <2>0. /\ status[g] \in Terminal /\ client' = [client EXCEPT ![g] = "result"]
        /\ client[g] = "accepted"
        /\ seen' = IF g = goal_handle THEN status[g] ELSE seen
    BY <1>4 DEF HandleResult, ResultArrives
  <2>1. future_goal_handle = NoGoal => goal_handle = sent /\ goal_handle # NoGoal
    BY <1>1 DEF BInv, HandleIsLast
  <2>2. phase' = phase
    BY <1>4, <2>1 DEF HandleResult
  <2>3. \/ UNCHANGED resultVars
        \/ /\ future_goal_handle = NoGoal /\ g = sent
           /\ goal_result_available' = TRUE /\ result' \in codes(g)
    BY <1>4, <2>1 DEF HandleResult
  <2>4. BtTypeOK'
    <3>1. status[g] \in Statuses /\ BtTypeOK
      BY DEF BInv, BtTypeOK
    <3>2. goal_result_available' \in BOOLEAN /\ result' \in Statuses \cup {"unknown"}
      BY <2>3, <3>1 DEF BtTypeOK, resultVars, codes
    <3>3. client' \in [Goals -> {"unsent", "sent", "accepted", "rejected", "result"}]
      BY <2>0, <3>1 DEF BtTypeOK
    <3>4. seen' \in Statuses
      BY <2>0, <3>1 DEF BtTypeOK
    <3>. QED  BY <1>1, <2>2, <3>1, <3>2, <3>3, <3>4 DEF BtTypeOK
  <2>5. AnswersTrue'
    BY <1>1, <2>0 DEF BInv, BtTypeOK, AnswersTrue, Answered, Given
  <2>6. SeenBehind'
    BY <1>1, <2>0 DEF BInv, BtTypeOK, SeenBehind, Given, Stopping
  <2>7. FutureIsLast' /\ PhaseTells' /\ CancelSent' /\ NeverDereferencesNull'
        /\ ReportsOwnResult'
    BY <1>1, <2>2, <2>3 DEF BInv, FutureIsLast, PhaseTells, CancelSent,
                            NeverDereferencesNull, ReportsOwnResult, resultVars
  <2>8. ResultIsLast'
    <3>1. CASE UNCHANGED resultVars
      BY <1>1, <2>2, <3>1 DEF BInv, ResultIsLast, resultVars, codes
    <3>2. CASE /\ future_goal_handle = NoGoal /\ g = sent
               /\ goal_result_available' = TRUE /\ result' \in codes(g)
      BY <1>1, <2>0, <2>2, <3>2
         DEF BInv, PhaseTells, ResultIsLast, Spinning, Awaiting, codes
    <3>. QED  BY <2>3, <3>1, <3>2
  <2>. QED  BY <1>2, <2>4, <2>5, <2>6, <2>7, <2>8 DEF BInv
<1>. QED  BY <1>3, <1>4 DEF Spin

-----------------------------------------------------------------------------
(* The tree's thread. *)

LEMMA SendKeeps ==
  ASSUME BInv, send_new_goal, sent + 1 \in Goals,
         phase' \in Awaiting, node_status' = "RUNNING", new_path' = FALSE,
         goal_updated' \in BOOLEAN, goal_updated' => sent + 2 \in Goals,
         UNCHANGED <<handleVars, cancels, lifecycleVars>>
  PROVE  BInv'
<1>. USE BtAssumption DEF send_new_goal, handleVars, lifecycleVars
<1>1. BtTypeOK'
  BY DEF BInv, BtTypeOK, Phases, Spinning, Statuses
<1>2. TrackedLive' /\ SeenBehind'
  BY DEF BInv, TrackedLive, Tracked, SeenBehind
<1>3. AnswersTrue'
  BY DEF BInv, BtTypeOK, AnswersTrue, Answered
<1>4. FutureIsLast' /\ HandleIsLast'
  BY DEF FutureIsLast, HandleIsLast
<1>5. PhaseTells' /\ CancelSent' /\ ReportsOwnResult' /\ NeverDereferencesNull' /\ ResultIsLast'
  BY DEF PhaseTells, CancelSent, HaltWaits, Awaiting, ReportsOwnResult, NeverDereferencesNull,
         ResultIsLast
<1>6. UpdateLeft'
  BY DEF UpdateLeft, BInv, BtTypeOK
<1>. QED  BY <1>1, <1>2, <1>3, <1>4, <1>5, <1>6 DEF BInv

LEMMA TickKeeps == ASSUME BInv, Tick PROVE BInv'
<1>. USE BtAssumption
<1>0. BtTypeOK
  BY DEF BInv
<1>1. CASE tick_first
  <2>1. sent + 1 \in Goals /\ (goal_updated => sent + 2 \in Goals)
    <3>1. CASE goal_updated
      <4>1. sent + 2 \in Goals
        BY <1>0, <1>1, <3>1 DEF tick_first, GoalsLeft, BtTypeOK
      <4>2. sent + 1 \in 1 .. sent + 2
        BY <1>0 DEF BtTypeOK
      <4>. QED  BY <4>1, <4>2
    <3>2. CASE ~goal_updated
      BY <1>0, <1>1, <3>2 DEF tick_first, GoalsLeft, BtTypeOK
    <3>. QED  BY <3>1, <3>2
  <2>. QED
    BY <1>0, <1>1, <2>1, SendKeeps DEF tick_first, Awaiting, BtTypeOK
<1>2. CASE tick_run /\ (goal_updated \/ new_path) /\ seen = "executing"
  <2>1. sent + 1 \in Goals /\ node_status = "RUNNING"
    BY <1>2 DEF tick_run, BInv, PhaseTells, UpdateLeft
  <2>. QED  BY <1>2, <2>1, SendKeeps DEF tick_run, Awaiting
<1>. USE DEF goalVars, handleVars, resultVars, lifecycleVars
<1>3. CASE tick_run /\ ~((goal_updated \/ new_path) /\ seen = "executing")
  <2>1. /\ phase = "run" /\ node_status = "RUNNING" /\ future_goal_handle = NoGoal
        /\ goal_handle # NoGoal
    BY <1>3 DEF tick_run, BInv, PhaseTells, HandleIsLast
  <2>2. /\ phase' = "spin" /\ new_path' = FALSE /\ goal_updated' = (goal_updated \/ new_path)
        /\ UNCHANGED <<sent, future_goal_handle, expired, goal_result_available, result, client,
                       node_status, goal_handle, seen, cancels, status, executing, waiting>>
    BY <1>3, <2>1 DEF tick_run
  <2>. QED
    BY <1>0, <2>1, <2>2
       DEF BInv, BtTypeOK, Phases, Spinning, TrackedLive, Tracked, AnswersTrue, SeenBehind,
           FutureIsLast, PhaseTells, HandleIsLast, ResultIsLast, Awaiting, CancelSent,
           HaltWaits, UpdateLeft, ReportsOwnResult, NeverDereferencesNull
<1>. USE DEF BInv, BtTypeOK, Phases, Spinning, TrackedLive, Tracked, AnswersTrue, SeenBehind,
             FutureIsLast, PhaseTells, HandleIsLast, ResultIsLast, Awaiting, CancelSent,
             HaltWaits, UpdateLeft, ReportsOwnResult, NeverDereferencesNull
<1>4. CASE tick_again
  BY <1>4 DEF tick_again, forget_future
<1>5. CASE await_answered
  <2>1. CASE client[future_goal_handle] = "accepted"
    BY <1>5, <2>1 DEF await_answered, forget_future, Answered, Statuses
  <2>2. CASE client[future_goal_handle] = "rejected"
    BY <1>5, <2>2 DEF await_answered, forget_future, Statuses
  <2>. QED  BY <1>5, <2>1, <2>2 DEF await_answered
<1>6. CASE await_timeout
  BY <1>6 DEF await_timeout, forget_future
<1>7. CASE tick_end
  BY <1>7 DEF tick_end, Statuses, Terminal, codes
<1>. QED  BY <1>1, <1>2, <1>3, <1>4, <1>5, <1>6, <1>7 DEF Tick

LEMMA TreeKeeps ==
  ASSUME BInv, Halt \/ TreeResets \/ PlannerWrites \/ TimeoutPasses PROVE BInv'
<1>. USE BtAssumption
     DEF BInv, BtTypeOK, Phases, Spinning, TrackedLive, Tracked, AnswersTrue, SeenBehind,
         FutureIsLast, PhaseTells, HandleIsLast, ResultIsLast, Awaiting, CancelSent,
         HaltWaits, UpdateLeft, ReportsOwnResult, NeverDereferencesNull, goalVars, handleVars,
         resultVars, lifecycleVars, codes
<1>1. CASE halt
  BY <1>1 DEF halt
<1>2. CASE halt_cancel
  BY <1>2 DEF halt_cancel
<1>3. CASE halt_wait
  BY <1>3 DEF halt_wait
<1>4. CASE TreeResets
  BY <1>4 DEF TreeResets
<1>5. CASE PlannerWrites
  BY <1>5 DEF PlannerWrites
<1>6. CASE TimeoutPasses
  BY <1>6 DEF TimeoutPasses
<1>. QED  BY <1>1, <1>2, <1>3, <1>4, <1>5, <1>6 DEF Halt

LEMMA BtInductiveStep == ASSUME BInv, [BtNext]_allVars PROVE BInv'
<1>1. CASE UNCHANGED allVars
  BY <1>1
     DEF allVars, btVars, goalVars, handleVars, resultVars, lifecycleVars, BInv, BtTypeOK,
         TrackedLive, Tracked, AnswersTrue, SeenBehind, FutureIsLast, PhaseTells,
         HandleIsLast, ResultIsLast, CancelSent, UpdateLeft, ReportsOwnResult,
         NeverDereferencesNull, codes
<1>. QED
  BY <1>1, ServerKeeps, SpinKeeps, TickKeeps, TreeKeeps DEF BtNext

-----------------------------------------------------------------------------
\* The inductive invariant holds in every reachable state.
THEOREM BtInductive == BtSpec => []BInv
<1>1. BInv /\ [BtNext]_allVars => BInv'
  BY BtInductiveStep
<1>. QED  BY <1>1, BtInductiveInit, PTL DEF BtSpec

\* SUCCESS and FAILURE are the outcome of the goal sent last, whichever answers and results of
\* the goals before it are still on their way.
THEOREM OwnResultReported == BtSpec => []ReportsOwnResult
<1>1. BInv => ReportsOwnResult
  BY DEF BInv
<1>. QED  BY <1>1, BtInductive, PTL

\* goal_handle_ is never null where tick() and the result callback dereference it.
THEOREM NullNeverDereferenced == BtSpec => []NeverDereferencesNull
<1>1. BInv => NeverDereferencesNull
  BY DEF BInv
<1>. QED  BY <1>1, BtInductive, PTL

\* When tick() comes to on_wait_for_result there is no result yet, so that testing
\* goal_result_available_ before it would change nothing: a spin that brings one ends its tick.
THEOREM NoResultBeforeWait == BtSpec => [](phase = "run" => ~goal_result_available)
<1>1. BInv => (phase = "run" => ~goal_result_available)
  BY DEF BInv, PhaseTells, ResultIsLast
<1>. QED  BY <1>1, BtInductive, PTL

\* halt() leaves the goal sent last ended, being canceled or with a cancel request on its way,
\* unless the answer to it was still awaited.
THEOREM HaltIsHeard == BtSpec => HaltEndsGoal
<1>. DEFINE Heard == node_status = "RUNNING" /\ node_status' = "IDLE" =>
       \/ future_goal_handle # NoGoal
       \/ sent \in cancels'
       \/ status'[sent] # "executing"
<1>1. ASSUME BInv, [BtNext]_allVars PROVE [Heard]_allVars
  <2>. SUFFICES ASSUME BtNext, node_status = "RUNNING", node_status' = "IDLE",
                       future_goal_handle = NoGoal
                PROVE  sent \in cancels' \/ status'[sent] # "executing"
    BY <1>1
  <2>1. goal_handle = sent /\ goal_handle # NoGoal /\ BtTypeOK
    BY <1>1 DEF BInv, HandleIsLast
  <2>2. CASE Tick
    BY <2>2 DEF Tick, tick_first, tick_again, await_answered, await_timeout, tick_run,
                tick_end
  <2>3. CASE halt
    BY <2>1, <2>3 DEF halt
  <2>4. CASE halt_cancel
    <3>1. seen # "executing" /\ status' = status
      BY <2>4 DEF halt_cancel, lifecycleVars
    <3>2. status[goal_handle] \in Stopping
      BY <1>1, <2>1, <3>1 DEF BInv, SeenBehind
    <3>. QED  BY <2>1, <3>1, <3>2 DEF Stopping, Terminal
  <2>5. CASE halt_wait
    BY <1>1, <2>1, <2>5 DEF halt_wait, BInv, CancelSent, HaltWaits, lifecycleVars
  <2>6. CASE Spin \/ TreeResets \/ PlannerWrites \/ TimeoutPasses \/ Server
    BY <2>6
       DEF Spin, HandleResponse, HandleStatus, HandleResult, ResultArrives, Spins, TreeResets,
           PlannerWrites, TimeoutPasses, Server, ServerAnswers, ServerCancels, ServerEnds,
           ServerBegins, btVars
  <2>. QED  BY <2>2, <2>3, <2>4, <2>5, <2>6 DEF BtNext, Halt
<1>2. BInv /\ [BtNext]_allVars => [Heard]_allVars
  BY <1>1
<1>. QED  BY <1>2, BtInductive, PTL DEF BtSpec, HaltEndsGoal
=============================================================================
