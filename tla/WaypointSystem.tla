--------------------------- MODULE WaypointSystem ---------------------------
(***************************************************************************)
(* The waypoint runner together with the follow_waypoints action server.   *)
(* The server is seen as clients see it, at the level of GoalLifecycle     *)
(* (which SimpleActionServer implements), with the progress along a route  *)
(* that WaypointFollower's feedback reports.  Requests reach the server in *)
(* the order they were sent; answers, feedback and results reach the       *)
(* runner after any delay, feedback of one goal in order.                  *)
(***************************************************************************)
EXTENDS WaypointRunner

CONSTANTS
  Patient,       \* a scene or CONTINUE is requested only when no goal is under way
  ServerResets   \* the server may be configured anew and forget an aborted goal

ASSUME SystemAssumption == Patient \in BOOLEAN /\ ServerResets \in BOOLEAN

VARIABLES
  status, executing, waiting,  \* as in GoalLifecycle
  progress,                    \* poses of each goal the server is done with
  heard,                       \* last feedback of each goal the runner received
  runGoals,                    \* history: goals that belong to the scene started last
  visited                      \* history: indices of that scene the server is done with

serverVars == <<status, executing, waiting>>
historyVars == <<runGoals, visited>>
systemVars == <<runnerVars, serverVars, progress, heard, historyVars>>

Live == {"executing", "canceling"}
Terminal == {"succeeded", "aborted", "canceled"}

SystemTypeOK ==
  /\ RunnerTypeOK
  /\ status \in [Goals -> {"unsent", "rejected"} \cup Live \cup Terminal]
  /\ executing \in Goals \cup {NoGoal}
  /\ waiting \subseteq Goals
  /\ \A g \in Goals : progress[g] \in 0 .. route[g].size /\ heard[g] \in 0 .. progress[g]
  /\ runGoals \subseteq 1 .. sent

SystemInit ==
  /\ RunnerInit
  /\ status = [g \in Goals |-> "unsent"]
  /\ executing = NoGoal
  /\ waiting = {}
  /\ progress = [g \in Goals |-> 0]
  /\ heard = [g \in Goals |-> 0]
  /\ runGoals = {}
  /\ visited = {}

-----------------------------------------------------------------------------
(* The follow_waypoints server, as its client sees it: SimpleActionServer's handlers, and the
   progress of followWaypoints(). *)

\* The goal request arrives: accepted, or rejected while the server is inactive.
ServerAnswer(g) ==
  /\ client[g] = "requested"
  /\ status[g] = "unsent"
  /\ \A h \in 1 .. g - 1 : status[h] # "unsent"
  /\ \/ status' = [status EXCEPT ![g] = "executing"] /\ waiting' = waiting \cup {g}
     \/ status' = [status EXCEPT ![g] = "rejected"] /\ UNCHANGED waiting
  /\ UNCHANGED <<runnerVars, executing, progress, heard, historyVars>>

ServerCancel(g) ==
  /\ g \in cancels
  /\ cancels' = cancels \ {g}
  /\ status' = IF status[g] = "executing" THEN [status EXCEPT ![g] = "canceling"] ELSE status
  /\ UNCHANGED <<indexVars, flagVars, taskVars, sent, route, current_goal, client, completed,
                 crashed, executing, waiting, progress, heard, historyVars>>

\* The oldest waiting goal starts and aborts the one before it.
ServerBegin(g) ==
  /\ g \in waiting
  /\ \A h \in waiting : g <= h
  /\ status' = IF executing = NoGoal THEN status
                 ELSE [status EXCEPT ![executing] = "aborted"]
  /\ executing' = g
  /\ waiting' = waiting \ {g}
  /\ UNCHANGED <<runnerVars, progress, heard, historyVars>>

\* The robot is done with a pose of the route, reached or given up.
ServerProgress ==
  /\ executing # NoGoal
  /\ progress[executing] < route[executing].size
  /\ progress' = [progress EXCEPT ![executing] = @ + 1]
  /\ visited' = IF executing \in runGoals
                  THEN visited \cup {route[executing].base + progress[executing]}
                  ELSE visited
  /\ UNCHANGED <<runnerVars, serverVars, heard, runGoals>>

\* A goal ends: at the end of its route, on a cancel request, or aborted.
ServerEnd(g) ==
  /\ status[g] \in Live
  /\ \E result \in Terminal :
       /\ result = "succeeded" => g = executing /\ progress[g] = route[g].size
       /\ result = "canceled" => status[g] = "canceling"
       /\ status' = [status EXCEPT ![g] = result]
  /\ executing' = IF g = executing THEN NoGoal ELSE executing
  /\ waiting' = waiting \ {g}
  /\ UNCHANGED <<runnerVars, progress, heard, historyVars>>

Server ==
  \/ \E g \in Goals : ServerAnswer(g) \/ ServerCancel(g) \/ ServerBegin(g) \/ ServerEnd(g)
  \/ ServerProgress

-----------------------------------------------------------------------------
(* The operator's requests and the runner's callbacks. *)

Settled(g) == client[g] \in {"rejected", "done"}
Unanswered(g) == client[g] \in {"requested", "accepting"}

Scene(s) ==
  /\ Patient => \A g \in 1 .. sent : Settled(g)
  /\ setTask_scene(s)
  /\ IF last_scene' = last_scene /\ task' = "idle"
       THEN UNCHANGED historyVars
       ELSE runGoals' = {} /\ visited' = {}
  /\ UNCHANGED <<serverVars, progress, heard>>

Pause ==
  /\ setTask_pause \/ setTask_cancel
  /\ UNCHANGED <<serverVars, progress, heard, historyVars>>

Continue ==
  /\ \/ (Patient => \A g \in 1 .. sent : Settled(g)) /\ setTask_continue
     \/ setTask_test
     \/ setTask_resume
  /\ UNCHANGED <<serverVars, progress, heard, historyVars>>

Send ==
  /\ \/ /\ setTask_reset \/ sendWaypointsGoal_base \/ sendWaypointsGoal_local
        /\ UNCHANGED runGoals
     \/ sendWaypointsGoal_send /\ runGoals' = runGoals \cup {sent + 1}
  /\ UNCHANGED <<serverVars, progress, heard, visited>>

Response(g) ==
  /\ \/ status[g] = "rejected" /\ goalResponseCallback(g, FALSE)
     \/ status[g] \in Live \cup Terminal /\ goalResponseCallback(g, TRUE)
     \/ goalResponseCallback_state(g)
  /\ UNCHANGED <<serverVars, progress, heard, historyVars>>

\* current_waypoint is the index of the pose the server works on, 0 .. size - 1.
Feedback(g) ==
  /\ status[g] \in Live \cup Terminal
  /\ \E i \in heard[g] .. Min({progress[g], route[g].size - 1}) :
       /\ feedbackCallback(g, i)
       /\ heard' = [heard EXCEPT ![g] = i]
  /\ UNCHANGED <<serverVars, progress, historyVars>>

Result(g) ==
  /\ \/ status[g] \in Terminal /\ resultCallback(g, status[g])
     \/ ServerResets /\ status[g] = "aborted" /\ resultCallback(g, "unknown")
     \/ resultCallback_index(g)
     \/ resultCallback_succeeded(g)
     \/ resultCallback_reset(g)
     \/ resultCallback_paused(g)
     \/ forgetGoal(g)
  /\ UNCHANGED <<serverVars, progress, heard, historyVars>>

SystemNext ==
  \/ Server
  \/ /\ ~crashed
     /\ \/ \E s \in Scenes : Scene(s)
        \/ Pause \/ Continue \/ Send
        \/ \E g \in Goals : Response(g) \/ Feedback(g) \/ Result(g)

SystemSpec == SystemInit /\ [][SystemNext]_systemVars

\* Messages are delivered and the node's threads run; the server obeys a cancel request
\* (followWaypoints polls for it) and comes to the end of whatever it executes.
SystemFairness ==
  /\ WF_systemVars(Server)
  /\ WF_systemVars(setTask_cancel /\ UNCHANGED <<serverVars, progress, heard, historyVars>>)
  /\ WF_systemVars((setTask_test \/ setTask_resume)
                     /\ UNCHANGED <<serverVars, progress, heard, historyVars>>)
  /\ WF_systemVars(Send)
  /\ \A g \in Goals : /\ WF_systemVars(~crashed /\ Response(g))
                        /\ WF_systemVars(~crashed /\ Result(g))

FairSystemSpec == SystemSpec /\ SystemFairness

-----------------------------------------------------------------------------
(* Properties. *)

\* The member comment "paused_waypoint_ (global) last completed index": every pose up to
\* paused_waypoint_ of the scene that CONTINUE would resume has been processed, so that
\* resuming behind it skips none.
PausedIsCompleted == 0 .. paused_waypoint \subseteq visited

\* The route sent is the tail of the scene behind what was completed when it was sent: no
\* pose in front of it is left out.
ResumeSkipsNothing ==
  \A g \in runGoals : 0 .. route[g].base - 1 \subseteq visited

\* When the runner says Idle or Paused and owes no answer, the robot stands still: no goal
\* of the runner is alive on the server.
StoppedMeansStopped ==
  state \in {"Idle", "Paused"} /\ (\A g \in 1 .. sent : ~Unanswered(g))
    => \A g \in Goals : status[g] \notin Live

\* async_cancel_goal throws, and ends the node, only for a goal that ran to its end or whose
\* result the server had forgotten: a PAUSE that races the result of a cancelled or aborted
\* goal never does.
PauseThrowsLate ==
  crashed => \/ status[current_goal] = "succeeded"
             \/ ServerResets /\ status[current_goal] = "aborted"

\* With a patient operator the robot stands when PAUSE ends the node: no goal is left alive
\* that nobody could stop any more.  (A hasty one may have started another route.)
PauseThrowsStanding == crashed => \A g \in Goals : status[g] \notin Live

\* A pause that caught a goal before its result comes to an end: its result, or the answer
\* to a newer goal, takes the runner out of Pausing, unless the server has forgotten the goal
\* and answers UNKNOWN, which leaves Pausing for good.  (A PAUSE that read Running just before
\* the result callback stored Idle has no such goal: it leaves Pausing for good as well, or
\* async_cancel_goal throws.)
PauseEnds ==
  \A g \in Goals :
    state = "Pausing" /\ current_goal = g /\ client[g] = "accepted"
      ~> state # "Pausing" \/ (ServerResets /\ status[g] = "aborted" /\ client[g] = "returning")
=============================================================================
