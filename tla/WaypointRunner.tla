--------------------------- MODULE WaypointRunner ---------------------------
(***************************************************************************)
(* The waypoint_runner node: a service handler, setTask, that starts a     *)
(* recorded route, pauses it and continues it, and the three callbacks of  *)
(* its FollowWaypoints action client.                                      *)
(*                                                                         *)
(* The node is spun by four threads.  The service has a mutually exclusive *)
(* callback group, so one setTask runs at a time; the action client has a  *)
(* reentrant one, so its callbacks run beside setTask and beside each      *)
(* other.  Only current_goal_ is guarded by a mutex: setTask and the       *)
(* callbacks are cut between a read of shared state and the write that     *)
(* depends on it, and between writes another thread can tell apart.  The   *)
(* two cancel flags only bound a wait, which may time out anyway: they are *)
(* written together with their neighbour.                                  *)
(*                                                                         *)
(* The rclcpp_action client is external.  As the code uses it: the result  *)
(* of a goal is asked for when its goal response callback has returned,    *)
(* feedback is passed on for goals that are accepted and not yet finished, *)
(* and async_cancel_goal throws for a goal the client has let go of.       *)
(***************************************************************************)
EXTENDS Integers, FiniteSets, FiniteSetsExt

CONSTANTS
  Scenes,     \* ONE_GO .. FIVE_GO
  NoScene,    \* the initial value of last_scene_, no scene
  Files,      \* what loadCSV may find for each scene: numbers of poses, or NoFile
  NoFile,     \* the file cannot be opened
  NoGoal,     \* a null goal handle
  MaxGoals    \* bound on the goals a behaviour sends

ASSUME RunnerAssumption ==
  /\ NoScene \notin Scenes
  /\ NoFile \notin Nat
  /\ Files \in [Scenes -> SUBSET (Nat \cup {NoFile})]
  /\ MaxGoals \in Nat
  /\ NoGoal \notin 1 .. MaxGoals

Goals == 1 .. MaxGoals

VARIABLES
  state,             \* state_
  last_scene,        \* last_scene_
  paused_waypoint,   \* paused_waypoint_, a global index
  base_start_idx,    \* base_start_idx_
  local_wp_idx,      \* local_wp_idx_
  last_goal_size,    \* last_goal_size_
  cancel_in_flight,  \* cancel_in_flight_
  cancel_done,       \* cancel_done_
  current_goal,      \* current_goal_
  task,              \* where the running setTask is
  slice,             \* its poses: index of the first one and their number
  sent,              \* number of goals sent so far
  route,             \* base and size of each goal sent
  client,            \* what the action client has done with each goal
  completed,         \* last_completed_global of each goal's resultCallback
  cancels,           \* cancel requests on their way to the server
  crashed            \* an exception left a callback and ended the process

indexVars == <<paused_waypoint, base_start_idx, local_wp_idx, last_goal_size>>
flagVars == <<state, cancel_in_flight, cancel_done>>
taskVars == <<task, slice, last_scene>>
netVars == <<sent, route, cancels>>
goalVars == <<current_goal, client, completed>>
runnerVars == <<indexVars, flagVars, taskVars, netVars, goalVars, crashed>>

TaskSteps == {"idle", "pause", "continue", "reload", "reset", "base", "local", "send"}

\* What the client has done with a goal; "done" is the moment it forgets it.
ClientSteps == {"none", "requested", "accepting", "rejected", "accepted",
                "succeeding", "resulting", "stopping", "resetting", "settling",
                "returning", "done"}

Routes == [base : Nat, size : Nat]

RunnerTypeOK ==
  /\ state \in {"Idle", "Running", "Pausing", "Paused"}
  /\ last_scene \in Scenes \cup {NoScene}
  /\ paused_waypoint \in Nat \cup {-1}
  /\ base_start_idx \in Nat
  /\ local_wp_idx \in Nat \cup {-1}
  /\ last_goal_size \in Nat
  /\ cancel_in_flight \in BOOLEAN /\ cancel_done \in BOOLEAN
  /\ current_goal \in Goals \cup {NoGoal}
  /\ task \in TaskSteps
  /\ slice \in Routes
  /\ sent \in 0 .. MaxGoals
  /\ route \in [Goals -> Routes]
  /\ client \in [Goals -> ClientSteps]
  /\ completed \in [Goals -> Nat \cup {-1}]
  /\ cancels \subseteq Goals
  /\ crashed \in BOOLEAN

NoRoute == [base |-> 0, size |-> 0]

RunnerInit ==
  /\ state = "Idle"
  /\ last_scene = NoScene
  /\ paused_waypoint = -1
  /\ base_start_idx = 0
  /\ local_wp_idx = -1
  /\ last_goal_size = 0
  /\ cancel_in_flight = FALSE
  /\ cancel_done = TRUE
  /\ current_goal = NoGoal
  /\ task = "idle"
  /\ slice = NoRoute
  /\ sent = 0
  /\ route = [g \in Goals |-> NoRoute]
  /\ client = [g \in Goals |-> "none"]
  /\ completed = [g \in Goals |-> -1]
  /\ cancels = {}
  /\ crashed = FALSE

-----------------------------------------------------------------------------
(* setTask.  A request that is answered with false before it changed anything
   (the server is not ready, debounced, CANCEL and unknown scenes) is no step:
   whether debounce drops a request is a matter of time, and a request that it
   drops is one that did not come. *)

\* What loadCSV may find: the file cannot be opened, or some number of poses it can parse.
loadCSV(scene) == Files[scene]

\* A new request is handled; requests that may send a goal respect the bound.
NewRequest == task = "idle"

\* ONE_GO .. FIVE_GO: load the file.  paused_waypoint_ is reset even if that fails.
setTask_scene(s) ==
  /\ NewRequest /\ sent < MaxGoals
  /\ \E found \in loadCSV(s) :
       /\ last_scene' = IF found # NoFile THEN s ELSE last_scene
       /\ IF found \in {NoFile, 0}
            THEN UNCHANGED <<task, slice>>
            ELSE task' = "reset" /\ slice' = [base |-> 0, size |-> found]
  /\ paused_waypoint' = -1
  /\ UNCHANGED <<base_start_idx, local_wp_idx, last_goal_size, flagVars, netVars,
                 goalVars, crashed>>

\* PAUSE: the state is read before the mutex is taken.
setTask_pause ==
  /\ NewRequest
  /\ state = "Running"
  /\ task' = "pause"
  /\ UNCHANGED <<indexVars, flagVars, slice, last_scene, netVars, goalVars, crashed>>

\* PAUSE, under the mutex.  async_cancel_goal throws for a goal whose result the client
\* has already processed.
setTask_cancel ==
  /\ task = "pause"
  /\ task' = "idle"
  /\ IF current_goal = NoGoal
       THEN UNCHANGED <<flagVars, cancels, crashed>>
       ELSE /\ cancel_in_flight' = TRUE
            /\ cancel_done' = FALSE
            /\ state' = "Pausing"
            /\ IF client[current_goal] = "done"
                 THEN crashed' = TRUE /\ UNCHANGED cancels
                 ELSE cancels' = cancels \cup {current_goal} /\ UNCHANGED crashed
  /\ UNCHANGED <<indexVars, slice, last_scene, sent, route, current_goal, client, completed>>

\* CONTINUE: wait for a cancellation to finish, for a second at most.
setTask_continue ==
  /\ NewRequest /\ sent < MaxGoals
  /\ task' = "continue"
  /\ UNCHANGED <<indexVars, flagVars, slice, last_scene, netVars, goalVars, crashed>>

\* sliceFrom: the poses from an index on.
sliceFrom(size, start) ==
  [base |-> start, size |-> IF start >= size THEN 0 ELSE size - start]

\* CONTINUE after the wait: only Paused, and only with a scene to resume.
setTask_test ==
  /\ task = "continue"
  /\ task' = IF state = "Paused" /\ last_scene # NoScene THEN "reload" ELSE "idle"
  /\ UNCHANGED <<indexVars, flagVars, slice, last_scene, netVars, goalVars, crashed>>

\* [Mutant] CONTINUE that resumes one pose too far.
resume_idx_next == Max({0, paused_waypoint + 2})

\* CONTINUE resumes behind the last completed pose.
resume_idx == Max({0, paused_waypoint + 1})

\* CONTINUE: load the last scene again and keep what is left of it.
setTask_resume ==
  /\ task = "reload"
  /\ \E found \in loadCSV(last_scene) :
       IF found \in {NoFile, 0} \/ sliceFrom(found, resume_idx).size = 0
         THEN task' = "idle" /\ UNCHANGED slice
         ELSE task' = "reset" /\ slice' = sliceFrom(found, resume_idx)
  /\ UNCHANGED <<indexVars, flagVars, last_scene, netVars, goalVars, crashed>>

\* [Mutant] a route that is sent without current_goal_.reset() first.
setTask_reset_kept ==
  /\ task = "reset"
  /\ task' = "base"
  /\ UNCHANGED <<indexVars, flagVars, slice, last_scene, netVars, goalVars, crashed>>

\* current_goal_.reset() under the mutex, then tryClearCostmaps.
setTask_reset ==
  /\ task = "reset"
  /\ task' = "base"
  /\ current_goal' = NoGoal
  /\ UNCHANGED <<indexVars, flagVars, slice, last_scene, netVars, client, completed, crashed>>

\* sendWaypointsGoal, one unguarded variable after the other.
sendWaypointsGoal_base ==
  /\ task = "base"
  /\ task' = "local"
  /\ base_start_idx' = slice.base
  /\ UNCHANGED <<paused_waypoint, local_wp_idx, last_goal_size, flagVars, slice, last_scene,
                 netVars, goalVars, crashed>>

sendWaypointsGoal_local ==
  /\ task = "local"
  /\ task' = "send"
  /\ local_wp_idx' = -1
  /\ UNCHANGED <<paused_waypoint, base_start_idx, last_goal_size, flagVars, slice, last_scene,
                 netVars, goalVars, crashed>>

sendWaypointsGoal_send ==
  /\ task = "send"
  /\ task' = "idle"
  /\ last_goal_size' = slice.size
  /\ sent' = sent + 1
  /\ route' = [route EXCEPT ![sent + 1] = slice]
  /\ client' = [client EXCEPT ![sent + 1] = "requested"]
  /\ slice' = NoRoute
  /\ UNCHANGED <<paused_waypoint, base_start_idx, local_wp_idx, flagVars, last_scene, cancels,
                 current_goal, completed, crashed>>

-----------------------------------------------------------------------------
(* Action callbacks. *)

goalResponseCallback(g, accepted) ==
  /\ client[g] = "requested"
  /\ client' = [client EXCEPT ![g] = IF accepted THEN "accepting" ELSE "rejected"]
  /\ current_goal' = IF accepted THEN g ELSE current_goal
  /\ UNCHANGED <<indexVars, flagVars, taskVars, netVars, completed, crashed>>

\* [Mutant] goalResponseCallback that forgets to store Running.
goalResponseCallback_state_kept(g) ==
  /\ client[g] = "accepting"
  /\ client' = [client EXCEPT ![g] = "accepted"]
  /\ UNCHANGED <<indexVars, flagVars, taskVars, netVars,
                 current_goal, completed, crashed>>

\* The mutex is released before the state is stored.
goalResponseCallback_state(g) ==
  /\ client[g] = "accepting"
  /\ client' = [client EXCEPT ![g] = "accepted"]
  /\ state' = "Running"
  /\ UNCHANGED <<indexVars, cancel_in_flight, cancel_done, taskVars, netVars,
                 current_goal, completed, crashed>>

\* The goal the feedback belongs to is not looked at.
feedbackCallback(g, current_waypoint) ==
  /\ client[g] \notin {"none", "requested", "rejected", "done"}
  /\ local_wp_idx' = current_waypoint
  /\ UNCHANGED <<paused_waypoint, base_start_idx, last_goal_size, flagVars, taskVars, netVars,
                 goalVars, crashed>>

\* [Mutant] the pose the robot was driving to counts as completed.
last_completed_target(code) ==
  base_start_idx + IF code = "succeeded" THEN Max({last_goal_size - 1, 0}) ELSE local_wp_idx

\* last_completed_global: the end of the route, or the pose before the current target.
last_completed(code) ==
  base_start_idx + IF code = "succeeded" THEN Max({last_goal_size - 1, 0})
                                         ELSE Max({local_wp_idx - 1, -1})

\* resultCallback computes it from the shared indices, whichever goal they describe by
\* now.  The default branch, a result code that is unknown, then changes nothing.
resultCallback(g, code) ==
  /\ client[g] = "accepted"
  /\ completed' = IF code = "unknown" THEN completed
                    ELSE [completed EXCEPT ![g] = last_completed(code)]
  /\ client' = [client EXCEPT ![g] =
                  CASE code = "unknown" -> "returning"
                    [] code = "succeeded" -> "succeeding"
                    [] OTHER -> "stopping"]
  /\ UNCHANGED <<indexVars, flagVars, taskVars, netVars, current_goal, crashed>>

\* paused_waypoint_ never goes back.
resultCallback_index(g) ==
  /\ \/ client[g] = "succeeding" /\ client' = [client EXCEPT ![g] = "resulting"]
     \/ client[g] = "stopping" /\ client' = [client EXCEPT ![g] = "resetting"]
  /\ paused_waypoint' = Max({paused_waypoint, completed[g]})
  /\ UNCHANGED <<base_start_idx, local_wp_idx, last_goal_size, flagVars, taskVars, netVars,
                 current_goal, completed, crashed>>

\* SUCCEEDED: the flags, then Idle; current_goal_ stays.
resultCallback_succeeded(g) ==
  /\ client[g] = "resulting"
  /\ client' = [client EXCEPT ![g] = "returning"]
  /\ cancel_in_flight' = FALSE
  /\ cancel_done' = TRUE
  /\ state' = "Idle"
  /\ UNCHANGED <<indexVars, taskVars, netVars,
                 current_goal, completed, crashed>>

\* [Mutant] ABORTED and CANCELED that keep the goal handle.
resultCallback_reset_kept(g) ==
  /\ client[g] = "resetting"
  /\ client' = [client EXCEPT ![g] = "settling"]
  /\ cancel_in_flight' = FALSE
  /\ cancel_done' = TRUE
  /\ UNCHANGED <<indexVars, state, taskVars, netVars, current_goal, completed, crashed>>

\* ABORTED and CANCELED: current_goal_.reset() under the mutex and the flags ...
resultCallback_reset(g) ==
  /\ client[g] = "resetting"
  /\ client' = [client EXCEPT ![g] = "settling"]
  /\ current_goal' = NoGoal
  /\ cancel_in_flight' = FALSE
  /\ cancel_done' = TRUE
  /\ UNCHANGED <<indexVars, state, taskVars, netVars, completed, crashed>>

\* [Mutant] ABORTED and CANCELED without storing the state.
resultCallback_paused_kept(g) ==
  /\ client[g] = "settling"
  /\ client' = [client EXCEPT ![g] = "returning"]
  /\ UNCHANGED <<indexVars, flagVars, taskVars, netVars,
                 current_goal, completed, crashed>>

\* ... then Paused.
resultCallback_paused(g) ==
  /\ client[g] = "settling"
  /\ client' = [client EXCEPT ![g] = "returning"]
  /\ state' = "Paused"
  /\ UNCHANGED <<indexVars, cancel_in_flight, cancel_done, taskVars, netVars,
                 current_goal, completed, crashed>>

\* The client forgets a goal when its result callback has returned.
forgetGoal(g) ==
  /\ client[g] = "returning"
  /\ client' = [client EXCEPT ![g] = "done"]
  /\ UNCHANGED <<indexVars, flagVars, taskVars, netVars,
                 current_goal, completed, crashed>>
=============================================================================
