------------------------ MODULE WaypointSystem_proofs ------------------------
(***************************************************************************)
(* Proofs about the waypoint runner and its action server, for any scenes, *)
(* any files and any number of goals.                                      *)
(***************************************************************************)
EXTENDS WaypointSystem, TLAPS

Answered == {"accepting", "accepted", "succeeding", "resulting", "stopping", "resetting",
             "settling", "returning", "done"}
Ending == Answered \ {"accepting", "accepted"}
Sending == {"reset", "base", "local", "send"}
Resuming == {"continue", "reload"}

Counts == progress \in [Goals -> Nat] /\ heard \in [Goals -> Nat]

\* Goals that were not sent yet.
SentOnly == \A g \in Goals : g > sent => client[g] = "none" /\ progress[g] = 0 /\ heard[g] = 0

\* What the client knows of a goal is behind the server, never ahead.
ClientBehind ==
  \A g \in Goals :
    /\ client[g] = "none" => status[g] = "unsent"
    /\ client[g] = "rejected" => status[g] = "rejected"
    /\ client[g] \in Answered => status[g] \in Live \cup Terminal
    /\ client[g] \in Ending => status[g] \in Terminal
    /\ client[g] \in {"succeeding", "resulting"} => status[g] = "succeeded"

\* A route succeeds at its end.
SucceedsAtEnd == \A g \in Goals : status[g] = "succeeded" => progress[g] = route[g].size

\* The server keeps exactly the goals that are not over.
LiveIsTracked ==
  /\ \A g \in Goals : status[g] \in Live <=> g = executing \/ g \in waiting
  /\ executing \notin waiting

\* A setTask that may send has a goal left, one that reloads has a scene.
TaskMaySend ==
  /\ task \in Sending \cup Resuming => sent < MaxGoals
  /\ task = "reload" => last_scene # NoScene

\* current_goal_ is a goal the client still knows, or one that ran to its end or whose result
\* the server forgot.
HandleKnown ==
  current_goal # NoGoal =>
    /\ client[current_goal] \in Answered \ {"settling"}
    /\ client[current_goal] \in {"returning", "done"} =>
         \/ status[current_goal] = "succeeded"
         \/ ServerResets /\ status[current_goal] = "aborted"

CrashIsLate == crashed => current_goal # NoGoal /\ client[current_goal] = "done"

SysInv ==
  /\ SystemTypeOK
  /\ Counts
  /\ SentOnly
  /\ ClientBehind
  /\ SucceedsAtEnd
  /\ LiveIsTracked
  /\ TaskMaySend
  /\ HandleKnown
  /\ CrashIsLate

-----------------------------------------------------------------------------
(* With a patient operator. *)

\* Only the goal sent last is not over, and none while a setTask is about to send.
OneAtATime ==
  \A g \in 1 .. sent : g # sent \/ task \in Sending \cup Resuming => Settled(g)

\* The shared indices describe it.
IndicesDescribe ==
  \A g \in 1 .. sent : ~Settled(g) =>
    /\ g \in runGoals
    /\ base_start_idx = route[g].base
    /\ last_goal_size = route[g].size
    /\ local_wp_idx <= progress[g]

\* The indices that are being prepared for the next goal.
IndicesPrepared ==
  /\ task \in {"local", "send"} => base_start_idx = slice.base
  /\ task = "send" => local_wp_idx = -1

\* Every pose of the scene in front of where a goal has come to was processed, in front of
\* where one is about to start, and up to what a result callback is about to store.
PosesProcessed ==
  /\ \A g \in runGoals : 0 .. route[g].base + progress[g] - 1 \subseteq visited
  /\ task \in Sending => 0 .. slice.base - 1 \subseteq visited
  /\ \A g \in 1 .. sent : client[g] \in {"succeeding", "stopping"} =>
                            0 .. completed[g] \subseteq visited

\* While the server may be driving, the runner says so.
AcceptedMeansRunning ==
  \A g \in Goals : client[g] = "accepted" => state \in {"Running", "Pausing"}

\* No goal is sent without poses: the result of one would count a pose in front of it.
RoutesNotEmpty ==
  /\ \A g \in 1 .. sent : route[g].size > 0
  /\ task \in Sending => slice.size > 0

PatientInv ==
  /\ RoutesNotEmpty
  /\ OneAtATime
  /\ IndicesDescribe
  /\ IndicesPrepared
  /\ PosesProcessed
  /\ PausedIsCompleted
  /\ AcceptedMeansRunning

\* current_goal_ is the goal sent last, and is null from current_goal_.reset() until that goal
\* is answered.
HandleIsLast ==
  /\ current_goal # NoGoal => current_goal = sent
  /\ task \in {"base", "local", "send"} => current_goal = NoGoal

-----------------------------------------------------------------------------
(* The operators. *)

LEMMA MaxOfTwo ==
  ASSUME NEW a \in Int, NEW b \in Int
  PROVE  Max({a, b}) \in {a, b} /\ Max({a, b}) >= a /\ Max({a, b}) >= b
<1>1. \E x \in {a, b} : \A y \in {a, b} : x >= y
  BY DEF Max
<1>. QED  BY <1>1 DEF Max

LEMMA MinOfTwo ==
  ASSUME NEW a \in Int, NEW b \in Int
  PROVE  Min({a, b}) \in {a, b} /\ Min({a, b}) <= a /\ Min({a, b}) <= b
<1>1. \E x \in {a, b} : \A y \in {a, b} : x <= y
  OBVIOUS
<1>. QED  BY <1>1 DEF Min

\* What a result callback computes is an index of the route, or the one in front of it.
LEMMA CompletedIsIndex ==
  ASSUME RunnerTypeOK, NEW code \in Terminal
  PROVE  /\ last_completed(code) \in Nat \cup {-1}
         /\ code = "succeeded" => \/ last_completed(code) = base_start_idx + last_goal_size - 1
                                  \/ last_goal_size = 0 /\ last_completed(code) = base_start_idx
         /\ code # "succeeded" => \/ last_completed(code) = base_start_idx - 1
                                  \/ last_completed(code) = base_start_idx + local_wp_idx - 1
<1>. DEFINE m == Max({last_goal_size - 1, 0})
            n == Max({local_wp_idx - 1, -1})
<1>1. base_start_idx \in Nat /\ last_goal_size \in Nat /\ local_wp_idx \in Nat \cup {-1}
  BY DEF RunnerTypeOK
<1>2. {last_goal_size - 1, 0, local_wp_idx - 1, -1} \subseteq Int
  BY <1>1
<1>3. m \in {last_goal_size - 1, 0} /\ m >= last_goal_size - 1 /\ m >= 0
  BY <1>2, MaxOfTwo
<1>4. n \in {local_wp_idx - 1, -1} /\ n >= -1
  BY <1>2, MaxOfTwo
<1>5. last_completed(code) = base_start_idx + IF code = "succeeded" THEN m ELSE n
  BY DEF last_completed
<1>. HIDE DEF m, n
<1>. QED  BY <1>1, <1>3, <1>4, <1>5

LEMMA SliceIsRoute ==
  ASSUME RunnerTypeOK, NEW n \in Nat
  PROVE  /\ sliceFrom(n, resume_idx) \in Routes
         /\ sliceFrom(n, resume_idx).base = paused_waypoint + 1
<1>1. paused_waypoint \in Nat \cup {-1}
  BY DEF RunnerTypeOK
<1>2. 0 \in Int /\ paused_waypoint + 1 \in Int
  BY <1>1
<1>3. /\ resume_idx \in {0, paused_waypoint + 1}
      /\ resume_idx >= 0 /\ resume_idx >= paused_waypoint + 1
  BY <1>2, MaxOfTwo DEF resume_idx
<1>4. resume_idx = paused_waypoint + 1 /\ resume_idx \in Nat
  BY <1>1, <1>3
<1>. QED  BY <1>4 DEF sliceFrom, Routes

-----------------------------------------------------------------------------
(* SysInv is inductive. *)

LEMMA SystemInductiveInit == SystemInit => SysInv
<1>. SUFFICES ASSUME SystemInit PROVE SysInv
  OBVIOUS
<1>. USE RunnerAssumption DEF SystemInit, RunnerInit, NoRoute
<1>1. route \in [Goals -> Routes] /\ slice \in Routes
  BY DEF Routes
<1>2. client \in [Goals -> ClientSteps] /\ task \in TaskSteps
  BY DEF ClientSteps, TaskSteps
<1>3. completed \in [Goals -> Nat \cup {-1}] /\ sent \in 0 .. MaxGoals
  OBVIOUS
<1>4. RunnerTypeOK
  BY <1>1, <1>2, <1>3 DEF RunnerTypeOK
<1>5. SystemTypeOK /\ Counts
  BY <1>4 DEF SystemTypeOK, Counts
<1>6. SentOnly /\ ClientBehind /\ SucceedsAtEnd
  BY DEF SentOnly, ClientBehind, SucceedsAtEnd, Answered, Ending
<1>7. LiveIsTracked /\ TaskMaySend /\ HandleKnown /\ CrashIsLate
  BY DEF LiveIsTracked, Live, TaskMaySend, Sending, Resuming, HandleKnown, CrashIsLate, Goals
<1>. QED  BY <1>5, <1>6, <1>7 DEF SysInv

\* The server: what is over stays over, and nothing of the runner changes but the cancel
\* request that arrived.
ServerEffect ==
  /\ UNCHANGED <<indexVars, flagVars, taskVars, sent, route, goalVars, crashed, heard, runGoals>>
  /\ cancels' \subseteq cancels
  /\ status' \in [Goals -> {"unsent", "rejected"} \cup Live \cup Terminal]
  /\ executing' \in Goals \cup {NoGoal} /\ waiting' \subseteq Goals
  /\ \A g \in Goals :
       /\ status[g] \in Terminal \cup {"rejected"} => status'[g] = status[g]
       /\ status[g] \in Live => status'[g] \in Live \cup Terminal
       /\ client[g] = "none" => status'[g] = status[g]
       /\ progress'[g] \in progress[g] .. route[g].size
       /\ progress'[g] # progress[g] => status[g] \in Live
       /\ status'[g] = "succeeded" /\ status[g] # "succeeded" => progress[g] = route[g].size
       /\ g \in runGoals => \/ progress'[g] = progress[g]
                            \/ /\ progress'[g] = progress[g] + 1
                               /\ route[g].base + progress[g] \in visited'
  /\ visited \subseteq visited'
  /\ progress' \in [Goals -> Nat]
  /\ LiveIsTracked'

LEMMA ServerEffects == ASSUME SysInv, Server PROVE ServerEffect
<1>. USE RunnerAssumption
<1>0. /\ status \in [Goals -> {"unsent", "rejected"} \cup Live \cup Terminal]
      /\ executing \in Goals \cup {NoGoal} /\ waiting \subseteq Goals
      /\ progress \in [Goals -> Nat] /\ cancels \subseteq Goals
      /\ LiveIsTracked
  BY DEF SysInv, SystemTypeOK, Counts, RunnerTypeOK
<1>1. NoGoal \notin Goals
  BY DEF Goals
<1>2. \A g \in Goals : /\ progress[g] \in progress[g] .. route[g].size /\ route[g].size \in Nat
                       /\ client[g] = "none" => status[g] = "unsent"
  BY DEF SysInv, SystemTypeOK, RunnerTypeOK, Routes, ClientBehind
<1>. USE DEF ServerEffect, LiveIsTracked, Live, Terminal
<1>3. ASSUME NEW g \in Goals, ServerAnswer(g) PROVE ServerEffect
  <2>. USE <1>3 DEF ServerAnswer, runnerVars, netVars, historyVars
  <2>1. CASE status' = [status EXCEPT ![g] = "executing"] /\ waiting' = waiting \cup {g}
    BY <1>0, <1>1, <1>2, <2>1
  <2>2. CASE status' = [status EXCEPT ![g] = "rejected"] /\ UNCHANGED waiting
    BY <1>0, <1>1, <1>2, <2>2
  <2>. QED  BY <2>1, <2>2
<1>4. ASSUME NEW g \in Goals, ServerCancel(g) PROVE ServerEffect
  <2>. USE <1>4 DEF ServerCancel, goalVars, historyVars
  <2>1. CASE status[g] = "executing" /\ status' = [status EXCEPT ![g] = "canceling"]
    BY <1>0, <1>1, <1>2, <2>1
  <2>2. CASE UNCHANGED status
    BY <1>0, <1>1, <1>2, <2>2
  <2>. QED  BY <2>1, <2>2
<1>5. ASSUME NEW g \in Goals, ServerBegin(g) PROVE ServerEffect
  <2>. USE <1>5 DEF ServerBegin, runnerVars, netVars, historyVars
  <2>1. CASE executing = NoGoal
    BY <1>0, <1>1, <1>2, <2>1
  <2>2. CASE executing # NoGoal
    <3>1. executing \in Goals /\ status[executing] \in Live /\ executing # g
      BY <1>0, <2>2
    <3>2. status' = [status EXCEPT ![executing] = "aborted"]
      BY <2>2
    <3>3. status' \in [Goals -> {"unsent", "rejected"} \cup Live \cup Terminal]
      BY <1>0, <3>2
    <3>4. LiveIsTracked'
      BY <1>0, <3>1, <3>2
    <3>. QED  BY <1>0, <1>2, <3>1, <3>2, <3>3, <3>4
  <2>. QED  BY <2>1, <2>2
<1>6. ASSUME NEW g \in Goals, ServerEnd(g) PROVE ServerEffect
  <2>. USE <1>6 DEF ServerEnd, runnerVars, netVars, historyVars
  <2>1. PICK result \in Terminal :
          /\ result = "succeeded" => g = executing /\ progress[g] = route[g].size
          /\ status' = [status EXCEPT ![g] = result]
    OBVIOUS
  <2>2. status' \in [Goals -> {"unsent", "rejected"} \cup Live \cup Terminal]
    BY <1>0, <2>1
  <2>3. status[g] \in Live /\ result \notin Live
    BY <2>1
  <2>4. LiveIsTracked'
    BY <1>0, <1>1, <2>1, <2>3
  <2>. QED  BY <1>0, <1>2, <2>1, <2>2, <2>3, <2>4
<1>7. CASE ServerProgress
  BY <1>0, <1>1, <1>2, <1>7 DEF ServerProgress, runnerVars, netVars, serverVars, historyVars
<1>. QED  BY <1>3, <1>4, <1>5, <1>6, <1>7 DEF Server

LEMMA ServerKeepsSys == ASSUME SysInv, Server PROVE SysInv'
<1>1. ServerEffect
  BY ServerEffects
<1>. USE DEF ServerEffect, SysInv
<1>2. /\ UNCHANGED <<sent, route, client, current_goal, crashed, heard, runGoals, task,
                     last_scene>>
      /\ RunnerTypeOK'
  BY <1>1 DEF SystemTypeOK, RunnerTypeOK, indexVars, flagVars, taskVars, goalVars
<1>3. SystemTypeOK' /\ Counts'
  BY <1>1, <1>2 DEF SystemTypeOK, Counts
<1>4. SentOnly'
  BY <1>1, <1>2 DEF SentOnly, ClientBehind, Live
<1>5. ClientBehind'
  BY <1>1, <1>2 DEF ClientBehind, Answered, Ending, Live, Terminal
<1>6. SucceedsAtEnd'
  <2>1. \A g \in Goals : route[g].size \in Nat
    BY DEF SystemTypeOK, RunnerTypeOK, Routes
  <2>2. \A g \in Goals : status'[g] = "succeeded" => progress[g] = route[g].size
    BY <1>1 DEF SucceedsAtEnd
  <2>. QED  BY <1>1, <1>2, <2>1, <2>2 DEF SucceedsAtEnd
<1>7. TaskMaySend' /\ CrashIsLate'
  BY <1>1, <1>2 DEF TaskMaySend, CrashIsLate
<1>8. HandleKnown'
  BY <1>1, <1>2 DEF HandleKnown, Terminal, SystemTypeOK, RunnerTypeOK
<1>. QED  BY <1>1, <1>3, <1>4, <1>5, <1>6, <1>7, <1>8

\* A step of setTask that sends nothing.
LEMMA TaskStepKeepsSys ==
  ASSUME SysInv, RunnerTypeOK', runGoals' \subseteq 1 .. sent,
         UNCHANGED <<sent, route, client, serverVars, progress, heard>>,
         TaskMaySend', HandleKnown', CrashIsLate'
  PROVE  SysInv'
<1>. USE DEF SysInv, serverVars
<1>1. SystemTypeOK' /\ Counts'
  BY DEF SystemTypeOK, Counts
<1>2. SentOnly' /\ ClientBehind' /\ SucceedsAtEnd' /\ LiveIsTracked'
  BY DEF SentOnly, ClientBehind, SucceedsAtEnd, LiveIsTracked
<1>. QED  BY <1>1, <1>2

\* A callback takes the client one step further with goal g.
LEMMA CallbackKeepsSys ==
  ASSUME SysInv, NEW g \in Goals, NEW c \in ClientSteps \ {"none"},
         client' = [client EXCEPT ![g] = c], client[g] # "none",
         UNCHANGED <<sent, route, crashed, task, last_scene, serverVars, progress, runGoals>>,
         RunnerTypeOK', ClientBehind', ~crashed, HandleKnown',
         heard' \in [Goals -> Nat], \A h \in Goals : heard'[h] \in 0 .. progress[h]
  PROVE  SysInv'
<1>. USE DEF SysInv, serverVars
<1>1. SystemTypeOK' /\ Counts'
  BY DEF SystemTypeOK, Counts
<1>2. SentOnly'
  BY DEF SentOnly, Counts
<1>3. SucceedsAtEnd' /\ LiveIsTracked' /\ TaskMaySend' /\ CrashIsLate'
  BY DEF SucceedsAtEnd, LiveIsTracked, TaskMaySend, CrashIsLate
<1>. QED  BY <1>1, <1>2, <1>3

LEMMA TasksKeepSys ==
  ASSUME SysInv, ~crashed, (\E s \in Scenes : Scene(s)) \/ Pause \/ Continue \/ Send
  PROVE  SysInv'
<1>. USE RunnerAssumption DEF SysInv, SystemTypeOK
<1>0. /\ RunnerTypeOK /\ TaskMaySend /\ HandleKnown /\ runGoals \subseteq 1 .. sent
      /\ NoGoal \notin Goals
  BY DEF Goals
<1>. USE DEF indexVars, flagVars, taskVars, netVars, goalVars, serverVars, historyVars
<1>1. ASSUME NEW s \in Scenes, Scene(s) PROVE SysInv'
  <2>1. PICK found \in Files[s] :
          /\ last_scene' = IF found # NoFile THEN s ELSE last_scene
          /\ IF found \in {NoFile, 0} THEN UNCHANGED <<task, slice>>
             ELSE task' = "reset" /\ slice' = [base |-> 0, size |-> found]
    BY <1>1 DEF Scene, setTask_scene, loadCSV
  <2>2. /\ sent < MaxGoals /\ task = "idle" /\ paused_waypoint' = -1
        /\ UNCHANGED <<base_start_idx, local_wp_idx, last_goal_size, flagVars, netVars,
                       goalVars, crashed, serverVars, progress, heard>>
        /\ runGoals' \in {runGoals, {}}
    BY <1>1 DEF Scene, setTask_scene, NewRequest
  <2>3. found \in Nat \cup {NoFile}
    OBVIOUS
  <2>4. slice' \in Routes /\ task' \in {"idle", "reset"}
    BY <1>0, <2>1, <2>2, <2>3 DEF RunnerTypeOK, Routes
  <2>5. RunnerTypeOK'
    BY <1>0, <2>1, <2>2, <2>4 DEF RunnerTypeOK, TaskSteps
  <2>6. TaskMaySend' /\ HandleKnown' /\ CrashIsLate'
    BY <1>0, <2>2, <2>4 DEF TaskMaySend, HandleKnown, CrashIsLate
  <2>. QED  BY <1>0, <2>2, <2>5, <2>6, TaskStepKeepsSys
<1>2. CASE Pause
  <2>1. CASE setTask_pause
    <3>1. RunnerTypeOK' /\ TaskMaySend' /\ HandleKnown' /\ CrashIsLate'
      BY <1>0, <1>2, <2>1 DEF Pause, setTask_pause, RunnerTypeOK, TaskSteps, TaskMaySend,
                        HandleKnown, CrashIsLate, Sending, Resuming
    <3>. QED  BY <1>0, <1>2, <2>1, <3>1, TaskStepKeepsSys DEF Pause, setTask_pause
  <2>2. CASE setTask_cancel
    <3>1. RunnerTypeOK' /\ TaskMaySend'
      BY <1>0, <1>2, <2>2 DEF Pause, setTask_cancel, RunnerTypeOK, TaskSteps, TaskMaySend,
                              Sending, Resuming
    <3>2. HandleKnown' /\ CrashIsLate'
      BY <1>0, <1>2, <2>2 DEF Pause, setTask_cancel, HandleKnown, CrashIsLate
    <3>. QED  BY <3>2, <1>0, <1>2, <2>2, <3>1, TaskStepKeepsSys DEF Pause, setTask_cancel
  <2>. QED  BY <1>2, <2>1, <2>2 DEF Pause
<1>3. CASE Continue
  <2>1. CASE setTask_continue \/ setTask_test
    <3>1. RunnerTypeOK' /\ TaskMaySend' /\ HandleKnown' /\ CrashIsLate'
      BY <1>0, <1>3, <2>1 DEF Continue, setTask_continue, setTask_test, NewRequest,
            RunnerTypeOK, TaskSteps, TaskMaySend, HandleKnown, CrashIsLate, Sending, Resuming
    <3>. QED
      BY <1>0, <1>3, <2>1, <3>1, TaskStepKeepsSys DEF Continue, setTask_continue, setTask_test
  <2>2. CASE setTask_resume
    <3>1. PICK found \in loadCSV(last_scene) :
            \/ task' = "idle" /\ UNCHANGED slice
            \/ /\ task' = "reset" /\ slice' = sliceFrom(found, resume_idx)
               /\ found # NoFile
      BY <2>2 DEF setTask_resume
    <3>2. last_scene \in Scenes
      BY <1>0, <2>2 DEF setTask_resume, TaskMaySend, RunnerTypeOK
    <3>3. slice' \in Routes
      BY <1>0, <3>1, <3>2, SliceIsRoute DEF loadCSV, RunnerTypeOK
    <3>4. /\ task = "reload" /\ task' \in {"idle", "reset"}
          /\ UNCHANGED <<indexVars, flagVars, last_scene, netVars, goalVars, crashed,
                         serverVars, progress, heard, historyVars>>
      BY <1>3, <2>2, <3>1 DEF Continue, setTask_resume
    <3>5. RunnerTypeOK'
      BY <1>0, <3>3, <3>4 DEF RunnerTypeOK, TaskSteps
    <3>6. TaskMaySend' /\ HandleKnown' /\ CrashIsLate'
      BY <1>0, <3>4 DEF TaskMaySend, HandleKnown, CrashIsLate, Sending, Resuming
    <3>. QED  BY <1>0, <3>4, <3>5, <3>6, TaskStepKeepsSys
  <2>. QED  BY <1>3, <2>1, <2>2 DEF Continue
<1>4. CASE Send
  <2>1. CASE setTask_reset \/ sendWaypointsGoal_base \/ sendWaypointsGoal_local
    <3>1. /\ task \in Sending /\ task' \in Sending
          /\ base_start_idx' \in {base_start_idx, slice.base}
          /\ local_wp_idx' \in {local_wp_idx, -1} /\ current_goal' \in {current_goal, NoGoal}
          /\ UNCHANGED <<paused_waypoint, last_goal_size, flagVars, slice, last_scene, netVars,
                         client, completed, crashed>>
      BY <2>1 DEF setTask_reset, sendWaypointsGoal_base, sendWaypointsGoal_local, Sending
    <3>2. UNCHANGED <<runGoals, serverVars, progress, heard>>
      BY <1>4, <2>1 DEF Send, setTask_reset, sendWaypointsGoal_base, sendWaypointsGoal_local,
            sendWaypointsGoal_send
    <3>3. slice.base \in Nat
      BY <1>0 DEF RunnerTypeOK, Routes
    <3>4. RunnerTypeOK'
      BY <1>0, <3>1, <3>3 DEF RunnerTypeOK, TaskSteps, Sending
    <3>5. TaskMaySend' /\ HandleKnown' /\ CrashIsLate'
      BY <1>0, <3>1, <3>2 DEF TaskMaySend, HandleKnown, CrashIsLate, Sending
    <3>. QED  BY <1>0, <3>1, <3>2, <3>4, <3>5, TaskStepKeepsSys
  <2>2. CASE sendWaypointsGoal_send
    <3>. DEFINE n == sent + 1
    <3>1. n \in Goals /\ n \in Nat /\ sent \in Nat /\ n \in 0 .. MaxGoals
      BY <1>0, <2>2 DEF sendWaypointsGoal_send, TaskMaySend, Sending, Goals, RunnerTypeOK
    <3>2. /\ sent' = n /\ route' = [route EXCEPT ![n] = slice]
          /\ client' = [client EXCEPT ![n] = "requested"] /\ slice' = NoRoute
          /\ last_goal_size' = slice.size /\ task' = "idle"
          /\ UNCHANGED <<paused_waypoint, base_start_idx, local_wp_idx, flagVars, last_scene,
                         cancels, current_goal, completed, crashed>>
      BY <2>2 DEF sendWaypointsGoal_send
    <3>3. runGoals' \subseteq runGoals \cup {n} /\ UNCHANGED <<serverVars, progress, heard>>
      BY <1>4, <2>2 DEF Send
    <3>. HIDE DEF n
    <3>4. /\ client[n] = "none" /\ status[n] = "unsent" /\ progress[n] = 0 /\ heard[n] = 0
          /\ n \notin waiting /\ n # executing
      BY <1>0, <3>1 DEF SentOnly, ClientBehind, LiveIsTracked, Live, n
    <3>5. RunnerTypeOK'
      BY <1>0, <3>1, <3>2 DEF RunnerTypeOK, TaskSteps, ClientSteps, Routes, NoRoute
    <3>6. SystemTypeOK' /\ Counts'
      BY <1>0, <3>1, <3>2, <3>3, <3>4, <3>5 DEF n, Counts, RunnerTypeOK, Routes
    <3>7. SentOnly' /\ ClientBehind'
      BY <1>0, <3>1, <3>2, <3>3, <3>4 DEF n, SentOnly, ClientBehind, Answered, Ending,
                                         RunnerTypeOK, Goals
    <3>8. SucceedsAtEnd' /\ LiveIsTracked' /\ TaskMaySend'
      BY <1>0, <3>1, <3>2, <3>3, <3>4 DEF SucceedsAtEnd, LiveIsTracked, TaskMaySend,
                                         RunnerTypeOK, Sending, Resuming
    <3>9. HandleKnown' /\ CrashIsLate'
      BY <1>0, <3>1, <3>2, <3>3, <3>4 DEF HandleKnown, CrashIsLate, RunnerTypeOK, Answered
    <3>. QED  BY <3>6, <3>7, <3>8, <3>9
  <2>. QED  BY <1>4, <2>1, <2>2 DEF Send
<1>. QED  BY <1>1, <1>2, <1>3, <1>4

LEMMA CallbacksKeepSys ==
  ASSUME SysInv, ~crashed, NEW g \in Goals, Response(g) \/ Feedback(g) \/ Result(g)
  PROVE  SysInv'
<1>. USE RunnerAssumption DEF SysInv, SystemTypeOK
<1>0. /\ RunnerTypeOK /\ HandleKnown /\ ClientBehind /\ Counts
      /\ \A h \in Goals : heard[h] \in 0 .. progress[h] /\ progress[h] \in 0 .. route[h].size
      /\ NoGoal \notin Goals /\ g # NoGoal
      /\ client \in [Goals -> ClientSteps]
  BY DEF Goals, RunnerTypeOK
<1>. USE DEF indexVars, flagVars, taskVars, netVars, goalVars, serverVars, historyVars
<1>1. CASE Response(g)
  <2>1. CASE \/ status[g] = "rejected" /\ goalResponseCallback(g, FALSE)
             \/ status[g] \in Live \cup Terminal /\ goalResponseCallback(g, TRUE)
    <3>1. PICK c \in {"accepting", "rejected"} :
            /\ client[g] = "requested" /\ client' = [client EXCEPT ![g] = c]
            /\ c = "rejected" => status[g] = "rejected" /\ current_goal' = current_goal
            /\ c = "accepting" => status[g] \in Live \cup Terminal /\ current_goal' = g
      BY <2>1 DEF goalResponseCallback
    <3>2. UNCHANGED <<indexVars, flagVars, taskVars, netVars, completed, crashed, serverVars,
                      progress, heard, historyVars>>
      BY <1>1, <2>1 DEF Response, goalResponseCallback
    <3>3. RunnerTypeOK'
      BY <1>0, <3>1, <3>2 DEF RunnerTypeOK, ClientSteps
    <3>4. ClientBehind'
      BY <1>0, <3>1, <3>2 DEF ClientBehind, Answered, Ending
    <3>5. HandleKnown'
      BY <1>0, <3>1, <3>2 DEF HandleKnown, Answered
    <3>. QED  BY <1>0, <3>1, <3>2, <3>3, <3>4, <3>5, CallbackKeepsSys DEF ClientSteps, Counts
  <2>2. CASE goalResponseCallback_state(g)
    <3>1. /\ client[g] = "accepting" /\ client' = [client EXCEPT ![g] = "accepted"]
          /\ state' = "Running"
          /\ UNCHANGED <<indexVars, cancel_in_flight, cancel_done, taskVars, netVars,
                         current_goal, completed, crashed, serverVars, progress, heard,
                         historyVars>>
      BY <1>1, <2>2 DEF Response, goalResponseCallback_state
    <3>2. RunnerTypeOK'
      BY <1>0, <3>1 DEF RunnerTypeOK, ClientSteps
    <3>3. ClientBehind'
      BY <1>0, <3>1 DEF ClientBehind, Answered, Ending
    <3>4. HandleKnown'
      BY <1>0, <3>1 DEF HandleKnown, Answered
    <3>. QED  BY <1>0, <3>1, <3>2, <3>3, <3>4, CallbackKeepsSys DEF ClientSteps, Counts
  <2>. QED  BY <1>1, <2>1, <2>2 DEF Response
<1>2. CASE Feedback(g)
  <2>1. PICK i \in heard[g] .. Min({progress[g], route[g].size - 1}) :
          feedbackCallback(g, i) /\ heard' = [heard EXCEPT ![g] = i]
    BY <1>2 DEF Feedback
  <2>2. progress[g] \in Int /\ route[g].size - 1 \in Int /\ heard[g] \in Nat
    BY <1>0 DEF RunnerTypeOK, Routes, Counts
  <2>3. i \in Nat /\ i \in 0 .. progress[g]
    <3>. DEFINE m == Min({progress[g], route[g].size - 1})
    <3>1. m \in Int /\ m <= progress[g]
      BY <2>2, MinOfTwo
    <3>2. i \in heard[g] .. m
      BY <2>1
    <3>. HIDE DEF m
    <3>. QED  BY <2>2, <3>1, <3>2
  <2>4. /\ client[g] # "none" /\ local_wp_idx' = i
        /\ UNCHANGED <<paused_waypoint, base_start_idx, last_goal_size, flagVars, taskVars,
                       netVars, goalVars, crashed, serverVars, progress, historyVars>>
    BY <1>2, <2>1 DEF Feedback, feedbackCallback
  <2>5. RunnerTypeOK'
    BY <1>0, <2>3, <2>4 DEF RunnerTypeOK
  <2>6. ClientBehind' /\ HandleKnown'
    BY <1>0, <2>4 DEF ClientBehind, HandleKnown
  <2>7. heard' \in [Goals -> Nat] /\ \A h \in Goals : heard'[h] \in 0 .. progress[h]
    BY <1>0, <2>1, <2>3 DEF Counts
  <2>8. client' = [client EXCEPT ![g] = client[g]] /\ client[g] \in ClientSteps
    BY <1>0, <2>4
  <2>. QED  BY <1>0, <2>4, <2>5, <2>6, <2>7, <2>8, CallbackKeepsSys
<1>3. CASE Result(g)
  <2>. USE DEF Result
  <2>1. CASE \/ status[g] \in Terminal /\ resultCallback(g, status[g])
             \/ ServerResets /\ status[g] = "aborted" /\ resultCallback(g, "unknown")
    <3>1. PICK c \in {"returning", "succeeding", "stopping"} :
            /\ client[g] = "accepted" /\ client' = [client EXCEPT ![g] = c]
            /\ status[g] \in Terminal
            /\ c = "succeeding" => status[g] = "succeeded"
            /\ c = "returning" => ServerResets /\ status[g] = "aborted"
      BY <2>1 DEF resultCallback, Terminal
    <3>2. /\ UNCHANGED <<indexVars, flagVars, taskVars, netVars, current_goal, crashed,
                         serverVars, progress, heard, historyVars>>
          /\ \/ completed' = completed
             \/ completed' = [completed EXCEPT ![g] = last_completed(status[g])]
      BY <1>3, <2>1 DEF resultCallback
    <3>3. completed' \in [Goals -> Nat \cup {-1}]
      BY <1>0, <3>1, <3>2, CompletedIsIndex DEF RunnerTypeOK
    <3>4. RunnerTypeOK'
      <4>1. client' \in [Goals -> ClientSteps]
        BY <1>0, <3>1 DEF ClientSteps
      <4>. QED  BY <1>0, <3>2, <3>3, <4>1 DEF RunnerTypeOK
    <3>5. ClientBehind'
      BY <1>0, <3>1, <3>2 DEF ClientBehind, Answered, Ending
    <3>6. HandleKnown'
      BY <1>0, <3>1, <3>2 DEF HandleKnown, Answered
    <3>. QED  BY <1>0, <3>1, <3>2, <3>4, <3>5, <3>6, CallbackKeepsSys DEF ClientSteps, Counts
  <2>2. CASE resultCallback_index(g)
    <3>1. PICK c \in {"resulting", "resetting"} :
            /\ client[g] = IF c = "resulting" THEN "succeeding" ELSE "stopping"
            /\ client' = [client EXCEPT ![g] = c]
      BY <2>2 DEF resultCallback_index
    <3>2. /\ paused_waypoint' = Max({paused_waypoint, completed[g]})
          /\ UNCHANGED <<base_start_idx, local_wp_idx, last_goal_size, flagVars, taskVars,
                         netVars, current_goal, completed, crashed, serverVars, progress,
                         heard, historyVars>>
      BY <1>3, <2>2 DEF resultCallback_index
    <3>3. paused_waypoint \in Nat \cup {-1} /\ completed[g] \in Nat \cup {-1}
      BY <1>0 DEF RunnerTypeOK
    <3>4. paused_waypoint' \in {paused_waypoint, completed[g]}
      <4>1. paused_waypoint \in Int /\ completed[g] \in Int
        BY <3>3
      <4>2. Max({paused_waypoint, completed[g]}) \in {paused_waypoint, completed[g]}
        BY <4>1, MaxOfTwo
      <4>. QED  BY <3>2, <4>2
    <3>5. RunnerTypeOK'
      BY <1>0, <3>1, <3>2, <3>3, <3>4 DEF RunnerTypeOK, ClientSteps
    <3>6. ClientBehind'
      BY <1>0, <3>1, <3>2 DEF ClientBehind, Answered, Ending
    <3>7. HandleKnown'
      BY <1>0, <3>1, <3>2 DEF HandleKnown, Answered
    <3>. QED  BY <1>0, <3>1, <3>2, <3>5, <3>6, <3>7, CallbackKeepsSys DEF ClientSteps, Counts
  <2>3. CASE resultCallback_succeeded(g) \/ resultCallback_paused(g) \/ forgetGoal(g)
    <3>1. PICK c \in {"returning", "done"} :
            /\ client[g] \in {"resulting", "settling", "returning"}
            /\ client' = [client EXCEPT ![g] = c]
      BY <2>3 DEF resultCallback_succeeded, resultCallback_paused, forgetGoal
    <3>2. /\ UNCHANGED <<indexVars, taskVars, netVars, current_goal, completed, crashed,
                         serverVars, progress, heard, historyVars>>
          /\ state' \in {state, "Idle", "Paused"}
          /\ cancel_in_flight' \in {cancel_in_flight, FALSE}
          /\ cancel_done' \in {cancel_done, TRUE}
      BY <1>3, <2>3 DEF resultCallback_succeeded, resultCallback_paused, forgetGoal
    <3>3. RunnerTypeOK'
      <4>1. client' \in [Goals -> ClientSteps]
        BY <1>0, <3>1 DEF ClientSteps
      <4>. QED  BY <1>0, <3>2, <4>1 DEF RunnerTypeOK
    <3>4. ClientBehind'
      BY <1>0, <3>1, <3>2 DEF ClientBehind, Answered, Ending
    <3>5. HandleKnown'
      BY <1>0, <3>1, <3>2 DEF HandleKnown, ClientBehind, Answered
    <3>. QED  BY <1>0, <3>1, <3>2, <3>3, <3>4, <3>5, CallbackKeepsSys DEF ClientSteps, Counts
  <2>4. CASE resultCallback_reset(g)
    <3>1. /\ client[g] = "resetting" /\ client' = [client EXCEPT ![g] = "settling"]
          /\ current_goal' = NoGoal
          /\ cancel_in_flight' = FALSE /\ cancel_done' = TRUE
          /\ UNCHANGED <<indexVars, state, taskVars, netVars, completed, crashed, serverVars,
                         progress, heard, historyVars>>
      BY <1>3, <2>4 DEF resultCallback_reset
    <3>2. RunnerTypeOK'
      BY <1>0, <3>1 DEF RunnerTypeOK, ClientSteps
    <3>3. ClientBehind' /\ HandleKnown'
      BY <1>0, <3>1 DEF ClientBehind, HandleKnown, Answered, Ending
    <3>. QED  BY <1>0, <3>1, <3>2, <3>3, CallbackKeepsSys DEF ClientSteps, Counts
  <2>. QED  BY <1>3, <2>1, <2>2, <2>3, <2>4
<1>. QED  BY <1>1, <1>2, <1>3

LEMMA SystemInductiveStep == SysInv /\ [SystemNext]_systemVars => SysInv'
<1>. SUFFICES ASSUME SysInv, [SystemNext]_systemVars PROVE SysInv'
  OBVIOUS
<1>1. CASE UNCHANGED systemVars
  <2>1. /\ UNCHANGED <<sent, route, client, serverVars, progress, heard, runGoals, task,
                       last_scene, crashed, current_goal>>
        /\ RunnerTypeOK'
    BY <1>1 DEF SysInv, SystemTypeOK, systemVars, runnerVars, RunnerTypeOK, indexVars, flagVars,
                taskVars, netVars, goalVars, historyVars
  <2>2. TaskMaySend' /\ HandleKnown' /\ CrashIsLate'
    BY <2>1 DEF SysInv, TaskMaySend, HandleKnown, CrashIsLate, serverVars
  <2>. QED  BY <2>1, <2>2, TaskStepKeepsSys DEF SysInv, SystemTypeOK
<1>. QED
  BY <1>1, ServerKeepsSys, TasksKeepSys, CallbacksKeepSys DEF SystemNext

-----------------------------------------------------------------------------
(* PatientInv is inductive. *)

LEMMA PatientInit == SystemInit => PatientInv
  BY RunnerAssumption
     DEF SystemInit, RunnerInit, PatientInv, OneAtATime, IndicesDescribe, IndicesPrepared,
         PosesProcessed, PausedIsCompleted, AcceptedMeansRunning, RoutesNotEmpty, Sending

LEMMA GoalsSent ==
  ASSUME SysInv
  PROVE  /\ sent \in Nat /\ sent <= MaxGoals /\ 1 .. sent \subseteq Goals
         /\ runGoals \subseteq 1 .. sent
         /\ \A g \in Goals : /\ g \in Nat /\ (client[g] # "none" => g \in 1 .. sent)
                             /\ route[g].base \in Nat /\ route[g].size \in Nat
                             /\ progress[g] \in Nat
<1>1. sent \in 0 .. MaxGoals /\ runGoals \subseteq 1 .. sent
  BY DEF SysInv, SystemTypeOK, RunnerTypeOK
<1>2. \A g \in Goals : /\ route[g].base \in Nat /\ route[g].size \in Nat
                       /\ progress[g] \in Nat
  BY DEF SysInv, SystemTypeOK, RunnerTypeOK, Routes, Counts
<1>3. \A g \in Goals : g \in Nat /\ (client[g] # "none" => g \in 1 .. sent)
  BY <1>1, RunnerAssumption DEF Goals, SysInv, SentOnly
<1>. QED  BY <1>1, <1>2, <1>3, RunnerAssumption DEF Goals

LEMMA ServerKeepsPatient == ASSUME SysInv, PatientInv, Server PROVE PatientInv'
<1>1. ServerEffect
  BY ServerEffects
<1>2. /\ UNCHANGED <<sent, route, client, runGoals, task, slice, paused_waypoint,
                     base_start_idx, local_wp_idx, last_goal_size, completed, state>>
      /\ visited \subseteq visited'
  BY <1>1 DEF ServerEffect, indexVars, flagVars, taskVars, goalVars
<1>. USE <1>2 DEF PatientInv
<1>3. /\ RoutesNotEmpty' /\ OneAtATime' /\ IndicesPrepared' /\ PausedIsCompleted'
      /\ AcceptedMeansRunning'
  BY DEF RoutesNotEmpty, OneAtATime, Settled, IndicesPrepared, PausedIsCompleted,
         AcceptedMeansRunning
<1>4. \A g \in Goals : progress'[g] \in Nat /\ progress[g] <= progress'[g]
  BY <1>1, GoalsSent DEF ServerEffect
<1>5. local_wp_idx \in Int
  BY DEF SysInv, SystemTypeOK, RunnerTypeOK
<1>6. IndicesDescribe'
  BY <1>4, <1>5, GoalsSent DEF IndicesDescribe, Settled
<1>7. ASSUME NEW g \in runGoals
      PROVE  0 .. route[g].base + progress'[g] - 1 \subseteq visited'
  <2>1. g \in Goals /\ route[g].base \in Nat /\ progress[g] \in Nat
    BY GoalsSent
  <2>2. 0 .. route[g].base + progress[g] - 1 \subseteq visited
    BY DEF PosesProcessed
  <2>3. \/ progress'[g] = progress[g]
        \/ /\ progress'[g] = progress[g] + 1
           /\ route[g].base + progress[g] \in visited'
    BY <1>1, <2>1 DEF ServerEffect
  <2>. QED  BY <2>1, <2>2, <2>3
<1>8. PosesProcessed'
  BY <1>7 DEF PosesProcessed
<1>. QED  BY <1>3, <1>6, <1>8

LEMMA TasksKeepPatient ==
  ASSUME SysInv, PatientInv, Patient,
         (\E s \in Scenes : Scene(s)) \/ Pause \/ Continue \/ Send
  PROVE  PatientInv'
<1>. USE DEF PatientInv
<1>0. RunnerTypeOK
  BY DEF SysInv, SystemTypeOK
<1>. USE DEF indexVars, flagVars, taskVars, netVars, goalVars, serverVars, historyVars
<1>1. ASSUME NEW s \in Scenes, Scene(s) PROVE PatientInv'
  <2>1. /\ \A g \in 1 .. sent : Settled(g)
        /\ paused_waypoint' = -1 /\ task' \in {"idle", "reset"}
        /\ task' = "reset" => slice'.base = 0
        /\ UNCHANGED <<sent, route, client, base_start_idx, local_wp_idx, last_goal_size,
                       completed, progress, state>>
        /\ \/ UNCHANGED <<runGoals, visited>> /\ task' = "idle"
           \/ runGoals' = {} /\ visited' = {}
    BY <1>1 DEF Scene, setTask_scene, NewRequest
  <2>2. OneAtATime' /\ IndicesDescribe' /\ IndicesPrepared'
    BY <2>1 DEF OneAtATime, IndicesDescribe, IndicesPrepared, Settled
  <2>3. PausedIsCompleted' /\ AcceptedMeansRunning'
    BY <2>1 DEF PausedIsCompleted, AcceptedMeansRunning
  <2>4. PosesProcessed'
    BY <2>1 DEF PosesProcessed, Settled, Sending
  <2>5. task' = "reset" => slice'.size > 0
    <3>1. PICK found \in Files[s] :
            \/ task' = task
            \/ found \notin {NoFile, 0} /\ slice' = [base |-> 0, size |-> found]
      BY <1>1 DEF Scene, setTask_scene, loadCSV
    <3>2. found \in Nat \cup {NoFile} /\ task = "idle"
      BY <1>1, RunnerAssumption DEF Scene, setTask_scene, NewRequest
    <3>. QED  BY <3>1, <3>2
  <2>6. RoutesNotEmpty'
    BY <2>1, <2>5 DEF RoutesNotEmpty, Sending
  <2>. QED  BY <2>2, <2>3, <2>4, <2>6
<1>2. CASE Pause
  <2>1. /\ task' \in {"pause", "idle"} /\ task \in {"pause", "idle"}
        /\ state' \in {state, "Pausing"}
        /\ UNCHANGED <<sent, route, client, indexVars, slice, completed, progress, runGoals,
                       visited>>
    BY <1>2 DEF Pause, setTask_pause, setTask_cancel, NewRequest
  <2>2. OneAtATime' /\ IndicesDescribe' /\ IndicesPrepared'
    BY <2>1 DEF OneAtATime, IndicesDescribe, IndicesPrepared, Settled, Sending, Resuming
  <2>3. PausedIsCompleted' /\ AcceptedMeansRunning' /\ PosesProcessed' /\ RoutesNotEmpty'
    BY <2>1 DEF PausedIsCompleted, AcceptedMeansRunning, PosesProcessed, RoutesNotEmpty, Sending
  <2>. QED  BY <2>2, <2>3
<1>3. CASE Continue
  <2>1. /\ \A g \in 1 .. sent : Settled(g)
        /\ UNCHANGED <<sent, route, client, indexVars, completed, progress, runGoals, visited,
                       state>>
        /\ task' \in {"continue", "reload", "idle", "reset"}
    BY <1>3 DEF Continue, setTask_continue, setTask_test, setTask_resume, OneAtATime, Resuming
  <2>2. task' = "reset" => slice'.base = paused_waypoint + 1 /\ slice'.size > 0
    <3>. SUFFICES ASSUME task' = "reset"
                  PROVE  slice'.base = paused_waypoint + 1 /\ slice'.size > 0
      OBVIOUS
    <3>1. setTask_resume
      BY <1>3 DEF Continue, setTask_continue, setTask_test
    <3>2. PICK found \in loadCSV(last_scene) :
            /\ found # NoFile /\ slice' = sliceFrom(found, resume_idx)
            /\ slice'.size # 0
      BY <3>1 DEF setTask_resume
    <3>3. last_scene \in Scenes
      BY <1>0, <3>1 DEF setTask_resume, SysInv, TaskMaySend, RunnerTypeOK
    <3>4. slice' \in Routes /\ slice'.base = paused_waypoint + 1
      BY <1>0, <3>2, <3>3, SliceIsRoute, RunnerAssumption DEF loadCSV
    <3>. QED  BY <3>2, <3>4 DEF Routes
  <2>3. OneAtATime' /\ IndicesDescribe' /\ IndicesPrepared'
    BY <2>1 DEF OneAtATime, IndicesDescribe, IndicesPrepared, Settled
  <2>4. PausedIsCompleted' /\ AcceptedMeansRunning'
    BY <2>1 DEF PausedIsCompleted, AcceptedMeansRunning
  <2>5. PosesProcessed'
    BY <1>0, <2>1, <2>2 DEF PosesProcessed, Settled, Sending, PausedIsCompleted, RunnerTypeOK
  <2>6. RoutesNotEmpty'
    BY <2>1, <2>2 DEF RoutesNotEmpty, Sending
  <2>. QED  BY <2>3, <2>4, <2>5, <2>6
<1>4. CASE Send
  <2>1. CASE setTask_reset \/ sendWaypointsGoal_base \/ sendWaypointsGoal_local
    <3>1. /\ task \in Sending /\ task' \in Sending
          /\ task' \in {"local", "send"} => base_start_idx' = slice.base
          /\ task' = "send" => local_wp_idx' = -1
          /\ UNCHANGED <<sent, route, client, slice, paused_waypoint, completed, state>>
      BY <2>1 DEF setTask_reset, sendWaypointsGoal_base, sendWaypointsGoal_local, Sending,
                  IndicesPrepared
    <3>2. UNCHANGED <<runGoals, visited, progress>>
      BY <1>4, <2>1 DEF Send, setTask_reset, sendWaypointsGoal_base, sendWaypointsGoal_local,
            sendWaypointsGoal_send
    <3>3. OneAtATime' /\ IndicesDescribe' /\ IndicesPrepared'
      BY <3>1, <3>2 DEF OneAtATime, IndicesDescribe, IndicesPrepared, Settled
    <3>4. PausedIsCompleted' /\ AcceptedMeansRunning' /\ PosesProcessed' /\ RoutesNotEmpty'
      BY <3>1, <3>2 DEF PausedIsCompleted, AcceptedMeansRunning, PosesProcessed, RoutesNotEmpty
    <3>. QED  BY <3>3, <3>4
  <2>2. CASE sendWaypointsGoal_send
    <3>. DEFINE n == sent + 1
    <3>1. /\ sent' = n /\ route' = [route EXCEPT ![n] = slice]
          /\ client' = [client EXCEPT ![n] = "requested"]
          /\ last_goal_size' = slice.size /\ task = "send" /\ task' = "idle"
          /\ UNCHANGED <<paused_waypoint, base_start_idx, local_wp_idx, completed, state>>
      BY <2>2 DEF sendWaypointsGoal_send
    <3>2. runGoals' = runGoals \cup {n} /\ UNCHANGED <<visited, progress>>
      BY <1>4, <2>2 DEF Send, setTask_reset, sendWaypointsGoal_base, sendWaypointsGoal_local,
                        sendWaypointsGoal_send
    <3>3. /\ n \in Goals /\ sent \in Nat /\ progress[n] = 0 /\ slice.base \in Nat
          /\ runGoals \subseteq 1 .. sent /\ 1 .. sent \subseteq Goals
          /\ client \in [Goals -> ClientSteps] /\ route \in [Goals -> Routes]
      <4>1. sent \in Nat /\ runGoals \subseteq 1 .. sent /\ 1 .. sent \subseteq Goals
        BY GoalsSent
      <4>2. /\ slice.base \in Nat
            /\ client \in [Goals -> ClientSteps] /\ route \in [Goals -> Routes]
        BY <1>0 DEF RunnerTypeOK, Routes
      <4>3. n \in Goals /\ n > sent
        BY <3>1, <4>1, RunnerAssumption DEF SysInv, TaskMaySend, Sending, Goals
      <4>4. progress[n] = 0
        BY <4>3 DEF SysInv, SentOnly
      <4>. QED  BY <4>1, <4>2, <4>3, <4>4
    <3>4. /\ \A g \in 1 .. sent : Settled(g) /\ Settled(g)' /\ g # n
          /\ base_start_idx = slice.base /\ local_wp_idx = -1
          /\ \A g \in 1 .. n : g = n \/ g \in 1 .. sent
      BY <3>1, <3>3 DEF OneAtATime, Sending, Settled, IndicesPrepared
    <3>5. OneAtATime' /\ IndicesPrepared'
      BY <3>1, <3>4 DEF OneAtATime, IndicesPrepared, Sending, Resuming
    <3>6. IndicesDescribe'
      BY <3>1, <3>2, <3>3, <3>4 DEF IndicesDescribe
    <3>7. PausedIsCompleted' /\ AcceptedMeansRunning'
      BY <3>1, <3>2, <3>3 DEF PausedIsCompleted, AcceptedMeansRunning
    <3>8. PosesProcessed'
      <4>1. ASSUME NEW g \in runGoals'
            PROVE  0 .. route'[g].base + progress[g] - 1 \subseteq visited
        <5>1. CASE g = n
          BY <3>1, <3>3, <5>1 DEF PosesProcessed, Sending
        <5>2. CASE g # n
          BY <3>1, <3>2, <3>3, <5>2 DEF PosesProcessed
        <5>. QED  BY <5>1, <5>2
      <4>2. \A g \in 1 .. sent' : client'[g] \notin {"succeeding", "stopping"}
        BY <3>1, <3>3, <3>4 DEF Settled
      <4>. QED  BY <3>1, <3>2, <4>1, <4>2 DEF PosesProcessed, Sending
    <3>9. RoutesNotEmpty'
      BY <3>1, <3>3, <3>4 DEF RoutesNotEmpty, Sending
    <3>. QED  BY <3>5, <3>6, <3>7, <3>8, <3>9
  <2>. QED  BY <1>4, <2>1, <2>2 DEF Send
<1>. QED  BY <1>1, <1>2, <1>3, <1>4

\* A callback for goal g, which is the goal sent last, keeps what it does not write.
LEMMA CallbackKeepsPatient ==
  ASSUME SysInv, PatientInv, NEW g \in Goals, NEW c \in ClientSteps,
         client[g] \notin {"none", "rejected", "done"},
         client' = [client EXCEPT ![g] = c],
         UNCHANGED <<sent, route, task, slice, base_start_idx, last_goal_size, progress,
                     runGoals, visited>>,
         local_wp_idx' = local_wp_idx \/ local_wp_idx' <= progress[g],
         c \in {"succeeding", "stopping"} => 0 .. completed'[g] \subseteq visited,
         c = "accepted" => state' \in {"Running", "Pausing"},
         PausedIsCompleted'
  PROVE  PatientInv'
<1>. USE DEF PatientInv
<1>1. /\ g \in 1 .. sent /\ ~Settled(g) /\ g = sent /\ task \notin Sending \cup Resuming
      /\ client \in [Goals -> ClientSteps] /\ 1 .. sent \subseteq Goals
  BY GoalsSent DEF Settled, OneAtATime, SysInv, SystemTypeOK, RunnerTypeOK
<1>2. \A h \in 1 .. sent : h # g => Settled(h) /\ client'[h] = client[h]
  BY <1>1 DEF OneAtATime
<1>3. OneAtATime'
  BY <1>1, <1>2 DEF OneAtATime, Settled
<1>4. IndicesDescribe'
  BY <1>1, <1>2 DEF IndicesDescribe, Settled
<1>5. IndicesPrepared' /\ RoutesNotEmpty'
  BY <1>1 DEF IndicesPrepared, RoutesNotEmpty, Sending
<1>6. PosesProcessed'
  BY <1>1, <1>2 DEF PosesProcessed, Settled, Sending
<1>7. AcceptedMeansRunning'
  BY <1>1, <1>2, GoalsSent DEF AcceptedMeansRunning, Settled
<1>. QED  BY <1>3, <1>4, <1>5, <1>6, <1>7

LEMMA CallbacksKeepPatient ==
  ASSUME SysInv, PatientInv, NEW g \in Goals, Response(g) \/ Feedback(g) \/ Result(g)
  PROVE  PatientInv'
<1>0. /\ RunnerTypeOK /\ client \in [Goals -> ClientSteps]
      /\ client[g] # "none" => g \in 1 .. sent
      /\ PausedIsCompleted
  BY GoalsSent DEF SysInv, SystemTypeOK, RunnerTypeOK, PatientInv
<1>. USE DEF indexVars, flagVars, taskVars, netVars, goalVars, serverVars, historyVars
<1>1. CASE Response(g)
  <2>1. PICK c \in {"accepting", "rejected", "accepted"} :
          /\ client[g] \in {"requested", "accepting"} /\ client' = [client EXCEPT ![g] = c]
          /\ c = "accepted" => state' = "Running"
    BY <1>1 DEF Response, goalResponseCallback, goalResponseCallback_state
  <2>2. UNCHANGED <<sent, route, task, slice, base_start_idx, last_goal_size, progress,
                    runGoals, visited, local_wp_idx, paused_waypoint>>
    BY <1>1 DEF Response, goalResponseCallback, goalResponseCallback_state
  <2>3. PausedIsCompleted'
    BY <1>0, <2>2 DEF PausedIsCompleted
  <2>. QED  BY <2>1, <2>2, <2>3, CallbackKeepsPatient DEF ClientSteps
<1>2. CASE Feedback(g)
  <2>1. PICK i \in heard[g] .. Min({progress[g], route[g].size - 1}) : feedbackCallback(g, i)
    BY <1>2 DEF Feedback
  <2>2. progress[g] \in Int /\ route[g].size - 1 \in Int
    BY GoalsSent
  <2>3. Min({progress[g], route[g].size - 1}) <= progress[g]
        /\ Min({progress[g], route[g].size - 1}) \in Int
    BY <2>2, MinOfTwo
  <2>4. heard[g] \in Int
    BY DEF SysInv, Counts
  <2>5. i <= progress[g]
    BY <2>1, <2>2, <2>3, <2>4
  <2>6. /\ client[g] \notin {"none", "requested", "rejected", "done"} /\ local_wp_idx' = i
        /\ UNCHANGED <<sent, route, task, slice, base_start_idx, last_goal_size, progress,
                       runGoals, visited, paused_waypoint, client, completed, state>>
    BY <1>2, <2>1 DEF Feedback, feedbackCallback
  <2>7. /\ client' = [client EXCEPT ![g] = client[g]] /\ client[g] \in ClientSteps
        /\ PausedIsCompleted'
    BY <1>0, <2>6 DEF PausedIsCompleted
  <2>8. /\ client[g] \in {"succeeding", "stopping"} => 0 .. completed'[g] \subseteq visited
        /\ client[g] = "accepted" => state' \in {"Running", "Pausing"}
    BY <1>0, <2>6 DEF PatientInv, PosesProcessed, AcceptedMeansRunning
  <2>. QED  BY <2>5, <2>6, <2>7, <2>8, CallbackKeepsPatient
<1>3. CASE Result(g)
  <2>. USE DEF Result
  <2>1. CASE \/ status[g] \in Terminal /\ resultCallback(g, status[g])
             \/ ServerResets /\ status[g] = "aborted" /\ resultCallback(g, "unknown")
    <3>1. PICK c \in {"returning", "succeeding", "stopping"} :
            /\ client[g] = "accepted" /\ client' = [client EXCEPT ![g] = c]
            /\ status[g] \in Terminal
            /\ c # "returning" => completed'[g] = last_completed(status[g])
      BY <1>0, <2>1 DEF resultCallback, Terminal, RunnerTypeOK
    <3>2. UNCHANGED <<sent, route, task, slice, base_start_idx, last_goal_size, progress,
                      runGoals, visited, local_wp_idx, paused_waypoint>>
      BY <1>3, <2>1 DEF resultCallback
    <3>3. PausedIsCompleted'
      BY <1>0, <3>2 DEF PausedIsCompleted
    <3>4. /\ g \in 1 .. sent /\ g \in runGoals
          /\ base_start_idx = route[g].base /\ last_goal_size = route[g].size
          /\ local_wp_idx <= progress[g]
      BY <1>0, <3>1 DEF PatientInv, IndicesDescribe, Settled
    <3>5. /\ route[g].base \in Nat /\ route[g].size \in Nat /\ progress[g] \in Nat
          /\ local_wp_idx \in Int
          /\ status[g] = "succeeded" => progress[g] = route[g].size
          /\ route[g].size > 0
          /\ 0 .. route[g].base + progress[g] - 1 \subseteq visited
      BY <1>0, <3>4, GoalsSent DEF SysInv, SucceedsAtEnd, RunnerTypeOK, PatientInv,
                                  PosesProcessed, RoutesNotEmpty
    <3>6. last_completed(status[g]) <= route[g].base + progress[g] - 1
      BY <1>0, <3>1, <3>4, <3>5, CompletedIsIndex
    <3>7. c # "returning" => 0 .. completed'[g] \subseteq visited
      BY <1>0, <3>1, <3>5, <3>6, CompletedIsIndex
    <3>. QED  BY <3>1, <3>2, <3>3, <3>7, CallbackKeepsPatient DEF ClientSteps
  <2>2. CASE resultCallback_index(g)
    <3>1. PICK c \in {"resulting", "resetting"} :
            /\ client[g] \in {"succeeding", "stopping"}
            /\ client' = [client EXCEPT ![g] = c]
            /\ paused_waypoint' = Max({paused_waypoint, completed[g]})
      BY <2>2 DEF resultCallback_index
    <3>2. UNCHANGED <<sent, route, task, slice, base_start_idx, last_goal_size, progress,
                      runGoals, visited, local_wp_idx>>
      BY <1>3, <2>2 DEF resultCallback_index
    <3>3. paused_waypoint \in Int /\ completed[g] \in Int
      BY <1>0 DEF RunnerTypeOK
    <3>4. Max({paused_waypoint, completed[g]}) \in {paused_waypoint, completed[g]}
      BY <3>3, MaxOfTwo
    <3>5. 0 .. completed[g] \subseteq visited
      BY <1>0, <3>1 DEF PatientInv, PosesProcessed
    <3>6. PausedIsCompleted'
      BY <1>0, <3>1, <3>2, <3>4, <3>5 DEF PausedIsCompleted
    <3>. QED  BY <3>1, <3>2, <3>6, CallbackKeepsPatient DEF ClientSteps
  <2>3. CASE \/ resultCallback_succeeded(g) \/ resultCallback_paused(g)
             \/ resultCallback_reset(g) \/ forgetGoal(g)
    <3>1. PICK c \in {"settling", "returning", "done"} :
            /\ client[g] \in {"resulting", "resetting", "settling", "returning"}
            /\ client' = [client EXCEPT ![g] = c]
      BY <2>3 DEF resultCallback_succeeded, resultCallback_paused, resultCallback_reset,
                  forgetGoal
    <3>2. UNCHANGED <<sent, route, task, slice, base_start_idx, last_goal_size, progress,
                      runGoals, visited, local_wp_idx, paused_waypoint>>
      BY <1>3, <2>3 DEF resultCallback_succeeded, resultCallback_paused, resultCallback_reset,
                        forgetGoal
    <3>3. PausedIsCompleted'
      BY <1>0, <3>2 DEF PausedIsCompleted
    <3>. QED  BY <3>1, <3>2, <3>3, CallbackKeepsPatient DEF ClientSteps
  <2>. QED  BY <1>3, <2>1, <2>2, <2>3
<1>. QED  BY <1>1, <1>2, <1>3

LEMMA PatientStep ==
  ASSUME Patient PROVE SysInv /\ PatientInv /\ [SystemNext]_systemVars => PatientInv'
<1>. SUFFICES ASSUME SysInv, PatientInv, [SystemNext]_systemVars PROVE PatientInv'
  OBVIOUS
<1>1. CASE UNCHANGED systemVars
  <2>1. UNCHANGED <<sent, route, client, task, slice, paused_waypoint, base_start_idx,
                    local_wp_idx, last_goal_size, completed, state, progress, runGoals,
                    visited>>
    BY <1>1 DEF systemVars, runnerVars, indexVars, flagVars, taskVars, netVars, goalVars,
                historyVars
  <2>. QED
    BY <2>1 DEF PatientInv, RoutesNotEmpty, OneAtATime, Settled, IndicesDescribe, IndicesPrepared,
                PosesProcessed, PausedIsCompleted, AcceptedMeansRunning
<1>. QED
  BY <1>1, ServerKeepsPatient, TasksKeepPatient, CallbacksKeepPatient DEF SystemNext

LEMMA HandleStep ==
  ASSUME Patient
  PROVE  SysInv /\ PatientInv /\ HandleIsLast /\ [SystemNext]_systemVars => HandleIsLast'
<1>. SUFFICES ASSUME SysInv, PatientInv, HandleIsLast, [SystemNext]_systemVars
              PROVE  HandleIsLast'
  OBVIOUS
<1>. USE DEF HandleIsLast, indexVars, flagVars, taskVars, netVars, goalVars
<1>1. CASE UNCHANGED systemVars
  BY <1>1 DEF systemVars, runnerVars
<1>2. CASE Server
  BY <1>2, ServerEffects DEF ServerEffect
<1>3. ASSUME NEW s \in Scenes, Scene(s) PROVE HandleIsLast'
  <2>1. task' \in {task, "reset"} /\ UNCHANGED <<sent, current_goal>>
    BY <1>3 DEF Scene, setTask_scene, loadCSV
  <2>. QED  BY <2>1
<1>4. CASE Pause
  <2>1. task' \in {"pause", "idle"} /\ UNCHANGED <<sent, current_goal>>
    BY <1>4 DEF Pause, setTask_pause, setTask_cancel
  <2>. QED  BY <2>1
<1>5. CASE Continue
  <2>1. task' \in {"continue", "reload", "reset", "idle"} /\ UNCHANGED <<sent, current_goal>>
    BY <1>5 DEF Continue, setTask_continue, setTask_test, setTask_resume
  <2>. QED  BY <2>1
<1>6. CASE Send
  BY <1>6 DEF Send, setTask_reset, sendWaypointsGoal_base, sendWaypointsGoal_local,
              sendWaypointsGoal_send
<1>7. ASSUME NEW g \in Goals, Response(g) PROVE HandleIsLast'
  <2>1. /\ client[g] \in {"requested", "accepting"} /\ UNCHANGED <<task, sent>>
        /\ current_goal' \in {current_goal, g}
    BY <1>7 DEF Response, goalResponseCallback, goalResponseCallback_state
  <2>2. g \in 1 .. sent /\ ~Settled(g)
    BY <2>1, GoalsSent DEF Settled
  <2>3. g = sent /\ task \notin Sending
    BY <2>2 DEF PatientInv, OneAtATime
  <2>. QED  BY <2>1, <2>3 DEF Sending
<1>8. ASSUME NEW g \in Goals, Feedback(g) PROVE HandleIsLast'
  BY <1>8 DEF Feedback, feedbackCallback
<1>9. ASSUME NEW g \in Goals, Result(g) PROVE HandleIsLast'
  <2>1. UNCHANGED <<task, sent>> /\ current_goal' \in {current_goal, NoGoal}
    BY <1>9 DEF Result, resultCallback, resultCallback_index, resultCallback_succeeded,
                resultCallback_reset, resultCallback_paused, forgetGoal
  <2>. QED  BY <2>1
<1>. QED
  BY <1>1, <1>2, <1>3, <1>4, <1>5, <1>6, <1>7, <1>8, <1>9 DEF SystemNext

-----------------------------------------------------------------------------
(* The theorems, first whatever the operator does. *)

\* Requests in any order, answers, feedback and results after any delay: what the client
\* keeps about its goals agrees with the server.
THEOREM SystemInductive == SystemSpec => []SysInv
  BY SystemInductiveInit, SystemInductiveStep, PTL DEF SystemSpec

\* Every value of the runner and of its server has its type: no index is below -1, and a
\* feedback index never runs ahead of the server.
THEOREM SystemTypeCorrect == SystemSpec => []SystemTypeOK
<1>1. SysInv => SystemTypeOK
  BY DEF SysInv
<1>. QED  BY <1>1, SystemInductive, PTL

\* PAUSE makes async_cancel_goal throw only for a goal that succeeded or whose result the
\* server forgot, however PAUSE and the result callback interleave.
THEOREM ThrowsLate == SystemSpec => []PauseThrowsLate
<1>1. SysInv => PauseThrowsLate
  BY DEF SysInv, CrashIsLate, HandleKnown, PauseThrowsLate
<1>. QED  BY <1>1, SystemInductive, PTL

-----------------------------------------------------------------------------
(* Then with an operator who asks for a scene or CONTINUE when no goal is under way. *)

\* The shared, unguarded indices then always describe the goal the callbacks use them for.
THEOREM PatientInductive == ASSUME Patient PROVE SystemSpec => []PatientInv
  BY PatientInit, PatientStep, SystemInductive, PTL DEF SystemSpec

\* Every pose up to paused_waypoint_ was processed in the scene that CONTINUE resumes.
THEOREM PausedIndexIsRight == ASSUME Patient PROVE SystemSpec => []PausedIsCompleted
<1>1. PatientInv => PausedIsCompleted
  BY DEF PatientInv
<1>. QED  BY <1>1, PatientInductive, PTL

\* No pose in front of a route that was sent is left out, however often the scene was paused,
\* continued, aborted or reloaded from a file that changed.
THEOREM NothingIsSkipped == ASSUME Patient PROVE SystemSpec => []ResumeSkipsNothing
<1>1. SysInv /\ PatientInv => ResumeSkipsNothing
  <2>. SUFFICES ASSUME SysInv, PatientInv, NEW g \in runGoals
                PROVE  0 .. route[g].base - 1 \subseteq visited
    BY DEF ResumeSkipsNothing
  <2>1. route[g].base \in Nat /\ progress[g] \in Nat
    BY GoalsSent
  <2>2. 0 .. route[g].base + progress[g] - 1 \subseteq visited
    BY DEF PatientInv, PosesProcessed
  <2>. QED  BY <2>1, <2>2
<1>. QED  BY <1>1, PatientInductive, SystemInductive, PTL

\* When the runner says Idle or Paused and owes no answer, no goal of it is alive.
THEOREM StoppedIsStopped == ASSUME Patient PROVE SystemSpec => []StoppedMeansStopped
<1>1. SysInv /\ PatientInv => StoppedMeansStopped
  <2>. SUFFICES ASSUME SysInv, PatientInv, state \in {"Idle", "Paused"},
                       \A g \in 1 .. sent : ~Unanswered(g),
                       NEW g \in Goals, status[g] \in Live
                PROVE  FALSE
    BY DEF StoppedMeansStopped
  <2>1. client[g] \in ClientSteps /\ (client[g] # "none" => g \in 1 .. sent)
    BY GoalsSent DEF SysInv, SystemTypeOK, RunnerTypeOK
  <2>2. client[g] \in {"requested", "accepting", "accepted"}
    BY <2>1 DEF ClientSteps, SysInv, ClientBehind, Answered, Ending, Live, Terminal
  <2>3. client[g] = "accepted"
    BY <2>1, <2>2 DEF Unanswered
  <2>. QED  BY <2>3 DEF PatientInv, AcceptedMeansRunning
<1>. QED  BY <1>1, PatientInductive, SystemInductive, PTL

\* When a PAUSE that raced the end of a route ends the node, no goal is alive that nobody could
\* stop any more: the handle it threw for is that of the goal sent last.
THEOREM ThrowsStanding == ASSUME Patient PROVE SystemSpec => []PauseThrowsStanding
<1>1. SystemInit => HandleIsLast
  BY DEF SystemInit, RunnerInit, HandleIsLast
<1>2. SystemSpec => []HandleIsLast
  BY <1>1, HandleStep, SystemInductive, PatientInductive, PTL DEF SystemSpec
<1>3. SysInv /\ PatientInv /\ HandleIsLast => PauseThrowsStanding
  <2>. SUFFICES ASSUME SysInv, PatientInv, HandleIsLast, crashed, NEW g \in Goals,
                       status[g] \in Live
                PROVE  FALSE
    BY DEF PauseThrowsStanding
  <2>1. current_goal = sent /\ client[current_goal] = "done"
    BY DEF SysInv, CrashIsLate, HandleIsLast
  <2>2. client[g] # "none"
    BY DEF SysInv, ClientBehind, Live
  <2>3. g \in 1 .. sent
    BY <2>2, GoalsSent
  <2>4. Settled(g)
    BY <2>1, <2>3 DEF PatientInv, OneAtATime, Settled
  <2>. QED  BY <2>4 DEF SysInv, ClientBehind, Settled, Answered, Ending, Live, Terminal
<1>. QED  BY <1>2, <1>3, PatientInductive, SystemInductive, PTL
=============================================================================
