--------------------------- MODULE GoalLifecycle ---------------------------
(***************************************************************************)
(* What an action server promises to its clients, without threads, locks   *)
(* or slots: every goal is refused or accepted once, an accepted goal      *)
(* waits until it is begun or finished, at most one goal is executed at a  *)
(* time, beginning a goal finishes the one that was being executed, and a  *)
(* finished goal stays finished.                                           *)
(*                                                                         *)
(* SimpleActionServer implements this specification; BtActionNode and      *)
(* WaypointSystem see the servers of their action clients at this level.   *)
(***************************************************************************)
CONSTANTS Goals,   \* the goals clients send, each identified by its UUID
          NoGoal   \* a null goal handle

VARIABLES status,     \* the rcl_action status of each goal
          executing,  \* the goal the server works on, or NoGoal
          waiting     \* accepted goals that are not begun yet

lifecycleVars == <<status, executing, waiting>>

Terminal == {"succeeded", "aborted", "canceled"}
Statuses == {"unsent", "rejected", "executing", "canceling"} \cup Terminal

\* rcl_action: succeed and abort are legal from EXECUTING and CANCELING, canceled
\* only from CANCELING.
MayEnd(from, to) ==
  \/ from \in {"executing", "canceling"} /\ to \in {"succeeded", "aborted"}
  \/ from = "canceling" /\ to = "canceled"

LifecycleInit ==
  /\ status = [g \in Goals |-> "unsent"]
  /\ executing = NoGoal
  /\ waiting = {}

Tracked == waiting \cup ({executing} \ {NoGoal})

Refuse(g) ==
  /\ status[g] = "unsent"
  /\ status' = [status EXCEPT ![g] = "rejected"]
  /\ UNCHANGED <<executing, waiting>>

Admit(g) ==
  /\ status[g] = "unsent"
  /\ status' = [status EXCEPT ![g] = "executing"]
  /\ waiting' = waiting \cup {g}
  /\ UNCHANGED executing

RequestCancel(g) ==
  /\ status[g] = "executing"
  /\ status' = [status EXCEPT ![g] = "canceling"]
  /\ UNCHANGED <<executing, waiting>>

\* The goals of S reach a terminal status, every other goal keeps its own.
Ends(S) ==
  /\ status' \in [Goals -> Statuses]
  /\ \A g \in Goals :
       IF g \in S THEN MayEnd(status[g], status'[g]) ELSE status'[g] = status[g]

Finish(S) ==
  /\ S # {}
  /\ Ends(S)
  /\ executing' = IF executing \in S THEN NoGoal ELSE executing
  /\ waiting' = waiting \ S

Begin(g, S) ==
  /\ g \in waiting \ S
  /\ executing \in S \cup {NoGoal}
  /\ Ends(S)
  /\ executing' = g
  /\ waiting' = waiting \ (S \cup {g})

LifecycleNext ==
  \/ \E g \in Goals : Refuse(g) \/ Admit(g) \/ RequestCancel(g)
  \/ \E S \in SUBSET Tracked : Finish(S)
  \/ \E g \in waiting, S \in SUBSET Tracked : Begin(g, S)

LifecycleSpec == LifecycleInit /\ [][LifecycleNext]_lifecycleVars
=============================================================================
