-------------------------- MODULE LifecycleManager --------------------------
(***************************************************************************)
(* The lifecycle manager: it brings the servers of the navigation stack up *)
(* and down in order, watches each of them through a bond and, when a bond *)
(* breaks, resets them all and starts them again once they are back.       *)
(*                                                                         *)
(* Services and timers share one callback group on one thread, so an       *)
(* operation runs to its end before the next callback; it is cut after     *)
(* every server, because servers crash, come back and lose heartbeats      *)
(* meanwhile.  change_state and the get_state behind it are one step: a    *)
(* crash between them has the same outcome as a crash before them.         *)
(*                                                                         *)
(* External: the state machine of a server (rclcpp_lifecycle), the bond    *)
(* library, and whoever respawns a server.  Servers are numbered in the    *)
(* order of node_names_.                                                   *)
(***************************************************************************)
EXTENDS Naturals

CONSTANTS
  N,                            \* number of managed servers
  UseBonds,                     \* bond_timeout_ > 0
  attempt_respawn_reconnection, \* attempt_respawn_reconnection_
  MaxAttempts,                  \* respawn checks within bond_respawn_max_duration_
  MaxFaults,                    \* bound on crashes, failed transitions, late answers and lost heartbeats
  MaxCommands                   \* bound on requests to manage_nodes

ASSUME LifecycleAssumption ==
  /\ N \in Nat \ {0}
  /\ UseBonds \in BOOLEAN /\ attempt_respawn_reconnection \in BOOLEAN
  /\ MaxAttempts \in Nat \ {0} /\ MaxFaults \in Nat /\ MaxCommands \in Nat

Nodes == 1 .. N
States == {"unconfigured", "inactive", "active", "finalized", "gone"}
Bonds == {"none", "waiting", "alive", "lost", "broken"}
Commands == {"startup", "shutdown", "reset", "pause", "resume"}
Operations == Commands \cup {"hard_reset"}
Transitions == {"configure", "cleanup", "activate", "deactivate", "shutdown"}

VARIABLES
  state,          \* primary state of each server; "gone" when its process is
  bond,           \* bond_map_: "none" when there is no entry
  process,        \* the manager: up, waiting for ever, dead or shut down
  op,             \* the operation under way
  transition,     \* the transition it asks for now
  pos,            \* the server it asks
  system_active,  \* system_active_
  bond_timer,     \* bond_timer_ exists
  respawn_timer,  \* bond_respawn_timer_ exists
  attempts,       \* respawn checks since bond_respawn_start_time_
  clients,        \* node_map_ holds clients
  faults, commands,
  crashed         \* servers that crashed since their last activation

managerVars == <<process, op, transition, pos, system_active, bond_timer, respawn_timer, attempts, clients>>
vars == <<state, bond, managerVars, faults, commands, crashed>>
-----------------------------------------------------------------------------
(* transition_state_map_ *)
transition_state_map ==
  [configure |-> "inactive", cleanup |-> "unconfigured", activate |-> "active",
   deactivate |-> "inactive", shutdown |-> "finalized"]

(* External: the state in which a server takes a transition; it refuses it elsewhere. *)
from_state ==
  [configure |-> "unconfigured", cleanup |-> "inactive", activate |-> "inactive",
   deactivate |-> "active", shutdown |-> "unconfigured"]

(* Mutant: every transition in the order of bring-up. *)
Forward_always(t) == TRUE

(* changeStateForAllNodes goes through node_names_ forward or in reverse. *)
Forward(t) == t \in {"configure", "activate"}
FirstNode(t) == IF Forward(t) THEN 1 ELSE N

LastNode(t) == IF Forward(t) THEN N ELSE 1
NextNode(t, n) == IF Forward(t) THEN n + 1 ELSE n - 1

(* The transitions of startup, shutdownAllNodes, reset, pause and resume, in their order. *)
FirstTransition(o) ==
  CASE o = "startup" -> "configure"
    [] o = "resume" -> "activate"
    [] OTHER -> "deactivate"

NextTransition(o, t) ==
  CASE o = "startup" /\ t = "configure" -> "activate"
    [] o \in {"shutdown", "reset", "hard_reset"} /\ t = "deactivate" -> "cleanup"
    [] o = "shutdown" /\ t = "cleanup" -> "shutdown"
    [] OTHER -> "none"
-----------------------------------------------------------------------------
(* createBondConnection: an entry that exists is kept, whatever its bond is worth. *)
createBondConnection(n) ==
  IF bond[n] = "none" /\ UseBonds
    THEN {[bond |-> "alive", result |-> "true", fault |-> 0], [bond |-> "waiting", result |-> "false", fault |-> 1]}
    ELSE {[bond |-> bond[n], result |-> "true", fault |-> 0]}

(* changeStateForNode, when the server answers: change_state is true for any answer, so a
   refused transition passes if the server is in the target state already. *)
answered(n, t) ==
  LET s == IF state[n] = from_state[t] THEN transition_state_map[t] ELSE state[n]
      outcome(b, result, fault) == [state |-> s, bond |-> b, result |-> result, fault |-> fault]
  IN IF s # transition_state_map[t] THEN {outcome(bond[n], "false", 0)}
     ELSE IF t = "activate"
            THEN {outcome(c.bond, c.result, c.fault) : c \in createBondConnection(n)}
     ELSE {outcome(IF t = "deactivate" THEN "none" ELSE bond[n], "true", 0)}

(* The server's own callback returns FAILURE, or throws and on_error makes it unconfigured. *)
refused(n, t) ==
  IF t \in {"configure", "activate"} /\ state[n] = from_state[t]
    THEN {[state |-> s, bond |-> bond[n], result |-> "false", fault |-> 1] : s \in {state[n], "unconfigured"}}
    ELSE {}

(* The server dies in its callback: invoke waits for the answer without a timeout. *)
unanswered(n, t) ==
  IF state[n] = from_state[t]
    THEN {[state |-> "gone", bond |-> IF bond[n] = "alive" THEN "lost" ELSE bond[n], result |-> "never", fault |-> 1]}
    ELSE {}

(* A live server is late: its change_state service is not found within five seconds, or its
   get_state within two, and the client throws; the transition may have happened.  A server
   that was deactivated has ended its bond. *)
late(n, t) ==
  {[state |-> s, bond |-> IF bond[n] = "alive" /\ s # "active" THEN "lost" ELSE bond[n], result |-> "throw", fault |-> 1] :
     s \in {state[n]} \cup {o.state : o \in answered(n, t) \cup refused(n, t)}}

(* No service within five seconds: change_state throws. *)
unavailable(n) == {[state |-> "gone", bond |-> bond[n], result |-> "throw", fault |-> 0]}

changeStateForNode(n, t) ==
  IF state[n] = "gone" THEN unavailable(n)
  ELSE answered(n, t) \cup refused(n, t) \cup unanswered(n, t) \cup late(n, t)
-----------------------------------------------------------------------------
LifecycleInit ==
  /\ state = [n \in Nodes |-> "unconfigured"]
  /\ bond = [n \in Nodes |-> "none"]
  /\ process = "up" /\ op = "idle" /\ transition = "none" /\ pos = 0
  /\ system_active = FALSE /\ bond_timer = FALSE /\ respawn_timer = FALSE
  /\ attempts = 0 /\ clients = TRUE
  /\ faults = 0 /\ commands = 0 /\ crashed = {}

(* Mutant: pause leaves system_active_ alone. *)
Begin_pause_active(o) ==
  /\ op' = o
  /\ transition' = FirstTransition(o)
  /\ pos' = FirstNode(FirstTransition(o))
  /\ system_active' = (system_active /\ o \in {"startup", "resume", "pause"})
  /\ bond_timer' = (bond_timer /\ o \in {"startup", "resume", "pause"})

(* The start of an operation; those that take servers down clear system_active_ and destroy
   the bond timer first. *)
Begin(o) ==
  /\ op' = o
  /\ transition' = FirstTransition(o)
  /\ pos' = FirstNode(FirstTransition(o))
  /\ system_active' = (system_active /\ o \in {"startup", "resume"})
  /\ bond_timer' = (bond_timer /\ o \in {"startup", "resume"})

idle == process = "up" /\ op = "idle"

(* A request to manage_nodes; with autostart the first one is the manager's own. *)
managerCallback(command) ==
  /\ idle /\ commands < MaxCommands
  /\ commands' = commands + 1
  /\ Begin(command)
  /\ UNCHANGED <<state, bond, process, respawn_timer, attempts, clients, faults, crashed>>

(* A null pointer is dereferenced. *)
Dies ==
  /\ process' = "dead" /\ op' = "idle" /\ transition' = "none" /\ pos' = 0
  /\ UNCHANGED <<state, bond, system_active, bond_timer, respawn_timer, attempts, clients, faults, commands, crashed>>

(* Mutant: resume creates no bond timer. *)
Finish_resume_unwatched(ok, b) ==
  LET up == ok /\ op \in {"startup", "resume"}
  IN /\ op' = "idle" /\ transition' = "none" /\ pos' = 0
     /\ system_active' = (system_active \/ up)
     /\ bond_timer' = (bond_timer \/ (up /\ UseBonds /\ op = "startup"))
     /\ clients' = (op # "shutdown")
     /\ bond' = IF op = "hard_reset" THEN [n \in Nodes |-> "none"] ELSE b
     /\ respawn_timer' = (respawn_timer \/ (op = "hard_reset" /\ attempt_respawn_reconnection))

(* The end of an operation: what startup and resume, shutdown and checkBondConnections do
   after their transitions; b is the bond map left by the last of them. *)
Finish(ok, b) ==
  LET up == ok /\ op \in {"startup", "resume"}
  IN /\ op' = "idle" /\ transition' = "none" /\ pos' = 0
     /\ system_active' = (system_active \/ up)
     /\ bond_timer' = (bond_timer \/ (up /\ UseBonds))
     /\ clients' = (op # "shutdown")
     /\ bond' = IF op = "hard_reset" THEN [n \in Nodes |-> "none"] ELSE b
     /\ respawn_timer' = (respawn_timer \/ (op = "hard_reset" /\ attempt_respawn_reconnection))

(* Mutant: the hard reset stops at a server that refuses its transition, like the others. *)
goes_on_never(result) == result = "true"

(* changeStateForAllNodes goes on after a refusal in a hard change, never after an exception. *)
goes_on(result) == result = "true" \/ (result = "false" /\ op = "hard_reset")

(* One server of changeStateForAllNodes, and what follows from its outcome. *)
changeState ==
  /\ process = "up" /\ op # "idle" /\ clients
  /\ \E o \in changeStateForNode(pos, transition) :
       LET b == [bond EXCEPT ![pos] = o.bond]
           ok == goes_on(o.result)
       IN /\ faults + o.fault <= MaxFaults
          /\ faults' = faults + o.fault
          /\ state' = [state EXCEPT ![pos] = o.state]
          /\ crashed' = IF o.state = "active" THEN crashed \ {pos} ELSE crashed
          /\ process' = IF o.result = "never" THEN "waiting" ELSE "up"
          /\ IF o.result = "never"
               THEN bond' = b /\ UNCHANGED <<op, transition, pos, system_active, bond_timer, respawn_timer, clients>>
             ELSE IF ok /\ pos # LastNode(transition)
               THEN /\ bond' = b /\ pos' = NextNode(transition, pos)
                    /\ UNCHANGED <<op, transition, system_active, bond_timer, respawn_timer, clients>>
             ELSE IF NextTransition(op, transition) # "none" /\ (ok \/ op = "shutdown")
               THEN /\ bond' = b
                    /\ transition' = NextTransition(op, transition)
                    /\ pos' = FirstNode(NextTransition(op, transition))
                    /\ UNCHANGED <<op, system_active, bond_timer, respawn_timer, clients>>
             ELSE Finish(ok, b)
  /\ UNCHANGED <<attempts, commands>>

(* After shutdown the clients are gone, and every other request dereferences one. *)
changeState_null == process = "up" /\ op # "idle" /\ ~clients /\ Dies

(* checkBondConnections looks the servers up in order, to the first broken bond; a server
   without a bond would be a null pointer. *)
checkBondConnections ==
  /\ idle /\ bond_timer /\ system_active
  /\ \E n \in Nodes : bond[n] # "none"
  /\ \E n \in Nodes :
       /\ bond[n] \in {"none", "broken"}
       /\ \A m \in 1 .. n - 1 : bond[m] \notin {"none", "broken"}
       /\ IF bond[n] = "none"
            THEN Dies
            ELSE /\ Begin("hard_reset")
                 /\ UNCHANGED <<state, bond, process, respawn_timer, attempts, clients, faults, commands, crashed>>

(* checkBondRespawnConnection, once a second after a hard reset. *)
respawn_superseded ==
  /\ idle /\ respawn_timer /\ system_active
  /\ respawn_timer' = FALSE /\ attempts' = 0
  /\ UNCHANGED <<state, bond, process, op, transition, pos, system_active, bond_timer, clients, faults, commands, crashed>>

(* Mutant: only active servers count as live. *)
respawn_startup_active ==
  /\ idle /\ respawn_timer /\ ~system_active /\ clients
  /\ \A n \in Nodes : state[n] = "active"
  /\ respawn_timer' = FALSE /\ attempts' = 0
  /\ Begin("startup")
  /\ UNCHANGED <<state, bond, process, clients, faults, commands, crashed>>

respawn_startup ==
  /\ idle /\ respawn_timer /\ ~system_active /\ clients
  /\ \A n \in Nodes : state[n] # "gone"
  /\ respawn_timer' = FALSE /\ attempts' = 0
  /\ Begin("startup")
  /\ UNCHANGED <<state, bond, process, clients, faults, commands, crashed>>

(* A server is gone, or does not answer get_state within two seconds. *)
respawn_incomplete ==
  /\ idle /\ respawn_timer /\ ~system_active /\ clients
  /\ \/ (\E n \in Nodes : state[n] = "gone") /\ UNCHANGED faults
     \/ faults < MaxFaults /\ faults' = faults + 1
  /\ IF attempts + 1 >= MaxAttempts
       THEN respawn_timer' = FALSE /\ attempts' = 0
       ELSE attempts' = attempts + 1 /\ UNCHANGED respawn_timer
  /\ UNCHANGED <<state, bond, process, op, transition, pos, system_active, bond_timer, clients, commands, crashed>>

respawn_null == idle /\ respawn_timer /\ ~system_active /\ ~clients /\ Dies

(* onRclPreshutdown: it joins the service thread, so an operation ends first. *)
onRclPreshutdown ==
  /\ idle
  /\ process' = "down"
  /\ bond_timer' = FALSE /\ clients' = FALSE
  /\ bond' = [n \in Nodes |-> "none"]
  /\ UNCHANGED <<state, op, transition, pos, system_active, respawn_timer, attempts, faults, commands, crashed>>
-----------------------------------------------------------------------------
(* External: a server dies; its heartbeats end. *)
Crash(n) ==
  /\ state[n] # "gone" /\ faults < MaxFaults
  /\ state' = [state EXCEPT ![n] = "gone"]
  /\ bond' = [bond EXCEPT ![n] = IF @ = "alive" THEN "lost" ELSE @]
  /\ faults' = faults + 1
  /\ crashed' = crashed \cup {n}
  /\ UNCHANGED <<managerVars, commands>>

(* External: it is started again. *)
Respawn(n) ==
  /\ state[n] = "gone"
  /\ state' = [state EXCEPT ![n] = "unconfigured"]
  /\ UNCHANGED <<bond, managerVars, faults, commands, crashed>>

(* External: a live server misses its heartbeats, or breaks its bond. *)
HeartbeatsLost(n) ==
  /\ bond[n] = "alive" /\ faults < MaxFaults
  /\ bond' = [bond EXCEPT ![n] = "lost"]
  /\ faults' = faults + 1
  /\ UNCHANGED <<state, managerVars, commands, crashed>>

(* External: a bond that was late to form forms; one without heartbeats, or that was never
   answered, breaks after its timeout. *)
BondForms(n) ==
  /\ bond[n] = "waiting" /\ state[n] = "active"
  /\ bond' = [bond EXCEPT ![n] = "alive"]
  /\ UNCHANGED <<state, managerVars, faults, commands, crashed>>

BondBreaks(n) ==
  /\ bond[n] \in {"lost", "waiting"}
  /\ bond' = [bond EXCEPT ![n] = "broken"]
  /\ UNCHANGED <<state, managerVars, faults, commands, crashed>>

LifecycleNext ==
  \/ \E c \in Commands : managerCallback(c)
  \/ changeState
  \/ changeState_null
  \/ checkBondConnections
  \/ respawn_superseded
  \/ respawn_startup
  \/ respawn_incomplete
  \/ respawn_null
  \/ onRclPreshutdown
  \/ \E n \in Nodes : Crash(n) \/ Respawn(n) \/ HeartbeatsLost(n) \/ BondForms(n) \/ BondBreaks(n)

LifecycleSpec == LifecycleInit /\ [][LifecycleNext]_vars

(* The service thread runs: its timers fire and its operations go on.  Bonds time out. *)
LifecycleFairness ==
  /\ WF_vars(changeState)
  /\ WF_vars(checkBondConnections)
  /\ WF_vars(respawn_superseded \/ respawn_startup \/ respawn_incomplete)
  /\ \A n \in Nodes : WF_vars(BondBreaks(n))

FairLifecycleSpec == LifecycleSpec /\ LifecycleFairness
-----------------------------------------------------------------------------
(* Every variable has its type. *)
LifecycleTypeOK ==
  /\ state \in [Nodes -> States] /\ bond \in [Nodes -> Bonds]
  /\ process \in {"up", "waiting", "dead", "down"}
  /\ op \in Operations \cup {"idle"}
  /\ IF op = "idle" THEN transition = "none" /\ pos = 0 ELSE transition \in Transitions /\ pos \in Nodes
  /\ system_active \in BOOLEAN /\ bond_timer \in BOOLEAN /\ respawn_timer \in BOOLEAN /\ clients \in BOOLEAN
  /\ attempts \in 0 .. MaxAttempts - 1
  /\ faults \in 0 .. MaxFaults /\ commands \in 0 .. MaxCommands
  /\ crashed \subseteq Nodes

(* A system that is reported active is watched: the timer that checks the bonds runs, every
   server has a bond, and a server that is not active any more has one that breaks. *)
ActiveIsWatched ==
  system_active /\ UseBonds /\ process = "up" =>
    /\ bond_timer
    /\ \A n \in Nodes : bond[n] # "none" /\ (state[n] = "active" \/ bond[n] # "alive")

(* "The names of the nodes to be managed, in the order of desired bring-up": a server is never
   active without the servers listed before it, unless one of those crashed since it was
   active; also in the middle of an operation, and after operations that failed half way. *)
DependenciesUp ==
  \A n \in Nodes : \A m \in 1 .. n - 1 : state[n] = "active" => state[m] = "active" \/ m \in crashed

(* The manager dereferences no null pointer unless it was asked to shut its servers down:
   checkBondConnections finds a bond for every server, whatever failed before. *)
OnlyShutdownKills == process = "dead" => ~clients

(* "Hard change will continue even if a node fails": the reset after a broken bond goes on
   through every server that answers.  Servers are left active only where it ended at one that
   is gone or did not answer in time, and only that one and those listed before it. *)
HardResetStopsAtSilent ==
  [][op = "hard_reset" /\ op' = "idle" =>
       \A n \in Nodes : state'[n] = "active" =>
         n <= pos /\ (state[pos] = "gone" \/ faults' > faults)]_vars

(* "If one is down, bring them all down": after the hard reset no server is active. *)
HardResetBringsDown ==
  [][op = "hard_reset" /\ op' = "idle" => \A n \in Nodes : state'[n] # "active"]_vars

(* The hard reset finds every server there, and neither faults nor requests come any more. *)
ResetMeetsAll ==
  /\ op = "hard_reset" /\ process = "up" /\ attempt_respawn_reconnection
  /\ \A n \in Nodes : state[n] # "gone"
  /\ faults = MaxFaults /\ commands = MaxCommands

(* "Will bring back the system if something goes from non-responsive to responsive": a hard
   reset that finds every server there ends with the system active again. *)
ComesBack == ResetMeetsAll ~> system_active \/ process # "up"
=============================================================================
