----------------------- MODULE LifecycleManager_proofs -----------------------
(***************************************************************************)
(* Proofs about the lifecycle manager for any number of servers, faults    *)
(* and requests, with and without bonds and respawn.                       *)
(***************************************************************************)
EXTENDS LifecycleManager, TLAPS

\* The transitions each operation asks for.
OperationAsks ==
  /\ op = "startup" => transition \in {"configure", "activate"}
  /\ op = "resume" => transition = "activate"
  /\ op = "pause" => transition = "deactivate"
  /\ op \in {"reset", "hard_reset"} => transition \in {"deactivate", "cleanup"}
  /\ op = "shutdown" => transition \in {"deactivate", "cleanup", "shutdown"}

\* An operation that takes servers down has cleared system_active_ first.
DownMeansInactive == op \in {"shutdown", "reset", "pause", "hard_reset"} => ~system_active

\* A bond is alive only while its server is active.
AliveIsActive == \A n \in Nodes : bond[n] = "alive" => state[n] = "active"

\* Without clients there is nothing left to watch or to reset.
NoClientsNoSystem == process = "up" /\ ~clients => ~system_active /\ op # "hard_reset"

TimerNeedsBonds == bond_timer => UseBonds

\* What an activation has behind it, and a deactivation.
ActivatesInOrder ==
  transition = "activate" =>
    \A m \in 1 .. pos - 1 : /\ state[m] = "active" \/ m \in crashed
                            /\ UseBonds => bond[m] # "none"

DeactivatesInReverse ==
  transition = "deactivate" => \A n \in pos + 1 .. N : state[n] # "active"

CleanupAfterAll ==
  op = "hard_reset" /\ transition = "cleanup" => \A n \in Nodes : state[n] # "active"

LInv ==
  /\ LifecycleTypeOK
  /\ OperationAsks
  /\ DownMeansInactive
  /\ AliveIsActive
  /\ NoClientsNoSystem
  /\ TimerNeedsBonds
  /\ ActivatesInOrder
  /\ DeactivatesInReverse
  /\ CleanupAfterAll
  /\ ActiveIsWatched
  /\ DependenciesUp
  /\ OnlyShutdownKills

-----------------------------------------------------------------------------
\* What changeStateForNode may make of a server, its bond and the operation.
Outcome(n, t, o) ==
  /\ o.state \in States /\ o.bond \in Bonds
  /\ o.result \in {"true", "false", "never", "throw"} /\ o.fault \in {0, 1}
  /\ o.bond = "alive" => o.state = "active"
  /\ o.state = "active" => state[n] = "active" \/ t = "activate"
  /\ o.state = "active" /\ t = "deactivate" => o.result = "throw"
  /\ state[n] = "active" /\ o.state # "active" => t = "deactivate"
  /\ t = "activate" /\ o.result = "true" => o.state = "active" /\ (UseBonds => o.bond # "none")
  /\ t # "deactivate" /\ bond[n] # "none" => o.bond # "none"
  /\ o.result = "throw" => state[n] = "gone" \/ o.fault = 1

LEMMA Outcomes ==
  ASSUME LifecycleTypeOK, AliveIsActive, NEW n \in Nodes, NEW t \in Transitions,
         NEW o \in changeStateForNode(n, t)
  PROVE  Outcome(n, t, o)
<1>. USE DEF Outcome, States, Bonds, LifecycleTypeOK, AliveIsActive
<1>0. /\ from_state[t] \in States /\ transition_state_map[t] \in States
      /\ from_state[t] = "active" <=> t = "deactivate"
      /\ transition_state_map[t] = "active" <=> t = "activate"
      /\ from_state[t] # "gone" /\ transition_state_map[t] # "gone"
  BY DEF Transitions, from_state, transition_state_map
<1>1. CASE state[n] = "gone"
  BY <1>1 DEF changeStateForNode, unavailable
<1>2. CASE o \in answered(n, t)
  <2>. DEFINE s == IF state[n] = from_state[t] THEN transition_state_map[t] ELSE state[n]
  <2>1. CASE s # transition_state_map[t]
    BY <1>0, <1>2, <2>1 DEF answered
  <2>2. CASE s = transition_state_map[t] /\ t = "activate"
    <3>1. PICK c \in createBondConnection(n) :
            o = [state |-> s, bond |-> c.bond, result |-> c.result, fault |-> c.fault]
      BY <1>2, <2>2 DEF answered
    <3>2. /\ c.bond \in Bonds /\ c.result \in {"true", "false"} /\ c.fault \in {0, 1}
          /\ UseBonds /\ c.result = "true" => c.bond # "none"
          /\ bond[n] # "none" => c.bond # "none"
      BY <3>1 DEF createBondConnection
    <3>. QED  BY <1>0, <2>2, <3>1, <3>2
  <2>3. CASE s = transition_state_map[t] /\ t # "activate"
    BY <1>0, <1>2, <2>3 DEF answered
  <2>. QED  BY <2>1, <2>2, <2>3
<1>3. CASE o \in refused(n, t)
  BY <1>0, <1>3 DEF refused
<1>4. CASE o \in unanswered(n, t)
  BY <1>0, <1>4 DEF unanswered
<1>5. CASE o \in late(n, t)
  <2>1. PICK s \in {state[n]} \cup {a.state : a \in answered(n, t) \cup refused(n, t)} :
          o = [state |-> s, bond |-> IF bond[n] = "alive" /\ s # "active" THEN "lost" ELSE bond[n],
               result |-> "throw", fault |-> 1]
    BY <1>5 DEF late
  <2>2. s \in {state[n], transition_state_map[t], "unconfigured"}
    BY <2>1 DEF answered, refused
  <2>3. s = "active" => state[n] = "active" \/ t = "activate"
    BY <1>0, <2>2
  <2>4. state[n] = "active" /\ s # "active" => t = "deactivate"
    <3>1. CASE s = state[n]
      BY <3>1
    <3>2. ASSUME NEW a \in answered(n, t), s = a.state PROVE s = state[n] \/ state[n] = from_state[t]
      BY <3>2 DEF answered
    <3>3. ASSUME NEW a \in refused(n, t), s = a.state PROVE state[n] = from_state[t]
      BY <3>3 DEF refused
    <3>. QED  BY <1>0, <2>1, <3>1, <3>2, <3>3
  <2>5. s \in States
    BY <1>0, <2>2
  <2>. QED  BY <2>1, <2>3, <2>4, <2>5
<1>. QED  BY <1>1, <1>2, <1>3, <1>4, <1>5 DEF changeStateForNode

-----------------------------------------------------------------------------
LEMMA LifecycleInductiveInit == LifecycleInit => LInv
<1>. SUFFICES ASSUME LifecycleInit PROVE LInv
  OBVIOUS
<1>. USE LifecycleAssumption DEF LifecycleInit
<1>1. LifecycleTypeOK
  <2>1. state \in [Nodes -> States] /\ bond \in [Nodes -> Bonds]
    BY DEF States, Bonds
  <2>2. attempts \in 0 .. MaxAttempts - 1 /\ faults \in 0 .. MaxFaults
        /\ commands \in 0 .. MaxCommands
    OBVIOUS
  <2>. QED  BY <2>1, <2>2 DEF LifecycleTypeOK
<1>2. AliveIsActive /\ DependenciesUp /\ ActiveIsWatched
  <2>1. \A n \in Nodes : state[n] = "unconfigured" /\ bond[n] = "none"
    OBVIOUS
  <2>. QED  BY <2>1 DEF AliveIsActive, DependenciesUp, ActiveIsWatched
<1>. QED
  BY <1>1, <1>2
     DEF LInv, OperationAsks, DownMeansInactive, NoClientsNoSystem, TimerNeedsBonds,
         ActivatesInOrder, DeactivatesInReverse, CleanupAfterAll, OnlyShutdownKills

\* The servers and their bonds, while the manager stands still.
LEMMA EnvironmentKeeps ==
  ASSUME LInv, NEW n \in Nodes,
         Crash(n) \/ Respawn(n) \/ HeartbeatsLost(n) \/ BondForms(n) \/ BondBreaks(n)
  PROVE  LInv'
<1>. USE LifecycleAssumption
<1>1. /\ UNCHANGED managerVars /\ commands' = commands
      /\ state' \in [Nodes -> States] /\ bond' \in [Nodes -> Bonds]
      /\ faults' \in 0 .. MaxFaults
      /\ crashed \subseteq crashed' /\ crashed' \subseteq Nodes
  BY DEF Crash, Respawn, HeartbeatsLost, BondForms, BondBreaks, LInv, LifecycleTypeOK,
         States, Bonds
<1>2. \A m \in Nodes :
        /\ state'[m] = "active" => state[m] = "active"
        /\ state'[m] # "active" => state[m] # "active" \/ m \in crashed'
        /\ bond'[m] = "none" <=> bond[m] = "none"
        /\ bond'[m] = "alive" => state'[m] = "active"
  BY DEF Crash, Respawn, HeartbeatsLost, BondForms, BondBreaks, LInv, LifecycleTypeOK,
         States, Bonds, AliveIsActive
<1>. USE <1>1, <1>2 DEF managerVars, LInv
<1>3. LifecycleTypeOK'
  BY DEF LifecycleTypeOK
<1>4. OperationAsks' /\ DownMeansInactive' /\ NoClientsNoSystem' /\ TimerNeedsBonds'
      /\ OnlyShutdownKills'
  BY DEF OperationAsks, DownMeansInactive, NoClientsNoSystem, TimerNeedsBonds,
         OnlyShutdownKills
<1>5. AliveIsActive' /\ ActiveIsWatched'
  BY DEF AliveIsActive, ActiveIsWatched
<1>6. \A m \in 1 .. pos - 1 : pos \in Nodes => m \in Nodes
  BY DEF Nodes
<1>7. \A m \in pos + 1 .. N : pos \in Nodes => m \in Nodes
  BY DEF Nodes
<1>8. transition \in {"activate", "deactivate"} => pos \in Nodes
  BY DEF LifecycleTypeOK
<1>9. ActivatesInOrder' /\ DeactivatesInReverse' /\ CleanupAfterAll'
  BY <1>6, <1>7, <1>8 DEF ActivatesInOrder, DeactivatesInReverse, CleanupAfterAll
<1>10. DependenciesUp'
  <2>1. \A k \in Nodes : \A m \in 1 .. k - 1 : m \in Nodes
    BY DEF Nodes
  <2>. QED  BY <2>1 DEF DependenciesUp
<1>. QED  BY <1>3, <1>4, <1>5, <1>9, <1>10

\* The beginning of an operation changes neither servers nor bonds.
LEMMA BeginKeeps ==
  ASSUME LInv, NEW o \in Operations, Begin(o), idle, clients \/ ~system_active,
         o = "hard_reset" => clients,
         UNCHANGED <<state, bond, process, clients, faults, crashed>>,
         commands' \in 0 .. MaxCommands, attempts' \in 0 .. MaxAttempts - 1,
         respawn_timer' \in BOOLEAN
  PROVE  LInv'
<1>. USE LifecycleAssumption DEF LInv, Begin, idle
<1>1. FirstTransition(o) \in Transitions /\ FirstNode(FirstTransition(o)) \in Nodes
  BY DEF FirstTransition, FirstNode, Transitions, Nodes
<1>2. LifecycleTypeOK'
  BY <1>1 DEF LifecycleTypeOK, Operations, Commands
<1>3. OperationAsks'
  BY DEF OperationAsks, FirstTransition, Operations, Commands
<1>4. DownMeansInactive' /\ NoClientsNoSystem' /\ OnlyShutdownKills' /\ TimerNeedsBonds'
  BY DEF DownMeansInactive, NoClientsNoSystem, OnlyShutdownKills, TimerNeedsBonds,
         Operations, Commands
<1>5. AliveIsActive' /\ DependenciesUp' /\ ActiveIsWatched'
  BY DEF AliveIsActive, DependenciesUp, ActiveIsWatched
<1>6. ActivatesInOrder' /\ DeactivatesInReverse' /\ CleanupAfterAll'
  BY DEF ActivatesInOrder, DeactivatesInReverse, CleanupAfterAll, FirstTransition,
         FirstNode, Forward, Operations, Commands
<1>. QED  BY <1>2, <1>3, <1>4, <1>5, <1>6

LEMMA DiesKeeps == ASSUME LInv, Dies, ~clients PROVE LInv'
<1>. USE DEF LInv, Dies
<1>1. LifecycleTypeOK'
  BY DEF LifecycleTypeOK
<1>2. AliveIsActive' /\ DependenciesUp' /\ ActiveIsWatched'
  BY DEF AliveIsActive, DependenciesUp, ActiveIsWatched
<1>. QED
  BY <1>1, <1>2 DEF OperationAsks, DownMeansInactive, NoClientsNoSystem, TimerNeedsBonds,
     ActivatesInOrder, DeactivatesInReverse, CleanupAfterAll, OnlyShutdownKills

\* The callbacks between operations.
LEMMA IdleStepKeeps ==
  ASSUME LInv,
         \/ \E c \in Commands : managerCallback(c)
         \/ checkBondConnections \/ respawn_superseded \/ respawn_startup
         \/ respawn_incomplete \/ respawn_null \/ onRclPreshutdown
  PROVE  LInv'
<1>. USE LifecycleAssumption
<1>0. /\ LifecycleTypeOK
      /\ process = "up" /\ ~clients => ~system_active
  BY DEF LInv, NoClientsNoSystem
<1>1. ASSUME NEW c \in Commands, managerCallback(c) PROVE LInv'
  <2>1. commands' \in 0 .. MaxCommands
    BY <1>0, <1>1 DEF managerCallback, LifecycleTypeOK
  <2>. QED
    BY <1>0, <1>1, <2>1, BeginKeeps
       DEF managerCallback, idle, LifecycleTypeOK, Operations, Commands
<1>2. CASE checkBondConnections
  <2>1. PICK n \in Nodes :
          /\ bond[n] \in {"none", "broken"}
          /\ IF bond[n] = "none"
               THEN Dies
               ELSE /\ Begin("hard_reset")
                    /\ UNCHANGED <<state, bond, process, respawn_timer, attempts, clients,
                                   faults, commands, crashed>>
    BY <1>2 DEF checkBondConnections
  <2>2. bond[n] # "none"
    BY <1>2 DEF checkBondConnections, idle, LInv, TimerNeedsBonds, ActiveIsWatched
  <2>3. "hard_reset" \in Operations
    BY DEF Operations
  <2>. QED
    BY <1>0, <1>2, <2>1, <2>2, <2>3, BeginKeeps
       DEF checkBondConnections, idle, LifecycleTypeOK
<1>3. CASE respawn_startup
  <2>1. "startup" \in Operations /\ 0 \in 0 .. MaxAttempts - 1
    BY DEF Operations, Commands
  <2>. QED
    BY <1>0, <1>3, <2>1, BeginKeeps DEF respawn_startup, idle, LifecycleTypeOK
<1>4. CASE respawn_null
  BY <1>4, DiesKeeps DEF respawn_null
<1>5. CASE respawn_superseded \/ respawn_incomplete
  <2>1. /\ UNCHANGED <<state, bond, process, op, transition, pos, system_active, bond_timer,
                       clients, commands, crashed>>
        /\ faults' = faults \/ (faults < MaxFaults /\ faults' = faults + 1)
    BY <1>5 DEF respawn_superseded, respawn_incomplete
  <2>2. attempts' \in 0 .. MaxAttempts - 1
    <3>. SUFFICES ASSUME respawn_incomplete, attempts + 1 < MaxAttempts, attempts' = attempts + 1
                  PROVE  attempts' \in 0 .. MaxAttempts - 1
      BY <1>0, <1>5 DEF respawn_superseded, respawn_incomplete, LifecycleTypeOK
    <3>. QED  BY <1>0 DEF LifecycleTypeOK
  <2>3. respawn_timer' \in BOOLEAN
    BY <1>0, <1>5 DEF respawn_superseded, respawn_incomplete, LifecycleTypeOK
  <2>4. LifecycleTypeOK'
    BY <1>0, <2>1, <2>2, <2>3 DEF LifecycleTypeOK
  <2>. QED
    BY <2>1, <2>4
       DEF LInv, OperationAsks, DownMeansInactive, AliveIsActive,
           NoClientsNoSystem, TimerNeedsBonds, ActivatesInOrder,
           DeactivatesInReverse, CleanupAfterAll, ActiveIsWatched, DependenciesUp,
           OnlyShutdownKills
<1>6. CASE onRclPreshutdown
  BY <1>6
     DEF onRclPreshutdown, idle, LInv, LifecycleTypeOK, OperationAsks, DownMeansInactive,
         AliveIsActive, NoClientsNoSystem, TimerNeedsBonds, ActivatesInOrder,
         DeactivatesInReverse, CleanupAfterAll, ActiveIsWatched, DependenciesUp,
         OnlyShutdownKills, Bonds
<1>. QED  BY <1>1, <1>2, <1>3, <1>4, <1>5, <1>6

\* The end of an operation that resets the servers after a broken bond.
HardResetStep ==
  op = "hard_reset" /\ op' = "idle" =>
    \A n \in Nodes : state'[n] = "active" =>
      n <= pos /\ (state[pos] = "gone" \/ faults' > faults)

\* One server of an operation.
LEMMA ChangeStateKeeps == ASSUME LInv, changeState PROVE LInv' /\ HardResetStep
<1>. USE LifecycleAssumption
<1>1. PICK o \in changeStateForNode(pos, transition) :
        LET b == [bond EXCEPT ![pos] = o.bond]
            ok == goes_on(o.result)
        IN /\ faults + o.fault <= MaxFaults
           /\ faults' = faults + o.fault
           /\ state' = [state EXCEPT ![pos] = o.state]
           /\ crashed' = IF o.state = "active" THEN crashed \ {pos} ELSE crashed
           /\ process' = IF o.result = "never" THEN "waiting" ELSE "up"
           /\ IF o.result = "never"
                THEN bond' = b /\ UNCHANGED <<op, transition, pos, system_active, bond_timer,
                                              respawn_timer, clients>>
              ELSE IF ok /\ pos # LastNode(transition)
                THEN /\ bond' = b /\ pos' = NextNode(transition, pos)
                     /\ UNCHANGED <<op, transition, system_active, bond_timer, respawn_timer,
                                    clients>>
              ELSE IF NextTransition(op, transition) # "none" /\ (ok \/ op = "shutdown")
                THEN /\ bond' = b
                     /\ transition' = NextTransition(op, transition)
                     /\ pos' = FirstNode(NextTransition(op, transition))
                     /\ UNCHANGED <<op, system_active, bond_timer, respawn_timer, clients>>
              ELSE Finish(ok, b)
  BY DEF changeState
<1>. DEFINE b == [bond EXCEPT ![pos] = o.bond]
            ok == goes_on(o.result)
<1>2. /\ process = "up" /\ op \in Operations /\ clients
      /\ pos \in Nodes /\ pos \in 1 .. N /\ transition \in Transitions
      /\ UNCHANGED <<attempts, commands>>
  BY DEF changeState, LInv, LifecycleTypeOK, Nodes
<1>3. Outcome(pos, transition, o)
  BY <1>2, Outcomes DEF LInv
<1>4. /\ state' \in [Nodes -> States] /\ state'[pos] = o.state
      /\ \A m \in Nodes : m # pos => state'[m] = state[m]
  BY <1>1, <1>2, <1>3 DEF Outcome, LInv, LifecycleTypeOK
<1>5. /\ b \in [Nodes -> Bonds] /\ b[pos] = o.bond
      /\ \A m \in Nodes : m # pos => b[m] = bond[m]
  BY <1>2, <1>3 DEF Outcome, LInv, LifecycleTypeOK
<1>6. faults' \in 0 .. MaxFaults /\ crashed' \subseteq Nodes
  BY <1>1, <1>2, <1>3 DEF Outcome, LInv, LifecycleTypeOK
<1>7. \A m \in Nodes : m \in crashed => m \in crashed' \/ (m = pos /\ o.state = "active")
  BY <1>1
<1>9. \A n \in Nodes : b[n] = "alive" => state'[n] = "active"
  BY <1>3, <1>4, <1>5 DEF Outcome, LInv, AliveIsActive
<1>10. DependenciesUp'
  <2>. SUFFICES ASSUME NEW k \in Nodes, NEW m \in 1 .. k - 1, state'[k] = "active",
                       state'[m] # "active"
                PROVE  m \in crashed'
    BY DEF DependenciesUp
  <2>1. m \in Nodes /\ m \in Nat /\ k \in Nat /\ m < k
    BY DEF Nodes
  <2>2. CASE k # pos /\ m # pos
    BY <1>4, <1>7, <2>1, <2>2 DEF LInv, DependenciesUp
  <2>3. CASE k # pos /\ m = pos
    <3>1. state[k] = "active"
      BY <1>4, <2>3
    <3>2. transition # "deactivate"
      BY <2>1, <2>3, <3>1 DEF LInv, DeactivatesInReverse, Nodes
    <3>3. state[m] # "active"
      BY <1>3, <1>4, <2>3, <3>2 DEF Outcome
    <3>. QED  BY <1>4, <1>7, <2>1, <2>3, <3>1, <3>3 DEF LInv, DependenciesUp
  <2>4. CASE k = pos
    <3>1. m # pos /\ state[m] # "active"
      BY <1>4, <2>1, <2>4
    <3>2. state[k] = "active" \/ transition = "activate"
      BY <1>3, <1>4, <2>4 DEF Outcome
    <3>3. m \in crashed
      BY <2>4, <3>1, <3>2 DEF LInv, DependenciesUp, ActivatesInOrder
    <3>. QED  BY <1>7, <2>1, <3>1, <3>3
  <2>. QED  BY <2>2, <2>3, <2>4
<1>. HIDE DEF b, ok
\* A server left behind in a deactivation or a cleanup is not active.
<1>11. op = "hard_reset" /\ transition = "cleanup" => \A n \in Nodes : state'[n] # "active"
  BY <1>2, <1>3, <1>4 DEF Outcome, LInv, CleanupAfterAll
<1>12. transition = "deactivate" => \A n \in pos .. N :
         state'[n] # "active" \/ (n = pos /\ o.result = "throw")
  BY <1>2, <1>3, <1>4 DEF Outcome, LInv, DeactivatesInReverse, Nodes
<1>13. transition = "activate" =>
         \A m \in 1 .. pos - 1 : /\ state'[m] = "active" \/ m \in crashed'
                                 /\ UseBonds => b[m] # "none"
  BY <1>2, <1>4, <1>5, <1>7 DEF LInv, ActivatesInOrder, Nodes
<1>14. system_active => /\ op \in {"startup", "resume"} /\ transition # "deactivate"
                        /\ UseBonds => bond_timer /\ \A n \in Nodes : b[n] # "none"
  <2>1. system_active => op \in {"startup", "resume"}
    BY <1>2 DEF LInv, DownMeansInactive, Operations, Commands
  <2>2. op \in {"startup", "resume"} => transition # "deactivate"
    BY DEF LInv, OperationAsks
  <2>. QED
    BY <1>2, <1>3, <1>5, <2>1, <2>2 DEF Outcome, LInv, ActiveIsWatched
<1>15. /\ op # "hard_reset" => (ok <=> o.result = "true")
       /\ ok => o.result # "throw"
  BY DEF ok, goes_on
<1>16. CASE o.result = "never"
  <2>1. /\ bond' = b /\ process' = "waiting"
        /\ UNCHANGED <<op, transition, pos, system_active, bond_timer, respawn_timer, clients>>
    BY <1>1, <1>16 DEF b
  <2>2. LifecycleTypeOK'
    BY <1>2, <1>4, <1>5, <1>6, <2>1 DEF LInv, LifecycleTypeOK
  <2>3. OperationAsks' /\ DownMeansInactive' /\ NoClientsNoSystem' /\ TimerNeedsBonds'
        /\ OnlyShutdownKills' /\ ActiveIsWatched'
    BY <2>1 DEF LInv, OperationAsks, DownMeansInactive, NoClientsNoSystem, TimerNeedsBonds,
                OnlyShutdownKills, ActiveIsWatched
  <2>4. AliveIsActive' /\ ActivatesInOrder' /\ CleanupAfterAll'
    BY <1>9, <1>11, <1>13, <2>1 DEF AliveIsActive, ActivatesInOrder, CleanupAfterAll
  <2>5. DeactivatesInReverse'
    BY <1>2, <1>12, <2>1 DEF DeactivatesInReverse
  <2>6. HardResetStep
    BY <1>2, <2>1 DEF HardResetStep, Operations, Commands
  <2>. QED  BY <1>10, <2>2, <2>3, <2>4, <2>5, <2>6 DEF LInv
<1>17. CASE o.result # "never" /\ ok /\ pos # LastNode(transition)
  <2>1. /\ bond' = b /\ process' = "up" /\ pos' = NextNode(transition, pos)
        /\ UNCHANGED <<op, transition, system_active, bond_timer, respawn_timer, clients>>
    BY <1>1, <1>17 DEF b, ok
  <2>2. pos' \in Nodes
    BY <1>2, <1>17, <2>1 DEF NextNode, LastNode, Nodes
  <2>3. LifecycleTypeOK'
    BY <1>2, <1>4, <1>5, <1>6, <2>1, <2>2 DEF LInv, LifecycleTypeOK
  <2>4. OperationAsks' /\ DownMeansInactive' /\ NoClientsNoSystem' /\ TimerNeedsBonds'
        /\ OnlyShutdownKills'
    BY <1>2, <2>1 DEF LInv, OperationAsks, DownMeansInactive, NoClientsNoSystem,
                      TimerNeedsBonds, OnlyShutdownKills
  <2>5. AliveIsActive' /\ CleanupAfterAll' /\ ActiveIsWatched'
    BY <1>9, <1>11, <1>14, <2>1 DEF AliveIsActive, CleanupAfterAll, ActiveIsWatched
  <2>6. ActivatesInOrder'
    <3>. SUFFICES ASSUME transition = "activate", NEW m \in 1 .. pos
                  PROVE  /\ state'[m] = "active" \/ m \in crashed'
                         /\ UseBonds => b[m] # "none"
      BY <1>2, <2>1 DEF ActivatesInOrder, NextNode, Forward
    <3>1. op # "hard_reset"
      BY DEF LInv, OperationAsks
    <3>2. CASE m = pos
      BY <1>3, <1>4, <1>5, <1>15, <1>17, <3>1, <3>2 DEF Outcome
    <3>3. CASE m \in 1 .. pos - 1
      BY <1>13, <3>3
    <3>. QED  BY <1>2, <3>2, <3>3
  <2>7. DeactivatesInReverse'
    <3>1. transition = "deactivate" => \A n \in pos .. N : state'[n] # "active"
      BY <1>12, <1>15, <1>17
    <3>. QED  BY <1>2, <2>1, <3>1 DEF DeactivatesInReverse, NextNode, Forward
  <2>8. HardResetStep
    BY <1>2, <2>1 DEF HardResetStep, Operations, Commands
  <2>. QED  BY <1>10, <2>3, <2>4, <2>5, <2>6, <2>7, <2>8 DEF LInv
<1>18. CASE /\ o.result # "never" /\ ~(ok /\ pos # LastNode(transition))
            /\ NextTransition(op, transition) # "none" /\ (ok \/ op = "shutdown")
  <2>1. /\ bond' = b /\ process' = "up"
        /\ transition' = NextTransition(op, transition) /\ pos' = FirstNode(transition')
        /\ UNCHANGED <<op, system_active, bond_timer, respawn_timer, clients>>
    BY <1>1, <1>18 DEF b, ok
  <2>2. \/ op = "startup" /\ transition' = "activate"
        \/ /\ op \in {"shutdown", "reset", "hard_reset"}
           /\ transition = "deactivate" /\ transition' = "cleanup"
        \/ op = "shutdown" /\ transition' = "shutdown"
    BY <1>18, <2>1 DEF NextTransition
  <2>3. transition' \in Transitions /\ pos' \in Nodes
    BY <2>1, <2>2 DEF Transitions, FirstNode, Nodes
  <2>4. LifecycleTypeOK'
    BY <1>2, <1>4, <1>5, <1>6, <2>1, <2>3 DEF LInv, LifecycleTypeOK
  <2>5. OperationAsks' /\ DownMeansInactive' /\ NoClientsNoSystem' /\ TimerNeedsBonds'
        /\ OnlyShutdownKills'
    BY <1>2, <2>1, <2>2 DEF LInv, OperationAsks, DownMeansInactive, NoClientsNoSystem,
                            TimerNeedsBonds, OnlyShutdownKills
  <2>6. AliveIsActive' /\ ActiveIsWatched'
    BY <1>9, <1>14, <2>1 DEF AliveIsActive, ActiveIsWatched
  <2>7. ActivatesInOrder' /\ DeactivatesInReverse'
    BY <2>1, <2>2 DEF ActivatesInOrder, DeactivatesInReverse, FirstNode, Forward
  <2>8. CleanupAfterAll'
    <3>. SUFFICES ASSUME op = "hard_reset", transition = "deactivate"
                  PROVE  \A n \in Nodes : state'[n] # "active"
      BY <2>1, <2>2 DEF CleanupAfterAll
    <3>1. pos = 1
      BY <1>18 DEF LastNode, Forward
    <3>. QED  BY <1>12, <1>15, <1>18, <3>1 DEF Nodes
  <2>9. HardResetStep
    BY <1>2, <2>1 DEF HardResetStep, Operations, Commands
  <2>. QED  BY <1>10, <2>4, <2>5, <2>6, <2>7, <2>8, <2>9 DEF LInv
<1>19. CASE /\ o.result # "never" /\ ~(ok /\ pos # LastNode(transition))
            /\ ~(NextTransition(op, transition) # "none" /\ (ok \/ op = "shutdown"))
  <2>. DEFINE up == ok /\ op \in {"startup", "resume"}
  <2>1. /\ process' = "up" /\ op' = "idle" /\ transition' = "none" /\ pos' = 0
        /\ system_active' = (system_active \/ up)
        /\ bond_timer' = (bond_timer \/ (up /\ UseBonds))
        /\ clients' = (op # "shutdown")
        /\ bond' = IF op = "hard_reset" THEN [n \in Nodes |-> "none"] ELSE b
        /\ respawn_timer'
             = (respawn_timer \/ (op = "hard_reset" /\ attempt_respawn_reconnection))
    BY <1>1, <1>19 DEF Finish, b, ok
  <2>2. up => transition = "activate" /\ pos = N /\ o.result = "true"
    BY <1>15, <1>19 DEF LInv, OperationAsks, NextTransition, LastNode, Forward
  <2>3. up /\ UseBonds => \A n \in Nodes : b[n] # "none"
    BY <1>3, <1>5, <1>13, <2>2 DEF Outcome, Nodes
  <2>. HIDE DEF up
  <2>4. bond' \in [Nodes -> Bonds]
    BY <1>5, <2>1 DEF Bonds
  <2>5. system_active' \in BOOLEAN /\ bond_timer' \in BOOLEAN /\ respawn_timer' \in BOOLEAN
        /\ clients' \in BOOLEAN
    BY <2>1
  <2>6. LifecycleTypeOK'
    BY <1>2, <1>4, <1>6, <2>1, <2>4, <2>5 DEF LInv, LifecycleTypeOK
  <2>7. op = "shutdown" => ~system_active /\ ~up
    BY DEF LInv, DownMeansInactive, up
  <2>8. OperationAsks' /\ DownMeansInactive' /\ NoClientsNoSystem' /\ TimerNeedsBonds'
        /\ OnlyShutdownKills' /\ ActivatesInOrder' /\ DeactivatesInReverse' /\ CleanupAfterAll'
    BY <2>1, <2>7 DEF LInv, OperationAsks, DownMeansInactive, NoClientsNoSystem,
       TimerNeedsBonds, OnlyShutdownKills, ActivatesInOrder, DeactivatesInReverse,
       CleanupAfterAll
  <2>9. AliveIsActive'
    BY <1>9, <2>1 DEF AliveIsActive
  <2>10. ActiveIsWatched'
    <3>. SUFFICES ASSUME system_active \/ up, UseBonds
                  PROVE  bond_timer' /\ \A n \in Nodes : bond'[n] # "none"
      BY <2>1, <2>9 DEF ActiveIsWatched, AliveIsActive
    <3>1. op # "hard_reset"
      BY <1>14 DEF up
    <3>2. bond' = b
      BY <2>1, <3>1
    <3>. QED  BY <1>14, <2>1, <2>3, <3>2
  <2>11. HardResetStep
    <3>. SUFFICES ASSUME op = "hard_reset", NEW n \in Nodes, state'[n] = "active"
                  PROVE  n <= pos /\ (state[pos] = "gone" \/ faults' > faults)
      BY DEF HardResetStep
    <3>1. transition = "deactivate"
      BY <1>11 DEF LInv, OperationAsks
    <3>2. o.result = "throw"
      BY <1>3, <1>19, <3>1 DEF Outcome, NextTransition, ok, goes_on
    <3>3. state[pos] = "gone" \/ faults' = faults + 1
      BY <1>1, <1>3, <3>2 DEF Outcome
    <3>4. n <= pos
      BY <1>2, <1>12, <3>1 DEF Nodes
    <3>. QED  BY <3>3, <3>4 DEF LInv, LifecycleTypeOK
  <2>. QED  BY <1>10, <2>6, <2>8, <2>9, <2>10, <2>11 DEF LInv
<1>. QED  BY <1>16, <1>17, <1>18, <1>19

LEMMA LifecycleStep ==
  ASSUME LInv, [LifecycleNext]_vars
  PROVE  LInv' /\ (HardResetStep \/ UNCHANGED vars)
<1>1. CASE changeState
  BY <1>1, ChangeStateKeeps
<1>2. CASE changeState_null
  BY <1>2, DiesKeeps DEF changeState_null, HardResetStep, LInv, NoClientsNoSystem
<1>3. CASE \/ \E c \in Commands : managerCallback(c)
           \/ checkBondConnections \/ respawn_superseded \/ respawn_startup
           \/ respawn_incomplete \/ respawn_null \/ onRclPreshutdown
  <2>1. op = "idle"
    BY <1>3 DEF managerCallback, checkBondConnections, respawn_superseded, respawn_startup,
                respawn_incomplete, respawn_null, onRclPreshutdown, idle
  <2>. QED  BY <1>3, <2>1, IdleStepKeeps DEF HardResetStep
<1>4. ASSUME NEW n \in Nodes,
             Crash(n) \/ Respawn(n) \/ HeartbeatsLost(n) \/ BondForms(n) \/ BondBreaks(n)
      PROVE  LInv' /\ HardResetStep
  <2>1. op' = op
    BY <1>4 DEF Crash, Respawn, HeartbeatsLost, BondForms, BondBreaks, managerVars
  <2>. QED  BY <1>4, <2>1, EnvironmentKeeps DEF HardResetStep
<1>5. CASE UNCHANGED vars
  BY <1>5
     DEF vars, managerVars, LInv, LifecycleTypeOK, OperationAsks, DownMeansInactive,
         AliveIsActive, NoClientsNoSystem, TimerNeedsBonds, ActivatesInOrder,
         DeactivatesInReverse, CleanupAfterAll, ActiveIsWatched, DependenciesUp,
         OnlyShutdownKills
<1>. QED  BY <1>1, <1>2, <1>3, <1>4, <1>5 DEF LifecycleNext

\* The inductive invariant holds in every reachable state.
THEOREM LifecycleInductive == LifecycleSpec => []LInv
<1>1. LInv /\ [LifecycleNext]_vars => LInv'
  BY LifecycleStep
<1>. QED  BY <1>1, LifecycleInductiveInit, PTL DEF LifecycleSpec

\* Every value of the manager has its type.
THEOREM LifecycleTypeCorrect == LifecycleSpec => []LifecycleTypeOK
<1>1. LInv => LifecycleTypeOK
  BY DEF LInv
<1>. QED  BY <1>1, LifecycleInductive, PTL

\* A system reported active is watched: the bond timer runs, every server has a bond, and the
\* bond of a server that is no longer active is not alive.
THEOREM SystemIsWatched == LifecycleSpec => []ActiveIsWatched
<1>1. LInv => ActiveIsWatched
  BY DEF LInv
<1>. QED  BY <1>1, LifecycleInductive, PTL

\* A server is active only with the servers before it, or after one of them crashed: in the
\* middle of operations, after failed ones, and for any number of servers.
THEOREM BringUpOrderKept == LifecycleSpec => []DependenciesUp
<1>1. LInv => DependenciesUp
  BY DEF LInv
<1>. QED  BY <1>1, LifecycleInductive, PTL

\* Only a shutdown, which destroys the clients, can make the manager dereference a null
\* pointer: checkBondConnections never does.
THEOREM ManagerSurvives == LifecycleSpec => []OnlyShutdownKills
<1>1. LInv => OnlyShutdownKills
  BY DEF LInv
<1>. QED  BY <1>1, LifecycleInductive, PTL

\* The reset after a broken bond goes on through every server that answers: it leaves servers
\* active only at and before one that is gone or did not answer in time.
THEOREM HardResetReach == LifecycleSpec => HardResetStopsAtSilent
<1>1. LInv /\ [LifecycleNext]_vars => [HardResetStep]_vars
  BY LifecycleStep
<1>. QED
  BY <1>1, LifecycleInductive, PTL DEF LifecycleSpec, HardResetStopsAtSilent, HardResetStep
=============================================================================
