---------------------- MODULE RuntimeEnvironment_proofs ----------------------
(***************************************************************************)
(* The environment is the owner's whenever no call holds its lock, for any *)
(* number of interpretations and household runs. The invariant says what   *)
(* os.environ and the copy of the holder are at each of its steps.         *)
(***************************************************************************)
EXTENDS RuntimeEnvironment, TLAPS

Inside == {"scope", "scoping", "agent", "restore", "restoring", "turn", "release"}

\* The threads inside are those, at most one, that hold the lock.
Exclusive == \A t \in Threads : at[t] \in Inside <=> envLock = t

\* What the holder has made of the environment.
Arranged(t) ==
  /\ at[t] \in {"scope", "turn", "release"} => environ = OwnerEnviron
  /\ at[t] \in {"agent", "restore"} => environ = Scope(t, OwnerKeys)
  /\ at[t] \in {"scoping", "agent", "restore", "restoring"} => saved[t] = OwnerEnviron

EnvInv ==
  /\ EnvTypeOK
  /\ Exclusive
  /\ OwnerRestored
  /\ \A t \in Threads : Arranged(t)

-----------------------------------------------------------------------------
\* Each step of a call preserves the invariant.
LEMMA EnvStep ==
  ASSUME EnvInv, NEW t \in Threads, Step(t)
  PROVE  EnvInv'
<1> USE EnvironmentAssumption DEF EnvInv, EnvTypeOK, Goto, Inside
<1>1. OwnerEnviron \in Environment /\ Cleared \in Environment
      /\ Scope(t, saved[t].keys) \in Environment
  BY DEF Environment, OwnerEnviron, Cleared, Scope, Threads
<1>2. EnvTypeOK'
  <2>1. CASE CheckCredentials(t) \/ LockTurns(t) \/ LockEnvironment(t)
    BY <2>1 DEF CheckCredentials, LockTurns, LockEnvironment, Threads
  <2>2. CASE Clear(t) \/ EnterScope(t)
    BY <2>2, <1>1 DEF Clear, EnterScope, Threads
  <2>3. CASE Leave(t) \/ ClearScope(t) \/ Restore(t)
    BY <2>3, <1>1 DEF Leave, ClearScope, Restore, Threads
  <2>4. CASE EndTurn(t) \/ Release(t)
    BY <2>4 DEF EndTurn, Release, Threads
  <2> QED BY <2>1, <2>2, <2>3, <2>4 DEF Step
<1>3. Exclusive'
  <2>1. CASE CheckCredentials(t) \/ LockTurns(t) \/ LockEnvironment(t)
    BY <2>1 DEF CheckCredentials, LockTurns, LockEnvironment, Exclusive, Threads
  <2>2. CASE Clear(t) \/ EnterScope(t) \/ Leave(t) \/ ClearScope(t) \/ Restore(t)
    BY <2>2 DEF Clear, EnterScope, Leave, ClearScope, Restore, Exclusive
  <2>3. CASE EndTurn(t) \/ Release(t)
    BY <2>3 DEF EndTurn, Release, Exclusive, Threads
  <2> QED BY <2>1, <2>2, <2>3 DEF Step
<1>4. ASSUME NEW u \in Threads PROVE Arranged(u)'
  <2>1. CASE u = t
    <3>1. CASE CheckCredentials(t) \/ LockTurns(t) \/ LockEnvironment(t)
      BY <2>1, <3>1 DEF CheckCredentials, LockTurns, LockEnvironment, Arranged, OwnerRestored
    <3>2. CASE Clear(t) \/ EnterScope(t)
      BY <2>1, <3>2 DEF Clear, EnterScope, Arranged, OwnerEnviron
    <3>3. CASE Leave(t) \/ ClearScope(t) \/ Restore(t)
      BY <2>1, <3>3 DEF Leave, ClearScope, Restore, Arranged
    <3>4. CASE EndTurn(t) \/ Release(t)
      BY <2>1, <3>4 DEF EndTurn, Release, Arranged
    <3> QED BY <3>1, <3>2, <3>3, <3>4 DEF Step
  <2>2. CASE u # t /\ UNCHANGED environ
    BY <2>2 DEF Step, CheckCredentials, LockTurns, LockEnvironment, Clear, EnterScope, Leave,
       ClearScope, Restore, EndTurn, Release, Arranged
  <2>3. CASE u # t /\ at[t] \in Inside
    <3>1. at'[u] = at[u] /\ at[u] \notin Inside
      BY <2>3 DEF Exclusive, Step, CheckCredentials, LockTurns, LockEnvironment, Clear,
         EnterScope, Leave, ClearScope, Restore, EndTurn, Release, Threads
    <3> QED BY <3>1 DEF Arranged
  <2>4. at[t] \in Inside \/ UNCHANGED environ
    BY DEF Step, CheckCredentials, LockTurns, LockEnvironment, Clear, EnterScope, Leave,
       ClearScope, Restore, EndTurn, Release
  <2> QED BY <2>1, <2>2, <2>3, <2>4
<1>5. OwnerRestored'
  <2>1. CASE at[t] \notin Inside
    BY <2>1 DEF Step, CheckCredentials, LockTurns, LockEnvironment, Clear, EnterScope, Leave,
       ClearScope, Restore, EndTurn, Release, OwnerRestored, Threads
  <2>2. CASE at[t] \in Inside
    BY <2>2 DEF Step, CheckCredentials, LockTurns, LockEnvironment, Clear, EnterScope, Leave,
       ClearScope, Restore, EndTurn, Release, OwnerRestored, Exclusive, Arranged, Threads
  <2> QED BY <2>1, <2>2
<1> QED BY <1>2, <1>3, <1>4, <1>5

\* The invariant holds throughout, for any set of calls.
THEOREM EnvInvariance == EnvSpec => []EnvInv
<1>1. EnvInit => EnvInv
  BY EnvironmentAssumption
     DEF EnvInit, EnvInv, EnvTypeOK, Exclusive, OwnerRestored, Arranged, Inside, Environment,
         OwnerEnviron, Cleared, Threads
<1>2. EnvInv /\ [EnvNext]_envVars => EnvInv'
  <2> SUFFICES ASSUME EnvInv, [EnvNext]_envVars PROVE EnvInv'
    OBVIOUS
  <2>1. CASE EnvNext
    BY <2>1, EnvStep DEF EnvNext
  <2>2. CASE UNCHANGED envVars
    BY <2>2 DEF envVars, EnvInv, EnvTypeOK, Exclusive, OwnerRestored, Arranged
  <2> QED BY <2>1, <2>2
<1> QED BY <1>1, <1>2, PTL DEF EnvSpec

\* Whatever the interleaving of interpretations and household runs, the
\* environment is the owner's again when no call holds the lock.
THEOREM OwnerIsRestored == EnvSpec => []OwnerRestored
<1>1. EnvInv => OwnerRestored
  BY DEF EnvInv
<1> QED BY <1>1, EnvInvariance, PTL

\* An agent is made in the scope of its own provider, with no other key.
THEOREM AgentsStayScoped == EnvSpec => []AgentScoped
<1>1. EnvInv => AgentScoped
  BY DEF EnvInv, Arranged, AgentScoped
<1> QED BY <1>1, EnvInvariance, PTL

\* The handlers of a household turn run in the owner's environment.
THEOREM TurnsStayOwners == EnvSpec => []TurnsAreOwners
<1>1. EnvInv => TurnsAreOwners
  BY DEF EnvInv, Arranged, TurnsAreOwners
<1> QED BY <1>1, EnvInvariance, PTL
=============================================================================
