------------------------- MODULE RuntimeEnvironment -------------------------
(***************************************************************************)
(* os.environ, which two kinds of calls rewrite for the agent SDK while    *)
(* they hold _ENVIRONMENT_LOCK: AmplifierAgentInterpreter.interpret for    *)
(* its whole turn, and HouseholdOperator.run for the construction of its   *)
(* agent, after which its turn runs in the owner's environment again. Runs *)
(* of the operator also hold _OPERATOR_TURN_LOCK, taken first.             *)
(*                                                                         *)
(* The rewriting is a clear() and an update(), and so is the restoring:    *)
(* a thread that does not hold the lock can look in between. What the      *)
(* model keeps of the environment is where its home directories are, and   *)
(* the providers of which it holds credentials.                            *)
(***************************************************************************)
EXTENDS FiniteSets

CONSTANTS
  Interpreters,  \* threads that interpret evidence
  Operators,     \* threads that run a household request
  Providers,     \* model providers
  ProviderOf,    \* the provider that a thread has chosen
  OwnerKeys,     \* those whose credentials the owner's environment holds
  Owner, None

Threads == Interpreters \cup Operators

ASSUME EnvironmentAssumption ==
  /\ Interpreters \cap Operators = {}
  /\ ProviderOf \in [Threads -> Providers]
  /\ OwnerKeys \subseteq Providers
  /\ Owner \notin Threads /\ None \notin Threads /\ Owner # None

VARIABLES
  environ,   \* os.environ
  saved,     \* per thread, its copy of the environment it replaced
  envLock,   \* holder of _ENVIRONMENT_LOCK
  turnLock,  \* holder of _OPERATOR_TURN_LOCK
  at         \* what a thread does next

envVars == <<environ, saved, envLock, turnLock, at>>

Environment == [home : Threads \cup {Owner, None}, keys : SUBSET Providers]
OwnerEnviron == [home |-> Owner, keys |-> OwnerKeys]
Cleared      == [home |-> None, keys |-> {}]
Scope(t, keys) == [home |-> t, keys |-> keys \cap {ProviderOf[t]}]

EnvTypeOK ==
  /\ environ \in Environment
  /\ saved \in [Threads -> Environment]
  /\ envLock \in Threads \cup {None}
  /\ turnLock \in Operators \cup {None}
  /\ at \in [Threads -> {"start", "waiting", "scope", "scoping", "agent", "restore",
                         "restoring", "turn", "release", "refused", "done"}]
  /\ \A t \in Interpreters : at[t] \notin {"waiting", "turn", "refused"}

EnvInit ==
  /\ environ = OwnerEnviron
  /\ saved = [t \in Threads |-> Cleared]
  /\ envLock = None /\ turnLock = None
  /\ at = [t \in Threads |-> "start"]

-----------------------------------------------------------------------------
Goto(t, point) == at' = [at EXCEPT ![t] = point]

\* HouseholdOperator.run looks for credentials before it takes any lock.
CheckCredentials(t) ==
  /\ t \in Operators /\ at[t] = "start"
  /\ Goto(t, IF ProviderOf[t] \in environ.keys THEN "waiting" ELSE "refused")
  /\ UNCHANGED <<environ, saved, envLock, turnLock>>

LockTurns(t) ==
  /\ t \in Operators /\ at[t] = "waiting" /\ turnLock = None
  /\ turnLock' = t
  /\ UNCHANGED <<environ, saved, envLock, at>>

\* Mutant: the environment has no lock.
EnterUnlocked(t) ==
  /\ IF t \in Operators THEN at[t] = "waiting" /\ turnLock = t ELSE at[t] = "start"
  /\ Goto(t, "scope")
  /\ UNCHANGED <<environ, saved, envLock, turnLock>>

LockEnvironment(t) ==
  /\ IF t \in Operators THEN at[t] = "waiting" /\ turnLock = t ELSE at[t] = "start"
  /\ envLock = None
  /\ envLock' = t
  /\ Goto(t, "scope")
  /\ UNCHANGED <<environ, saved, turnLock>>

\* The parent's environment is copied and cleared; before that, a run whose
\* configuration or whose SDK is not available ends.
Clear(t) ==
  /\ at[t] = "scope"
  /\ \/ saved' = [saved EXCEPT ![t] = environ] /\ environ' = Cleared /\ Goto(t, "scoping")
     \/ t \in Operators /\ Goto(t, "release") /\ UNCHANGED <<saved, environ>>
  /\ UNCHANGED <<envLock, turnLock>>

EnterScope(t) ==
  /\ at[t] = "scoping"
  /\ environ' = Scope(t, saved[t].keys)
  /\ Goto(t, "agent")
  /\ UNCHANGED <<saved, envLock, turnLock>>

\* Mutant: the scope is left only when the agent has not failed.
LeaveOnSuccess(t) ==
  /\ at[t] = "agent"
  /\ Goto(t, "restore") \/ Goto(t, "release")
  /\ UNCHANGED <<environ, saved, envLock, turnLock>>

\* The agent was made, or failed, or took too long: the finally clause.
Leave(t) ==
  /\ at[t] = "agent"
  /\ Goto(t, "restore")
  /\ UNCHANGED <<environ, saved, envLock, turnLock>>

ClearScope(t) ==
  /\ at[t] = "restore"
  /\ environ' = Cleared
  /\ Goto(t, "restoring")
  /\ UNCHANGED <<saved, envLock, turnLock>>

\* Mutant: an interpretation, too, restores the environment for its turn.
RestoreForTurn(t) ==
  /\ at[t] = "restoring"
  /\ environ' = saved[t]
  /\ saved' = [saved EXCEPT ![t] = Cleared]
  /\ Goto(t, "turn") \/ Goto(t, "release")
  /\ UNCHANGED <<envLock, turnLock>>

\* An operator's agent has its turn now, unless it could not be made.
Restore(t) ==
  /\ at[t] = "restoring"
  /\ environ' = saved[t]
  /\ saved' = [saved EXCEPT ![t] = Cleared]
  /\ \/ t \in Operators /\ Goto(t, "turn")
     \/ Goto(t, "release")
  /\ UNCHANGED <<envLock, turnLock>>

EndTurn(t) ==
  /\ at[t] = "turn"
  /\ Goto(t, "release")
  /\ UNCHANGED <<environ, saved, envLock, turnLock>>

\* Mutant: the lock of the turns is kept when a run ends.
ReleaseOne(t) ==
  /\ at[t] = "release"
  /\ envLock' = None
  /\ Goto(t, "done")
  /\ UNCHANGED <<environ, saved, turnLock>>

Release(t) ==
  /\ at[t] = "release"
  /\ envLock' = None
  /\ turnLock' = IF t \in Operators THEN None ELSE turnLock
  /\ Goto(t, "done")
  /\ UNCHANGED <<environ, saved>>

Step(t) ==
  \/ CheckCredentials(t) \/ LockTurns(t) \/ LockEnvironment(t)
  \/ Clear(t) \/ EnterScope(t) \/ Leave(t) \/ ClearScope(t) \/ Restore(t)
  \/ EndTurn(t) \/ Release(t)

EnvNext == \E t \in Threads : Step(t)

\* Threads are scheduled, and the turns of the SDK end.
EnvSpec == EnvInit /\ [][EnvNext]_envVars /\ \A t \in Threads : WF_envVars(Step(t))

-----------------------------------------------------------------------------
(* Properties.                                                             *)

\* When no call holds the lock, the environment is the owner's: scopes do
\* not overlap, and none outlives its agent.
OwnerRestored == envLock = None => environ = OwnerEnviron

\* An agent is made in its own scope: it never sees the owner's home nor
\* the credentials of another provider.
AgentScoped ==
  \A t \in Threads : at[t] = "agent" => environ = Scope(t, OwnerKeys)

\* The handlers of a household turn use the owner's environment, in which
\* they find the owner's settings.
TurnsAreOwners == \A t \in Threads : at[t] = "turn" => environ = OwnerEnviron

\* A run is refused for want of credentials only if they are wanting.
RefusalHonest == \A t \in Operators : at[t] = "refused" => ProviderOf[t] \notin OwnerKeys

\* Every call ends; no two calls wait for each other's lock.
CallsEnd == <>(\A t \in Threads : at[t] \in {"refused", "done"})
=============================================================================
