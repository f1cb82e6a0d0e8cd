------------------------------ MODULE Dispatch ------------------------------
(***************************************************************************)
(* What ControlRuntime.invoke promises its caller, with everything else    *)
(* hidden: for each operation, whether its intent is on record, what       *)
(* became of its one request to Home Assistant, and what the caller was    *)
(* told. ControlRuntime.tla is the detailed specification that implements  *)
(* this one.                                                               *)
(***************************************************************************)
CONSTANT Ops      \* operations; each is one call of invoke, one operation_id

VARIABLES
  log,      \* operations whose intent is durable in the operation journal
  stage,    \* "open", "sent" once the POST was attempted, "closed"
  request,  \* the request: "none", "travelling", or "applied" at the home
  reply     \* the outcome the caller was given, or "none"

dispatchVars == <<log, stage, request, reply>>

Replies == {"none", "dry_run", "not_dispatched", "outcome_unknown", "accepted"}

DispatchTypeOK ==
  /\ log \subseteq Ops
  /\ stage   \in [Ops -> {"open", "sent", "closed"}]
  /\ request \in [Ops -> {"none", "travelling", "applied"}]
  /\ reply   \in [Ops -> Replies]

DispatchInit ==
  /\ log     = {}
  /\ stage   = [o \in Ops |-> "open"]
  /\ request = [o \in Ops |-> "none"]
  /\ reply   = [o \in Ops |-> "none"]

-----------------------------------------------------------------------------
\* The operation ends with an answer.
Close(o, answer) ==
  /\ stage' = [stage EXCEPT ![o] = "closed"]
  /\ reply' = [reply EXCEPT ![o] = answer]

\* Intents become durable, those of several operations by one fsync, and
\* sometimes after the process that wrote one has died.
Log(new) ==
  /\ \A o \in new : reply[o] # "dry_run"
  /\ log' = log \cup new
  /\ UNCHANGED <<stage, request, reply>>

\* The operation is refused, or was a dry run (which leaves no intent).
Decline(o) ==
  /\ stage[o] = "open"
  /\ \/ Close(o, "not_dispatched")
     \/ o \notin log /\ Close(o, "dry_run")
  /\ UNCHANGED <<log, request>>

\* The one attempt. It can end before anything is sent.
Send(o) ==
  /\ stage[o] = "open"
  /\ o \in log
  /\ stage' = [stage EXCEPT ![o] = "sent"]
  /\ \/ request' = [request EXCEPT ![o] = "travelling"]
     \/ UNCHANGED request
  /\ UNCHANGED <<log, reply>>

\* Home Assistant carries the request out, perhaps long after the caller
\* was answered.
Deliver(o) ==
  /\ request[o] = "travelling"
  /\ request' = [request EXCEPT ![o] = "applied"]
  /\ UNCHANGED <<log, stage, reply>>

Accept(o) ==
  /\ stage[o] = "sent"
  /\ request[o] = "applied"
  /\ Close(o, "accepted")
  /\ UNCHANGED <<log, request>>

GiveUp(o) ==
  /\ stage[o] = "sent"
  /\ Close(o, "outcome_unknown")
  /\ UNCHANGED <<log, request>>

\* The processes of some operations die: their callers learn nothing.
Die(dead) ==
  /\ \A o \in dead : stage[o] # "closed"
  /\ stage' = [o \in Ops |-> IF o \in dead THEN "closed" ELSE stage[o]]
  /\ UNCHANGED <<log, request, reply>>

DispatchNext ==
  \/ \E new \in SUBSET Ops : Log(new)
  \/ \E o \in Ops : Decline(o)
  \/ \E o \in Ops : Send(o)
  \/ \E o \in Ops : Deliver(o)
  \/ \E o \in Ops : Accept(o)
  \/ \E o \in Ops : GiveUp(o)
  \/ \E dead \in SUBSET Ops : Die(dead)

DispatchSpec == DispatchInit /\ [][DispatchNext]_dispatchVars
=============================================================================
