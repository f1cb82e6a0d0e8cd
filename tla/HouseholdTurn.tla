---------------------------- MODULE HouseholdTurn ----------------------------
(***************************************************************************)
(* One turn of HouseholdOperator: the tool handlers of _TurnState, which   *)
(* the agent SDK runs on one event loop, the loop that consumes the turn's *)
(* events, and the verdict that result() gives.                            *)
(*                                                                         *)
(* A handler runs undisturbed until it sleeps (the asyncio.sleep of        *)
(* _settle is the only suspension in any handler) or returns; `running' is *)
(* the handler that has the loop. The clock and the owner's configuration  *)
(* move at any time.                                                       *)
(*                                                                         *)
(* A dispatch is one ControlRuntime.invoke, which keeps the promises of    *)
(* Dispatch.tla: "ok" was carried out, "failed" was not and will not be,   *)
(* of "outcome_unknown" nothing is known.                                  *)
(***************************************************************************)
EXTENDS Naturals, Sequences, FiniteSets

CONSTANTS
  Widths,        \* how many tool calls an SDK may have under way at a time
  MaxCalls,      \* how many tool calls the model makes in the turn
  Mutations,     \* canonical (service, targets, data) triples
  Remote,        \* those of the remote domain, whose readback settles
  Routines,      \* the owner's stored routines, as sequences of Mutations
  MaxToolCalls,  \* _MAX_TOOL_CALLS
  None

\* Tool calls are numbered as they begin.
Calls == 1..MaxCalls

ASSUME TurnAssumption ==
  /\ Remote \subseteq Mutations
  /\ Routines \subseteq Seq(Mutations) \ {<<>>}
  /\ MaxToolCalls \in Nat /\ MaxCalls \in Nat
  /\ Widths \subseteq Nat
  /\ None \notin Nat

VARIABLES
  readOnly, dryRun,  \* the mode of the turn
  width,             \* how many tool calls the SDK has under way at a time
  obedient,          \* the SDK makes no further call after one has raised
  stop,              \* no tool is to do anything any more
  blocked,           \* mutations_blocked: an action was left incomplete
  seen,              \* _seen_mutations
  toolCalls,         \* calls counted by _check
  documents,         \* the receipts, in order
  call,              \* where each handler is
  running,           \* the handler that has the event loop
  late,              \* the turn's deadline has passed
  moved,             \* another origin is configured than the turn's
  denied,            \* a tool that is not the household's was asked for
  failed,            \* sdk_failure
  turn,              \* "open", "draining" after its cancellation, "closed"
  result,            \* the status of the result document
  sent               \* history: how often each mutation may have been applied

flags == <<readOnly, dryRun, width, obedient, stop, blocked, seen, toolCalls, documents, sent>>
world == <<late, moved>>
sdk   == <<denied, failed, turn, result>>
turnVars == <<flags, call, running, world, sdk>>

-----------------------------------------------------------------------------
Idle      == [at |-> "unused", steps |-> <<>>, doc |-> 0, looks |-> 0]
Active(c) == call[c].at \in {"step", "settle", "asleep"}
Statuses  == {"failed", "unknown", "partial", "needs_clarification", "preview",
              "answered", "accepted"}

TurnTypeOK ==
  /\ width \in Widths
  /\ {readOnly, dryRun, obedient, stop, blocked, late, moved, denied, failed} \subseteq BOOLEAN
  /\ seen \subseteq Mutations
  /\ toolCalls \in 0..MaxToolCalls + Cardinality(Calls)
  /\ documents \in Seq([status : {"ok", "failed", "outcome_unknown"}, partial : BOOLEAN])
  /\ \A c \in Calls :
       /\ call[c].at \in {"unused", "step", "settle", "asleep", "returned", "raised"}
       /\ call[c].steps \in Seq(Mutations)
       /\ call[c].doc \in 0..Len(documents)
       /\ call[c].looks \in 0..2
       /\ call[c].at \in {"step", "settle"} <=> running = c
  /\ turn \in {"open", "draining", "closed"}
  /\ result \in {"none"} \cup Statuses
  /\ sent \in [Mutations -> Nat]

TurnInit ==
  /\ readOnly \in BOOLEAN /\ dryRun \in BOOLEAN
  /\ width \in Widths /\ obedient \in BOOLEAN
  /\ stop = FALSE /\ blocked = FALSE /\ seen = {} /\ toolCalls = 0
  /\ documents = <<>> /\ sent = [m \in Mutations |-> 0]
  /\ call = [c \in Calls |-> Idle] /\ running = None
  /\ late = FALSE /\ moved = FALSE
  /\ denied = FALSE /\ failed = FALSE /\ turn = "open" /\ result = "none"

-----------------------------------------------------------------------------
(* How a handler ends or goes on.                                          *)

Finish(c, how) == call' = [call EXCEPT ![c].at = how] /\ running' = None
Returns(c)     == Finish(c, "returned")
Raises(c)      == Finish(c, "raised")

\* _fail, and an elapsed deadline found by remaining().
Fails(c) == stop' = TRUE /\ Raises(c)

\* Mutant: an ambiguous outcome is an error like any other.
StopsUnless(status) == status = "failed"

\* What invoke and run_routine make of a receipt that is not "ok".
Stops(status) == status \in {"outcome_unknown", "failed"}

\* One ControlRuntime.invoke and its receipt.
Dispatch(m, receipt) ==
  /\ receipt.partial => receipt.status = "ok" /\ ~dryRun
  /\ dryRun => receipt.status # "outcome_unknown"
  /\ documents' = Append(documents, receipt)
  /\ sent' = IF dryRun \/ receipt.status = "failed" THEN sent
                                                    ELSE [sent EXCEPT ![m] = @ + 1]

Receipts == [status : {"ok", "failed", "outcome_unknown"}, partial : BOOLEAN]

\* remaining(), _verify_origin() and _check() let the call pass.
Passes(c) ==
  /\ turn # "closed" /\ running = None
  /\ \A d \in Calls : call[d].at = "unused" <=> d >= c
  /\ Cardinality({d \in Calls : Active(d)}) < width
  /\ obedient => \A d \in Calls : call[d].at # "raised"

Checked(c) ==
  /\ Passes(c)
  /\ ~late /\ ~moved /\ ~stop
  /\ toolCalls < MaxToolCalls
  /\ toolCalls' = toolCalls + 1

\* A call that _check refuses: late, elsewhere, stopped, over budget, or
\* malformed (which any call can be).
RefuseCall(c) ==
  /\ Passes(c)
  /\ toolCalls' = IF late \/ moved THEN toolCalls ELSE toolCalls + 1
  /\ Fails(c)
  /\ UNCHANGED <<readOnly, dryRun, width, obedient, blocked, seen, documents, sent, world, sdk>>

\* discover, actions, resolve, inspect and profile. One that fails raises,
\* with or without _fail.
ReadTool(c) ==
  /\ Checked(c)
  /\ \/ Returns(c) /\ UNCHANGED stop
     \/ Raises(c) /\ stop' \in {stop, TRUE}
  /\ UNCHANGED <<readOnly, dryRun, width, obedient, blocked, seen, documents, sent, world, sdk>>

-----------------------------------------------------------------------------
(* ha_invoke                                                               *)

\* A read-only turn, an incomplete action before, or a repetition.
InvokeNothing(c, m) ==
  /\ Checked(c)
  /\ \/ readOnly /\ Returns(c) /\ UNCHANGED stop
     \/ ~readOnly /\ (blocked \/ m \in seen) /\ Fails(c)
  /\ UNCHANGED <<readOnly, dryRun, width, obedient, blocked, seen, documents, sent, world, sdk>>

\* Mutant: an incomplete receipt does not block further actions.
InvokeNeverBlocks(c, m) ==
  /\ Checked(c)
  /\ ~readOnly /\ ~blocked /\ m \notin seen
  /\ seen' = seen \cup {m}
  /\ \E receipt \in Receipts :
       /\ Dispatch(m, receipt)
       /\ IF receipt.status = "ok" THEN Returns(c) /\ UNCHANGED stop
                                   ELSE Fails(c)
  /\ UNCHANGED <<readOnly, dryRun, width, obedient, blocked, world, sdk>>

Settles(m) == m \in Remote /\ ~dryRun

Invoke(c, m) ==
  /\ Checked(c)
  /\ ~readOnly /\ ~blocked /\ m \notin seen
  /\ seen' = seen \cup {m}
  /\ \E receipt \in Receipts :
       /\ Dispatch(m, receipt)
       /\ \/ /\ Stops(receipt.status)
             /\ Fails(c)
             /\ UNCHANGED blocked
          \/ /\ ~Stops(receipt.status)
             /\ UNCHANGED stop
             /\ IF Settles(m)
                  THEN /\ call' = [call EXCEPT ![c] = [at |-> "settle", steps |-> <<>>,
                                     doc |-> Len(documents'), looks |-> 0]]
                       /\ running' = c
                       /\ UNCHANGED blocked
                  ELSE /\ Returns(c)
                       /\ blocked' = (blocked \/ receipt.partial)
  /\ UNCHANGED <<readOnly, dryRun, width, obedient, world, sdk>>

-----------------------------------------------------------------------------
(* ha_run_routine                                                          *)

\* Mutant: only repetitions within the routine are looked for.
RepeatsItself(steps) ==
  \E i, j \in DOMAIN steps : i # j /\ steps[i] = steps[j]

Repeats(steps) ==
  \/ \E i, j \in DOMAIN steps : i # j /\ steps[i] = steps[j]
  \/ \E i \in DOMAIN steps : steps[i] \in seen

\* The routine is read, and every step preflighted as a dry run, before the
\* first is dispatched; a step that fails this, the deadline and another
\* configuration end it here, as does a profile that cannot be read, which
\* is the one way to raise that leaves stop as it is.
StartRoutine(c, steps) ==
  /\ Checked(c)
  /\ \/ readOnly /\ Returns(c) /\ UNCHANGED stop
     \/ ~readOnly /\ Raises(c) /\ stop' \in {stop, TRUE}
     \/ /\ ~readOnly /\ ~blocked /\ ~Repeats(steps)
        /\ call' = [call EXCEPT ![c] = [Idle EXCEPT !.at = "step", !.steps = steps]]
        /\ running' = c
        /\ UNCHANGED stop
  /\ UNCHANGED <<readOnly, dryRun, width, obedient, blocked, seen, documents, sent, world, sdk>>

\* After a step that is complete: the next one, or the end.
GoOn(c) ==
  IF Len(call[c].steps) <= 1
    THEN Returns(c)
    ELSE /\ call' = [call EXCEPT ![c] = [Idle EXCEPT !.at = "step",
                                                     !.steps = Tail(call[c].steps)]]
         /\ running' = c

\* A receipt that does not settle, or has settled.
Conclude(c, incomplete) ==
  IF incomplete THEN blocked' = TRUE /\ Raises(c)
                ELSE UNCHANGED blocked /\ GoOn(c)

RoutineStep(c) ==
  /\ call[c].at = "step" /\ turn # "closed"
  /\ LET m == Head(call[c].steps) IN
       \/ /\ late \/ moved
          /\ Fails(c)
          /\ UNCHANGED <<blocked, seen, documents, sent>>
       \/ /\ ~late /\ ~moved
          /\ seen' = seen \cup {m}
          /\ \E receipt \in Receipts :
               /\ Dispatch(m, receipt)
               /\ \/ /\ receipt.status = "outcome_unknown"
                     /\ Fails(c)
                     /\ UNCHANGED blocked
                  \/ /\ receipt.status = "failed"
                     /\ blocked' = TRUE
                     /\ Raises(c)
                     /\ UNCHANGED stop
                  \/ /\ receipt.status = "ok"
                     /\ UNCHANGED stop
                     /\ IF Settles(m)
                          THEN /\ call' = [call EXCEPT ![c].at = "settle",
                                                       ![c].doc = Len(documents')]
                               /\ UNCHANGED <<running, blocked>>
                          ELSE Conclude(c, receipt.partial)
  /\ UNCHANGED <<readOnly, dryRun, width, obedient, toolCalls, world, sdk>>

-----------------------------------------------------------------------------
(* _settle: at most three looks at a remote's activity, a second apart.    *)

\* What follows a look that was the last: invoke reads the newest receipt,
\* run_routine its own.
Continue(c) ==
  IF call[c].steps = <<>>
    THEN blocked' = (blocked \/ documents'[Len(documents)].partial) /\ Returns(c)
    ELSE Conclude(c, documents'[call[c].doc].partial)

\* Mutant: one look too many.
LooksOften(c) ==
  /\ call[c].looks <= 2
  /\ call' = [call EXCEPT ![c].at = "asleep", ![c].looks = @ + 1]
  /\ running' = None
  /\ UNCHANGED <<stop, blocked, documents>>

LooksAgain(c) ==
  /\ call[c].looks < 2
  /\ call' = [call EXCEPT ![c].at = "asleep", ![c].looks = @ + 1]
  /\ running' = None
  /\ UNCHANGED <<stop, blocked, documents>>

\* A look finds the deadline passed; or cannot be had, because the five
\* seconds are over or the configuration is gone; or sees the activity, or
\* nothing at all, or something else.
Settle(c) ==
  /\ call[c].at = "settle" /\ turn # "closed"
  /\ \/ /\ late
        /\ Fails(c)
        /\ UNCHANGED <<blocked, documents>>
     \/ /\ ~late
        /\ Raises(c)
        /\ UNCHANGED <<stop, blocked, documents>>
     \/ /\ ~late
        /\ documents' = [documents EXCEPT ![call[c].doc].partial = FALSE]
        /\ Continue(c)
        /\ UNCHANGED stop
     \/ /\ ~late
        /\ UNCHANGED documents
        /\ Continue(c)
        /\ UNCHANGED stop
     \/ ~late /\ LooksAgain(c)
  /\ UNCHANGED <<readOnly, dryRun, width, obedient, seen, toolCalls, sent, world, sdk>>

Wake(c) ==
  /\ call[c].at = "asleep" /\ turn # "closed" /\ running = None
  /\ call' = [call EXCEPT ![c].at = "settle"]
  /\ running' = c
  /\ UNCHANGED <<flags, world, sdk>>

-----------------------------------------------------------------------------
(* The turn: _run_async, _consume_turn and result().                       *)

ActionStatus ==
  IF dryRun \/ documents = <<>> THEN "not_attempted"
  ELSE IF \E i \in DOMAIN documents : documents[i].status = "outcome_unknown"
    THEN "unknown"
  ELSE IF \E i \in DOMAIN documents : documents[i].partial \/ documents[i].status # "ok"
    THEN "partial"
  ELSE "accepted"

\* Mutant: a dry run is a preview however its turn ended.
VerdictByMode(success, clarifies) ==
  IF dryRun THEN "preview"
  ELSE IF success THEN IF ActionStatus = "not_attempted" THEN "answered" ELSE ActionStatus
  ELSE IF ActionStatus = "not_attempted" THEN "failed" ELSE ActionStatus

\* result(). "observed" is not told apart from "accepted".
Verdict(success, clarifies) ==
  LET nothing == ActionStatus = "not_attempted" IN
    CASE ~success /\ nothing                -> "failed"
      [] ~success /\ ActionStatus = "unknown" -> "unknown"
      [] ~success /\ ActionStatus \in {"accepted", "partial"} -> "partial"
      [] success /\ nothing /\ clarifies    -> "needs_clarification"
      [] success /\ nothing /\ ~clarifies   -> IF dryRun THEN "preview" ELSE "answered"
      [] success /\ ~nothing                -> IF readOnly THEN "answered" ELSE ActionStatus

Concludes(fails, success) ==
  /\ failed' = fails
  /\ turn' = "closed"
  /\ \E clarifies \in BOOLEAN :
       result' = Verdict(success /\ ~fails /\ ~denied, clarifies)
  /\ UNCHANGED <<readOnly, dryRun, width, obedient, blocked, seen, toolCalls, documents, sent,
                 call, running, world, denied>>

\* The terminal event; a success comes after every handler has ended.
Terminal ==
  /\ turn = "open" /\ running = None
  /\ \E success \in BOOLEAN :
       /\ success => \A c \in Calls : ~Active(c)
       /\ Concludes(FALSE, success)
  /\ UNCHANGED stop

\* The SDK raises, or does not get as far as a turn in time.
SdkFails ==
  /\ turn = "open" /\ running = None
  /\ Concludes(TRUE, FALSE)
  /\ stop' \in {stop, TRUE}

\* Mutant: the next event is awaited without a timeout.
StreamEnds ==
  /\ turn = "open" /\ running = None /\ ~late
  /\ stop' = TRUE /\ failed' = TRUE /\ turn' = "draining"
  /\ UNCHANGED <<readOnly, dryRun, width, obedient, blocked, seen, toolCalls, documents, sent,
                 call, running, world, denied, result>>

\* The deadline, or an end of the stream without a terminal event.
TurnLost ==
  /\ turn = "open" /\ running = None
  /\ stop' = TRUE /\ failed' = TRUE /\ turn' = "draining"
  /\ UNCHANGED <<readOnly, dryRun, width, obedient, blocked, seen, toolCalls, documents, sent,
                 call, running, world, denied, result>>

DrainEnds ==
  /\ turn = "draining" /\ running = None
  /\ Concludes(TRUE, FALSE)
  /\ UNCHANGED stop

-----------------------------------------------------------------------------
(* The world.                                                              *)

Elapse ==
  /\ ~late
  /\ late' = TRUE
  /\ UNCHANGED <<flags, call, running, moved, sdk>>

Reconfigure ==
  /\ turn # "closed"
  /\ moved' = ~moved
  /\ UNCHANGED <<flags, call, running, late, sdk>>

\* approve() is asked for a tool that is not the household's.
DenyTool ==
  /\ turn # "closed" /\ running = None /\ ~denied
  /\ denied' = TRUE
  /\ UNCHANGED <<flags, call, running, world, failed, turn, result>>

HandlerStep(c) == RoutineStep(c) \/ Settle(c) \/ Wake(c)

Begins(c) ==
  \/ RefuseCall(c)
  \/ ReadTool(c)
  \/ \E m \in Mutations : InvokeNothing(c, m) \/ Invoke(c, m)
  \/ \E steps \in Routines : StartRoutine(c, steps)

TurnNext ==
  \/ \E c \in Calls : Begins(c) \/ HandlerStep(c)
  \/ Terminal \/ SdkFails \/ TurnLost \/ DrainEnds
  \/ Elapse \/ Reconfigure \/ DenyTool

\* The event loop runs what is ready, and its timers fire whenever it is
\* free; the clock does not stop; the SDK falls silent for five seconds
\* after its turn was cancelled.
TurnFairness ==
  /\ \A c \in Calls : WF_turnVars(HandlerStep(c))
  /\ WF_turnVars(Elapse)
  /\ SF_turnVars(late /\ TurnLost)
  /\ SF_turnVars(DrainEnds)

TurnSpec == TurnInit /\ [][TurnNext]_turnVars /\ TurnFairness

-----------------------------------------------------------------------------
(* Properties.                                                             *)

\* No mutation is dispatched twice in a turn, by whichever tools it is
\* asked for: _seen_mutations is kept across ha_invoke and ha_run_routine.
\* It takes an SDK that runs one tool call after the other.
NeverRepeated == width = 1 => \A m \in Mutations : sent[m] <= 1

\* Once an action has failed, or its outcome is not known, the turn
\* dispatches nothing more, not even the remaining steps of a routine, if
\* the SDK runs one tool call after the other.
FailureStops ==
  [][width = 1 /\ (\E i \in DOMAIN documents : documents[i].status # "ok")
     => Len(documents') = Len(documents)]_turnVars

\* While a receipt stands incomplete, nothing more is dispatched: the
\* handler that settles it is the only one that can clear it. It takes an
\* SDK that keeps the tool_error_policy="stop" it is given, because a look
\* that raises leaves mutations_blocked as it is.
IncompleteStops ==
  [][width = 1 /\ obedient /\ (\E i \in DOMAIN documents : documents'[i].partial)
     => Len(documents') = Len(documents)]_turnVars

\* The verdict: a turn that failed, was denied a tool or ran late never
\* looks like one that succeeded; "failed", "answered", "preview" and
\* "needs_clarification" say that nothing was applied; "accepted" that all
\* was; and an unknown outcome is reported as one.
ResultHonest ==
  turn = "closed" =>
    /\ failed \/ denied => result \in {"failed", "partial", "unknown"}
    /\ result \in {"failed", "answered", "preview", "needs_clarification"}
         => \A m \in Mutations : sent[m] = 0
    /\ result = "accepted" =>
         \A i \in DOMAIN documents : documents[i].status = "ok" /\ ~documents[i].partial
    /\ (\E i \in DOMAIN documents : documents[i].status = "outcome_unknown")
         => result = "unknown"

\* Every turn ends, whatever the tools see and however the SDK goes on.
TurnEnds == <>(turn = "closed")
=============================================================================
