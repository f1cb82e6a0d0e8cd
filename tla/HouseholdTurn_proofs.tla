------------------------ MODULE HouseholdTurn_proofs ------------------------
(***************************************************************************)
(* Proofs about one turn of the household operator, for any number of tool *)
(* calls, any mutations and routines, and any budget. What the verdict     *)
(* says holds however many handlers the SDK overlaps; that nothing is      *)
(* repeated, and nothing done after a failure, holds for one at a time,    *)
(* and rests on what each handler still has before it.                     *)
(***************************************************************************)
EXTENDS HouseholdTurn, FiniteSetTheorems, TLAPS

Settling(c) == call[c].at \in {"settle", "asleep"}

Handlers == [at : {"unused", "step", "settle", "asleep", "returned", "raised"},
             steps : Seq(Mutations), doc : Nat, looks : 0..2]

\* The event loop, and the counters of each handler and of the turn.
HandlerOK(c) ==
  /\ call[c].at \in {"step", "settle"} <=> running = c
  /\ call[c].at = "step" => call[c].steps # <<>>
  /\ call[c].doc <= Len(documents)
  /\ Settling(c) => call[c].doc >= 1
  /\ call[c].at = "unused" => toolCalls < c

TypeInv ==
  /\ readOnly \in BOOLEAN /\ dryRun \in BOOLEAN /\ obedient \in BOOLEAN
  /\ stop \in BOOLEAN /\ blocked \in BOOLEAN /\ late \in BOOLEAN
  /\ moved \in BOOLEAN /\ denied \in BOOLEAN /\ failed \in BOOLEAN
  /\ width \in Widths /\ seen \subseteq Mutations
  /\ toolCalls \in 0..MaxCalls
  /\ documents \in Seq(Receipts)
  /\ call \in [Calls -> Handlers]
  /\ running \in Calls \cup {None}
  /\ \A c \in Calls : HandlerOK(c)
  /\ turn \in {"open", "draining", "closed"}
  /\ result \in {"none"} \cup Statuses
  /\ sent \in [Mutations -> Nat]

Bad == \E i \in DOMAIN documents : documents[i].status # "ok"

NoneActive == \A c \in Calls : ~Active(c)

\* One handler at a time.
Alone == \A c, d \in Calls : Active(c) /\ Active(d) => c = d

\* What has been applied has been seen, and what a routine has yet to do has
\* not.
Applied == \A m \in Mutations : sent[m] = 0 \/ (sent[m] = 1 /\ m \in seen)

Fresh(c) ==
  /\ call[c].at = "step" => \A i \in DOMAIN call[c].steps : call[c].steps[i] \notin seen
  /\ Settling(c) => \A i \in DOMAIN call[c].steps : i = 1 \/ call[c].steps[i] \notin seen
  /\ Active(c) => \A i, j \in DOMAIN call[c].steps :
                     i # j => call[c].steps[i] # call[c].steps[j]

Remaining == Applied /\ \A c \in Calls : Fresh(c)

\* The receipt that a handler settles is the last.
LastSettles == \A c \in Calls : Settling(c) => call[c].doc = Len(documents)

\* A failure leaves no handler behind, and every later one is told.
FailureTold == Bad => NoneActive /\ (stop \/ blocked)

\* So does a receipt that has been left incomplete, or its SDK stops.
PartialTold ==
  obedient => \A i \in DOMAIN documents : documents[i].partial =>
    \/ \E c \in Calls : Settling(c) /\ call[c].doc = i
    \/ NoneActive /\ (blocked \/ \E c \in Calls : call[c].at = "raised")

AloneInv ==
  width = 1 => Alone /\ Remaining /\ LastSettles /\ FailureTold /\ PartialTold

\* What the mode of the turn rules out.
ModeInv ==
  /\ readOnly => documents = <<>> /\ NoneActive
  /\ dryRun \/ documents = <<>> => \A m \in Mutations : sent[m] = 0
  /\ dryRun => \A i \in DOMAIN documents : documents[i].status # "outcome_unknown"
  /\ ResultHonest

TurnInv == TypeInv /\ AloneInv /\ ModeInv

-----------------------------------------------------------------------------
(* The steps, by what they do to the handlers.                             *)

\* A call that begins is the first that has not; with one at a time, no other
\* is under way.
LEMMA WhoPasses ==
  ASSUME TypeInv, NEW c \in Calls, Passes(c)
  PROVE  /\ call[c].at = "unused" /\ running = None /\ toolCalls < c
         /\ \A d \in Calls : call[d].at = "unused" => c <= d
         /\ width = 1 => NoneActive
         /\ obedient => \A d \in Calls : call[d].at # "raised"
<1>1. call[c].at = "unused" /\ running = None /\ toolCalls < c
  BY TurnAssumption DEF Passes, TypeInv, HandlerOK, Calls
<1>2. \A d \in Calls : call[d].at = "unused" => c <= d
  BY TurnAssumption DEF Passes, Calls
<1>3. ASSUME width = 1 PROVE NoneActive
  <2> DEFINE A == {d \in Calls : Active(d)}
  <2>1. IsFiniteSet(Calls)
    BY TurnAssumption, FS_Interval DEF Calls
  <2>2. IsFiniteSet(A) /\ Cardinality(A) \in Nat
    BY <2>1, FS_Subset, FS_CardinalityType
  <2>3. Cardinality(A) = 0
    BY <1>3, <2>2 DEF Passes
  <2>4. A = {}
    BY <2>2, <2>3, FS_EmptySet
  <2> QED BY <2>4 DEF NoneActive
<1> QED BY <1>1, <1>2, <1>3 DEF Passes

\* The steps that leave receipts, marks and handlers under way as they are. A
\* call can come and go in one of them.
Quiet ==
  /\ UNCHANGED <<readOnly, dryRun, width, obedient, blocked, seen, documents, sent>>
  /\ stop' \in {stop, TRUE}
  /\ \/ UNCHANGED <<call, running, toolCalls>>
     \/ \E c \in Calls : /\ Passes(c) /\ running' = None
                         /\ toolCalls' \in {toolCalls, toolCalls + 1}
                         /\ \E how \in {"returned", "raised"} :
                              call' = [call EXCEPT ![c].at = how]

\* A call that does nothing but return or raise.
LEMMA QuietCalls ==
  ASSUME TypeInv, NEW c \in Calls,
         \/ RefuseCall(c) \/ ReadTool(c)
         \/ \E m \in Mutations : InvokeNothing(c, m)
         \/ \E steps \in Routines : StartRoutine(c, steps) /\ call'[c].at # "step"
  PROVE  Quiet /\ UNCHANGED <<world, sdk>>
<1>1. Handlers # {} /\ call \in [Calls -> Handlers]
  BY DEF TypeInv
<1>2. ASSUME NEW how \in {"returned", "raised"}, Finish(c, how)
      PROVE  running' = None /\ call' = [call EXCEPT ![c].at = how]
  BY <1>2 DEF Finish
<1>3. CASE RefuseCall(c)
  BY <1>3, <1>2 DEF RefuseCall, Fails, Raises, Quiet
<1>4. CASE ReadTool(c)
  BY <1>4, <1>2 DEF ReadTool, Checked, Returns, Raises, Quiet
<1>5. ASSUME NEW m \in Mutations, InvokeNothing(c, m) PROVE Quiet /\ UNCHANGED <<world, sdk>>
  BY <1>5, <1>2 DEF InvokeNothing, Checked, Returns, Fails, Raises, Quiet
<1>6. ASSUME NEW steps \in Routines, StartRoutine(c, steps), call'[c].at # "step"
      PROVE  Quiet /\ UNCHANGED <<world, sdk>>
  <2>1. Returns(c) \/ Raises(c)
    BY <1>1, <1>6 DEF StartRoutine, Handlers, Idle
  <2> QED BY <1>6, <2>1, <1>2 DEF StartRoutine, Checked, Returns, Raises, Quiet
<1> QED BY <1>3, <1>4, <1>5, <1>6

\* The end of the turn, and what happens in the world, concern no handler.
LEMMA QuietTurn ==
  ASSUME \/ Terminal \/ SdkFails \/ TurnLost \/ DrainEnds
         \/ Elapse \/ Reconfigure \/ DenyTool \/ UNCHANGED turnVars
  PROVE  Quiet /\ UNCHANGED <<call, running, toolCalls>>
BY DEF Terminal, SdkFails, TurnLost, DrainEnds, Elapse, Reconfigure, DenyTool, Concludes,
   flags, turnVars, Quiet

\* The steps that are not quiet: a mutation that is dispatched, a routine that
\* begins, and a handler that goes on.
StartsRoutine(c) ==
  \E steps \in Routines : StartRoutine(c, steps) /\ call'[c].at = "step"

LEMMA StepKinds ==
  ASSUME TypeInv, [TurnNext]_turnVars
  PROVE  \/ Quiet
         \/ \E c \in Calls :
              \/ \E m \in Mutations : Invoke(c, m)
              \/ StartsRoutine(c)
              \/ RoutineStep(c) \/ Settle(c) \/ Wake(c)
BY QuietCalls, QuietTurn DEF TurnNext, Begins, HandlerStep, StartsRoutine

\* What a handler does leaves the others as they are.
LEMMA OthersKeep ==
  ASSUME TypeInv, NEW c \in Calls, call' \in [Calls -> Handlers],
         \A d \in Calls \ {c} : call'[d] = call[d],
         running \in {None, c}, running' \in {None, c},
         documents' \in Seq(Receipts), Len(documents) <= Len(documents'),
         toolCalls' = toolCalls \/ (Passes(c) /\ toolCalls' = toolCalls + 1),
         HandlerOK(c)'
  PROVE  toolCalls' \in 0..MaxCalls /\ \A d \in Calls : HandlerOK(d)'
<1> USE TurnAssumption DEF Calls
<1>1. toolCalls' \in 0..MaxCalls
  BY WhoPasses DEF TypeInv
<1>2. ASSUME NEW d \in Calls \ {c} PROVE HandlerOK(d)'
  <2>1. call'[d] = call[d] /\ HandlerOK(d) /\ call[d] \in Handlers
    BY <1>2 DEF TypeInv
  <2>2. (running' = d) = (running = d)
    BY <1>2
  <2>3. call'[d].at = "unused" => toolCalls' < d
    BY <1>2, <2>1, WhoPasses DEF TypeInv, HandlerOK
  <2>4. Len(documents) \in Nat /\ Len(documents') \in Nat /\ call[d].doc \in Nat
    BY <2>1 DEF TypeInv, Handlers
  <2> QED BY <2>1, <2>2, <2>3, <2>4 DEF HandlerOK, Settling
<1> QED BY <1>1, <1>2

-----------------------------------------------------------------------------
(* Types.                                                                  *)

\* There is a verdict for every turn.
LEMMA VerdictKnown ==
  ASSUME NEW success \in BOOLEAN, NEW clarifies \in BOOLEAN
  PROVE  Verdict(success, clarifies) \in Statuses
<1>1. ActionStatus \in {"not_attempted", "unknown", "partial", "accepted"}
  BY DEF ActionStatus
<1> QED BY <1>1 DEF Verdict, Statuses

\* A receipt more, and what may have been applied.
LEMMA DispatchTypes ==
  ASSUME TypeInv, NEW m \in Mutations, NEW receipt \in Receipts, Dispatch(m, receipt)
  PROVE  /\ documents' \in Seq(Receipts) /\ Len(documents') = Len(documents) + 1
         /\ documents'[Len(documents) + 1] = receipt
         /\ \A i \in DOMAIN documents : documents'[i] = documents[i]
         /\ DOMAIN documents' = DOMAIN documents \cup {Len(documents) + 1}
         /\ sent' \in [Mutations -> Nat]
BY DEF TypeInv, Dispatch

\* The quiet steps keep the types.
LEMMA QuietTypes ==
  ASSUME TypeInv, Quiet, [TurnNext]_turnVars
  PROVE  TypeInv'
<1>1. /\ call' \in [Calls -> Handlers] /\ running' \in Calls \cup {None}
      /\ toolCalls' \in 0..MaxCalls /\ \A d \in Calls : HandlerOK(d)'
  <2>1. CASE UNCHANGED <<call, running, toolCalls>>
    BY <2>1 DEF Quiet, TypeInv, HandlerOK, Settling
  <2>2. ASSUME NEW c \in Calls, Passes(c), running' = None,
               toolCalls' \in {toolCalls, toolCalls + 1},
               NEW how \in {"returned", "raised"}, call' = [call EXCEPT ![c].at = how]
        PROVE  /\ call' \in [Calls -> Handlers] /\ running' \in Calls \cup {None}
               /\ toolCalls' \in 0..MaxCalls /\ \A d \in Calls : HandlerOK(d)'
    <3>1. /\ call' \in [Calls -> Handlers] /\ call'[c] = [call[c] EXCEPT !.at = how]
          /\ \A d \in Calls \ {c} : call'[d] = call[d]
      BY <2>2 DEF TypeInv, Handlers
    <3>2. running = None
      BY <2>2, WhoPasses
    <3>3. HandlerOK(c)'
      <4>1. call'[c].at = how /\ call'[c].doc = call[c].doc
        BY <3>1 DEF TypeInv, Handlers
      <4> QED BY <4>1, <2>2, TurnAssumption DEF TypeInv, HandlerOK, Settling, Quiet, Calls
    <3>4. documents' = documents /\ Len(documents) \in Nat
      BY DEF Quiet, TypeInv
    <3> QED BY <2>2, <3>1, <3>2, <3>3, <3>4, OthersKeep DEF TypeInv
  <2> QED BY <2>1, <2>2 DEF Quiet
<1>2. /\ late' \in BOOLEAN /\ moved' \in BOOLEAN /\ denied' \in BOOLEAN /\ failed' \in BOOLEAN
      /\ turn' \in {"open", "draining", "closed"} /\ result' \in {"none"} \cup Statuses
  <2>1. ASSUME NEW fails \in BOOLEAN, NEW success \in BOOLEAN, Concludes(fails, success)
        PROVE  /\ denied' = denied /\ failed' \in BOOLEAN /\ turn' = "closed"
               /\ result' \in Statuses /\ UNCHANGED world
    BY <2>1, VerdictKnown DEF Concludes, TypeInv, world
  <2>2. CASE Terminal \/ SdkFails \/ DrainEnds
    BY <2>1, <2>2 DEF Terminal, SdkFails, DrainEnds, TypeInv, world
  <2>3. CASE TurnLost \/ Elapse \/ Reconfigure \/ DenyTool
    BY <2>3 DEF TurnLost, Elapse, Reconfigure, DenyTool, TypeInv, world, sdk
  <2>4. CASE UNCHANGED <<world, sdk>>
    BY <2>4 DEF TypeInv, world, sdk
  <2>5. ASSUME NEW c \in Calls, Begins(c) \/ HandlerStep(c) PROVE UNCHANGED <<world, sdk>>
    BY <2>5 DEF Begins, HandlerStep, RefuseCall, ReadTool, InvokeNothing, Invoke, StartRoutine,
       RoutineStep, Settle, Wake
  <2> QED BY <2>2, <2>3, <2>4, <2>5 DEF TurnNext, turnVars
<1> QED BY <1>1, <1>2 DEF TypeInv, Quiet

\* What a handler is after it ends, begins a step of a routine, or goes to
\* settle a receipt.
Ends(c) ==
  /\ running' = None
  /\ \E how \in {"returned", "raised"} : call' = [call EXCEPT ![c].at = how]

Follows(c, steps) ==
  /\ running' = c
  /\ call' = [call EXCEPT ![c] = [Idle EXCEPT !.at = "step", !.steps = steps]]

LEMMA EndsShape ==
  ASSUME TypeInv, NEW c \in Calls, Ends(c)
  PROVE  /\ call' \in [Calls -> Handlers] /\ \A d \in Calls \ {c} : call'[d] = call[d]
         /\ call'[c].at \in {"returned", "raised"} /\ call'[c].doc = call[c].doc
         /\ ~Active(c)' /\ ~Settling(c)' /\ running' = None
         /\ Len(documents) <= Len(documents') => HandlerOK(c)'
<1>1. PICK how \in {"returned", "raised"} : call' = [call EXCEPT ![c].at = how]
  BY DEF Ends
<1>2. /\ call' \in [Calls -> Handlers] /\ \A d \in Calls \ {c} : call'[d] = call[d]
      /\ call'[c].at = how /\ call'[c].doc = call[c].doc
  BY <1>1 DEF TypeInv, Handlers
<1>3. ~Active(c)' /\ ~Settling(c)' /\ running' = None
  BY <1>2 DEF Ends, Active, Settling
<1>4. ASSUME Len(documents) <= Len(documents') PROVE HandlerOK(c)'
  <2>1. call[c].doc <= Len(documents) /\ call[c].doc \in Nat /\ Len(documents) \in Nat
    BY DEF TypeInv, HandlerOK, Handlers
  <2> QED BY <1>2, <1>3, <1>4, <2>1, TurnAssumption DEF HandlerOK, Settling, Calls
<1> QED BY <1>2, <1>3, <1>4

LEMMA FollowsShape ==
  ASSUME TypeInv, NEW c \in Calls, NEW steps \in Seq(Mutations) \ {<<>>}, Follows(c, steps),
         documents' \in Seq(Receipts)
  PROVE  /\ call' \in [Calls -> Handlers] /\ \A d \in Calls \ {c} : call'[d] = call[d]
         /\ call'[c].at = "step" /\ call'[c].steps = steps /\ running' = c
         /\ HandlerOK(c)'
<1>1. /\ call' \in [Calls -> Handlers] /\ \A d \in Calls \ {c} : call'[d] = call[d]
      /\ call'[c] = [at |-> "step", steps |-> steps, doc |-> 0, looks |-> 0] /\ running' = c
  <2> DEFINE next == [at |-> "step", steps |-> steps, doc |-> 0, looks |-> 0]
  <2>1. [Idle EXCEPT !.at = "step", !.steps = steps] = next
    <3> DEFINE first == [Idle EXCEPT !.at = "step"]
    <3>1. first = [at |-> "step", steps |-> <<>>, doc |-> 0, looks |-> 0]
      BY DEF Idle
    <3> HIDE DEF first
    <3>2. [first EXCEPT !.steps = steps] = next
      BY <3>1
    <3> QED BY <3>2 DEF first
  <2>2. next \in Handlers
    BY DEF Handlers
  <2>3. call' = [call EXCEPT ![c] = next] /\ running' = c
    BY <2>1 DEF Follows
  <2> HIDE DEF next
  <2>4. /\ call' \in [Calls -> Handlers] /\ \A d \in Calls \ {c} : call'[d] = call[d]
        /\ call'[c] = next
    BY <2>2, <2>3 DEF TypeInv
  <2> QED BY <2>3, <2>4 DEF next
<1> QED BY <1>1 DEF HandlerOK, Settling

\* A receipt that is complete lets the routine go on, one that is not ends the
\* handler and blocks the turn.
LEMMA ConcludeShape ==
  ASSUME TypeInv, NEW c \in Calls, NEW incomplete \in BOOLEAN, Conclude(c, incomplete)
  PROVE  /\ blocked' = (blocked \/ incomplete)
         /\ \/ Ends(c)
            \/ /\ ~incomplete /\ Len(call[c].steps) > 1
               /\ Follows(c, Tail(call[c].steps))
<1>1. CASE incomplete
  BY <1>1 DEF Conclude, Raises, Finish, Ends, TypeInv
<1>2. CASE ~incomplete
  <2>1. blocked' = blocked /\ GoOn(c)
    BY <1>2 DEF Conclude
  <2>2. CASE Len(call[c].steps) <= 1
    BY <1>2, <2>1, <2>2 DEF GoOn, Returns, Finish, Ends, TypeInv
  <2>3. CASE ~(Len(call[c].steps) <= 1)
    <3>1. Len(call[c].steps) \in Nat
      BY DEF TypeInv, Handlers
    <3> QED BY <1>2, <2>1, <2>3, <3>1 DEF GoOn, Follows, TypeInv
  <2> QED BY <2>2, <2>3
<1> QED BY <1>1, <1>2

LEMMA ContinueShape ==
  ASSUME TypeInv, NEW c \in Calls, Settling(c), Continue(c),
         documents' \in Seq(Receipts), Len(documents') = Len(documents)
  PROVE  /\ blocked' \in BOOLEAN /\ (blocked => blocked')
         /\ \/ Ends(c)
            \/ Len(call[c].steps) > 1 /\ Follows(c, Tail(call[c].steps))
         /\ call[c].doc = Len(documents) /\ documents'[call[c].doc].partial
              => blocked' /\ Ends(c)
<1>1. call[c].doc \in 1..Len(documents') /\ Len(documents) \in 1..Len(documents')
  BY DEF TypeInv, HandlerOK, Handlers
<1>2. /\ documents'[call[c].doc].partial \in BOOLEAN
      /\ documents'[Len(documents)].partial \in BOOLEAN
  <2>1. documents'[call[c].doc] \in Receipts /\ documents'[Len(documents)] \in Receipts
    BY <1>1
  <2> QED BY <2>1 DEF Receipts
<1>3. CASE call[c].steps = <<>>
  <2>1. blocked' = (blocked \/ documents'[Len(documents)].partial) /\ Returns(c)
    BY <1>3 DEF Continue
  <2>2. Ends(c)
    BY <2>1 DEF Returns, Finish, Ends
  <2>3. blocked \in BOOLEAN
    BY DEF TypeInv
  <2> QED BY <1>2, <2>1, <2>2, <2>3
<1>4. CASE call[c].steps # <<>>
  <2>1. Conclude(c, documents'[call[c].doc].partial)
    BY <1>4 DEF Continue
  <2>2. blocked \in BOOLEAN
    BY DEF TypeInv
  <2>3. ASSUME NEW p \in BOOLEAN, Conclude(c, p)
        PROVE  /\ blocked' = (blocked \/ p)
               /\ Ends(c) \/ (~p /\ Len(call[c].steps) > 1 /\ Follows(c, Tail(call[c].steps)))
    BY <2>3, ConcludeShape
  <2> QED BY <1>2, <2>1, <2>2, <2>3
<1> QED BY <1>3, <1>4

\* A step of a handler keeps the types if it keeps its own.
LEMMA LoudTypes ==
  ASSUME TypeInv, NEW c \in Calls, call' \in [Calls -> Handlers],
         \A d \in Calls \ {c} : call'[d] = call[d],
         running \in {None, c}, running' \in {None, c},
         documents' \in Seq(Receipts), Len(documents) <= Len(documents'),
         toolCalls' = toolCalls \/ (Passes(c) /\ toolCalls' = toolCalls + 1),
         HandlerOK(c)', stop' \in BOOLEAN, blocked' \in BOOLEAN, seen' \subseteq Mutations,
         sent' \in [Mutations -> Nat],
         UNCHANGED <<readOnly, dryRun, width, obedient, world, sdk>>
  PROVE  TypeInv'
<1>1. toolCalls' \in 0..MaxCalls /\ \A d \in Calls : HandlerOK(d)'
  BY OthersKeep
<1> QED BY <1>1 DEF TypeInv, world, sdk

LEMMA InvokeTypes ==
  ASSUME TypeInv, NEW c \in Calls, NEW m \in Mutations, Invoke(c, m)
  PROVE  TypeInv'
<1>1. /\ Passes(c) /\ running = None /\ toolCalls' = toolCalls + 1
      /\ seen' \subseteq Mutations
      /\ UNCHANGED <<readOnly, dryRun, width, obedient, world, sdk>>
  BY WhoPasses DEF Invoke, Checked, Passes, TypeInv
<1>2. PICK receipt \in Receipts :
        /\ Dispatch(m, receipt)
        /\ \/ Stops(receipt.status) /\ Fails(c) /\ UNCHANGED blocked
           \/ /\ ~Stops(receipt.status) /\ UNCHANGED stop
              /\ IF Settles(m)
                   THEN /\ call' = [call EXCEPT ![c] = [at |-> "settle", steps |-> <<>>,
                                      doc |-> Len(documents'), looks |-> 0]]
                        /\ running' = c /\ UNCHANGED blocked
                   ELSE Returns(c) /\ blocked' = (blocked \/ receipt.partial)
  BY DEF Invoke
<1>3. /\ documents' \in Seq(Receipts) /\ Len(documents') = Len(documents) + 1
      /\ sent' \in [Mutations -> Nat] /\ Len(documents) \in Nat
  BY <1>2, DispatchTypes DEF TypeInv
<1>4. stop' \in BOOLEAN /\ blocked' \in BOOLEAN
  BY <1>2 DEF TypeInv, Fails, Receipts
<1>5. CASE Ends(c)
  BY <1>1, <1>3, <1>4, <1>5, EndsShape, LoudTypes
<1>6. CASE /\ running' = c
           /\ call' = [call EXCEPT ![c] = [at |-> "settle", steps |-> <<>>,
                         doc |-> Len(documents'), looks |-> 0]]
  <2> DEFINE next == [at |-> "settle", steps |-> <<>>, doc |-> Len(documents'), looks |-> 0]
  <2>1. next \in Handlers
    BY <1>3 DEF Handlers
  <2>2. /\ next.at = "settle" /\ next.doc = Len(documents') /\ call' = [call EXCEPT ![c] = next]
    BY <1>6
  <2> HIDE DEF next
  <2>3. /\ call' \in [Calls -> Handlers] /\ \A d \in Calls \ {c} : call'[d] = call[d]
        /\ call'[c].at = "settle" /\ call'[c].doc = Len(documents')
    BY <2>1, <2>2 DEF TypeInv
  <2>4. HandlerOK(c)'
    BY <1>3, <1>6, <2>3 DEF HandlerOK, Settling
  <2> QED BY <1>1, <1>3, <1>4, <1>6, <2>3, <2>4, LoudTypes
<1> QED BY <1>2, <1>5, <1>6 DEF Fails, Returns, Raises, Finish, Ends

LEMMA StartsTypes ==
  ASSUME TypeInv, NEW c \in Calls, StartsRoutine(c)
  PROVE  /\ TypeInv'
         /\ \E steps \in Routines : Follows(c, steps) /\ ~readOnly /\ ~blocked /\ ~Repeats(steps)
<1>1. PICK steps \in Routines : StartRoutine(c, steps) /\ call'[c].at = "step"
  BY DEF StartsRoutine
<1>2. /\ Passes(c) /\ running = None /\ toolCalls' = toolCalls + 1
      /\ UNCHANGED <<readOnly, dryRun, width, obedient, blocked, seen, documents, sent, world, sdk>>
  BY <1>1, WhoPasses DEF StartRoutine, Checked, Passes
<1>3. ~Returns(c) /\ ~Raises(c)
  BY <1>1 DEF Returns, Raises, Finish, TypeInv, Handlers
<1>4. Follows(c, steps) /\ ~readOnly /\ ~blocked /\ ~Repeats(steps) /\ stop' = stop
  BY <1>1, <1>3 DEF StartRoutine, Follows
<1>5. steps \in Seq(Mutations) \ {<<>>} /\ documents' \in Seq(Receipts)
      /\ Len(documents) <= Len(documents')
  BY <1>2, TurnAssumption DEF TypeInv
<1>6. TypeInv'
  <2>1. stop' \in BOOLEAN /\ blocked' \in BOOLEAN /\ seen' \subseteq Mutations
        /\ sent' \in [Mutations -> Nat]
    BY <1>2, <1>4 DEF TypeInv
  <2>2. /\ call' \in [Calls -> Handlers] /\ \A d \in Calls \ {c} : call'[d] = call[d]
        /\ running' = c /\ HandlerOK(c)'
    BY <1>4, <1>5, FollowsShape
  <2> QED BY <1>2, <1>5, <2>1, <2>2, LoudTypes
<1> QED BY <1>4, <1>6

\* What remains of a routine after a step, and the receipts after one has been
\* seen to be complete.
LEMMA TailSteps ==
  ASSUME NEW steps \in Seq(Mutations), Len(steps) > 1
  PROVE  /\ Tail(steps) \in Seq(Mutations) \ {<<>>}
         /\ \A i \in DOMAIN Tail(steps) : i + 1 \in DOMAIN steps /\ i + 1 # 1
                                          /\ Tail(steps)[i] = steps[i + 1]
<1>1. Tail(steps) \in Seq(Mutations) /\ Len(Tail(steps)) = Len(steps) - 1
  <2>1. steps # <<>>
    OBVIOUS
  <2> QED BY <2>1
<1>2. Len(Tail(steps)) >= 1 /\ Len(steps) \in Nat
  BY <1>1
<1>3. \A i \in 1..Len(Tail(steps)) : Tail(steps)[i] = steps[i + 1]
  BY <1>1
<1>4. DOMAIN Tail(steps) = 1..Len(Tail(steps)) /\ DOMAIN steps = 1..Len(steps)
  BY <1>1
<1>5. Tail(steps) # <<>>
  <2>1. ASSUME NEW t \in Seq(Mutations), Len(t) >= 1 PROVE t # <<>>
    BY <2>1
  <2> QED BY <1>1, <1>2, <2>1
<1>6. \A i \in 1..Len(Tail(steps)) : i + 1 \in 1..Len(steps) /\ i + 1 # 1
  <2>1. ASSUME NEW n \in Nat, NEW i \in 1..(n - 1) PROVE i + 1 \in 1..n /\ i + 1 # 1
    OBVIOUS
  <2> QED BY <1>1, <1>2, <2>1
<1> QED BY <1>1, <1>3, <1>4, <1>5, <1>6

LEMMA Replaced ==
  ASSUME NEW docs \in Seq(Receipts), NEW n \in DOMAIN docs, NEW r \in Receipts,
         NEW new, new = [docs EXCEPT ![n] = r]
  PROVE  /\ new \in Seq(Receipts) /\ Len(new) = Len(docs) /\ DOMAIN new = DOMAIN docs
         /\ \A i \in DOMAIN docs : new[i] = IF i = n THEN r ELSE docs[i]
OBVIOUS

LEMMA Cleared ==
  ASSUME NEW r \in Receipts, NEW new, new = [r EXCEPT !.partial = FALSE]
  PROVE  new \in Receipts /\ new.status = r.status /\ new.partial = FALSE
BY DEF Receipts

\* A handler that goes to settle a receipt, or sleeps before it looks again.
GoesToSettle(c) == call' = [call EXCEPT ![c].at = "settle", ![c].doc = Len(documents')]

LEMMA SettlesShape ==
  ASSUME call \in [Calls -> Handlers], NEW c \in Calls, documents' \in Seq(Receipts),
         GoesToSettle(c)
  PROVE  /\ call' \in [Calls -> Handlers] /\ \A d \in Calls \ {c} : call'[d] = call[d]
         /\ call'[c].at = "settle" /\ call'[c].doc = Len(documents')
         /\ call'[c].steps = call[c].steps
<1> DEFINE first == [call[c] EXCEPT !.at = "settle"]
           n     == Len(documents')
           new   == [first EXCEPT !.doc = n]
<1>1. call' = [call EXCEPT ![c] = new]
  BY DEF GoesToSettle
<1>2. n \in Nat /\ call[c] \in Handlers
  OBVIOUS
<1>3. first \in Handlers /\ first.at = "settle" /\ first.steps = call[c].steps
  BY <1>2 DEF Handlers
<1> HIDE DEF first, n
<1>4. new \in Handlers /\ new.at = "settle" /\ new.doc = n /\ new.steps = call[c].steps
  BY <1>2, <1>3 DEF Handlers
<1> HIDE DEF new
<1> QED BY <1>1, <1>4 DEF n

LEMMA LooksShape ==
  ASSUME call \in [Calls -> Handlers], NEW c \in Calls, LooksAgain(c)
  PROVE  /\ call' \in [Calls -> Handlers] /\ \A d \in Calls \ {c} : call'[d] = call[d]
         /\ call'[c].at = "asleep" /\ call'[c].doc = call[c].doc
         /\ call'[c].steps = call[c].steps
         /\ running' = None /\ UNCHANGED <<stop, blocked, documents>>
<1> DEFINE first == [call[c] EXCEPT !.at = "asleep"]
           n     == call[c].looks + 1
           new   == [first EXCEPT !.looks = n]
<1>1. call' = [call EXCEPT ![c] = new] /\ running' = None /\ UNCHANGED <<stop, blocked, documents>>
  BY DEF LooksAgain
<1>2. n \in 0..2 /\ call[c] \in Handlers
  BY DEF LooksAgain, Handlers
<1>3. /\ first \in Handlers /\ first.at = "asleep" /\ first.steps = call[c].steps
      /\ first.doc = call[c].doc
  BY <1>2 DEF Handlers
<1> HIDE DEF first, n
<1>4. /\ new \in Handlers /\ new.at = "asleep" /\ new.doc = call[c].doc
      /\ new.steps = call[c].steps
  BY <1>2, <1>3 DEF Handlers
<1> HIDE DEF new
<1> QED BY <1>1, <1>4

LEMMA RoutineTypes ==
  ASSUME TypeInv, NEW c \in Calls, RoutineStep(c)
  PROVE  TypeInv'
<1> DEFINE m == Head(call[c].steps)
<1>1. /\ running = c /\ toolCalls' = toolCalls
      /\ UNCHANGED <<readOnly, dryRun, width, obedient, world, sdk>>
  BY DEF RoutineStep, TypeInv, HandlerOK
<1>2. call[c].steps \in Seq(Mutations) /\ call[c].steps # <<>> /\ m \in Mutations
  BY DEF RoutineStep, TypeInv, HandlerOK, Handlers
<1>3. stop \in BOOLEAN /\ blocked \in BOOLEAN /\ seen \subseteq Mutations
      /\ documents \in Seq(Receipts) /\ sent \in [Mutations -> Nat] /\ call \in [Calls -> Handlers]
  BY DEF TypeInv
<1> HIDE DEF m
<1>4. ASSUME Len(documents) <= Len(documents'), documents' \in Seq(Receipts),
             sent' \in [Mutations -> Nat], seen' \subseteq Mutations,
             stop' \in BOOLEAN, blocked' \in BOOLEAN,
             \/ Ends(c)
             \/ Len(call[c].steps) > 1 /\ Follows(c, Tail(call[c].steps))
      PROVE  TypeInv'
  <2>1. CASE Ends(c)
    BY <1>1, <1>4, <2>1, EndsShape, LoudTypes
  <2>2. CASE Len(call[c].steps) > 1 /\ Follows(c, Tail(call[c].steps))
    <3>1. Tail(call[c].steps) \in Seq(Mutations) \ {<<>>}
      BY <1>2, <2>2, TailSteps
    <3> QED BY <1>1, <1>4, <2>2, <3>1, FollowsShape, LoudTypes
  <2> QED BY <1>4, <2>1, <2>2
<1>5. CASE Fails(c) /\ UNCHANGED <<blocked, seen, documents, sent>>
  <2>1. Ends(c) /\ stop' \in BOOLEAN /\ Len(documents) <= Len(documents')
    BY <1>3, <1>5 DEF Fails, Raises, Finish, Ends
  <2> QED BY <1>3, <1>4, <1>5, <2>1
<1>6. ASSUME NEW receipt \in Receipts, seen' = seen \cup {m}, Dispatch(m, receipt),
             \/ receipt.status = "outcome_unknown" /\ Fails(c) /\ UNCHANGED blocked
             \/ receipt.status = "failed" /\ blocked' = TRUE /\ Raises(c) /\ UNCHANGED stop
             \/ /\ receipt.status = "ok" /\ UNCHANGED stop
                /\ IF Settles(m)
                     THEN /\ call' = [call EXCEPT ![c].at = "settle",
                                                  ![c].doc = Len(documents')]
                          /\ UNCHANGED <<running, blocked>>
                     ELSE Conclude(c, receipt.partial)
      PROVE  TypeInv'
  <2>1. /\ documents' \in Seq(Receipts) /\ Len(documents') = Len(documents) + 1
        /\ sent' \in [Mutations -> Nat] /\ Len(documents) \in Nat /\ receipt.partial \in BOOLEAN
        /\ seen' \subseteq Mutations
    BY <1>2, <1>3, <1>6, DispatchTypes DEF Receipts
  <2>2. Len(documents) <= Len(documents')
    BY <2>1
  <2>3. CASE Fails(c) /\ UNCHANGED blocked
    BY <1>3, <1>4, <2>1, <2>2, <2>3 DEF Fails, Raises, Finish, Ends
  <2>4. CASE blocked' = TRUE /\ Raises(c) /\ UNCHANGED stop
    BY <1>3, <1>4, <2>1, <2>2, <2>4 DEF Raises, Finish, Ends
  <2>5. CASE Conclude(c, receipt.partial) /\ UNCHANGED stop
    <3>1. /\ blocked' \in BOOLEAN
          /\ \/ Ends(c)
             \/ Len(call[c].steps) > 1 /\ Follows(c, Tail(call[c].steps))
      BY <1>3, <2>1, <2>5, ConcludeShape
    <3> QED BY <1>3, <1>4, <2>1, <2>2, <2>5, <3>1
  <2>6. CASE /\ call' = [call EXCEPT ![c].at = "settle", ![c].doc = Len(documents')]
             /\ UNCHANGED <<running, blocked, stop>>
    <3>1. /\ call' \in [Calls -> Handlers] /\ \A d \in Calls \ {c} : call'[d] = call[d]
          /\ call'[c].at = "settle" /\ call'[c].doc = Len(documents')
      <4>1. GoesToSettle(c)
        BY <2>6 DEF GoesToSettle
      <4> QED BY <1>3, <2>1, <4>1, SettlesShape
    <3>2. HandlerOK(c)' /\ stop' \in BOOLEAN /\ blocked' \in BOOLEAN /\ running' = c
      BY <1>1, <1>3, <2>1, <2>6, <3>1 DEF HandlerOK, Settling
    <3> QED BY <1>1, <2>1, <2>2, <3>1, <3>2, LoudTypes
  <2> QED BY <1>6, <2>3, <2>4, <2>5, <2>6
<1> QED BY <1>5, <1>6 DEF RoutineStep, m

\* A look leaves the receipts as they are, or finds the one it is about
\* complete.
LEMMA SettleDocuments ==
  ASSUME TypeInv, NEW c \in Calls, Settle(c)
  PROVE  /\ documents' \in Seq(Receipts) /\ DOMAIN documents' = DOMAIN documents
         /\ Len(documents') = Len(documents) /\ sent' = sent
         /\ \A i \in DOMAIN documents : /\ documents'[i].status = documents[i].status
                                        /\ documents'[i].partial => documents[i].partial
<1>1. call[c].doc \in DOMAIN documents /\ documents \in Seq(Receipts)
  BY DEF Settle, TypeInv, HandlerOK, Settling, Handlers
<1>2. sent' = sent
  BY DEF Settle
<1>3. CASE UNCHANGED documents
  BY <1>1, <1>2, <1>3
<1>4. CASE documents' = [documents EXCEPT ![call[c].doc].partial = FALSE]
  <2> DEFINE n   == call[c].doc
             new == [documents[n] EXCEPT !.partial = FALSE]
  <2>1. documents' = [documents EXCEPT ![n] = new]
    BY <1>4
  <2>2. new \in Receipts /\ new.status = documents[n].status /\ new.partial = FALSE
    <3>1. documents[n] \in Receipts
      BY <1>1
    <3> QED BY <3>1, Cleared
  <2> HIDE DEF new
  <2>3. /\ documents' \in Seq(Receipts) /\ Len(documents') = Len(documents)
        /\ DOMAIN documents' = DOMAIN documents
        /\ \A i \in DOMAIN documents : documents'[i] = IF i = n THEN new ELSE documents[i]
    BY <1>1, <2>1, <2>2, Replaced
  <2> QED BY <1>2, <2>2, <2>3
<1> QED BY <1>3, <1>4 DEF Settle, LooksAgain

LEMMA SettleTypes ==
  ASSUME TypeInv, NEW c \in Calls, Settle(c)
  PROVE  TypeInv'
<1>1. /\ running = c /\ toolCalls' = toolCalls
      /\ UNCHANGED <<readOnly, dryRun, width, obedient, world, sdk>>
      /\ sent' = sent /\ seen' = seen
  BY DEF Settle, TypeInv, HandlerOK
<1>2. /\ stop \in BOOLEAN /\ blocked \in BOOLEAN /\ documents \in Seq(Receipts)
      /\ sent \in [Mutations -> Nat] /\ seen \subseteq Mutations /\ call \in [Calls -> Handlers]
      /\ HandlerOK(c) /\ call[c].at = "settle"
  BY DEF TypeInv, Settle
<1>3. Settling(c) /\ call[c].doc \in DOMAIN documents /\ call[c].steps \in Seq(Mutations)
  BY <1>2 DEF HandlerOK, Settling, Handlers
<1>4. /\ documents' \in Seq(Receipts) /\ Len(documents') = Len(documents)
      /\ Len(documents) <= Len(documents') /\ stop' \in BOOLEAN
  <2>1. documents' \in Seq(Receipts) /\ Len(documents') = Len(documents)
    BY SettleDocuments
  <2>2. stop' \in BOOLEAN
    BY <1>2 DEF Settle, Fails, LooksAgain
  <2> QED BY <1>2, <2>1, <2>2
<1>5. CASE Ends(c) /\ blocked' \in BOOLEAN
  BY <1>1, <1>2, <1>4, <1>5, EndsShape, LoudTypes
<1>6. CASE Continue(c)
  <2>1. /\ blocked' \in BOOLEAN
        /\ \/ Ends(c)
           \/ Len(call[c].steps) > 1 /\ Follows(c, Tail(call[c].steps))
    BY <1>3, <1>4, <1>6, ContinueShape
  <2>2. CASE Len(call[c].steps) > 1 /\ Follows(c, Tail(call[c].steps))
    <3>1. Tail(call[c].steps) \in Seq(Mutations) \ {<<>>}
      BY <1>3, <2>2, TailSteps
    <3>2. /\ call' \in [Calls -> Handlers] /\ \A d \in Calls \ {c} : call'[d] = call[d]
          /\ running' = c /\ HandlerOK(c)'
      BY <1>4, <2>2, <3>1, FollowsShape
    <3> QED BY <1>1, <1>2, <1>4, <2>1, <3>2, LoudTypes
  <2> QED BY <1>5, <2>1, <2>2
<1>7. CASE LooksAgain(c)
  <2>1. /\ call' \in [Calls -> Handlers] /\ \A d \in Calls \ {c} : call'[d] = call[d]
        /\ call'[c].at = "asleep" /\ call'[c].doc = call[c].doc
        /\ running' = None /\ UNCHANGED <<blocked, documents>>
    BY <1>2, <1>7, LooksShape
  <2>2. HandlerOK(c)'
    BY <1>2, <2>1, TurnAssumption DEF HandlerOK, Settling, Calls
  <2> QED BY <1>1, <1>2, <1>4, <2>1, <2>2, LoudTypes
<1> QED BY <1>2, <1>5, <1>6, <1>7 DEF Settle, Fails, Raises, Finish, Ends

LEMMA WakeTypes ==
  ASSUME TypeInv, NEW c \in Calls, Wake(c)
  PROVE  TypeInv'
<1>1. /\ call' \in [Calls -> Handlers] /\ \A d \in Calls \ {c} : call'[d] = call[d]
      /\ call'[c].at = "settle" /\ call'[c].doc = call[c].doc
      /\ running = None /\ running' = c /\ call[c].at = "asleep"
  BY DEF Wake, TypeInv, Handlers
<1>2. UNCHANGED <<flags, world, sdk>>
  BY DEF Wake
<1>3. HandlerOK(c)'
  BY <1>1, <1>2 DEF TypeInv, HandlerOK, Settling, flags
<1> QED BY <1>1, <1>2, <1>3, LoudTypes DEF TypeInv, flags

LEMMA TypeStep ==
  ASSUME TypeInv, [TurnNext]_turnVars
  PROVE  TypeInv'
BY StepKinds, QuietTypes, InvokeTypes, StartsTypes, RoutineTypes, SettleTypes, WakeTypes

LEMMA TurnTyped ==
  ASSUME TypeInv
  PROVE  TurnTypeOK
<1>1. IsFiniteSet(Calls) /\ Cardinality(Calls) = MaxCalls
  <2>1. MaxCalls \in Int /\ 1 \in Int /\ MaxCalls \in Nat
    BY TurnAssumption
  <2>2. IsFiniteSet(1..MaxCalls) /\ Cardinality(1..MaxCalls) = IF 1 > MaxCalls THEN 0
                                                                ELSE MaxCalls - 1 + 1
    BY <2>1, FS_Interval
  <2> QED BY <2>1, <2>2 DEF Calls
<1>2. toolCalls \in 0..MaxToolCalls + Cardinality(Calls)
  BY <1>1, TurnAssumption DEF TypeInv
<1>3. ASSUME NEW c \in Calls
      PROVE  /\ call[c].at \in {"unused", "step", "settle", "asleep", "returned", "raised"}
             /\ call[c].steps \in Seq(Mutations)
             /\ call[c].doc \in 0..Len(documents)
             /\ call[c].looks \in 0..2
             /\ call[c].at \in {"step", "settle"} <=> running = c
  BY DEF TypeInv, HandlerOK, Handlers
<1> QED BY <1>2, <1>3 DEF TypeInv, TurnTypeOK, Receipts

-----------------------------------------------------------------------------
(* The verdict.                                                            *)

\* What a step may do to the receipts: nothing, add one, or clear one.
LEMMA StepDocuments ==
  ASSUME TypeInv, [TurnNext]_turnVars
  PROVE  \/ UNCHANGED <<documents, sent>>
         \/ \E m \in Mutations, receipt \in Receipts : Dispatch(m, receipt)
         \/ /\ documents' \in Seq(Receipts) /\ DOMAIN documents' = DOMAIN documents
            /\ Len(documents') = Len(documents) /\ sent' = sent
            /\ \A i \in DOMAIN documents : /\ documents'[i].status = documents[i].status
                                           /\ documents'[i].partial => documents[i].partial
<1>1. CASE Quiet
  BY <1>1 DEF Quiet
<1>2. ASSUME NEW c \in Calls, NEW m \in Mutations, Invoke(c, m)
      PROVE  \E receipt \in Receipts : Dispatch(m, receipt)
  BY <1>2 DEF Invoke
<1>3. ASSUME NEW c \in Calls, StartsRoutine(c) \/ Wake(c)
      PROVE  UNCHANGED <<documents, sent>>
  BY <1>3 DEF StartsRoutine, StartRoutine, Wake, flags
<1>4. ASSUME NEW c \in Calls, RoutineStep(c)
      PROVE  \/ UNCHANGED <<documents, sent>>
             \/ \E m \in Mutations, receipt \in Receipts : Dispatch(m, receipt)
  <2>1. Head(call[c].steps) \in Mutations
    BY <1>4 DEF RoutineStep, TypeInv, HandlerOK, Handlers
  <2> QED BY <1>4, <2>1 DEF RoutineStep
<1>5. ASSUME NEW c \in Calls, Settle(c)
      PROVE  /\ documents' \in Seq(Receipts) /\ DOMAIN documents' = DOMAIN documents
             /\ Len(documents') = Len(documents) /\ sent' = sent
             /\ \A i \in DOMAIN documents : /\ documents'[i].status = documents[i].status
                                            /\ documents'[i].partial => documents[i].partial
  BY <1>5, SettleDocuments
<1> QED BY <1>1, <1>2, <1>3, <1>4, <1>5, StepKinds

\* What result() says of a turn whose mode is respected.
LEMMA VerdictHonest ==
  ASSUME TypeInv, readOnly => documents = <<>>,
         dryRun => \A i \in DOMAIN documents : documents[i].status # "outcome_unknown",
         NEW success \in BOOLEAN, NEW clarifies \in BOOLEAN,
         NEW v, v = Verdict(success, clarifies)
  PROVE  /\ ~success => v \in {"failed", "partial", "unknown"}
         /\ v \in {"failed", "answered", "preview", "needs_clarification"}
              => dryRun \/ documents = <<>>
         /\ v = "accepted" =>
              \A i \in DOMAIN documents : documents[i].status = "ok" /\ ~documents[i].partial
         /\ (\E i \in DOMAIN documents : documents[i].status = "outcome_unknown")
              => v = "unknown"
<1> DEFINE a == ActionStatus
           unknown == \E i \in DOMAIN documents : documents[i].status = "outcome_unknown"
<1>1. a \in {"not_attempted", "unknown", "partial", "accepted"}
  BY DEF ActionStatus
<1>2. a = "not_attempted" <=> dryRun \/ documents = <<>>
  BY DEF ActionStatus
<1>3. a = "accepted" =>
        \A i \in DOMAIN documents : documents[i].status = "ok" /\ ~documents[i].partial
  BY DEF ActionStatus
<1>4. unknown => a = "unknown"
  <2>1. unknown => ~dryRun /\ documents # <<>>
    OBVIOUS
  <2> QED BY <2>1 DEF ActionStatus
<1>5. v = LET nothing == a = "not_attempted" IN
            CASE ~success /\ nothing                -> "failed"
              [] ~success /\ a = "unknown" -> "unknown"
              [] ~success /\ a \in {"accepted", "partial"} -> "partial"
              [] success /\ nothing /\ clarifies    -> "needs_clarification"
              [] success /\ nothing /\ ~clarifies   -> IF dryRun THEN "preview" ELSE "answered"
              [] success /\ ~nothing                -> IF readOnly THEN "answered" ELSE a
  BY DEF Verdict
<1>6. readOnly \in BOOLEAN /\ dryRun \in BOOLEAN
  BY DEF TypeInv
<1> HIDE DEF a, unknown
<1>7. /\ ~success => v \in {"failed", "partial", "unknown"}
      /\ v \in {"failed", "answered", "preview", "needs_clarification"}
           => a = "not_attempted" \/ readOnly
      /\ v = "accepted" => a = "accepted"
      /\ a = "unknown" => v = "unknown" \/ readOnly
  BY <1>1, <1>5, <1>6
<1>8. unknown => ~readOnly
  BY DEF unknown
<1> QED BY <1>2, <1>3, <1>4, <1>7, <1>8 DEF unknown

\* What a dispatch, or anything else, does to what the mode rules out.
LEMMA ModeDocuments ==
  ASSUME TypeInv, ModeInv, [TurnNext]_turnVars
  PROVE  /\ dryRun' = dryRun /\ readOnly' = readOnly
         /\ dryRun \/ documents' = <<>> => \A m \in Mutations : sent'[m] = 0
         /\ dryRun => \A i \in DOMAIN documents' : documents'[i].status # "outcome_unknown"
<1>1. dryRun' = dryRun /\ readOnly' = readOnly
  BY StepKinds DEF Quiet, Invoke, StartsRoutine, StartRoutine, RoutineStep, Settle, Wake, flags
<1>2. documents \in Seq(Receipts)
  BY DEF TypeInv
<1>3. CASE UNCHANGED <<documents, sent>>
  BY <1>1, <1>3 DEF ModeInv
<1>4. ASSUME NEW m \in Mutations, NEW receipt \in Receipts, Dispatch(m, receipt)
      PROVE  /\ dryRun \/ documents' = <<>> => \A k \in Mutations : sent'[k] = 0
             /\ dryRun => \A i \in DOMAIN documents' : documents'[i].status # "outcome_unknown"
  <2>1. /\ documents' \in Seq(Receipts) /\ Len(documents') = Len(documents) + 1
        /\ documents'[Len(documents) + 1] = receipt
        /\ \A i \in DOMAIN documents : documents'[i] = documents[i]
        /\ DOMAIN documents' = DOMAIN documents \cup {Len(documents) + 1}
    BY <1>4, DispatchTypes
  <2>2. documents' # <<>>
    BY <1>2, <2>1
  <2>3. dryRun => sent' = sent /\ receipt.status # "outcome_unknown"
    BY <1>4 DEF Dispatch
  <2> QED BY <2>1, <2>2, <2>3 DEF ModeInv
<1>5. CASE /\ documents' \in Seq(Receipts) /\ DOMAIN documents' = DOMAIN documents
           /\ Len(documents') = Len(documents) /\ sent' = sent
           /\ \A i \in DOMAIN documents : documents'[i].status = documents[i].status
  <2>1. documents' = <<>> => documents = <<>>
    BY <1>2, <1>5
  <2>2. dryRun \/ documents' = <<>> => \A m \in Mutations : sent'[m] = 0
    BY <1>5, <2>1 DEF ModeInv
  <2>3. dryRun => \A i \in DOMAIN documents' : documents'[i].status # "outcome_unknown"
    BY <1>5 DEF ModeInv
  <2> QED BY <1>1, <2>2, <2>3
<1> QED BY <1>1, <1>3, <1>4, <1>5, StepDocuments

\* A read-only turn never has a receipt, or a handler under way.
LEMMA ModeReadOnly ==
  ASSUME TypeInv, ModeInv, [TurnNext]_turnVars, readOnly
  PROVE  documents' = <<>> /\ NoneActive'
<1>1. documents = <<>> /\ NoneActive
  BY DEF ModeInv
<1>2. CASE Quiet
  <2>1. CASE UNCHANGED <<call, running, toolCalls>>
    BY <1>1, <1>2, <2>1 DEF Quiet, NoneActive, Active
  <2>2. ASSUME NEW c \in Calls, NEW how \in {"returned", "raised"},
               call' = [call EXCEPT ![c].at = how], running' = None
        PROVE  NoneActive'
    <3>1. Ends(c)
      BY <2>2 DEF Ends
    <3>2. ~Active(c)' /\ \A d \in Calls \ {c} : call'[d] = call[d]
      BY <3>1, EndsShape
    <3> QED BY <1>1, <3>2 DEF NoneActive, Active
  <2> QED BY <1>1, <1>2, <2>1, <2>2 DEF Quiet
<1>3. ASSUME NEW c \in Calls PROVE ~(\E m \in Mutations : Invoke(c, m)) /\ ~StartsRoutine(c)
  BY StartsTypes DEF Invoke
<1>4. ASSUME NEW c \in Calls PROVE ~RoutineStep(c) /\ ~Settle(c) /\ ~Wake(c)
  BY <1>1 DEF NoneActive, Active, RoutineStep, Settle, Wake
<1> QED BY <1>2, <1>3, <1>4, StepKinds

LEMMA ModeStep ==
  ASSUME TypeInv, ModeInv, [TurnNext]_turnVars
  PROVE  ModeInv'
<1>1. readOnly' => documents' = <<>> /\ NoneActive'
  BY ModeDocuments, ModeReadOnly
<1>2. ResultHonest'
  <2>1. ASSUME NEW fails \in BOOLEAN, NEW success \in BOOLEAN, Concludes(fails, success)
        PROVE  ResultHonest'
    <3>1. PICK clarifies \in BOOLEAN : result' = Verdict(success /\ ~fails /\ ~denied, clarifies)
      BY <2>1 DEF Concludes
    <3>2. failed' = fails /\ UNCHANGED <<documents, sent, denied>>
      BY <2>1 DEF Concludes
    <3> DEFINE good == success /\ ~fails /\ ~denied
    <3>3. good \in BOOLEAN /\ (failed' \/ denied' => ~good)
      BY <3>2 DEF TypeInv
    <3>4. /\ ~good => result' \in {"failed", "partial", "unknown"}
          /\ result' \in {"failed", "answered", "preview", "needs_clarification"}
               => dryRun \/ documents = <<>>
          /\ result' = "accepted" =>
               \A i \in DOMAIN documents : documents[i].status = "ok" /\ ~documents[i].partial
          /\ (\E i \in DOMAIN documents : documents[i].status = "outcome_unknown")
               => result' = "unknown"
      <4>1. /\ readOnly => documents = <<>>
            /\ dryRun => \A i \in DOMAIN documents : documents[i].status # "outcome_unknown"
        BY DEF ModeInv
      <4> HIDE DEF good
      <4> QED BY <3>1, <3>3, <4>1, VerdictHonest DEF good
    <3>5. dryRun \/ documents = <<>> => \A m \in Mutations : sent[m] = 0
      BY DEF ModeInv
    <3> HIDE DEF good
    <3> QED BY <3>2, <3>3, <3>4, <3>5 DEF ResultHonest
  <2>2. CASE turn' # "closed"
    BY <2>2 DEF ResultHonest
  <2>3. CASE UNCHANGED <<documents, sent, sdk>>
    BY <2>3 DEF ModeInv, ResultHonest, sdk
  <2>4. CASE Terminal \/ SdkFails \/ DrainEnds
    BY <2>1, <2>4 DEF Terminal, SdkFails, DrainEnds
  <2>5. CASE TurnLost \/ DenyTool
    BY <2>2, <2>5 DEF TurnLost, DenyTool, sdk
  <2>6. CASE Elapse \/ Reconfigure \/ UNCHANGED turnVars
    BY <2>3, <2>6 DEF Elapse, Reconfigure, turnVars, flags
  <2>7. ASSUME NEW c \in Calls, Begins(c) \/ HandlerStep(c)
        PROVE  ResultHonest'
    <3>1. turn' # "closed"
      BY <2>7 DEF Begins, HandlerStep, RefuseCall, ReadTool, InvokeNothing, Invoke,
         StartRoutine, RoutineStep, Settle, Wake, Checked, Passes, sdk
    <3> QED BY <2>2, <3>1
  <2> QED BY <2>4, <2>5, <2>6, <2>7 DEF TurnNext
<1> QED BY <1>1, <1>2, ModeDocuments DEF ModeInv

-----------------------------------------------------------------------------
(* One tool call at a time.                                                *)

\* A step that is quiet ends no handler that is under way, and begins none.
LEMMA QuietAlone ==
  ASSUME TypeInv, Quiet, width = 1, AloneInv
  PROVE  AloneInv'
<1>1. /\ UNCHANGED <<width, obedient, blocked, seen, documents, sent>>
      /\ stop => stop' = TRUE
  BY DEF Quiet
<1>2. ASSUME NEW d \in Calls
      PROVE  \/ call'[d] = call[d]
             \/ /\ call[d].at = "unused" /\ ~Active(d)' /\ ~Settling(d)'
                /\ call'[d].at # "step"
  <2>1. CASE UNCHANGED <<call, running, toolCalls>>
    BY <2>1
  <2>2. ASSUME NEW c \in Calls, Passes(c), running' = None, NEW how \in {"returned", "raised"},
               call' = [call EXCEPT ![c].at = how]
        PROVE  \/ call'[d] = call[d]
               \/ /\ call[d].at = "unused" /\ ~Active(d)' /\ ~Settling(d)'
                  /\ call'[d].at # "step"
    <3>1. Ends(c) /\ call[c].at = "unused"
      BY <2>2, WhoPasses DEF Ends
    <3> QED BY <3>1, EndsShape
  <2> QED BY <2>1, <2>2 DEF Quiet
<1>3. /\ \A d \in Calls : Active(d)' => Active(d) /\ call'[d] = call[d]
      /\ \A d \in Calls : Active(d) => Active(d)' /\ call'[d] = call[d]
      /\ \A d \in Calls : Settling(d)' <=> Settling(d)
      /\ \A d \in Calls : call[d].at = "raised" => call'[d].at = "raised"
      /\ \A d \in Calls : call'[d].at = "step" => call'[d] = call[d]
  BY <1>2 DEF Active, Settling
<1>4. Alone /\ Remaining /\ LastSettles /\ FailureTold /\ PartialTold
  BY DEF AloneInv
<1>5. Alone' /\ (NoneActive => NoneActive')
  BY <1>3, <1>4 DEF Alone, NoneActive
<1>6. Remaining'
  <2>1. Applied'
    BY <1>1, <1>4 DEF Remaining, Applied
  <2>2. ASSUME NEW d \in Calls PROVE Fresh(d)'
    <3>1. Fresh(d) /\ seen' = seen
      BY <1>1, <1>4 DEF Remaining
    <3>2. CASE call'[d] = call[d]
      BY <3>1, <3>2 DEF Fresh, Settling, Active
    <3>3. CASE call'[d] # call[d]
      <4>1. call'[d].at # "step" /\ ~Settling(d)' /\ ~Active(d)'
        BY <1>2, <3>3
      <4> QED BY <4>1 DEF Fresh
    <3> QED BY <3>2, <3>3
  <2> QED BY <2>1, <2>2 DEF Remaining
<1>7. LastSettles'
  BY <1>1, <1>2, <1>3, <1>4 DEF LastSettles
<1>8. FailureTold'
  <2>1. Bad' => Bad
    BY <1>1 DEF Bad
  <2>2. stop \/ blocked => stop' \/ blocked'
    BY <1>1
  <2> QED BY <1>4, <1>5, <2>1, <2>2 DEF FailureTold
<1>9. PartialTold'
  <2> SUFFICES ASSUME obedient', NEW i \in DOMAIN documents', documents'[i].partial
               PROVE  \/ \E c \in Calls : Settling(c)' /\ call'[c].doc = i
                      \/ NoneActive' /\ (blocked' \/ \E c \in Calls : call'[c].at = "raised")
    BY DEF PartialTold
  <2>1. \/ \E c \in Calls : Settling(c) /\ call[c].doc = i
        \/ NoneActive /\ (blocked \/ \E c \in Calls : call[c].at = "raised")
    BY <1>1, <1>4 DEF PartialTold
  <2> QED BY <1>1, <1>2, <1>3, <1>5, <2>1
<1> QED BY <1>5, <1>6, <1>7, <1>8, <1>9 DEF AloneInv

\* A step of a handler that is alone has to answer for itself only.
Told(c) ==
  /\ Settling(c) => call[c].doc = Len(documents)
  /\ Bad => ~Active(c) /\ (stop \/ blocked)
  /\ obedient => \A i \in DOMAIN documents : documents[i].partial =>
       \/ Settling(c) /\ call[c].doc = i
       \/ ~Active(c) /\ (blocked \/ call[c].at = "raised")

LEMMA LoudAlone ==
  ASSUME NEW c \in Calls, \A d \in Calls \ {c} : ~Active(d) /\ call'[d] = call[d],
         Applied', Fresh(c)', Told(c)'
  PROVE  AloneInv'
<1>1. \A d \in Calls \ {c} : ~Active(d)' /\ ~Settling(d)' /\ call'[d].at # "step"
  BY DEF Active, Settling
<1>2. Alone' /\ (~Active(c)' => NoneActive')
  BY <1>1 DEF Alone, NoneActive
<1>3. Remaining'
  <2>1. ASSUME NEW d \in Calls \ {c} PROVE Fresh(d)'
    BY <1>1 DEF Fresh
  <2> QED BY <2>1 DEF Remaining
<1>4. LastSettles'
  BY <1>1 DEF LastSettles, Told
<1>5. FailureTold'
  BY <1>2 DEF FailureTold, Told
<1>6. PartialTold'
  BY <1>2 DEF PartialTold, Told
<1> QED BY <1>2, <1>3, <1>4, <1>5, <1>6 DEF AloneInv

\* With no failure told, none has happened; with no receipt left incomplete,
\* none is.
LEMMA CleanStart ==
  ASSUME TypeInv, width = 1, AloneInv, NEW c \in Calls, Passes(c), ~stop, ~blocked
  PROVE  /\ ~Bad /\ \A d \in Calls : ~Active(d)
         /\ obedient => \A i \in DOMAIN documents : ~documents[i].partial
<1>1. NoneActive /\ (obedient => \A d \in Calls : call[d].at # "raised")
  BY WhoPasses
<1>2. FailureTold /\ PartialTold
  BY DEF AloneInv
<1>3. \A d \in Calls : ~Settling(d)
  BY <1>1 DEF NoneActive, Active, Settling
<1> QED BY <1>1, <1>2, <1>3 DEF FailureTold, PartialTold, NoneActive

LEMMA CleanHandler ==
  ASSUME TypeInv, width = 1, AloneInv, NEW c \in Calls, Active(c)
  PROVE  /\ ~Bad /\ \A d \in Calls \ {c} : ~Active(d)
         /\ obedient => \A i \in DOMAIN documents : documents[i].partial =>
                          Settling(c) /\ call[c].doc = i
         /\ Applied /\ Fresh(c) /\ (Settling(c) => call[c].doc = Len(documents))
<1>1. Alone /\ Remaining /\ LastSettles /\ FailureTold /\ PartialTold
  BY DEF AloneInv
<1>2. ~NoneActive /\ \A d \in Calls \ {c} : ~Active(d) /\ ~Settling(d)
  <2>1. \A d \in Calls : Settling(d) => Active(d)
    BY DEF Settling, Active
  <2> QED BY <1>1, <2>1 DEF NoneActive, Alone
<1> QED BY <1>1, <1>2 DEF FailureTold, PartialTold, Remaining, LastSettles

\* A mutation that has not been seen is applied once at most.
LEMMA AppliedOnce ==
  ASSUME TypeInv, Applied, NEW m \in Mutations \ seen, NEW receipt \in Receipts,
         Dispatch(m, receipt), seen' = seen \cup {m}
  PROVE  Applied'
<1>1. sent[m] = 0 /\ sent \in [Mutations -> Nat]
  BY DEF Applied, TypeInv
<1>2. sent' = sent \/ sent' = [sent EXCEPT ![m] = sent[m] + 1]
  BY DEF Dispatch
<1>3. ASSUME NEW k \in Mutations PROVE sent'[k] = 0 \/ (sent'[k] = 1 /\ k \in seen')
  BY <1>1, <1>2 DEF Applied
<1> QED BY <1>3 DEF Applied

\* Of the receipts after a dispatch that was made with a clean record, only
\* the last can be bad or incomplete.
LEMMA DispatchTold ==
  ASSUME TypeInv, NEW m \in Mutations, NEW receipt \in Receipts, Dispatch(m, receipt),
         ~Bad, obedient => \A i \in DOMAIN documents : ~documents[i].partial
  PROVE  /\ receipt.status = "ok" => ~Bad'
         /\ receipt.partial => receipt.status = "ok"
         /\ obedient => \A i \in DOMAIN documents' :
                          documents'[i].partial => i = Len(documents') /\ receipt.partial
<1>1. /\ Len(documents') = Len(documents) + 1 /\ documents'[Len(documents) + 1] = receipt
      /\ \A i \in DOMAIN documents : documents'[i] = documents[i]
      /\ DOMAIN documents' = DOMAIN documents \cup {Len(documents) + 1}
  BY DispatchTypes
<1>2. receipt.partial => receipt.status = "ok"
  BY DEF Dispatch
<1> QED BY <1>1, <1>2 DEF Bad

LEMMA InvokeAlone ==
  ASSUME TypeInv, width = 1, AloneInv, NEW c \in Calls, NEW m \in Mutations, Invoke(c, m)
  PROVE  AloneInv'
<1>1. /\ Passes(c) /\ ~stop /\ ~blocked /\ m \in Mutations \ seen /\ seen' = seen \cup {m}
      /\ obedient' = obedient
  BY DEF Invoke, Checked
<1>2. PICK receipt \in Receipts :
        /\ Dispatch(m, receipt)
        /\ \/ Stops(receipt.status) /\ Fails(c) /\ UNCHANGED blocked
           \/ /\ ~Stops(receipt.status) /\ UNCHANGED stop
              /\ IF Settles(m)
                   THEN /\ call' = [call EXCEPT ![c] = [at |-> "settle", steps |-> <<>>,
                                      doc |-> Len(documents'), looks |-> 0]]
                        /\ running' = c /\ UNCHANGED blocked
                   ELSE Returns(c) /\ blocked' = (blocked \/ receipt.partial)
  BY DEF Invoke
<1>3. /\ ~Bad /\ \A d \in Calls : ~Active(d)
      /\ obedient => \A i \in DOMAIN documents : ~documents[i].partial
  BY <1>1, CleanStart
<1>4. Applied'
  BY <1>1, <1>2, AppliedOnce DEF AloneInv, Remaining
<1>5. /\ receipt.status = "ok" => ~Bad'
      /\ receipt.partial => receipt.status = "ok"
      /\ obedient' => \A i \in DOMAIN documents' :
                        documents'[i].partial => i = Len(documents') /\ receipt.partial
  BY <1>1, <1>2, <1>3, DispatchTold
<1>6. receipt.status \in {"ok", "failed", "outcome_unknown"} /\ receipt.partial \in BOOLEAN
  BY DEF Receipts
<1>7. ASSUME Ends(c), receipt.status # "ok" => stop', receipt.partial => blocked'
      PROVE  AloneInv'
  <2>1. /\ \A d \in Calls \ {c} : call'[d] = call[d]
        /\ ~Active(c)' /\ ~Settling(c)' /\ call'[c].at # "step"
    BY <1>7, EndsShape
  <2>2. Fresh(c)'
    BY <2>1 DEF Fresh
  <2>3. Told(c)'
    BY <1>5, <1>7, <2>1 DEF Told
  <2> QED BY <1>3, <1>4, <2>1, <2>2, <2>3, LoudAlone
<1>8. CASE Stops(receipt.status) /\ Fails(c) /\ UNCHANGED blocked
  <2>1. receipt.status # "ok"
    BY <1>8 DEF Stops
  <2>2. Ends(c) /\ stop' = TRUE
    BY <1>8 DEF Fails, Raises, Finish, Ends
  <2> QED BY <1>5, <1>7, <2>1, <2>2
<1>9. CASE ~Stops(receipt.status) /\ Returns(c) /\ blocked' = (blocked \/ receipt.partial)
  <2>1. receipt.status = "ok" /\ Ends(c) /\ (receipt.partial => blocked')
    BY <1>6, <1>9 DEF Stops, Returns, Finish, Ends
  <2> QED BY <1>7, <2>1
<1>10. CASE /\ ~Stops(receipt.status)
            /\ call' = [call EXCEPT ![c] = [at |-> "settle", steps |-> <<>>,
                          doc |-> Len(documents'), looks |-> 0]]
  <2> DEFINE n   == Len(documents')
             new == [at |-> "settle", steps |-> <<>>, doc |-> n, looks |-> 0]
  <2>1. call' = [call EXCEPT ![c] = new]
    BY <1>10
  <2>2. new.at = "settle" /\ new.doc = n /\ DOMAIN new.steps = {}
    OBVIOUS
  <2> HIDE DEF new
  <2>3. call'[c] = new /\ \A d \in Calls \ {c} : call'[d] = call[d]
    BY <2>1 DEF TypeInv
  <2>4. Settling(c)' /\ call'[c].doc = Len(documents') /\ DOMAIN call'[c].steps = {}
        /\ call'[c].at = "settle"
    BY <2>2, <2>3 DEF Settling
  <2>5. Fresh(c)'
    BY <2>4 DEF Fresh
  <2>6. ~Bad'
    BY <1>5, <1>6, <1>10 DEF Stops
  <2>7. Told(c)'
    BY <1>5, <2>4, <2>6 DEF Told
  <2> QED BY <1>3, <1>4, <2>3, <2>5, <2>7, LoudAlone
<1> QED BY <1>2, <1>8, <1>9, <1>10

LEMMA StartsAlone ==
  ASSUME TypeInv, width = 1, AloneInv, NEW c \in Calls, StartsRoutine(c)
  PROVE  AloneInv'
<1>1. /\ Passes(c) /\ ~stop /\ UNCHANGED <<obedient, seen, documents, sent>>
  BY DEF StartsRoutine, StartRoutine, Checked
<1>2. PICK steps \in Routines : Follows(c, steps) /\ ~blocked /\ ~Repeats(steps)
  BY StartsTypes
<1>3. /\ ~Bad /\ \A d \in Calls : ~Active(d)
      /\ obedient => \A i \in DOMAIN documents : ~documents[i].partial
  BY <1>1, <1>2, CleanStart
<1>4. /\ \A d \in Calls \ {c} : call'[d] = call[d]
      /\ call'[c].at = "step" /\ call'[c].steps = steps
  <2>1. steps \in Seq(Mutations) \ {<<>>} /\ documents' \in Seq(Receipts)
    BY <1>1, TurnAssumption DEF TypeInv
  <2> QED BY <1>2, <2>1, FollowsShape
<1>5. Applied' /\ ~Bad'
  BY <1>1, <1>3 DEF AloneInv, Remaining, Applied, Bad
<1>6. Fresh(c)' /\ ~Settling(c)'
  BY <1>1, <1>2, <1>4 DEF Fresh, Settling, Repeats
<1>7. Told(c)'
  BY <1>1, <1>3, <1>5, <1>6 DEF Told
<1> QED BY <1>3, <1>4, <1>5, <1>6, <1>7, LoudAlone

LEMMA WakeAlone ==
  ASSUME TypeInv, width = 1, AloneInv, NEW c \in Calls, Wake(c)
  PROVE  AloneInv'
<1>1. /\ \A d \in Calls \ {c} : call'[d] = call[d]
      /\ call[c].at = "asleep" /\ call'[c].at = "settle" /\ call'[c].doc = call[c].doc
      /\ call'[c].steps = call[c].steps
      /\ UNCHANGED <<obedient, stop, blocked, seen, documents, sent>>
  BY DEF Wake, TypeInv, Handlers, flags
<1>2. Active(c) /\ Settling(c) /\ Settling(c)'
  BY <1>1 DEF Active, Settling
<1>3. /\ ~Bad /\ \A d \in Calls \ {c} : ~Active(d)
      /\ obedient => \A i \in DOMAIN documents : documents[i].partial =>
                       Settling(c) /\ call[c].doc = i
      /\ Applied /\ Fresh(c) /\ (Settling(c) => call[c].doc = Len(documents))
  BY <1>2, CleanHandler
<1>4. Applied' /\ ~Bad' /\ Fresh(c)'
  BY <1>1, <1>2, <1>3 DEF Applied, Bad, Fresh, Active
<1>5. Told(c)'
  BY <1>1, <1>2, <1>3, <1>4 DEF Told
<1> QED BY <1>1, <1>3, <1>4, <1>5, LoudAlone

\* The steps that remain are as fresh as they were, and none is the one done.
LEMMA TailFresh ==
  ASSUME TypeInv, NEW c \in Calls, Fresh(c), Active(c), Len(call[c].steps) > 1,
         NEW s \in Seq(Mutations), s = Tail(call[c].steps),
         call'[c].at = "step", call'[c].steps = s,
         \/ call[c].at = "step" /\ seen' = seen \cup {Head(call[c].steps)}
         \/ Settling(c) /\ seen' = seen
  PROVE  Fresh(c)'
<1> DEFINE t == call[c].steps
<1>1. t \in Seq(Mutations)
  BY DEF TypeInv, Handlers
<1>2. \A i \in DOMAIN s : i + 1 \in DOMAIN t /\ i + 1 # 1 /\ s[i] = t[i + 1]
  BY <1>1, TailSteps
<1>3. Head(t) = t[1] /\ 1 \in DOMAIN t
  BY <1>1
<1>4. /\ \A i, j \in DOMAIN t : i # j => t[i] # t[j]
      /\ call[c].at = "step" => \A i \in DOMAIN t : t[i] \notin seen
      /\ Settling(c) => \A i \in DOMAIN t : i = 1 \/ t[i] \notin seen
  BY DEF Fresh
<1>5. DOMAIN s \subseteq Int
  OBVIOUS
<1> HIDE DEF t
<1>6. \A i, j \in DOMAIN s : i # j => s[i] # s[j]
  BY <1>2, <1>4, <1>5
<1>7. CASE call[c].at = "step" /\ seen' = seen \cup {Head(call[c].steps)}
  <2>1. seen' = seen \cup {t[1]}
    BY <1>3, <1>7 DEF t
  <2>2. \A i \in DOMAIN s : s[i] \notin seen'
    BY <1>2, <1>3, <1>4, <1>7, <2>1
  <2> QED BY <1>6, <2>2 DEF Fresh, Settling
<1>8. CASE Settling(c) /\ seen' = seen
  <2>1. \A i \in DOMAIN s : s[i] \notin seen'
    BY <1>2, <1>4, <1>8
  <2> QED BY <1>6, <2>1 DEF Fresh, Settling
<1> QED BY <1>7, <1>8

LEMMA SettleAlone ==
  ASSUME TypeInv, width = 1, AloneInv, NEW c \in Calls, Settle(c)
  PROVE  AloneInv'
<1>1. /\ call[c].at = "settle" /\ UNCHANGED <<obedient, seen, sent>>
      /\ documents \in Seq(Receipts) /\ call \in [Calls -> Handlers]
      /\ call[c].steps \in Seq(Mutations)
  BY DEF Settle, TypeInv, Handlers
<1>2. Active(c) /\ Settling(c)
  BY <1>1 DEF Active, Settling
<1>3. /\ ~Bad /\ \A d \in Calls \ {c} : ~Active(d)
      /\ obedient => \A i \in DOMAIN documents : documents[i].partial => call[c].doc = i
      /\ Applied /\ Fresh(c) /\ call[c].doc = Len(documents)
  BY <1>2, CleanHandler
<1>4. /\ documents' \in Seq(Receipts) /\ DOMAIN documents' = DOMAIN documents
      /\ Len(documents') = Len(documents)
      /\ \A i \in DOMAIN documents : /\ documents'[i].status = documents[i].status
                                     /\ documents'[i].partial => documents[i].partial
  BY SettleDocuments
<1>5. /\ Applied' /\ ~Bad'
      /\ obedient' => \A i \in DOMAIN documents' : documents'[i].partial => i = call[c].doc
  BY <1>1, <1>3, <1>4 DEF Applied, Bad
<1>6. ASSUME Raises(c) PROVE AloneInv'
  <2>1. Ends(c) /\ call'[c].at = "raised"
    BY <1>1, <1>6 DEF Raises, Finish, Ends, Handlers
  <2>2. /\ \A d \in Calls \ {c} : call'[d] = call[d]
        /\ ~Active(c)' /\ ~Settling(c)'
    BY <2>1, EndsShape
  <2>3. Fresh(c)' /\ Told(c)'
    BY <1>5, <2>1, <2>2 DEF Fresh, Told
  <2> QED BY <1>3, <1>5, <2>2, <2>3, LoudAlone
<1>7. ASSUME Continue(c) PROVE AloneInv'
  <2>1. /\ \/ Ends(c)
           \/ Len(call[c].steps) > 1 /\ Follows(c, Tail(call[c].steps))
        /\ documents'[call[c].doc].partial => blocked' /\ Ends(c)
    BY <1>2, <1>3, <1>4, <1>7, ContinueShape
  <2>2. CASE Ends(c)
    <3>1. /\ \A d \in Calls \ {c} : call'[d] = call[d]
          /\ ~Active(c)' /\ ~Settling(c)' /\ call'[c].at # "step"
      BY <2>2, EndsShape
    <3>2. Fresh(c)' /\ Told(c)'
      BY <1>5, <2>1, <3>1 DEF Fresh, Told
    <3> QED BY <1>3, <1>5, <3>1, <3>2, LoudAlone
  <2>3. CASE ~Ends(c)
    <3>1. Len(call[c].steps) > 1 /\ Follows(c, Tail(call[c].steps))
          /\ ~documents'[call[c].doc].partial
      BY <2>1, <2>3
    <3>2. Tail(call[c].steps) \in Seq(Mutations) \ {<<>>}
      BY <1>1, <3>1, TailSteps
    <3>3. /\ \A d \in Calls \ {c} : call'[d] = call[d]
          /\ call'[c].at = "step" /\ call'[c].steps = Tail(call[c].steps)
      BY <1>4, <3>1, <3>2, FollowsShape
    <3>4. Fresh(c)' /\ ~Settling(c)'
      BY <1>1, <1>2, <1>3, <3>1, <3>2, <3>3, TailFresh DEF Settling
    <3>5. Told(c)'
      BY <1>5, <3>1, <3>4 DEF Told
    <3> QED BY <1>3, <1>5, <3>3, <3>4, <3>5, LoudAlone
  <2> QED BY <2>2, <2>3
<1>8. ASSUME LooksAgain(c) PROVE AloneInv'
  <2>1. /\ \A d \in Calls \ {c} : call'[d] = call[d]
        /\ call'[c].at = "asleep" /\ call'[c].doc = call[c].doc
        /\ call'[c].steps = call[c].steps
    BY <1>1, <1>8, LooksShape
  <2>2. Settling(c)' /\ Fresh(c)'
    BY <1>1, <1>2, <1>3, <2>1 DEF Settling, Fresh
  <2>3. Told(c)'
    BY <1>3, <1>4, <1>5, <2>1, <2>2 DEF Told
  <2> QED BY <1>3, <1>5, <2>1, <2>2, <2>3, LoudAlone
<1> QED BY <1>6, <1>7, <1>8 DEF Settle, Fails

LEMMA RoutineAlone ==
  ASSUME TypeInv, width = 1, AloneInv, NEW c \in Calls, RoutineStep(c)
  PROVE  AloneInv'
<1> DEFINE m == Head(call[c].steps)
<1>1. /\ call[c].at = "step" /\ UNCHANGED obedient
      /\ documents \in Seq(Receipts) /\ call \in [Calls -> Handlers]
      /\ call[c].steps \in Seq(Mutations) /\ call[c].steps # <<>>
  BY DEF RoutineStep, TypeInv, HandlerOK, Handlers
<1>2. Active(c) /\ ~Settling(c)
  BY <1>1 DEF Active, Settling
<1>3. /\ ~Bad /\ \A d \in Calls \ {c} : ~Active(d)
      /\ obedient => \A i \in DOMAIN documents : ~documents[i].partial
      /\ Applied /\ Fresh(c)
  BY <1>2, CleanHandler
<1>4. m = call[c].steps[1] /\ 1 \in DOMAIN call[c].steps /\ m \in Mutations \ seen
  <2>1. m = call[c].steps[1] /\ 1 \in DOMAIN call[c].steps /\ m \in Mutations
    BY <1>1
  <2> QED BY <1>1, <1>3, <2>1 DEF Fresh
<1>5. ASSUME Ends(c), Applied', Bad' => stop' \/ blocked',
             obedient' => \A i \in DOMAIN documents' : documents'[i].partial => blocked'
      PROVE  AloneInv'
  <2>1. /\ \A d \in Calls \ {c} : call'[d] = call[d]
        /\ ~Active(c)' /\ ~Settling(c)' /\ call'[c].at # "step"
    BY <1>5, EndsShape
  <2>2. Fresh(c)' /\ Told(c)'
    BY <1>5, <2>1 DEF Fresh, Told
  <2> QED BY <1>3, <1>5, <2>1, <2>2, LoudAlone
<1>6. CASE Fails(c) /\ UNCHANGED <<blocked, seen, documents, sent>>
  <2>1. Ends(c) /\ Applied' /\ ~Bad'
    BY <1>3, <1>6 DEF Fails, Raises, Finish, Ends, Applied, Bad
  <2> QED BY <1>1, <1>3, <1>5, <1>6, <2>1
<1> HIDE DEF m
<1>7. ASSUME NEW receipt \in Receipts, seen' = seen \cup {m}, Dispatch(m, receipt),
             \/ receipt.status = "outcome_unknown" /\ Fails(c) /\ UNCHANGED blocked
             \/ receipt.status = "failed" /\ blocked' = TRUE /\ Raises(c) /\ UNCHANGED stop
             \/ /\ receipt.status = "ok" /\ UNCHANGED stop
                /\ IF Settles(m)
                     THEN /\ call' = [call EXCEPT ![c].at = "settle",
                                                  ![c].doc = Len(documents')]
                          /\ UNCHANGED <<running, blocked>>
                     ELSE Conclude(c, receipt.partial)
      PROVE  AloneInv'
  <2>1. /\ receipt.status = "ok" => ~Bad'
        /\ receipt.partial => receipt.status = "ok"
        /\ obedient' => \A i \in DOMAIN documents' :
                          documents'[i].partial => i = Len(documents') /\ receipt.partial
    BY <1>1, <1>3, <1>4, <1>7, DispatchTold
  <2>2. Applied' /\ documents' \in Seq(Receipts) /\ receipt.partial \in BOOLEAN
    BY <1>3, <1>4, <1>7, AppliedOnce, DispatchTypes DEF Receipts
  <2>3. CASE receipt.status = "outcome_unknown" /\ Fails(c)
    <3>1. Ends(c) /\ stop' = TRUE /\ ~receipt.partial
      BY <2>1, <2>3 DEF Fails, Raises, Finish, Ends
    <3> QED BY <1>5, <2>1, <2>2, <3>1
  <2>4. CASE blocked' = TRUE /\ Raises(c)
    <3>1. Ends(c)
      BY <2>4 DEF Raises, Finish, Ends
    <3> QED BY <1>5, <2>2, <2>4, <3>1
  <2>5. CASE receipt.status = "ok" /\ Conclude(c, receipt.partial)
    <3>1. /\ receipt.partial => blocked'
          /\ \/ Ends(c)
             \/ /\ ~receipt.partial /\ Len(call[c].steps) > 1
                /\ Follows(c, Tail(call[c].steps))
      BY <2>2, <2>5, ConcludeShape
    <3>2. CASE Ends(c)
      BY <1>5, <2>1, <2>2, <2>5, <3>1, <3>2
    <3>3. CASE /\ ~receipt.partial /\ Len(call[c].steps) > 1
               /\ Follows(c, Tail(call[c].steps))
      <4>1. Tail(call[c].steps) \in Seq(Mutations) \ {<<>>}
        BY <1>1, <3>3, TailSteps
      <4>2. /\ \A d \in Calls \ {c} : call'[d] = call[d]
            /\ call'[c].at = "step" /\ call'[c].steps = Tail(call[c].steps)
        BY <2>2, <3>3, <4>1, FollowsShape
      <4>3. seen' = seen \cup {Head(call[c].steps)}
        BY <1>7 DEF m
      <4>4. Fresh(c)' /\ ~Settling(c)'
        BY <1>1, <1>2, <1>3, <3>3, <4>1, <4>2, <4>3, TailFresh DEF Settling
      <4>5. Told(c)'
        BY <2>1, <2>5, <3>3, <4>4 DEF Told
      <4> QED BY <1>3, <2>2, <4>2, <4>4, <4>5, LoudAlone
    <3> QED BY <3>1, <3>2, <3>3
  <2>6. CASE /\ receipt.status = "ok"
             /\ call' = [call EXCEPT ![c].at = "settle", ![c].doc = Len(documents')]
    <3>1. GoesToSettle(c)
      BY <2>6 DEF GoesToSettle
    <3>2. /\ \A d \in Calls \ {c} : call'[d] = call[d]
          /\ call'[c].at = "settle" /\ call'[c].doc = Len(documents')
          /\ call'[c].steps = call[c].steps
      BY <1>1, <2>2, <3>1, SettlesShape
    <3>3. Fresh(c)' /\ Settling(c)'
      <4>1. /\ \A i \in DOMAIN call[c].steps : call[c].steps[i] \notin seen
            /\ \A i, j \in DOMAIN call[c].steps :
                 i # j => call[c].steps[i] # call[c].steps[j]
        BY <1>1, <1>2, <1>3 DEF Fresh
      <4>2. \A i \in DOMAIN call[c].steps : i = 1 \/ call[c].steps[i] \notin seen'
        BY <1>4, <1>7, <4>1
      <4> QED BY <3>2, <4>1, <4>2 DEF Fresh, Settling
    <3>4. Told(c)'
      BY <2>1, <2>6, <3>2, <3>3 DEF Told
    <3> QED BY <1>3, <2>2, <3>2, <3>3, <3>4, LoudAlone
  <2> QED BY <1>7, <2>3, <2>4, <2>5, <2>6
<1> QED BY <1>6, <1>7 DEF RoutineStep, m

LEMMA AloneStep ==
  ASSUME TypeInv, AloneInv, [TurnNext]_turnVars
  PROVE  AloneInv'
<1>1. width' = width
  BY StepKinds DEF Quiet, Invoke, StartsRoutine, StartRoutine, RoutineStep, Settle, Wake, flags
<1>2. CASE width # 1
  BY <1>1, <1>2 DEF AloneInv
<1>3. CASE width = 1
  BY <1>3, StepKinds, QuietAlone, InvokeAlone, StartsAlone, RoutineAlone, SettleAlone, WakeAlone
<1> QED BY <1>2, <1>3

-----------------------------------------------------------------------------
(* The turn.                                                               *)

LEMMA TurnInvInit ==
  ASSUME TurnInit
  PROVE  TurnInv
<1>1. TypeInv
  <2>1. Idle \in Handlers /\ Idle.at = "unused" /\ Idle.doc = 0
    BY DEF Idle, Handlers
  <2>2. ASSUME NEW c \in Calls PROVE HandlerOK(c)
    BY <2>1, <2>2, TurnAssumption DEF TurnInit, HandlerOK, Settling, Calls
  <2>3. call \in [Calls -> Handlers] /\ running \in Calls \cup {None}
    BY <2>1 DEF TurnInit
  <2>4. toolCalls \in 0..MaxCalls /\ sent \in [Mutations -> Nat] /\ documents \in Seq(Receipts)
    BY TurnAssumption DEF TurnInit
  <2>5. /\ stop \in BOOLEAN /\ blocked \in BOOLEAN /\ late \in BOOLEAN /\ moved \in BOOLEAN
        /\ denied \in BOOLEAN /\ failed \in BOOLEAN /\ readOnly \in BOOLEAN
        /\ dryRun \in BOOLEAN /\ obedient \in BOOLEAN
    BY DEF TurnInit
  <2> QED BY <2>2, <2>3, <2>4, <2>5 DEF TurnInit, TypeInv
<1>2. NoneActive /\ DOMAIN documents = {} /\ documents = <<>>
      /\ \A c \in Calls : call[c].at = "unused"
  BY DEF TurnInit, NoneActive, Active, Idle
<1>3. AloneInv
  BY <1>2 DEF TurnInit, AloneInv, Alone, Remaining, Applied, Fresh, LastSettles, FailureTold,
     PartialTold, Bad, NoneActive, Active, Settling
<1>4. ModeInv
  BY <1>2 DEF TurnInit, ModeInv, ResultHonest
<1> QED BY <1>1, <1>3, <1>4 DEF TurnInv

LEMMA TurnInvStep ==
  ASSUME TurnInv, [TurnNext]_turnVars
  PROVE  TurnInv'
BY TypeStep, AloneStep, ModeStep DEF TurnInv

\* The invariant of every turn.
THEOREM TurnInvariant == TurnSpec => []TurnInv
<1>1. TurnInit => TurnInv
  BY TurnInvInit
<1>2. TurnInv /\ [TurnNext]_turnVars => TurnInv'
  BY TurnInvStep
<1> QED BY <1>1, <1>2, PTL DEF TurnSpec

\* Every handler, the loop, the counters and the verdict keep their types.
THEOREM TurnTypes == TurnSpec => []TurnTypeOK
<1>1. TurnInv => TurnTypeOK
  BY TurnTyped DEF TurnInv
<1> QED BY <1>1, TurnInvariant, PTL

\* _seen_mutations: nothing is dispatched twice in a turn, by ha_invoke or
\* ha_run_routine, in any order, if the SDK runs one tool at a time.
THEOREM MutationsOnce == TurnSpec => []NeverRepeated
<1>1. TurnInv => NeverRepeated
  BY DEF TurnInv, TypeInv, AloneInv, Remaining, Applied, NeverRepeated
<1> QED BY <1>1, TurnInvariant, PTL

\* result(): what the verdict says of the turn is so, however its handlers
\* were interleaved, and with whatever it ended.
THEOREM VerdictIsHonest == TurnSpec => []ResultHonest
<1>1. TurnInv => ResultHonest
  BY DEF TurnInv, ModeInv
<1> QED BY <1>1, TurnInvariant, PTL

\* A receipt is added only to a clean record.
LEMMA DispatchClean ==
  ASSUME TurnInv, [TurnNext]_turnVars, width = 1, Len(documents') # Len(documents)
  PROVE  /\ ~Bad /\ \A i \in DOMAIN documents : documents'[i] = documents[i]
         /\ obedient => \A i \in DOMAIN documents : ~documents[i].partial
<1>1. TypeInv /\ AloneInv
  BY DEF TurnInv
<1>2. ASSUME NEW c \in Calls, NEW m \in Mutations, Invoke(c, m)
      PROVE  /\ ~Bad /\ \A i \in DOMAIN documents : documents'[i] = documents[i]
             /\ obedient => \A i \in DOMAIN documents : ~documents[i].partial
  BY <1>1, <1>2, CleanStart, DispatchTypes DEF Invoke, Checked
<1>3. ASSUME NEW c \in Calls, RoutineStep(c)
      PROVE  /\ ~Bad /\ \A i \in DOMAIN documents : documents'[i] = documents[i]
             /\ obedient => \A i \in DOMAIN documents : ~documents[i].partial
  <2>1. Active(c) /\ ~Settling(c) /\ Head(call[c].steps) \in Mutations
    BY <1>1, <1>3 DEF RoutineStep, Active, Settling, TypeInv, HandlerOK, Handlers
  <2>2. \E receipt \in Receipts : Dispatch(Head(call[c].steps), receipt)
    BY <1>3 DEF RoutineStep
  <2> QED BY <1>1, <2>1, <2>2, CleanHandler, DispatchTypes
<1>4. ~Quiet /\ \A c \in Calls : ~Settle(c) /\ ~StartsRoutine(c) /\ ~Wake(c)
  BY <1>1, SettleDocuments DEF Quiet, StartsRoutine, StartRoutine, Wake, flags
<1> QED BY <1>1, <1>2, <1>3, <1>4, StepKinds

\* Nothing is dispatched after a failure or an unknown outcome, not by the
\* rest of a routine nor by another tool, if the SDK runs one at a time.
THEOREM NothingAfterFailure == TurnSpec => FailureStops
<1>1. TurnInv /\ [TurnNext]_turnVars
        => [width = 1 /\ (\E i \in DOMAIN documents : documents[i].status # "ok")
            => Len(documents') = Len(documents)]_turnVars
  BY DispatchClean DEF Bad
<1> QED BY <1>1, TurnInvariant, PTL DEF TurnSpec, FailureStops

\* Nothing is dispatched while a receipt stands incomplete, settling or left
\* behind, if the SDK runs one tool at a time and stops after one that raised.
THEOREM NothingAfterIncomplete == TurnSpec => IncompleteStops
<1>1. TurnInv /\ [TurnNext]_turnVars
        => [width = 1 /\ obedient /\ (\E i \in DOMAIN documents : documents'[i].partial)
            => Len(documents') = Len(documents)]_turnVars
  BY DispatchClean
<1> QED BY <1>1, TurnInvariant, PTL DEF TurnSpec, IncompleteStops
=============================================================================
