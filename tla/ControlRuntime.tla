--------------------------- MODULE ControlRuntime ---------------------------
(***************************************************************************)
(* ControlRuntime.invoke of control.py: one operation from its call to its *)
(* answer, with every access to shared state a step of its own, while the  *)
(* owner's commands (LocalState), other operations and Home Assistant move *)
(* between any two steps.                                                  *)
(*                                                                         *)
(* An operation reads its connection and its trust three times: to bind    *)
(* itself ("bind"), before its intent is journalled ("before"), and again  *)
(* before the POST ("after"). `phase' tells these passes over the same     *)
(* four reads apart.                                                       *)
(*                                                                         *)
(* Any read, and any file operation of the journal, can fail. What is read *)
(* from Home Assistant (catalog, registry, states) is not modelled; every  *)
(* verdict the code can reach from it is possible.                         *)
(***************************************************************************)
EXTENDS LocalState, OperationJournal

CONSTANT PowerLoss  \* can the machine lose power?

ASSUME PowerAssumption == PowerLoss \in BOOLEAN

VARIABLES
  pc,       \* the access the operation makes next
  phase,    \* which of the three passes over the reads it is in
  held,     \* endpoint and token it is bound to
  seen,     \* endpoint and token of the pass in progress
  clock,    \* its deadline: "none", "running" or "elapsed"
  dry,      \* dry_run
  note,     \* what it is journalling
  request,  \* its POST: "none", "travelling", or "applied" at the home
  reply,    \* the outcome its caller was given
  since     \* history: what was true at some instant since its intent was
            \* durable, of its endpoint, its token and its trust

opVars == <<pc, phase, held, seen, clock, dry, note, request, reply>>
vars   == <<localVars, journalVars, opVars, since>>

-----------------------------------------------------------------------------
Nothing == [endpoint |-> None, token |-> None]
Reading == {"settings", "recheck", "keyring", "trust"}
Writing == {"open", "append", "sync", "recorded"}
Ended   == {"done", "dead"}
Points  == {"call", "catalog", "prepare", "deadline", "post", "answer", "observe"}
             \cup Reading \cup Writing \cup Ended

Connection == [endpoint : Endpoint \cup {None}, token : Tokens \cup {None}]

OpTypeOK ==
  /\ pc      \in [Ops -> Points]
  /\ phase   \in [Ops -> {"bind", "before", "after"}]
  /\ held    \in [Ops -> Connection]
  /\ seen    \in [Ops -> Connection]
  /\ clock   \in [Ops -> {"none", "running", "elapsed"}]
  /\ dry     \in [Ops -> BOOLEAN]
  /\ note    \in [Ops -> Notes]
  /\ request \in [Ops -> {"none", "travelling", "applied"}]
  /\ reply   \in [Ops -> {"none", "dry_run", "not_dispatched",
                          "outcome_unknown", "accepted"}]
  /\ since   \in [Ops -> SUBSET {"endpoint", "token", "trust"}]

TypeOK == LocalTypeOK /\ JournalTypeOK /\ OpTypeOK

Init ==
  /\ LocalInit
  /\ JournalInit
  /\ pc      = [o \in Ops |-> "call"]
  /\ phase   = [o \in Ops |-> "bind"]
  /\ held    = [o \in Ops |-> Nothing]
  /\ seen    = [o \in Ops |-> Nothing]
  /\ clock   = [o \in Ops |-> "none"]
  /\ dry     = [o \in Ops |-> FALSE]
  /\ note    = [o \in Ops |-> "refused"]
  /\ request = [o \in Ops |-> "none"]
  /\ reply   = [o \in Ops |-> "none"]
  /\ since   = [o \in Ops |-> {}]

-----------------------------------------------------------------------------
(* Moves of an operation. Each leaves the files alone.                     *)

Goto(o, point) == pc' = [pc EXCEPT ![o] = point]

\* The call ends; what it held is forgotten.
End(o, point, answer) ==
  /\ Goto(o, point)
  /\ reply' = [reply EXCEPT ![o] = answer]
  /\ phase' = [phase EXCEPT ![o] = "bind"]
  /\ held'  = [held EXCEPT ![o] = Nothing]
  /\ seen'  = [seen EXCEPT ![o] = Nothing]
  /\ clock' = [clock EXCEPT ![o] = "none"]
  /\ dry'   = [dry EXCEPT ![o] = FALSE]
  /\ note'  = [note EXCEPT ![o] = "refused"]
  /\ UNCHANGED request

Return(o, answer) == End(o, "done", answer)

Journal(o, what) ==
  /\ Goto(o, "open")
  /\ note' = [note EXCEPT ![o] = what]
  /\ UNCHANGED <<phase, held, seen, clock, dry, request, reply>>

\* Mutant: the refusal is journalled whatever the pass.
DenyJournalled(o) == Journal(o, "refused")

\* A check fails. Up to the intent this is _refuse, which journals the
\* refusal; from then on the operation returns and journals nothing.
Deny(o) ==
  IF phase[o] = "after" THEN Return(o, "not_dispatched")
                        ELSE Journal(o, "refused")

Proceed(o, point) ==
  /\ Goto(o, point)
  /\ UNCHANGED <<phase, held, seen, clock, dry, note, request, reply>>

LeaveFiles == UNCHANGED <<localVars, journalVars>>

-----------------------------------------------------------------------------
(* The call, and the four reads of _endpoint and TrustStore.status.        *)

Call(o) ==
  /\ pc[o] = "call"
  /\ \E deadline \in {"none", "running"}, test \in BOOLEAN :
       /\ clock' = [clock EXCEPT ![o] = deadline]
       /\ dry'   = [dry EXCEPT ![o] = test]
  /\ \/ Goto(o, "settings")
     \/ Goto(o, "open")  \* the deadline has passed, or the call is malformed
  /\ UNCHANGED <<phase, held, seen, note, request, reply>>
  /\ LeaveFiles

ReadSettings(o) ==
  /\ pc[o] = "settings"
  /\ \/ /\ settings # None
        /\ seen' = [seen EXCEPT ![o] = [endpoint |-> settings, token |-> None]]
        /\ Goto(o, "recheck")
        /\ UNCHANGED <<phase, held, clock, dry, note, request, reply>>
     \/ Deny(o)
  /\ LeaveFiles

RecheckOrigin(o) ==
  /\ pc[o] = "recheck"
  /\ \/ /\ settings # None
        /\ settings.origin = seen[o].endpoint.origin
        /\ Proceed(o, "keyring")
     \/ Deny(o)
  /\ LeaveFiles

\* credential_key names the origin the caller asked for.
KeyFor(o) == seen[o].endpoint.origin

ReadKeyring(o) ==
  /\ pc[o] = "keyring"
  /\ LET stored == keyring[KeyFor(o)] IN
       \/ /\ stored # None
          /\ seen' = [seen EXCEPT ![o] = [endpoint |-> seen[o].endpoint,
                                           token |-> stored]]
          /\ Goto(o, "trust")
          /\ UNCHANGED <<phase, held, clock, dry, note, request, reply>>
       \/ Deny(o)
  /\ LeaveFiles

TrustedAs(connection) == trust = Binding(connection.endpoint, connection.token)

\* The first pass binds the operation; the later ones are _still_trusted.
ReadTrust(o) ==
  /\ pc[o] = "trust"
  /\ \/ /\ phase[o] = "bind"
        /\ TrustedAs(seen[o])
        /\ held' = [held EXCEPT ![o] = seen[o]]
        /\ Goto(o, "catalog")
        /\ UNCHANGED <<phase, seen, clock, dry, note, request, reply>>
     \/ /\ phase[o] # "bind"
        /\ seen[o] = held[o]
        /\ TrustedAs(held[o])
        /\ Proceed(o, "deadline")
     \/ Deny(o)
  /\ LeaveFiles

-----------------------------------------------------------------------------
(* Home Assistant is asked for its services, targets and states.           *)

ReadCatalog(o) ==
  /\ pc[o] = "catalog"
  /\ \/ clock[o] # "elapsed" /\ Proceed(o, "prepare")
     \/ Deny(o)
  /\ LeaveFiles

\* Service, targets and group members are looked at; a dry run ends here.
Prepare(o) ==
  /\ pc[o] = "prepare"
  /\ \/ dry[o] /\ Return(o, "dry_run")
     \/ /\ ~dry[o]
        /\ phase' = [phase EXCEPT ![o] = "before"]
        /\ Goto(o, "settings")
        /\ UNCHANGED <<held, seen, clock, dry, note, request, reply>>
     \/ Deny(o)
  /\ LeaveFiles

CheckDeadline(o) ==
  /\ pc[o] = "deadline"
  /\ \/ clock[o] = "elapsed" /\ Deny(o)
     \/ clock[o] # "elapsed" /\ phase[o] = "before" /\ Journal(o, "intent")
     \/ clock[o] # "elapsed" /\ phase[o] = "after" /\ Proceed(o, "post")
  /\ LeaveFiles

-----------------------------------------------------------------------------
(* OperationJournal.record, and what the operation does when it returns.   *)

\* Mutant: the journal's word is passed on to the caller.
AnsweredAsNoted(o) == note[o]

Answered(o) ==
  CASE note[o] = "outcome_unknown" -> "outcome_unknown"
    [] note[o] = "effect"          -> "accepted"
    [] OTHER                       -> "not_dispatched"

\* Without a record of its intent the operation ends; a completion that
\* cannot be recorded only adds a warning to the answer.
JournalFails(o) == Return(o, Answered(o))

OpenJournal(o) ==
  /\ pc[o] = "open"
  /\ \/ JournalOpen /\ Proceed(o, "append")
     \/ JournalFails(o)
  /\ LeaveFiles

AppendRecord(o) ==
  /\ pc[o] = "append"
  /\ \/ /\ Append(<<o, note[o]>>)
        /\ Proceed(o, "sync")
     \/ /\ JournalFails(o)
        /\ UNCHANGED journalVars
  /\ UNCHANGED localVars

SyncRecord(o) ==
  /\ pc[o] = "sync"
  /\ \/ /\ Sync
        /\ Proceed(o, "recorded")
     \/ /\ JournalFails(o)
        /\ UNCHANGED journalVars
  /\ UNCHANGED localVars

\* Mutant: the third pass over the reads is skipped.
RecordedUnchecked(o) ==
  /\ pc[o] = "recorded"
  /\ \/ /\ note[o] = "intent"
        /\ phase' = [phase EXCEPT ![o] = "after"]
        /\ Goto(o, "deadline")
        /\ UNCHANGED <<held, seen, clock, dry, note, request, reply>>
     \/ /\ note[o] # "intent"
        /\ Return(o, Answered(o))
  /\ LeaveFiles

\* A recorded intent leads to the third pass, any other record to the answer.
Recorded(o) ==
  /\ pc[o] = "recorded"
  /\ \/ /\ note[o] = "intent"
        /\ phase' = [phase EXCEPT ![o] = "after"]
        /\ Goto(o, "settings")
        /\ UNCHANGED <<held, seen, clock, dry, note, request, reply>>
     \/ /\ note[o] # "intent"
        /\ Return(o, Answered(o))
  /\ LeaveFiles

-----------------------------------------------------------------------------
(* The POST.                                                               *)

\* The request is sent once, over the first address that connects. Whatever
\* goes wrong, the deadline included, leaves the outcome unknown.
Post(o) ==
  /\ pc[o] = "post"
  /\ \/ /\ clock[o] # "elapsed"
        /\ request' = [request EXCEPT ![o] = "travelling"]
        /\ Goto(o, "answer")
        /\ UNCHANGED <<phase, held, seen, clock, dry, note, reply>>
     \/ Journal(o, "outcome_unknown")
  /\ LeaveFiles

\* Mutant: a failed attempt is tried again.
AnswerOrRetry(o) ==
  /\ pc[o] = "answer"
  /\ \/ request[o] = "applied" /\ Proceed(o, "observe")
     \/ Proceed(o, "post")
  /\ LeaveFiles

\* Mutant: the answer is awaited without a deadline.
AnswerAwaited(o) ==
  /\ pc[o] = "answer"
  /\ request[o] = "applied"
  /\ Proceed(o, "observe")
  /\ LeaveFiles

\* Mutant: an attempt that failed is reported as one that was never made.
AnswerDenied(o) ==
  /\ pc[o] = "answer"
  /\ \/ request[o] = "applied" /\ Proceed(o, "observe")
     \/ Deny(o)
  /\ LeaveFiles

\* A 2xx status says that Home Assistant ran the service. Any other status,
\* a lost answer and a timeout raise.
Answer(o) ==
  /\ pc[o] = "answer"
  /\ \/ request[o] = "applied" /\ Proceed(o, "observe")
     \/ Journal(o, "outcome_unknown")
  /\ LeaveFiles

\* Readback never fails the operation; it only chooses the reported effect.
Observe(o) ==
  /\ pc[o] = "observe"
  /\ Journal(o, "effect")
  /\ LeaveFiles

-----------------------------------------------------------------------------
(* Everybody else.                                                         *)

\* Home Assistant runs the service, whether anybody still waits or not.
Apply(o) ==
  /\ request[o] = "travelling"
  /\ request' = [request EXCEPT ![o] = "applied"]
  /\ UNCHANGED <<pc, phase, held, seen, clock, dry, note, reply>>
  /\ LeaveFiles

Elapse(o) ==
  /\ pc[o] \notin {"call"} \cup Ended
  /\ clock[o] = "running"
  /\ clock' = [clock EXCEPT ![o] = "elapsed"]
  /\ UNCHANGED <<pc, phase, held, seen, dry, note, request, reply>>
  /\ LeaveFiles

\* The process is killed. What it wrote is in the page cache and stays.
Crash(o) ==
  /\ pc[o] \notin {"call"} \cup Ended
  /\ End(o, "dead", "none")
  /\ LeaveFiles

\* Everything that was running is gone, and so are unsynced lines.
LosePower ==
  /\ PowerLoss
  /\ LoseUnsynced
  /\ admin' = [a \in Admins |-> AtRest]
  /\ LET gone == {o \in Ops : pc[o] \notin {"call"} \cup Ended}
         Reset(f, v) == [o \in Ops |-> IF o \in gone THEN v ELSE f[o]]
     IN /\ pc'    = Reset(pc, "dead")
        /\ phase' = Reset(phase, "bind")
        /\ held'  = Reset(held, Nothing)
        /\ seen'  = Reset(seen, Nothing)
        /\ clock' = Reset(clock, "none")
        /\ dry'   = Reset(dry, FALSE)
        /\ note'  = Reset(note, "refused")
  /\ UNCHANGED <<files, request, reply>>

Admin(a) == AdminStep(a) /\ UNCHANGED <<journalVars, opVars>>

-----------------------------------------------------------------------------
OpStep(o) ==
  \/ ReadSettings(o)
  \/ RecheckOrigin(o)
  \/ ReadKeyring(o)
  \/ ReadTrust(o)
  \/ ReadCatalog(o)
  \/ Prepare(o)
  \/ CheckDeadline(o)
  \/ OpenJournal(o)
  \/ AppendRecord(o)
  \/ SyncRecord(o)
  \/ Recorded(o)
  \/ Post(o)
  \/ Answer(o)
  \/ Observe(o)

Step ==
  \/ \E o \in Ops : Call(o) \/ OpStep(o) \/ Apply(o) \/ Elapse(o) \/ Crash(o)
  \/ \E a \in Admins : Admin(a)
  \/ LosePower

\* What is true now of the connection an operation is about to use.
Facts(o) ==
  {f \in {"endpoint", "token", "trust"} :
     \/ f = "endpoint" /\ settings = held[o].endpoint
     \/ f = "token"    /\ keyring[held[o].endpoint.origin] = held[o].token
     \/ f = "trust"    /\ TrustedAs(held[o])}

Rechecks(o) == phase[o] = "after" /\ pc[o] \in Reading

Witness ==
  since' = [o \in Ops |-> IF Rechecks(o)' THEN since[o] \cup Facts(o)'
                                          ELSE since[o]]

Next == Step /\ Witness

\* Processes are scheduled, and file, keyring and network accesses return:
\* the network ones by their deadlines. Nobody has to call, to change the
\* configuration, or to answer a request.
Fairness == \A o \in Ops : WF_vars(OpStep(o) /\ Witness)

Spec == Init /\ [][Next]_vars /\ Fairness

-----------------------------------------------------------------------------
\* A request leaves only if, at instants since its intent became durable, its
\* endpoint was the configured one, its token the stored one, and trust was
\* granted for exactly that endpoint and token. The two re-reads of
\* _still_trusted are many steps, and the owner changes things between them.
PostAuthorised ==
  \A o \in Ops : request[o] # "none" => since[o] = {"endpoint", "token", "trust"}

\* An operation that talks to a home holds a token that this very home issued,
\* although origin and token come from different files at different times.
CredentialScoped ==
  \A o \in Ops : pc[o] \in {"catalog", "prepare", "post", "answer", "observe"} =>
    Issuer[held[o].token] = held[o].endpoint.origin

\* The caller can believe the answer, although a request may reach the home
\* long after the answer was given: "not_dispatched" and "dry_run" promise
\* that the home was and will be left alone, "accepted" that it ran the service.
AnswersHonest ==
  \A o \in Ops :
    /\ reply[o] \in {"not_dispatched", "dry_run"} => request[o] = "none"
    /\ reply[o] = "accepted" => request[o] = "applied"

\* The journal can be believed: an operation noted as refused has no intent on
\* record and never sent anything, and one noted as completed was attempted
\* after its intent was noted; "effect" is noted only for accepted requests.
JournalTruth ==
  \A o \in Ops :
    /\ <<o, "refused">> \in lines =>
         /\ <<o, "intent">> \notin lines
         /\ request[o] = "none"
    /\ <<o, "outcome_unknown">> \in lines =>
         /\ <<o, "intent">> \in durable
         /\ <<o, "effect">> \notin lines
    /\ <<o, "effect">> \in lines =>
         /\ <<o, "intent">> \in durable
         /\ request[o] = "applied"

\* The size check and the append are two steps: every process that passed the
\* check can still append, and no more than that.
JournalBounded ==
  size + Cardinality({o \in Ops : pc[o] = "append"}) <= JournalLimit + Cardinality(Ops)

\* A durable intent precedes every effect on the home.
IntentBeforeEffect ==
  \A o \in Ops : request[o] # "none" => <<o, "intent">> \in durable

\* Every call returns or dies, however long the owner keeps reconfiguring.
Terminates == \A o \in Ops : pc[o] # "call" ~> pc[o] \in Ended

-----------------------------------------------------------------------------
(* The abstract contract.                                                  *)

Stage(o) ==
  CASE pc[o] \in Ended -> "closed"
    [] \/ pc[o] \in {"answer", "observe"}
       \/ pc[o] \in Writing /\ note[o] \in {"outcome_unknown", "effect"} -> "sent"
    [] OTHER -> "open"

Contract == INSTANCE Dispatch WITH
  log   <- {o \in Ops : <<o, "intent">> \in durable},
  stage <- [o \in Ops |-> Stage(o)]

ImplementsContract == Contract!DispatchSpec
=============================================================================
