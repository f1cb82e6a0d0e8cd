------------------------ MODULE ControlRuntime_proofs ------------------------
(***************************************************************************)
(* Proofs about ControlRuntime for any number of operations and commands,  *)
(* any homes and tokens, and any journal limit.                            *)
(***************************************************************************)
EXTENDS ControlRuntime, LocalState_proofs, FiniteSetTheorems

-----------------------------------------------------------------------------
(* What an operation knows at each point of the call.                      *)

\* What the pass in progress has read so far.
SeenSoFar(o) ==
  /\ pc[o] \in {"recheck", "keyring", "trust"} => seen[o].endpoint \in Endpoint
  /\ pc[o] = "trust" =>
       /\ seen[o].token \in Tokens
       /\ Issuer[seen[o].token] = seen[o].endpoint.origin

\* From the end of the first pass on it is bound to a connection.
IsBound(o) ==
  \/ pc[o] \in {"catalog", "prepare", "deadline", "post", "answer", "observe"}
  \/ phase[o] \in {"before", "after"}

BoundTo(o) ==
  IsBound(o) =>
    /\ held[o].endpoint \in Endpoint
    /\ held[o].token \in Tokens
    /\ Issuer[held[o].token] = held[o].endpoint.origin

\* The pass, the point of the call and the record being written agree, and a
\* request is under way only beyond the POST.
InOrder(o) ==
  /\ pc[o] \in {"post", "answer", "observe"} => phase[o] = "after"
  /\ pc[o] \in {"call", "catalog", "prepare"} \cup Ended => phase[o] # "after"
  /\ pc[o] = "deadline" => phase[o] # "bind"
  /\ pc[o] = "call" => note[o] = "refused"
  /\ pc[o] \in Writing =>
       /\ phase[o] = "after" <=> note[o] \in {"outcome_unknown", "effect"}
       /\ note[o] = "intent" => phase[o] = "before"
  /\ pc[o] \notin {"answer", "observe"} \cup Writing \cup Ended => request[o] = "none"
  /\ pc[o] \in Writing /\ note[o] \in {"refused", "intent"} => request[o] = "none"
  /\ pc[o] = "observe" => request[o] = "applied"
  /\ pc[o] \in Writing /\ note[o] = "effect" => request[o] = "applied"

\* `since' never misses what is true while the third pass reads, and what that
\* pass has read was true.
Everything == {"endpoint", "token", "trust"}

SeenTrue(o) ==
  /\ Rechecks(o) =>
       /\ settings = held[o].endpoint => "endpoint" \in since[o]
       /\ keyring[held[o].endpoint.origin] = held[o].token => "token" \in since[o]
       /\ TrustedAs(held[o]) => "trust" \in since[o]
       /\ pc[o] # "settings" /\ seen[o].endpoint = held[o].endpoint =>
            "endpoint" \in since[o]
       /\ pc[o] = "trust" /\ seen[o] = held[o] => "token" \in since[o]
  /\ phase[o] = "after" /\ pc[o] \in {"deadline", "post"} => since[o] = Everything
  /\ request[o] # "none" => since[o] = Everything

OpInv(o) == SeenSoFar(o) /\ BoundTo(o) /\ InOrder(o) /\ SeenTrue(o)

CallInv == /\ LocalInv
           /\ JournalTypeOK
           /\ OpTypeOK
           /\ \A o \in Ops : OpInv(o)

USE DEF Nothing, Reading, Writing, Ended

-----------------------------------------------------------------------------
(* Types                                                                   *)

\* The bound values of an operation, without the history.
Typed ==
  /\ pc      \in [Ops -> Points]
  /\ phase   \in [Ops -> {"bind", "before", "after"}]
  /\ held    \in [Ops -> Connection]
  /\ seen    \in [Ops -> Connection]
  /\ clock   \in [Ops -> {"none", "running", "elapsed"}]
  /\ dry     \in [Ops -> BOOLEAN]
  /\ note    \in [Ops -> Notes]
  /\ request \in [Ops -> {"none", "travelling", "applied"}]
  /\ reply   \in [Ops -> {"none", "dry_run", "not_dispatched",
                          "outcome_unknown", "accepted"}]

\* An ending leaves the operation typed.
LEMMA EndTyped ==
  ASSUME Typed, NEW o \in Ops, NEW point \in Points,
         NEW answer \in {"none", "dry_run", "not_dispatched",
                         "outcome_unknown", "accepted"},
         End(o, point, answer)
  PROVE  Typed'
BY DEF Typed, End, Goto, Connection, Notes

\* So does a denial, in every pass over the reads.
LEMMA DenyTyped ==
  ASSUME Typed, NEW o \in Ops, Deny(o)
  PROVE  Typed'
<1>1. CASE Return(o, "not_dispatched")
  BY <1>1, EndTyped DEF Return, Points
<1>2. CASE Journal(o, "refused")
  BY <1>2 DEF Typed, Journal, Goto, Points, Notes
<1> QED BY <1>1, <1>2 DEF Deny

\* So does a move to the next access.
LEMMA ProceedTyped ==
  ASSUME Typed, NEW o \in Ops, NEW point \in Points, Proceed(o, point)
  PROVE  Typed'
BY DEF Typed, Proceed, Goto

\* So does turning to the journal.
LEMMA JournalTyped ==
  ASSUME Typed, NEW o \in Ops, NEW what \in Notes, Journal(o, what)
  PROVE  Typed'
BY DEF Typed, Journal, Goto, Points

\* So does answering what the notes say.
LEMMA AnsweredTyped ==
  ASSUME Typed, NEW o \in Ops, Return(o, Answered(o))
  PROVE  Typed'
<1>1. Answered(o) \in {"none", "dry_run", "not_dispatched", "outcome_unknown",
                      "accepted"}
  BY DEF Answered
<1> QED BY <1>1, EndTyped DEF Return, Points

\* Every step of an operation keeps the types of its variables.
LEMMA OpStepTyped ==
  ASSUME Typed, LocalInv, NEW o \in Ops, OpInv(o),
         Call(o) \/ OpStep(o) \/ Apply(o) \/ Elapse(o) \/ Crash(o)
  PROVE  Typed'
<1> USE DEF Proceed
<1>a. ASSUME NEW point \in Points, Proceed(o, point)  PROVE Typed'
  BY <1>a, ProceedTyped
<1>b. ASSUME NEW what \in Notes, Journal(o, what)  PROVE Typed'
  BY <1>b, JournalTyped
<1>1. CASE Call(o)
  BY <1>1 DEF Call, Typed, Goto, Points
<1>2. CASE ReadSettings(o)
  <2>1. CASE Deny(o)
    BY <2>1, DenyTyped
  <2>2. CASE ~Deny(o)
    <3>1. [endpoint |-> settings, token |-> None] \in Connection
      BY DEF Connection, LocalInv, LocalTypeOK
    <3> QED
      BY <1>2, <2>2, <3>1 DEF ReadSettings, Typed, Goto, Points
  <2> QED BY <2>1, <2>2
<1>3. CASE RecheckOrigin(o)
  BY <1>3, <1>a, DenyTyped DEF RecheckOrigin, Points
<1>4. CASE ReadKeyring(o)
  <2>1. CASE Deny(o)
    BY <2>1, DenyTyped
  <2>2. CASE ~Deny(o)
    <3>1. seen[o].endpoint \in Endpoint
      BY <1>4 DEF ReadKeyring, OpInv, SeenSoFar
    <3>2. keyring[KeyFor(o)] \in Tokens \cup {None}
      BY <3>1 DEF KeyFor, LocalInv, LocalTypeOK, Endpoint
    <3>3. [endpoint |-> seen[o].endpoint, token |-> keyring[KeyFor(o)]] \in Connection
      BY <3>1, <3>2 DEF Connection
    <3> QED
      BY <1>4, <2>2, <3>3 DEF ReadKeyring, Typed, Goto, Points
  <2> QED BY <2>1, <2>2
<1>5. CASE ReadTrust(o)
  <2>1. CASE Deny(o) \/ Proceed(o, "deadline")
    BY <2>1, <1>a, DenyTyped DEF Points
  <2>2. CASE ~Deny(o) /\ ~Proceed(o, "deadline")
    BY <1>5, <2>2 DEF ReadTrust, Typed, Goto, Points
  <2> QED BY <2>1, <2>2
<1>6. CASE ReadCatalog(o)
  BY <1>6, <1>a, DenyTyped DEF ReadCatalog, Points
<1>7. CASE Prepare(o)
  <2>1. CASE Deny(o) \/ Return(o, "dry_run")
    BY <2>1, EndTyped, DenyTyped DEF Return, Points
  <2>2. CASE ~Deny(o) /\ ~Return(o, "dry_run")
    BY <1>7, <2>2 DEF Prepare, Typed, Goto, Points
  <2> QED BY <2>1, <2>2
<1>8. CASE CheckDeadline(o)
  BY <1>8, <1>a, <1>b, DenyTyped DEF CheckDeadline, Points, Notes
<1>9. CASE OpenJournal(o)
  BY <1>9, <1>a, AnsweredTyped DEF OpenJournal, JournalFails, Points
<1>10. CASE AppendRecord(o)
  BY <1>10, <1>a, AnsweredTyped DEF AppendRecord, JournalFails, Points
<1>11. CASE SyncRecord(o)
  BY <1>11, <1>a, AnsweredTyped DEF SyncRecord, JournalFails, Points
<1>12. CASE Recorded(o)
  <2>1. CASE Return(o, Answered(o))
    BY <2>1, AnsweredTyped
  <2>2. CASE ~Return(o, Answered(o))
    BY <1>12, <2>2 DEF Recorded, Typed, Goto, Points
  <2> QED BY <2>1, <2>2
<1>13. CASE Post(o)
  <2>1. CASE Journal(o, "outcome_unknown")
    BY <2>1, <1>b DEF Notes
  <2>2. CASE ~Journal(o, "outcome_unknown")
    BY <1>13, <2>2 DEF Post, Typed, Goto, Points
  <2> QED BY <2>1, <2>2
<1>14. CASE Answer(o)
  BY <1>14, <1>a, <1>b DEF Answer, Points, Notes
<1>15. CASE Observe(o)
  BY <1>15, <1>b DEF Observe, Notes
<1>16. CASE Apply(o)
  BY <1>16 DEF Apply, Typed
<1>17. CASE Elapse(o)
  BY <1>17 DEF Elapse, Typed
<1>18. CASE Crash(o)
  BY <1>18, EndTyped DEF Crash, Points
<1> QED
  BY <1>1, <1>2, <1>3, <1>4, <1>5, <1>6, <1>7, <1>8, <1>9, <1>10, <1>11, <1>12,
     <1>13, <1>14, <1>15, <1>16, <1>17, <1>18 DEF OpStep

-----------------------------------------------------------------------------
(* Frames: whom a step leaves alone.                                       *)

\* Nothing of operation q changes.
Same(q) ==
  /\ pc'[q] = pc[q]
  /\ phase'[q] = phase[q]
  /\ held'[q] = held[q]
  /\ seen'[q] = seen[q]
  /\ note'[q] = note[q]
  /\ request'[q] = request[q]

\* A step of one operation leaves every other one as it is.
LEMMA OpFrame ==
  ASSUME Typed, NEW o \in Ops, NEW q \in Ops, q # o,
         Call(o) \/ OpStep(o) \/ Apply(o) \/ Elapse(o) \/ Crash(o)
  PROVE  Same(q) /\ reply'[q] = reply[q]
<1>1. ASSUME NEW point, NEW answer, End(o, point, answer)
      PROVE  Same(q) /\ reply'[q] = reply[q]
  BY <1>1 DEF End, Goto, Typed, Same
<1>2. ASSUME NEW what, Journal(o, what)
      PROVE  Same(q) /\ reply'[q] = reply[q]
  BY <1>2 DEF Journal, Goto, Typed, Same
<1>3. ASSUME NEW point, Proceed(o, point)
      PROVE  Same(q) /\ reply'[q] = reply[q]
  BY <1>3 DEF Proceed, Goto, Typed, Same
<1>4. CASE Deny(o) \/ JournalFails(o) \/ Return(o, "dry_run") \/ Return(o, Answered(o))
  BY <1>1, <1>2, <1>4 DEF Deny, JournalFails, Return
<1>5. CASE Call(o) \/ Apply(o) \/ Elapse(o) \/ Crash(o)
  BY <1>1, <1>5 DEF Call, Apply, Elapse, Crash, Goto, Typed, Same
<1>6. CASE ReadSettings(o) \/ ReadKeyring(o) \/ ReadTrust(o) \/ Prepare(o)
  BY <1>3, <1>4, <1>6 DEF ReadSettings, ReadKeyring, ReadTrust, Prepare, Goto, Typed, Same
<1>7. CASE \/ RecheckOrigin(o) \/ ReadCatalog(o) \/ CheckDeadline(o)
           \/ OpenJournal(o) \/ AppendRecord(o) \/ SyncRecord(o)
  BY <1>2, <1>3, <1>4, <1>7 DEF RecheckOrigin, ReadCatalog, CheckDeadline, OpenJournal,
     AppendRecord, SyncRecord
<1>8. CASE Recorded(o) \/ Post(o) \/ Answer(o) \/ Observe(o)
  BY <1>2, <1>3, <1>4, <1>8 DEF Recorded, Post, Answer, Observe, Goto, Typed, Same
<1> QED BY <1>5, <1>6, <1>7, <1>8 DEF OpStep

\* No step of an operation touches the owner's files or keyring.
LEMMA OpKeepsFiles ==
  ASSUME NEW o \in Ops,
         Call(o) \/ OpStep(o) \/ Apply(o) \/ Elapse(o) \/ Crash(o)
  PROVE  UNCHANGED localVars
BY DEF LeaveFiles, Call, OpStep, Apply, Elapse, Crash, ReadSettings, RecheckOrigin,
   ReadKeyring, ReadTrust, ReadCatalog, Prepare, CheckDeadline, OpenJournal,
   AppendRecord, SyncRecord, Recorded, Post, Answer, Observe

\* The journal stays typed whatever an operation does to it.
LEMMA OpKeepsJournalType ==
  ASSUME JournalTypeOK, Typed, NEW o \in Ops,
         Call(o) \/ OpStep(o) \/ Apply(o) \/ Elapse(o) \/ Crash(o)
  PROVE  JournalTypeOK'
<1>1. CASE UNCHANGED journalVars
  BY <1>1 DEF JournalTypeOK, journalVars
<1>2. CASE AppendRecord(o) /\ Append(<<o, note[o]>>)
  <2>1. <<o, note[o]>> \in Records
    BY DEF Records, Typed
  <2>2. lines' \subseteq Records
    BY <1>2, <2>1 DEF JournalTypeOK, Append
  <2>3. size' \in Nat /\ durable' \subseteq Records
    BY <1>2 DEF JournalTypeOK, Append
  <2>4. torn' \in BOOLEAN
    BY <1>2, Zenon DEF Append
  <2> QED BY <2>2, <2>3, <2>4 DEF JournalTypeOK
<1>3. CASE SyncRecord(o) /\ Sync
  BY <1>3 DEF JournalTypeOK, Sync
<1>4. CASE AppendRecord(o)
  BY <1>1, <1>2, <1>4 DEF AppendRecord
<1>5. CASE SyncRecord(o)
  BY <1>1, <1>3, <1>5 DEF SyncRecord
<1>6. CASE LeaveFiles
  BY <1>1, <1>6 DEF LeaveFiles
<1> QED
  BY <1>4, <1>5, <1>6 DEF Call, OpStep, Apply, Elapse, Crash, ReadSettings,
     RecheckOrigin, ReadKeyring, ReadTrust, ReadCatalog, Prepare, CheckDeadline,
     OpenJournal, Recorded, Post, Answer, Observe

\* The history variable stays within its bounds.
LEMMA WitnessTyped ==
  ASSUME OpTypeOK, Witness
  PROVE  since' \in [Ops -> SUBSET {"endpoint", "token", "trust"}]
BY DEF OpTypeOK, Witness, Facts

\* What the history variable gains in a step.
LEMMA WitnessGains ==
  ASSUME OpTypeOK, Witness, NEW o \in Ops
  PROVE  /\ since' \in [Ops -> SUBSET Everything]
         /\ since[o] \subseteq since'[o]
         /\ Rechecks(o)' =>
              /\ settings' = held'[o].endpoint => "endpoint" \in since'[o]
              /\ keyring'[held'[o].endpoint.origin] = held'[o].token =>
                   "token" \in since'[o]
              /\ TrustedAs(held[o])' => "trust" \in since'[o]
BY DEF OpTypeOK, Witness, Everything, Facts, Rechecks, TrustedAs

-----------------------------------------------------------------------------
(* Preservation                                                            *)

\* An operation that does not move keeps its invariant, whatever happens to
\* the settings, the keyring and the trust file meanwhile.
LEMMA Stands ==
  ASSUME OpTypeOK, Witness, NEW q \in Ops, OpInv(q), Same(q)
  PROVE  OpInv(q)'
<1>1. SeenSoFar(q)' /\ BoundTo(q)' /\ InOrder(q)'
  BY DEF OpInv, Same, SeenSoFar, BoundTo, IsBound, InOrder
<1>2. SeenTrue(q)'
  <2>1. /\ since[q] \subseteq since'[q]
        /\ since'[q] \subseteq Everything
    BY WitnessGains
  <2>2. Rechecks(q)' =>
          /\ settings' = held'[q].endpoint => "endpoint" \in since'[q]
          /\ keyring'[held'[q].endpoint.origin] = held'[q].token => "token" \in since'[q]
          /\ TrustedAs(held[q])' => "trust" \in since'[q]
    BY WitnessGains
  <2> QED BY <2>1, <2>2 DEF OpInv, SeenTrue, Same, Rechecks
<1> QED BY <1>1, <1>2 DEF OpInv

\* An ended operation keeps its part of the invariant: it holds nothing.
LEMMA EndInv ==
  ASSUME OpTypeOK, Witness, NEW o \in Ops, OpInv(o),
         NEW point \in Ended, NEW answer, End(o, point, answer)
  PROVE  OpInv(o)'
<1>1. /\ pc'[o] = point
      /\ phase'[o] = "bind"
      /\ request'[o] = request[o]
  BY DEF End, Goto, OpTypeOK
<1>2. SeenSoFar(o)' /\ BoundTo(o)' /\ InOrder(o)'
  BY <1>1 DEF SeenSoFar, BoundTo, IsBound, InOrder
<1>3. SeenTrue(o)'
  BY <1>1, WitnessGains DEF SeenTrue, Rechecks, OpInv, Everything
<1> QED BY <1>2, <1>3 DEF OpInv

\* An operation keeps its part of the invariant when it turns to the journal.
LEMMA JournalInv ==
  ASSUME OpTypeOK, Witness, NEW o \in Ops, OpInv(o),
         NEW what \in Notes, Journal(o, what),
         pc[o] \notin {"call"} \cup Ended,
         phase[o] = "after" <=> what \in {"outcome_unknown", "effect"},
         what \in {"refused", "intent"} => request[o] = "none",
         what = "effect" => request[o] = "applied",
         what = "intent" => phase[o] = "before"
  PROVE  OpInv(o)'
<1>1. /\ pc'[o] = "open"
      /\ phase'[o] = phase[o]
      /\ held'[o] = held[o]
      /\ note'[o] = what
      /\ request'[o] = request[o]
  BY DEF Journal, Goto, OpTypeOK
<1>2. SeenSoFar(o)' /\ InOrder(o)'
  BY <1>1 DEF SeenSoFar, InOrder, Notes
<1>3. BoundTo(o)'
  BY <1>1 DEF BoundTo, IsBound, OpInv
<1>4. SeenTrue(o)'
  BY <1>1, WitnessGains DEF SeenTrue, Rechecks, OpInv, Everything
<1> QED BY <1>2, <1>3, <1>4 DEF OpInv

\* And when it is denied.
LEMMA DenyInv ==
  ASSUME OpTypeOK, Witness, NEW o \in Ops, OpInv(o), Deny(o),
         pc[o] \in Reading \cup {"catalog", "prepare", "deadline"}
  PROVE  OpInv(o)'
<1>1. CASE phase[o] = "after"
  BY <1>1, EndInv DEF Deny, Return
<1>2. CASE phase[o] # "after"
  BY <1>2, JournalInv DEF Deny, Notes, OpInv, InOrder
<1> QED BY <1>1, <1>2

\* The own steps of an operation.
LEMMA OwnStep ==
  ASSUME LocalInv, OpTypeOK, Witness, NEW o \in Ops, OpInv(o), UNCHANGED localVars,
         Call(o) \/ OpStep(o) \/ Apply(o) \/ Elapse(o) \/ Crash(o)
  PROVE  OpInv(o)'
<1>files. UNCHANGED <<settings, keyring, trust>>
  BY DEF localVars
<1>gain. /\ since[o] \subseteq since'[o]
         /\ since'[o] \subseteq Everything
         /\ Rechecks(o)' =>
              /\ settings' = held'[o].endpoint => "endpoint" \in since'[o]
              /\ keyring'[held'[o].endpoint.origin] = held'[o].token =>
                   "token" \in since'[o]
              /\ TrustedAs(held[o])' => "trust" \in since'[o]
  BY WitnessGains
<1>answered. ASSUME JournalFails(o) \/ Return(o, Answered(o)) \/ Return(o, "dry_run")
             PROVE  OpInv(o)'
  BY <1>answered, EndInv DEF JournalFails, Return
<1> USE DEF OpInv
<1>1. CASE Call(o)
  <2>1. /\ pc[o] = "call" /\ pc'[o] \in {"settings", "open"}
        /\ phase'[o] = phase[o] /\ held'[o] = held[o] /\ note'[o] = note[o]
        /\ request'[o] = request[o]
    BY <1>1 DEF Call, Goto, OpTypeOK
  <2>2. SeenSoFar(o)' /\ BoundTo(o)' /\ InOrder(o)'
    BY <2>1 DEF SeenSoFar, BoundTo, IsBound, InOrder
  <2>3. SeenTrue(o)'
    BY <2>1, <1>gain DEF SeenTrue, Rechecks, InOrder
  <2> QED BY <2>2, <2>3
<1>2. CASE ReadSettings(o)
  <2>1. CASE Deny(o)
    BY <1>2, <2>1, DenyInv DEF ReadSettings
  <2>2. CASE ~Deny(o)
    <3>1. /\ pc[o] = "settings" /\ pc'[o] = "recheck"
          /\ settings # None
          /\ seen'[o].endpoint = settings
          /\ phase'[o] = phase[o] /\ held'[o] = held[o] /\ note'[o] = note[o]
          /\ request'[o] = request[o]
      BY <1>2, <2>2 DEF ReadSettings, Goto, OpTypeOK
    <3>2. SeenSoFar(o)' /\ BoundTo(o)' /\ InOrder(o)'
      BY <3>1 DEF SeenSoFar, BoundTo, IsBound, InOrder, LocalInv, LocalTypeOK
    <3>3. SeenTrue(o)'
      BY <3>1, <1>gain, <1>files DEF SeenTrue, Rechecks
    <3> QED BY <3>2, <3>3
  <2> QED BY <2>1, <2>2
<1>3. CASE RecheckOrigin(o)
  <2>1. CASE Deny(o)
    BY <1>3, <2>1, DenyInv DEF RecheckOrigin
  <2>2. CASE Proceed(o, "keyring")
    BY <1>3, <2>2, <1>gain DEF RecheckOrigin, Proceed, Goto, OpTypeOK, SeenSoFar,
       BoundTo, IsBound, InOrder, SeenTrue, Rechecks
  <2> QED BY <1>3, <2>1, <2>2 DEF RecheckOrigin
<1>4. CASE ReadKeyring(o)
  <2>1. CASE Deny(o)
    BY <1>4, <2>1, DenyInv DEF ReadKeyring
  <2>2. CASE ~Deny(o)
    <3> DEFINE stored == keyring[seen[o].endpoint.origin]
    <3>1. /\ pc[o] = "keyring" /\ pc'[o] = "trust"
          /\ stored # None
          /\ seen'[o].endpoint = seen[o].endpoint
          /\ seen'[o].token = stored
          /\ phase'[o] = phase[o] /\ held'[o] = held[o] /\ note'[o] = note[o]
          /\ request'[o] = request[o]
      BY <1>4, <2>2 DEF ReadKeyring, KeyFor, Goto, OpTypeOK
    <3>2. /\ seen[o].endpoint \in Endpoint
          /\ seen[o].endpoint.origin \in Origins
      BY <3>1 DEF SeenSoFar, Endpoint
    <3>3. stored \in Tokens /\ Issuer[stored] = seen[o].endpoint.origin
      BY <3>1, <3>2 DEF LocalInv, LocalTypeOK, KeyringScoped
    <3>4. SeenSoFar(o)' /\ BoundTo(o)' /\ InOrder(o)'
      BY <3>1, <3>2, <3>3 DEF SeenSoFar, BoundTo, IsBound, InOrder
    <3>5. SeenTrue(o)'
      BY <3>1, <1>gain, <1>files DEF SeenTrue, Rechecks
    <3> QED BY <3>4, <3>5
  <2> QED BY <2>1, <2>2
<1>5. CASE ReadTrust(o)
  <2>1. CASE Deny(o)
    BY <1>5, <2>1, DenyInv DEF ReadTrust
  <2>2. CASE phase[o] = "bind" /\ ~Deny(o)
    BY <1>5, <2>2, <1>gain DEF ReadTrust, Goto, OpTypeOK, SeenSoFar, BoundTo, IsBound,
       InOrder, SeenTrue, Rechecks
  <2>3. CASE /\ phase[o] # "bind"
             /\ seen[o] = held[o]
             /\ TrustedAs(held[o])
             /\ Proceed(o, "deadline")
    <3>1. /\ pc[o] = "trust" /\ pc'[o] = "deadline"
          /\ phase'[o] = phase[o] /\ held'[o] = held[o] /\ note'[o] = note[o]
          /\ request'[o] = request[o]
      BY <1>5, <2>3 DEF ReadTrust, Proceed, Goto, OpTypeOK
    <3>2. SeenSoFar(o)' /\ BoundTo(o)' /\ InOrder(o)'
      BY <2>3, <3>1 DEF SeenSoFar, BoundTo, IsBound, InOrder
    <3>3. SeenTrue(o)'
      BY <2>3, <3>1, <1>gain DEF SeenTrue, Rechecks, InOrder, Everything
    <3> QED BY <3>2, <3>3
  <2> QED BY <1>5, <2>1, <2>2, <2>3 DEF ReadTrust, OpTypeOK
<1>6. CASE ReadCatalog(o)
  <2>1. CASE Deny(o)
    BY <1>6, <2>1, DenyInv DEF ReadCatalog
  <2>2. CASE Proceed(o, "prepare")
    BY <1>6, <2>2, <1>gain DEF ReadCatalog, Proceed, Goto, OpTypeOK, SeenSoFar,
       BoundTo, IsBound, InOrder, SeenTrue, Rechecks
  <2> QED BY <1>6, <2>1, <2>2 DEF ReadCatalog
<1>7. CASE Prepare(o)
  <2>1. CASE Deny(o)
    BY <1>7, <2>1, DenyInv DEF Prepare
  <2>2. CASE ~Deny(o) /\ ~Return(o, "dry_run")
    BY <1>7, <2>2, <1>gain DEF Prepare, Goto, OpTypeOK, SeenSoFar, BoundTo, IsBound,
       InOrder, SeenTrue, Rechecks
  <2> QED BY <2>1, <2>2, <1>answered
<1>8. CASE CheckDeadline(o)
  <2>1. CASE Deny(o)
    BY <1>8, <2>1, DenyInv DEF CheckDeadline
  <2>2. CASE phase[o] = "before" /\ Journal(o, "intent")
    BY <1>8, <2>2, JournalInv DEF CheckDeadline, InOrder, Notes
  <2>3. CASE phase[o] = "after" /\ Proceed(o, "post")
    BY <1>8, <2>3, <1>gain DEF CheckDeadline, Proceed, Goto, OpTypeOK, SeenSoFar,
       BoundTo, IsBound, InOrder, SeenTrue, Rechecks, Everything
  <2> QED BY <1>8, <2>1, <2>2, <2>3 DEF CheckDeadline
<1>9. CASE \/ OpenJournal(o) /\ Proceed(o, "append")
           \/ AppendRecord(o) /\ Proceed(o, "sync")
           \/ SyncRecord(o) /\ Proceed(o, "recorded")
  <2>2. /\ pc[o] \in Writing /\ pc'[o] \in Writing
        /\ phase'[o] = phase[o] /\ held'[o] = held[o] /\ note'[o] = note[o]
        /\ request'[o] = request[o]
    BY <1>9 DEF OpenJournal, AppendRecord, SyncRecord, Proceed, Goto, OpTypeOK
  <2>3. SeenSoFar(o)' /\ BoundTo(o)' /\ InOrder(o)'
    BY <2>2 DEF SeenSoFar, BoundTo, IsBound, InOrder
  <2>4. SeenTrue(o)'
    BY <2>2, <1>gain DEF SeenTrue, Rechecks, Everything
  <2> QED BY <2>3, <2>4
<1>10. CASE OpenJournal(o) \/ AppendRecord(o) \/ SyncRecord(o)
  BY <1>9, <1>10, <1>answered DEF OpenJournal, AppendRecord, SyncRecord
<1>11. CASE Recorded(o)
  <2>1. CASE Return(o, Answered(o))
    BY <2>1, <1>answered
  <2>2. CASE ~Return(o, Answered(o))
    <3>1. /\ pc[o] = "recorded" /\ pc'[o] = "settings"
          /\ note[o] = "intent"
          /\ phase'[o] = "after" /\ held'[o] = held[o] /\ note'[o] = note[o]
          /\ request'[o] = request[o]
      BY <1>11, <2>2 DEF Recorded, Goto, OpTypeOK
    <3>2. phase[o] = "before" /\ request[o] = "none"
      BY <1>11, <3>1 DEF InOrder, OpTypeOK
    <3>3. SeenSoFar(o)' /\ BoundTo(o)' /\ InOrder(o)'
      BY <3>1, <3>2 DEF SeenSoFar, BoundTo, IsBound, InOrder
    <3>4. SeenTrue(o)'
      BY <3>1, <3>2, <1>gain DEF SeenTrue, Rechecks
    <3> QED BY <3>3, <3>4
  <2> QED BY <2>1, <2>2
<1>12. CASE Post(o)
  <2>1. CASE Journal(o, "outcome_unknown")
    BY <1>12, <2>1, JournalInv DEF Post, InOrder, Notes
  <2>2. CASE ~Journal(o, "outcome_unknown")
    BY <1>12, <2>2, <1>gain DEF Post, Goto, OpTypeOK, SeenSoFar, BoundTo, IsBound,
       InOrder, SeenTrue, Rechecks, Everything
  <2> QED BY <2>1, <2>2
<1>13. CASE Answer(o)
  <2>1. CASE Journal(o, "outcome_unknown")
    BY <1>13, <2>1, JournalInv DEF Answer, InOrder, Notes
  <2>2. CASE request[o] = "applied" /\ Proceed(o, "observe")
    BY <1>13, <2>2, <1>gain DEF Answer, Proceed, Goto, OpTypeOK, SeenSoFar, BoundTo,
       IsBound, InOrder, SeenTrue, Rechecks, Everything
  <2> QED BY <1>13, <2>1, <2>2 DEF Answer
<1>14. CASE Observe(o)
  BY <1>14, JournalInv DEF Observe, InOrder, Notes
<1>15. CASE Apply(o)
  BY <1>15, <1>gain, <1>files DEF Apply, OpTypeOK, SeenSoFar, BoundTo, IsBound,
     InOrder, SeenTrue, Rechecks, Everything, TrustedAs
<1>16. CASE Elapse(o)
  BY <1>16, Stands DEF Elapse, Same
<1>17. CASE Crash(o)
  BY <1>17, EndInv DEF Crash
<1> QED
  BY <1>1, <1>2, <1>3, <1>4, <1>5, <1>6, <1>7, <1>8, <1>10, <1>11, <1>12, <1>13,
     <1>14, <1>15, <1>16, <1>17 DEF OpStep

-----------------------------------------------------------------------------
(* The invariant                                                           *)

\* A step of one operation.
LEMMA OpStepInv ==
  ASSUME CallInv, Witness, NEW o \in Ops,
         Call(o) \/ OpStep(o) \/ Apply(o) \/ Elapse(o) \/ Crash(o)
  PROVE  CallInv'
<1>typed. Typed /\ Typed'
  BY OpStepTyped DEF CallInv, OpTypeOK, Typed
<1>1. UNCHANGED localVars
  BY OpKeepsFiles
<1>2. LocalInv'
  BY <1>1, LocalStutter DEF CallInv
<1>3. JournalTypeOK'
  BY <1>typed, OpKeepsJournalType DEF CallInv
<1>4. OpTypeOK'
  <2>1. since' \in [Ops -> SUBSET {"endpoint", "token", "trust"}]
    BY WitnessTyped DEF CallInv
  <2> QED BY <1>typed, <2>1 DEF Typed, OpTypeOK
<1>5. ASSUME NEW q \in Ops
      PROVE  OpInv(q)'
  <2>1. CASE q = o
    BY <1>1, <2>1, OwnStep DEF CallInv
  <2>2. CASE q # o
    <3>1. Same(q)
      BY <1>typed, <2>2, OpFrame
    <3> QED BY <3>1, Stands DEF CallInv
  <2> QED BY <2>1, <2>2
<1> QED BY <1>2, <1>3, <1>4, <1>5 DEF CallInv

\* A step of one of the owner's commands: every operation stands still.
LEMMA AdminInv ==
  ASSUME CallInv, Witness, NEW a \in Admins, Admin(a)
  PROVE  CallInv'
<1>1. LocalInv'
  BY LocalStep DEF CallInv, Admin
<1>2. JournalTypeOK'
  BY DEF CallInv, Admin, JournalTypeOK, journalVars
<1>3. OpTypeOK'
  <2>1. since' \in [Ops -> SUBSET {"endpoint", "token", "trust"}]
    BY WitnessTyped DEF CallInv
  <2> QED BY <2>1 DEF CallInv, Admin, opVars, OpTypeOK
<1>4. ASSUME NEW q \in Ops
      PROVE  OpInv(q)'
  <2>1. Same(q)
    BY DEF Same, Admin, opVars
  <2> QED BY <2>1, Stands DEF CallInv
<1> QED BY <1>1, <1>2, <1>3, <1>4 DEF CallInv

\* Every running operation dies, the files stay.
LEMMA LosePowerInv ==
  ASSUME CallInv, Witness, LosePower
  PROVE  CallInv'
<1> USE DEF CallInv
<1> DEFINE Gone(o) == pc[o] \notin {"call", "done", "dead"}
<1>1. LocalInv'
  <2>1. /\ admin' \in [Admins -> [step : Steps, endpoint : Endpoint \cup {None},
                                  token : Tokens \cup {None}]]
        /\ AdminCarries'
    BY DEF LosePower, AtRest, Steps, AdminCarries
  <2> QED BY <2>1, KeepFiles DEF LosePower
<1>2. JournalTypeOK'
  <2>1. /\ lines' \subseteq Records
        /\ durable' \subseteq Records
        /\ size' \in Nat
    BY DEF LosePower, LoseUnsynced, JournalTypeOK
  <2>2. torn' \in BOOLEAN
    BY JournalAssumption, Zenon DEF LosePower, LoseUnsynced, JournalTypeOK
  <2> QED BY <2>1, <2>2 DEF JournalTypeOK
<1>3. OpTypeOK'
  <2>1. since' \in [Ops -> SUBSET {"endpoint", "token", "trust"}]
    BY WitnessTyped
  <2>2. /\ pc' \in [Ops -> Points]
        /\ phase' \in [Ops -> {"bind", "before", "after"}]
        /\ held' \in [Ops -> Connection]
        /\ seen' \in [Ops -> Connection]
        /\ clock' \in [Ops -> {"none", "running", "elapsed"}]
        /\ note' \in [Ops -> Notes]
    BY DEF LosePower, OpTypeOK, Connection, Notes, Points
  <2>3. dry' \in [Ops -> BOOLEAN]
    BY DEF LosePower, OpTypeOK
  <2> QED BY <2>1, <2>2, <2>3 DEF LosePower, OpTypeOK
<1>4. ASSUME NEW q \in Ops
      PROVE  OpInv(q)'
  <2>1. CASE Gone(q)
    <3>1. pc'[q] = "dead" /\ phase'[q] = "bind" /\ request'[q] = request[q]
      BY <2>1 DEF LosePower
    <3>2. SeenSoFar(q)' /\ BoundTo(q)' /\ InOrder(q)'
      BY <3>1 DEF SeenSoFar, BoundTo, IsBound, InOrder
    <3>3. SeenTrue(q)'
      BY <3>1, WitnessGains DEF SeenTrue, Rechecks, OpInv, Everything
    <3> QED BY <3>2, <3>3 DEF OpInv
  <2>2. CASE ~Gone(q)
    <3>1. Same(q)
      BY <2>2 DEF Same, LosePower
    <3> QED BY <3>1, Stands
  <2> QED BY <2>1, <2>2
<1> QED BY <1>1, <1>2, <1>3, <1>4

\* Every behaviour of the machine, whatever its operations, its owner and its
\* power supply do, satisfies the invariant.
THEOREM CallInvariance == Spec => []CallInv
<1>1. Init => CallInv
  <2> SUFFICES ASSUME Init
               PROVE  CallInv
    OBVIOUS
  <2>1. LocalInv /\ JournalTypeOK
    BY LocalInitInv DEF Init, JournalInit, JournalTypeOK
  <2>2. OpTypeOK
    BY DEF Init, OpTypeOK, Points, Connection, Notes
  <2>3. ASSUME NEW o \in Ops
        PROVE  OpInv(o)
    BY DEF Init, OpInv, SeenSoFar, BoundTo, IsBound, InOrder, SeenTrue, Rechecks
  <2> QED BY <2>1, <2>2, <2>3 DEF CallInv
<1>2. CallInv /\ [Next]_vars => CallInv'
  <2> SUFFICES ASSUME CallInv, [Next]_vars
               PROVE  CallInv'
    OBVIOUS
  <2>1. CASE UNCHANGED vars
    <3>1. LocalInv'
      BY <2>1, LocalStutter DEF CallInv, vars
    <3>2. JournalTypeOK' /\ OpTypeOK'
      BY <2>1 DEF CallInv, vars, journalVars, opVars, JournalTypeOK, OpTypeOK
    <3>3. ASSUME NEW o \in Ops
          PROVE  OpInv(o)'
      BY <2>1 DEF CallInv, vars, localVars, opVars, OpInv, SeenSoFar, BoundTo, IsBound,
         InOrder, SeenTrue, Rechecks, TrustedAs
    <3> QED BY <3>1, <3>2, <3>3 DEF CallInv
  <2>2. CASE Next
    BY <2>2, OpStepInv, AdminInv, LosePowerInv DEF Next, Step
  <2> QED BY <2>1, <2>2
<1> QED BY <1>1, <1>2, PTL DEF Spec

\* The values of all variables, for any number of operations and commands.
THEOREM Types == Spec => []TypeOK
<1>1. CallInv => TypeOK
  BY DEF CallInv, LocalInv, TypeOK
<1> QED BY <1>1, CallInvariance, PTL

\* An operation that talks to a home does so with a token of this home.
THEOREM CredentialStaysScoped == Spec => []CredentialScoped
<1>1. CallInv => CredentialScoped
  BY DEF CallInv, OpInv, BoundTo, IsBound, CredentialScoped
<1> QED BY <1>1, CallInvariance, PTL

\* However the owner's commands interleave with the reads of an operation, it
\* sends its request only after its endpoint was the configured one, its token
\* the stored one and its connection the trusted one, each at some instant
\* since its intent was durable.
THEOREM PostsAreAuthorised == Spec => []PostAuthorised
<1>1. CallInv => PostAuthorised
  BY DEF CallInv, OpInv, SeenTrue, PostAuthorised, Everything
<1> QED BY <1>1, CallInvariance, PTL

-----------------------------------------------------------------------------
(* What the operation journal says about the operations, and that          *)
(* ControlRuntime implements the contract of Dispatch: for any number of   *)
(* operations and commands, on a file system that appends whole lines      *)
(* (TornTails = FALSE; the run intent_torn shows what happens otherwise).  *)

USE DEF Reading, Writing, Ended

-----------------------------------------------------------------------------
(* The steps of an operation, as the journal and the caller see them.      *)

\* The operation ends, with an answer or by dying.
Ending(o, point, answer) ==
  /\ pc[o] \notin {"call"} \cup Ended
  /\ pc'[o] = point
  /\ phase'[o] = "bind"
  /\ request'[o] = request[o]
  /\ reply'[o] = answer

\* The answers that each stage allows.
Fits(o, answer) ==
  \/ Stage(o) = "open" /\ answer = "not_dispatched"
  \/ Stage(o) = "open" /\ pc[o] = "prepare" /\ answer = "dry_run"
  \/ Stage(o) = "sent" /\ answer = "outcome_unknown"
  \/ Stage(o) = "sent" /\ request[o] = "applied" /\ answer = "accepted"

\* It goes on, at the same stage of the contract and away from the journal.
Walking(o) ==
  /\ pc[o] \notin {"sync", "recorded"} \cup Ended
  /\ pc'[o] \notin {"call", "sync", "recorded"} \cup Ended
  /\ phase'[o] = "after" <=> phase[o] = "after"
  /\ request'[o] = request[o]
  /\ reply'[o] = reply[o]
  /\ Stage(o)' = Stage(o)

\* Its intent is on record, and the third pass begins.
Intended(o) ==
  /\ pc[o] = "recorded" /\ note[o] = "intent" /\ pc'[o] = "settings"
  /\ phase'[o] = "after"
  /\ request'[o] = request[o]
  /\ reply'[o] = reply[o]
  /\ Stage(o)' = Stage(o)

\* It attempts its POST.
Sending(o) ==
  /\ pc[o] = "post" /\ pc'[o] \in {"answer", "open"}
  /\ phase[o] = "after" /\ phase'[o] = "after"
  /\ request'[o] \in {request[o], "travelling"}
  /\ reply'[o] = reply[o]
  /\ Stage(o) = "open" /\ Stage(o)' = "sent"

\* Home Assistant runs the service.
Applying(o) ==
  /\ request[o] = "travelling" /\ request'[o] = "applied"
  /\ pc'[o] = pc[o] /\ phase'[o] = phase[o] /\ note'[o] = note[o]
  /\ reply'[o] = reply[o]
  /\ Stage(o)' = Stage(o)

\* It writes a line, or makes the lines written so far durable.
Writes(o) ==
  /\ \/ pc[o] = "append" /\ pc'[o] = "sync" /\ Append(<<o, note[o]>>)
     \/ pc[o] = "sync" /\ pc'[o] = "recorded" /\ Sync
  /\ phase'[o] = phase[o] /\ note'[o] = note[o]
  /\ request'[o] = request[o]
  /\ reply'[o] = reply[o]
  /\ Stage(o)' = Stage(o)

Move(o) ==
  \/ /\ UNCHANGED journalVars
     /\ \/ \E answer : Fits(o, answer) /\ Ending(o, "done", answer)
        \/ Ending(o, "dead", "none")
        \/ Walking(o)
        \/ Intended(o)
        \/ Sending(o)
        \/ Applying(o)
        \/ Same(o) /\ reply'[o] = reply[o]
  \/ Writes(o)

\* Every step of an operation is one of these.
LEMMA Classified ==
  ASSUME OpTypeOK, NEW o \in Ops, InOrder(o),
         Call(o) \/ OpStep(o) \/ Apply(o) \/ Elapse(o) \/ Crash(o)
  PROVE  Move(o)
<1>end. ASSUME NEW point, NEW answer, End(o, point, answer),
               pc[o] \notin {"call"} \cup Ended
        PROVE  Ending(o, point, answer)
  BY <1>end DEF End, Goto, OpTypeOK, Ending
<1>sane. /\ pc[o] \in Points /\ note[o] \in Notes
         /\ phase[o] \in {"bind", "before", "after"}
  BY DEF OpTypeOK
<1>deny. ASSUME Deny(o), pc[o] \in Reading \cup {"catalog", "prepare", "deadline"}
         PROVE  (Fits(o, "not_dispatched") /\ Ending(o, "done", "not_dispatched"))
                \/ Walking(o)
  <2>1. CASE phase[o] = "after"
    BY <1>deny, <1>end, <2>1 DEF Deny, Return, Fits, Stage
  <2>2. CASE phase[o] # "after"
    <3>1. /\ pc'[o] = "open" /\ phase'[o] = phase[o] /\ request'[o] = request[o]
          /\ reply'[o] = reply[o] /\ note'[o] = "refused"
      BY <1>deny, <2>2 DEF Deny, Journal, Goto, OpTypeOK
    <3> QED BY <1>deny, <3>1 DEF Walking, Stage
  <2> QED BY <2>1, <2>2
<1>fails. ASSUME Return(o, Answered(o)), pc[o] \in Writing
          PROVE  Fits(o, Answered(o)) /\ Ending(o, "done", Answered(o))
  <2>1. Fits(o, Answered(o))
    BY <1>fails, <1>sane DEF Answered, Fits, Stage, InOrder, Notes
  <2> QED BY <1>fails, <1>end, <2>1 DEF Return
<1>1. CASE Call(o)
  <2>1. /\ pc[o] = "call" /\ pc'[o] \in {"settings", "open"}
        /\ phase'[o] = phase[o] /\ note'[o] = note[o]
        /\ request'[o] = request[o] /\ reply'[o] = reply[o]
    BY <1>1 DEF Call, Goto, OpTypeOK
  <2>2. Walking(o)
    BY <2>1 DEF Walking, Stage, InOrder
  <2> QED BY <1>1, <2>2 DEF Move, Call, LeaveFiles
<1>2. CASE \/ ReadSettings(o) \/ RecheckOrigin(o) \/ ReadKeyring(o) \/ ReadTrust(o)
           \/ ReadCatalog(o) \/ Prepare(o) \/ CheckDeadline(o)
  <2>files. UNCHANGED journalVars
    BY <1>2 DEF LeaveFiles, ReadSettings, RecheckOrigin, ReadKeyring, ReadTrust,
       ReadCatalog, Prepare, CheckDeadline
  <2>at. pc[o] \in Reading \cup {"catalog", "prepare", "deadline"}
    BY <1>2 DEF ReadSettings, RecheckOrigin, ReadKeyring, ReadTrust, ReadCatalog,
       Prepare, CheckDeadline
  <2>1. CASE Deny(o)
    BY <1>deny, <2>1, <2>at, <2>files DEF Move
  <2>2. CASE pc[o] = "prepare" /\ Return(o, "dry_run")
    <3>1. Fits(o, "dry_run") /\ Ending(o, "done", "dry_run")
      BY <1>end, <2>2 DEF Return, Fits, Stage
    <3> QED BY <2>files, <3>1 DEF Move
  <2>3. CASE ~Deny(o) /\ ~(pc[o] = "prepare" /\ Return(o, "dry_run"))
    <3> DEFINE On == /\ \/ pc'[o] \in Reading \cup {"catalog", "prepare", "deadline", "post"}
                        \/ pc'[o] = "open" /\ note'[o] = "intent"
                     /\ phase'[o] = "after" <=> phase[o] = "after"
                     /\ request'[o] = request[o] /\ reply'[o] = reply[o]
    <3>a. ASSUME ReadSettings(o) \/ ReadKeyring(o) PROVE On
      BY <2>3, <3>a DEF ReadSettings, ReadKeyring, Goto, OpTypeOK
    <3>b. ASSUME RecheckOrigin(o) \/ ReadTrust(o) \/ ReadCatalog(o) PROVE On
      BY <2>3, <3>b DEF RecheckOrigin, ReadTrust, ReadCatalog, Proceed, Goto, OpTypeOK
    <3>c. ASSUME Prepare(o) PROVE On
      BY <2>3, <3>c DEF Prepare, Goto, OpTypeOK, InOrder
    <3>d. ASSUME CheckDeadline(o) PROVE On
      BY <2>3, <3>d DEF CheckDeadline, Proceed, Journal, Goto, OpTypeOK
    <3>1. On
      BY <1>2, <3>a, <3>b, <3>c, <3>d
    <3>2. Walking(o)
      BY <2>at, <3>1 DEF Walking, Stage
    <3> QED BY <2>files, <3>2 DEF Move
  <2> QED BY <2>1, <2>2, <2>3
<1>3. CASE \/ OpenJournal(o) /\ Proceed(o, "append")
           \/ AppendRecord(o) /\ Append(<<o, note[o]>>) /\ Proceed(o, "sync")
           \/ SyncRecord(o) /\ Sync /\ Proceed(o, "recorded")
  <2>1. /\ phase'[o] = phase[o] /\ note'[o] = note[o]
        /\ request'[o] = request[o] /\ reply'[o] = reply[o]
        /\ \/ pc[o] = "open" /\ pc'[o] = "append" /\ UNCHANGED journalVars
           \/ pc[o] = "append" /\ pc'[o] = "sync" /\ Append(<<o, note[o]>>)
           \/ pc[o] = "sync" /\ pc'[o] = "recorded" /\ Sync
    BY <1>3 DEF OpenJournal, AppendRecord, SyncRecord, LeaveFiles, Proceed, Goto, OpTypeOK
  <2>2. Stage(o)' = Stage(o)
    BY <2>1 DEF Stage
  <2> QED BY <2>1, <2>2 DEF Move, Walking, Writes
<1>4. CASE OpenJournal(o) \/ AppendRecord(o) \/ SyncRecord(o)
  <2>1. CASE Return(o, Answered(o)) /\ UNCHANGED journalVars
    <3>1. pc[o] \in Writing
      BY <1>4 DEF OpenJournal, AppendRecord, SyncRecord
    <3> QED BY <1>fails, <2>1, <3>1 DEF Move
  <2> QED BY <1>3, <1>4, <2>1 DEF OpenJournal, AppendRecord, SyncRecord, JournalFails,
             LeaveFiles
<1>5. CASE Recorded(o)
  <2>1. CASE Return(o, Answered(o))
    BY <1>5, <1>fails, <2>1 DEF Recorded, LeaveFiles, Move
  <2>2. CASE ~Return(o, Answered(o))
    <3>1. /\ pc[o] = "recorded" /\ note[o] = "intent" /\ pc'[o] = "settings"
          /\ phase'[o] = "after"
          /\ request'[o] = request[o] /\ reply'[o] = reply[o]
      BY <1>5, <2>2 DEF Recorded, Goto, OpTypeOK
    <3>2. Intended(o)
      BY <3>1 DEF Intended, Stage
    <3> QED BY <1>5, <3>2 DEF Recorded, LeaveFiles, Move
  <2> QED BY <2>1, <2>2
<1>6. CASE Post(o)
  <2>1. /\ pc[o] = "post"
        /\ \/ pc'[o] = "answer" /\ request'[o] = "travelling"
           \/ /\ pc'[o] = "open" /\ note'[o] = "outcome_unknown"
              /\ request'[o] = request[o]
        /\ phase'[o] = phase[o] /\ reply'[o] = reply[o]
    BY <1>6 DEF Post, Journal, Goto, OpTypeOK
  <2>2. Sending(o)
    BY <2>1 DEF Sending, Stage, InOrder
  <2> QED BY <1>6, <2>2 DEF Post, LeaveFiles, Move
<1>7. CASE Answer(o) \/ Observe(o)
  <2>1. /\ pc[o] \in {"answer", "observe"}
        /\ \/ pc'[o] = "observe"
           \/ pc'[o] = "open" /\ note'[o] \in {"outcome_unknown", "effect"}
        /\ phase'[o] = phase[o] /\ reply'[o] = reply[o] /\ request'[o] = request[o]
    BY <1>7 DEF Answer, Observe, Proceed, Journal, Goto, OpTypeOK
  <2>2. Walking(o)
    BY <2>1 DEF Walking, Stage
  <2> QED BY <1>7, <2>2 DEF Answer, Observe, LeaveFiles, Move
<1>8. CASE Apply(o)
  <2>1. Applying(o)
    BY <1>8 DEF Apply, OpTypeOK, Applying, Stage
  <2> QED BY <1>8, <2>1 DEF Apply, LeaveFiles, Move
<1>9. CASE Elapse(o)
  BY <1>9 DEF Elapse, LeaveFiles, Same, Move
<1>10. CASE Crash(o)
  BY <1>10, <1>end DEF Crash, LeaveFiles, Move
<1> QED BY <1>1, <1>2, <1>4, <1>5, <1>6, <1>7, <1>8, <1>9, <1>10 DEF OpStep

-----------------------------------------------------------------------------
(* What the journal says.                                                  *)

\* It has only whole lines, and an fsync does not invent any.
WholeLines == torn = FALSE /\ durable \subseteq lines

\* When a line of an operation can be in the file, and when it must be.
Noted(o) ==
  /\ pc[o] = "sync" => <<o, note[o]>> \in lines
  /\ pc[o] = "recorded" => <<o, note[o]>> \in durable
  /\ phase[o] = "after" => <<o, "intent">> \in durable
  /\ request[o] # "none" => <<o, "intent">> \in durable
  /\ <<o, "intent">> \in lines =>
       \/ phase[o] = "after"
       \/ pc[o] \in Ended
       \/ pc[o] \in {"sync", "recorded"} /\ note[o] = "intent"
  /\ \A r \in {"refused", "outcome_unknown", "effect"} : <<o, r>> \in lines =>
       \/ pc[o] \in Ended
       \/ pc[o] \in {"sync", "recorded"} /\ note[o] = r

Truthful(o) ==
  /\ <<o, "refused">> \in lines =>
       /\ <<o, "intent">> \notin lines
       /\ request[o] = "none"
  /\ <<o, "outcome_unknown">> \in lines =>
       /\ <<o, "intent">> \in durable
       /\ <<o, "effect">> \notin lines
  /\ <<o, "effect">> \in lines =>
       /\ <<o, "intent">> \in durable
       /\ request[o] = "applied"

\* Callers are answered at the end, and told what happened; a dry run is
\* never journalled.
AnsweredLast(o) ==
  /\ reply[o] # "none" => pc[o] \in Ended
  /\ reply[o] = "dry_run" => <<o, "intent">> \notin lines
  /\ reply[o] \in {"not_dispatched", "dry_run"} => request[o] = "none"
  /\ reply[o] = "accepted" => request[o] = "applied"

AuditOp(o) == Noted(o) /\ Truthful(o) /\ AnsweredLast(o)

AuditInv == CallInv /\ WholeLines /\ \A o \in Ops : AuditOp(o)

\* What a step of somebody else does to the lines of an operation.
LinesStand(q) ==
  /\ \A r \in Notes : <<q, r>> \in lines' => <<q, r>> \in lines
  /\ durable \subseteq durable'
  /\ pc[q] = "sync" => lines \subseteq lines'

\* An operation whose variables stand, and whose records stand, keeps its part of the invariant.
LEMMA AuditStands ==
  ASSUME NEW q \in Ops, AuditOp(q), Same(q), reply'[q] = reply[q], LinesStand(q)
  PROVE  AuditOp(q)'
<1>1. \A r \in Notes : <<q, r>> \in durable => <<q, r>> \in durable'
  BY DEF LinesStand
<1>2. Noted(q)'
  BY <1>1 DEF AuditOp, Noted, Same, LinesStand, Notes
<1>3. Truthful(q)'
  BY <1>1 DEF AuditOp, Truthful, Same, LinesStand, Notes
<1>4. AnsweredLast(q)'
  BY DEF AuditOp, AnsweredLast, Same, LinesStand, Notes
<1> QED BY <1>2, <1>3, <1>4 DEF AuditOp

\* A step of an operation as the others see it.
LEMMA OthersLines ==
  ASSUME TornTails = FALSE, WholeLines, NEW o \in Ops, NEW q \in Ops, q # o, Move(o)
  PROVE  LinesStand(q)
<1>1. CASE UNCHANGED journalVars
  BY <1>1 DEF journalVars, LinesStand
<1>2. CASE Writes(o)
  BY <1>2 DEF Writes, Append, Sync, WholeLines, LinesStand
<1> QED BY <1>1, <1>2 DEF Move

\* No move of an operation leaves a torn line where writes are whole.
LEMMA WholeLinesStep ==
  ASSUME TornTails = FALSE, WholeLines, NEW o \in Ops, Move(o)
  PROVE  WholeLines'
<1>1. CASE UNCHANGED journalVars
  BY <1>1 DEF journalVars, WholeLines
<1>2. CASE Writes(o)
  BY <1>2 DEF Writes, Append, Sync, WholeLines
<1> QED BY <1>1, <1>2 DEF Move

\* An operation's own step.
LEMMA OwnAudit ==
  ASSUME TornTails = FALSE, WholeLines, OpTypeOK, OpTypeOK', NEW o \in Ops,
         InOrder(o), AuditOp(o), Move(o)
  PROVE  AuditOp(o)'
<1> USE DEF AuditOp
<1>notes. note[o] \in Notes /\ pc[o] \in Points
  BY DEF OpTypeOK
<1>1. ASSUME NEW answer, Fits(o, answer), Ending(o, "done", answer),
             UNCHANGED journalVars
      PROVE  AuditOp(o)'
  <2>1. answer = "dry_run" => <<o, "intent">> \notin lines
    BY <1>1 DEF Fits, Ending, Noted, InOrder
  <2>2. /\ answer \in {"not_dispatched", "dry_run"} => request[o] = "none"
        /\ answer = "accepted" => request[o] = "applied"
    BY <1>1, <1>notes DEF Fits, Ending, Stage, InOrder, Notes, Points
  <2> QED BY <1>1, <2>1, <2>2 DEF Ending, journalVars, Noted, Truthful, AnsweredLast
<1>2. CASE UNCHANGED journalVars /\ Ending(o, "dead", "none")
  BY <1>2 DEF Ending, journalVars, Noted, Truthful, AnsweredLast
<1>3. CASE UNCHANGED journalVars /\ (Walking(o) \/ Intended(o) \/ Sending(o))
  BY <1>3 DEF Walking, Intended, Sending, journalVars, Noted, Truthful, AnsweredLast
<1>4. CASE UNCHANGED journalVars /\ (Applying(o) \/ (Same(o) /\ reply'[o] = reply[o]))
  BY <1>4 DEF Applying, Same, journalVars, Noted, Truthful, AnsweredLast
<1>5. CASE Writes(o) /\ pc[o] = "append"
  <2>1. /\ lines' = lines \cup {<<o, note[o]>>} /\ durable' = durable
        /\ pc'[o] = "sync" /\ phase'[o] = phase[o] /\ note'[o] = note[o]
        /\ request'[o] = request[o] /\ reply'[o] = reply[o]
    BY <1>5 DEF Writes, Append, WholeLines
  <2>2. \A r \in Notes : <<o, r>> \in lines' <=> <<o, r>> \in lines \/ r = note[o]
    BY <2>1
  <2>3. Noted(o)'
    BY <1>5, <1>notes, <2>1, <2>2 DEF Noted, Notes
  <2>4. /\ \A r \in {"refused", "outcome_unknown", "effect"} : <<o, r>> \notin lines
        /\ note[o] = "refused" => <<o, "intent">> \notin lines
        /\ note[o] # "refused" /\ note[o] # "intent" => phase[o] = "after"
        /\ note[o] = "refused" => request[o] = "none"
        /\ note[o] = "effect" => request[o] = "applied"
    BY <1>5, <1>notes DEF Noted, InOrder, Notes
  <2>5. Truthful(o)'
    BY <1>notes, <2>1, <2>2, <2>4 DEF Noted, Truthful, Notes
  <2>6. AnsweredLast(o)'
    BY <1>5, <2>1 DEF AnsweredLast
  <2> QED BY <2>3, <2>5, <2>6
<1>6. CASE Writes(o) /\ pc[o] = "sync"
  <2>1. /\ lines' = lines /\ durable' = lines
        /\ pc'[o] = "recorded" /\ phase'[o] = phase[o] /\ note'[o] = note[o]
        /\ request'[o] = request[o] /\ reply'[o] = reply[o]
    BY <1>6 DEF Writes, Sync
  <2> QED BY <1>6, <2>1 DEF Noted, Truthful, AnsweredLast, WholeLines
<1> HIDE DEF AuditOp
<1>7. CASE Writes(o)
  BY <1>5, <1>6, <1>7 DEF Writes
<1> QED BY <1>1, <1>2, <1>3, <1>4, <1>7 DEF Move

\* Every step preserves the audit invariant.
LEMMA AuditStep ==
  ASSUME TornTails = FALSE, AuditInv, CallInv', [Next]_vars
  PROVE  AuditInv'
<1> USE DEF AuditInv
<1>typed. Typed /\ OpTypeOK /\ OpTypeOK'
  BY DEF CallInv, OpTypeOK, Typed
<1>1. ASSUME NEW o \in Ops, Call(o) \/ OpStep(o) \/ Apply(o) \/ Elapse(o) \/ Crash(o)
      PROVE  AuditInv'
  <2>1. Move(o)
    BY <1>typed, <1>1, Classified DEF CallInv, OpInv
  <2>2. WholeLines'
    BY <2>1, WholeLinesStep
  <2>3. ASSUME NEW q \in Ops
        PROVE  AuditOp(q)'
    <3>1. CASE q = o
      BY <1>typed, <2>1, <3>1, OwnAudit DEF CallInv, OpInv
    <3>2. CASE q # o
      BY <1>typed, <1>1, <2>1, <3>2, OpFrame, OthersLines, AuditStands
    <3> QED BY <3>1, <3>2
  <2> QED BY <2>2, <2>3
<1>2. CASE LosePower
  <2>1. lines' \subseteq lines /\ durable' = durable /\ torn' = FALSE
    BY <1>2 DEF LosePower, LoseUnsynced, WholeLines
  <2>2. durable' \subseteq lines'
    BY <1>2 DEF LosePower, LoseUnsynced, WholeLines
  <2>3. ASSUME NEW q \in Ops
        PROVE  AuditOp(q)'
    <3>1. request'[q] = request[q] /\ reply'[q] = reply[q]
      BY <1>2 DEF LosePower
    <3>2. CASE pc[q] \in {"call"} \cup Ended
      <4>1. Same(q)
        BY <1>2, <3>2 DEF LosePower, Same
      <4> QED BY <2>1, <3>1, <3>2, <4>1, AuditStands DEF LinesStand
    <3>3. CASE pc[q] \notin {"call"} \cup Ended
      <4>1. pc'[q] = "dead" /\ phase'[q] = "bind"
        BY <1>2, <3>3 DEF LosePower
      <4>2. reply[q] = "none"
        BY <3>3 DEF AuditOp, AnsweredLast
      <4>3. \A r \in Notes : <<q, r>> \in lines' => <<q, r>> \in lines
        BY <2>1
      <4>4. Noted(q)'
        BY <2>1, <3>1, <4>1 DEF AuditOp, Noted
      <4>5. Truthful(q)'
        BY <2>1, <3>1, <4>3 DEF AuditOp, Truthful, Notes
      <4> QED BY <3>1, <4>1, <4>2, <4>4, <4>5 DEF AuditOp, AnsweredLast
    <3> QED BY <3>2, <3>3
  <2> QED BY <2>1, <2>2, <2>3 DEF WholeLines
<1>3. CASE UNCHANGED <<journalVars, opVars>>
  BY <1>3 DEF journalVars, opVars, WholeLines, AuditOp, Noted, Truthful, AnsweredLast
<1> QED BY <1>1, <1>2, <1>3 DEF Next, Step, Admin, vars

\* The journal can be believed, and no request is under way without a durable
\* record of its intent, whatever the interleaving of operations, commands,
\* crashes and power losses.
THEOREM AuditInvariance ==
  ASSUME TornTails = FALSE
  PROVE  Spec => []AuditInv
<1>1. Init /\ CallInv => AuditInv
  <2> SUFFICES ASSUME Init, CallInv
               PROVE  AuditInv
    OBVIOUS
  <2>1. WholeLines
    BY DEF Init, JournalInit, WholeLines
  <2>2. ASSUME NEW o \in Ops
        PROVE  AuditOp(o)
    BY DEF Init, JournalInit, AuditOp, Noted, Truthful, AnsweredLast
  <2> QED BY <2>1, <2>2 DEF AuditInv
<1>2. AuditInv /\ CallInv' /\ [Next]_vars => AuditInv'
  BY TornTails = FALSE, AuditStep
<1> QED BY <1>1, <1>2, CallInvariance, PTL DEF Spec

\* What the journal says of an operation is what happened to it.
THEOREM JournalIsTrue ==
  ASSUME TornTails = FALSE
  PROVE  Spec => []JournalTruth
<1>1. AuditInv => JournalTruth
  BY DEF AuditInv, AuditOp, Truthful, JournalTruth
<1> QED BY <1>1, TornTails = FALSE, AuditInvariance, PTL

\* No interleaving makes an answer a lie, not even one given before the
\* request was carried out.
THEOREM AnswersAreHonest ==
  ASSUME TornTails = FALSE
  PROVE  Spec => []AnswersHonest
<1>1. AuditInv => AnswersHonest
  BY DEF AuditInv, AuditOp, AnsweredLast, AnswersHonest
<1> QED BY <1>1, TornTails = FALSE, AuditInvariance, PTL

\* Where every line is written whole, an effect is always preceded by a durable
\* record of the intent.
THEOREM IntentComesFirst ==
  ASSUME TornTails = FALSE
  PROVE  Spec => []IntentBeforeEffect
<1>1. AuditInv => IntentBeforeEffect
  BY DEF AuditInv, AuditOp, Noted, IntentBeforeEffect
<1> QED BY <1>1, TornTails = FALSE, AuditInvariance, PTL

-----------------------------------------------------------------------------
(* The contract                                                            *)

\* What one operation's step is in Dispatch.
LEMMA MoveImplements ==
  ASSUME AuditInv, OpTypeOK', WholeLines', NEW o \in Ops, Move(o),
         \A q \in Ops : q # o => Same(q) /\ reply'[q] = reply[q]
  PROVE  [Contract!DispatchNext]_Contract!dispatchVars
<1> USE DEF AuditInv
<1> DEFINE log == {q \in Ops : <<q, "intent">> \in durable}
           stage == [q \in Ops |-> Stage(q)]
<1> USE DEF Contract!DispatchNext, Contract!dispatchVars
<1>typed. /\ OpTypeOK /\ OpTypeOK'
          /\ request \in [Ops -> {"none", "travelling", "applied"}]
          /\ request' \in [Ops -> {"none", "travelling", "applied"}]
          /\ DOMAIN reply = Ops /\ DOMAIN reply' = Ops
          /\ reply = [q \in Ops |-> reply[q]]
          /\ reply' = [q \in Ops |-> reply'[q]]
  BY DEF CallInv, OpTypeOK
<1>others. \A q \in Ops : q # o => Stage(q)' = Stage(q)
  BY DEF Same, Stage
<1>stage. ASSUME NEW s, Stage(o)' = s
          PROVE  stage' = [stage EXCEPT ![o] = s]
  BY <1>others, <1>stage
<1>request. ASSUME NEW r, request'[o] = r
            PROVE  request' = [request EXCEPT ![o] = r]
  BY <1>typed, <1>request DEF Same
<1>reply. ASSUME NEW r, reply'[o] = r
          PROVE  reply' = [reply EXCEPT ![o] = r]
  BY <1>typed, <1>reply
<1>still. ASSUME request'[o] = request[o], reply'[o] = reply[o], Stage(o)' = Stage(o)
          PROVE  UNCHANGED <<stage, request, reply>>
  <2>1. stage' = stage
    BY <1>others, <1>still
  <2>2. request' = request
    BY <1>typed, <1>still DEF Same
  <2>3. reply' = reply
    BY <1>typed, <1>still
  <2> QED BY <2>1, <2>2, <2>3
<1>log. ASSUME UNCHANGED journalVars
        PROVE  log' = log
  BY <1>log DEF journalVars
<1>1. ASSUME UNCHANGED journalVars, NEW answer, Fits(o, answer), Ending(o, "done", answer)
      PROVE  Contract!DispatchNext
  <2>1. stage' = [stage EXCEPT ![o] = "closed"] /\ reply' = [reply EXCEPT ![o] = answer]
    BY <1>1, <1>stage, <1>reply DEF Ending, Stage
  <2>2. log' = log /\ request' = request
    BY <1>1, <1>log, <1>typed DEF Ending, Same
  <2>3. stage[o] = Stage(o)
    OBVIOUS
  <2>4. CASE answer \in {"not_dispatched", "dry_run"}
    <3>1. answer = "dry_run" => <<o, "intent">> \notin durable
      BY <1>1 DEF Fits, Ending, AuditOp, Noted, WholeLines, CallInv, OpInv, InOrder
    <3>2. Stage(o) = "open"
      BY <1>1, <2>4 DEF Fits
    <3>3. Contract!Decline(o)
      BY <2>1, <2>2, <2>3, <2>4, <3>1, <3>2 DEF Contract!Decline, Contract!Close
    <3> QED BY <3>3
  <2>5. CASE answer \in {"outcome_unknown", "accepted"}
    <3>1. Contract!GiveUp(o) \/ Contract!Accept(o)
      BY <1>1, <2>1, <2>2, <2>3, <2>5 DEF Fits, Contract!GiveUp, Contract!Accept,
         Contract!Close
    <3> QED BY <3>1
  <2> QED BY <1>1, <2>4, <2>5 DEF Fits
<1>2. CASE UNCHANGED journalVars /\ Ending(o, "dead", "none")
  <2>1. reply[o] = "none" /\ stage[o] # "closed"
    BY <1>2 DEF Ending, AuditOp, AnsweredLast, Stage
  <2>2. stage' = [q \in Ops |-> IF q \in {o} THEN "closed" ELSE stage[q]]
    BY <1>2, <1>others DEF Ending, Stage
  <2>3. log' = log /\ request' = request /\ reply' = reply
    BY <1>2, <1>log, <1>typed, <2>1 DEF Ending, Same
  <2>4. Contract!Die({o})
    BY <2>1, <2>2, <2>3 DEF Contract!Die
  <2> QED BY <2>4
<1>3. CASE UNCHANGED journalVars /\ (Walking(o) \/ Intended(o))
  BY <1>3, <1>still, <1>log DEF Walking, Intended
<1>4. CASE UNCHANGED journalVars /\ Sending(o)
  <2>1. stage[o] = "open" /\ stage' = [stage EXCEPT ![o] = "sent"]
    BY <1>4, <1>stage DEF Sending
  <2>2. request' = request \/ request' = [request EXCEPT ![o] = "travelling"]
    BY <1>4, <1>request, <1>typed DEF Sending, Same
  <2>3. log' = log /\ reply' = reply
    BY <1>4, <1>log, <1>typed DEF Sending
  <2>4. o \in log
    BY <1>4 DEF Sending, AuditOp, Noted
  <2>5. Contract!Send(o)
    BY <2>1, <2>2, <2>3, <2>4 DEF Contract!Send
  <2> QED BY <2>5
<1>5. CASE UNCHANGED journalVars /\ Applying(o)
  <2>1. request[o] = "travelling" /\ request' = [request EXCEPT ![o] = "applied"]
    BY <1>5, <1>request DEF Applying
  <2>2. log' = log /\ stage' = stage /\ reply' = reply
    BY <1>5, <1>log, <1>others, <1>typed DEF Applying
  <2>3. Contract!Deliver(o)
    BY <2>1, <2>2 DEF Contract!Deliver
  <2> QED BY <2>3
<1>6. CASE UNCHANGED journalVars /\ Same(o) /\ reply'[o] = reply[o]
  <2>1. Stage(o)' = Stage(o)
    BY <1>6 DEF Same, Stage
  <2> QED BY <1>6, <2>1, <1>still, <1>log DEF Same
<1>7. CASE Writes(o)
  <2>1. UNCHANGED <<stage, request, reply>>
    BY <1>7, <1>still DEF Writes
  <2>2. durable' = durable \/ durable' = lines
    BY <1>7 DEF Writes, Append, Sync
  <2>3. ASSUME NEW q \in log' \ log
        PROVE  q \in Ops /\ reply[q] # "dry_run"
    BY <2>2, <2>3 DEF AuditOp, AnsweredLast
  <2>4. log' = log \cup (log' \ log)
    BY <2>2 DEF WholeLines
  <2>5. \E new \in SUBSET Ops : new = log' \ log
    OBVIOUS
  <2>6. PICK new \in SUBSET Ops : new = log' \ log
    BY <2>5
  <2>7. Contract!Log(new)
    BY <2>1, <2>3, <2>4, <2>6 DEF Contract!Log
  <2> QED BY <2>7
<1> QED BY <1>1, <1>2, <1>3, <1>4, <1>5, <1>6, <1>7 DEF Move

\* Power loss kills many operations at once and forgets no durable intent.
LEMMA LosePowerImplements ==
  ASSUME AuditInv, LosePower
  PROVE  Contract!DispatchNext
<1> DEFINE gone == {q \in Ops : pc[q] \notin {"call"} \cup Ended}
<1>1. \A q \in gone : Stage(q) # "closed" /\ Stage(q)' = "closed"
  BY DEF LosePower, Stage
<1>2. \A q \in Ops \ gone : Stage(q)' = Stage(q)
  BY DEF LosePower, Stage
<1>3. UNCHANGED <<durable, request, reply>>
  BY DEF LosePower, LoseUnsynced
<1>4. Contract!Die(gone)
  BY <1>1, <1>2, <1>3 DEF Contract!Die
<1>5. gone \in SUBSET Ops
  OBVIOUS
<1> QED BY <1>4, <1>5 DEF Contract!DispatchNext

\* ControlRuntime implements the contract of Dispatch.
THEOREM Implementation ==
  ASSUME TornTails = FALSE
  PROVE  Spec => ImplementsContract
<1>1. Init => Contract!DispatchInit
  BY DEF Init, JournalInit, Contract!DispatchInit, Stage
<1>2. AuditInv /\ AuditInv' /\ [Next]_vars
        => [Contract!DispatchNext]_Contract!dispatchVars
  <2> SUFFICES ASSUME AuditInv, AuditInv', [Next]_vars
               PROVE  [Contract!DispatchNext]_Contract!dispatchVars
    OBVIOUS
  <2>typed. Typed /\ OpTypeOK /\ OpTypeOK' /\ WholeLines'
    BY DEF AuditInv, CallInv, OpTypeOK, Typed
  <2>1. ASSUME NEW o \in Ops, Call(o) \/ OpStep(o) \/ Apply(o) \/ Elapse(o) \/ Crash(o)
        PROVE  [Contract!DispatchNext]_Contract!dispatchVars
    <3>1. Move(o)
      BY <2>typed, <2>1, Classified DEF AuditInv, CallInv, OpInv
    <3>2. \A q \in Ops : q # o => Same(q) /\ reply'[q] = reply[q]
      BY <2>typed, <2>1, OpFrame
    <3> QED BY <2>typed, <3>1, <3>2, MoveImplements
  <2>2. CASE LosePower
    BY <2>2, LosePowerImplements
  <2>3. CASE UNCHANGED <<journalVars, opVars>>
    BY <2>3 DEF journalVars, opVars, Contract!dispatchVars, Stage
  <2> QED BY <2>1, <2>2, <2>3 DEF Next, Step, Admin, vars
<1> QED
  BY <1>1, <1>2, TornTails = FALSE, AuditInvariance, PTL
     DEF Spec, ImplementsContract, Contract!DispatchSpec

-----------------------------------------------------------------------------
(* The size of the journal                                                 *)

Appending == {o \in Ops : pc[o] = "append"}

\* One operation's step: it writes, it stays, or it has just passed the check.
LEMMA BoundedStep ==
  ASSUME IsFiniteSet(Ops), OpTypeOK, size \in Nat, JournalBounded, NEW o \in Ops,
         Call(o) \/ OpStep(o) \/ Apply(o) \/ Elapse(o) \/ Crash(o)
  PROVE  JournalBounded'
<1>finite. /\ IsFiniteSet(Appending) /\ IsFiniteSet(Appending')
           /\ Cardinality(Appending) \in Nat /\ Cardinality(Appending') \in Nat
           /\ Cardinality(Appending') <= Cardinality(Ops)
           /\ Cardinality(Ops) \in Nat /\ JournalLimit \in Nat
  <2>1. Appending \subseteq Ops /\ Appending' \subseteq Ops
    BY DEF Appending
  <2> QED BY <2>1, FS_Subset, FS_CardinalityType, JournalAssumption
<1>others. \A q \in Ops : q # o => pc'[q] = pc[q]
  BY OpFrame DEF Same, OpTypeOK, Typed
<1>1. CASE pc[o] = "append" /\ Append(<<o, note[o]>>)
  <2>1. pc'[o] = "sync" /\ size' = size + 1
    BY <1>1, pc[o] = "append" DEF OpStep, Call, ReadSettings, RecheckOrigin, ReadKeyring,
       ReadTrust, ReadCatalog, Prepare, CheckDeadline, OpenJournal, AppendRecord,
       SyncRecord, Recorded, Post, Answer, Observe, Apply, Elapse, Crash, Append,
       LeaveFiles, journalVars, Proceed, Goto, OpTypeOK
  <2>2. Appending' = Appending \ {o} /\ o \in Appending
    BY <1>1, <1>others, <2>1 DEF Appending
  <2>3. Cardinality(Appending') = Cardinality(Appending) - 1
    BY <1>finite, <2>2, FS_RemoveElement
  <2> QED BY <1>finite, <2>1, <2>3 DEF JournalBounded, Appending
<1>2. CASE size' = size /\ (pc'[o] = "append" => pc[o] = "append")
  <2>1. Appending' \subseteq Appending
    BY <1>2, <1>others DEF Appending
  <2>2. Cardinality(Appending') <= Cardinality(Appending)
    BY <1>finite, <2>1, FS_Subset
  <2> QED BY <1>2, <1>finite, <2>2 DEF JournalBounded, Appending
<1>3. CASE size' = size /\ JournalOpen
  BY <1>3, <1>finite DEF JournalBounded, JournalOpen, Appending
<1>4. CASE AppendRecord(o)
  <2>1. CASE UNCHANGED journalVars
    BY <1>2, <1>4, <2>1 DEF AppendRecord, journalVars
  <2> QED BY <1>1, <1>4, <2>1 DEF AppendRecord
<1>5. CASE OpenJournal(o)
  <2>1. CASE JournalOpen
    BY <1>3, <1>5, <2>1 DEF OpenJournal, LeaveFiles, journalVars
  <2>2. CASE ~JournalOpen
    <3>1. pc'[o] = "done" /\ size' = size
      BY <1>5, <2>2 DEF OpenJournal, JournalFails, Return, End, Goto, OpTypeOK,
         LeaveFiles, journalVars
    <3> QED BY <1>2, <3>1
  <2> QED BY <2>1, <2>2
<1>6. CASE ~AppendRecord(o) /\ ~OpenJournal(o)
  <2>1. size' = size
    BY <1>6 DEF OpStep, Call, ReadSettings, RecheckOrigin, ReadKeyring, ReadTrust,
       ReadCatalog, Prepare, CheckDeadline, SyncRecord, Recorded, Post, Answer,
       Observe, Apply, Elapse, Crash, Sync, LeaveFiles, journalVars
  <2>2. pc'[o] = "append" => pc[o] = "append"
    BY <1>6 DEF OpStep, Call, ReadSettings, RecheckOrigin, ReadKeyring, ReadTrust,
       ReadCatalog, Prepare, CheckDeadline, SyncRecord, Recorded, Post, Answer,
       Observe, Apply, Elapse, Crash, Proceed, Journal, Deny, Return, End,
       JournalFails, Goto, OpTypeOK
  <2> QED BY <1>2, <2>1, <2>2
<1> QED BY <1>4, <1>5, <1>6

\* The journal outgrows its limit by at most one record per operation: each
\* one that passed the size check before the others appended.
THEOREM JournalStaysBounded ==
  ASSUME IsFiniteSet(Ops)
  PROVE  Spec => []JournalBounded
<1> USE IsFiniteSet(Ops), JournalAssumption
<1>cards. Cardinality(Ops) \in Nat
  BY FS_CardinalityType
<1>1. Init => JournalBounded
  <2> SUFFICES ASSUME Init
               PROVE  JournalBounded
    OBVIOUS
  <2>1. Appending = {} /\ size = 0
    BY DEF Init, JournalInit, Appending
  <2> QED BY <1>cards, <2>1, FS_EmptySet DEF JournalBounded, Appending
<1>2. CallInv /\ JournalBounded /\ [Next]_vars => JournalBounded'
  <2> SUFFICES ASSUME CallInv, JournalBounded, [Next]_vars
               PROVE  JournalBounded'
    OBVIOUS
  <2>1. OpTypeOK /\ size \in Nat
    BY DEF CallInv, JournalTypeOK
  <2>2. ASSUME NEW o \in Ops, Call(o) \/ OpStep(o) \/ Apply(o) \/ Elapse(o) \/ Crash(o)
        PROVE  JournalBounded'
    BY <2>1, <2>2, BoundedStep
  <2>3. CASE LosePower
    <3>1. Appending' = {}
      BY <2>3 DEF LosePower, Appending
    <3>2. Appending \subseteq Ops
      BY DEF Appending
    <3>3. Cardinality(Appending) \in Nat /\ Cardinality(Appending') = 0
      BY <3>1, <3>2, FS_Subset, FS_CardinalityType, FS_EmptySet
    <3>4. size' \in Nat /\ size' <= size
      BY <2>1, <2>3 DEF LosePower, LoseUnsynced
    <3> QED BY <1>cards, <2>1, <3>3, <3>4 DEF JournalBounded, Appending
  <2>4. CASE UNCHANGED <<journalVars, opVars>>
    BY <2>4 DEF journalVars, opVars, JournalBounded
  <2> QED BY <2>2, <2>3, <2>4 DEF Next, Step, Admin, vars
<1> QED BY <1>1, <1>2, CallInvariance, PTL DEF Spec
=============================================================================
