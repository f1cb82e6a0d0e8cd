-------------------------- MODULE AnalysisRuntime ---------------------------
(***************************************************************************)
(* AnalysisRuntime of api.py: inspection of exact entities, the connection *)
(* check, discovery, the offline summary and the interpretation by a       *)
(* model, each from its request to the text it prints. The first three     *)
(* read a home that changes and can fail between any two requests.         *)
(*                                                                         *)
(* Origin and credential come from a caller or from StoredCredentials,     *)
(* whose reads LocalState.tla and ControlRuntime.tla model: here they are  *)
(* there or not.                                                           *)
(***************************************************************************)
EXTENDS HomeStates, Redaction, TLC

CONSTANTS
  Shade, Code,  \* keys of two attributes, of which Code is a sensitive one
  Invalid,      \* a target that is no entity id
  Documents,    \* the evidence, and the answers of a model, that can be given
  Limit         \* how many discovered entities are returned

ASSUME AnalysisAssumption ==
  /\ Invalid \notin Entities
  /\ Limit \in Nat \ {0}
  /\ {Shade, Code} \subseteq Keys
  /\ Sensitive(Code, {}) /\ ~Sensitive(Shade, {})
  /\ \A doc \in Documents : IsDocument(doc)

\* The keys of an entity, and of what a shape says of an object or of an array.
EntityIdKey   == Key({"entity", "id", "entityid"})
StateKey      == Key({"state"})
AttributesKey == Key({"attributes"})
TypeKey       == Key({"type"})
KeyCount      == Key({"key", "count", "keycount"})
ItemCount     == Key({"item", "count", "itemcount"})

\* Their words are strings, which the provers cannot tell and TLC can.
ASSUME KeysAssumption ==
  {EntityIdKey, StateKey, AttributesKey, TypeKey, KeyCount, ItemCount} \subseteq Keys

Operations == {"inspect", "check", "find", "offline", "interpret"}
Live       == {"inspect", "check", "find"}

\* What can be asked for: op says by which operation; `strays' whether targets
\* were given that are no strings, which are reported and then left out; `sound'
\* whether all but the targets and the evidence is, and `model' whether there
\* is one.
Requests ==
  [op : Operations, targets : Seq(Entities \cup {Invalid}), fields : Seq({Shade, Code}),
   strays : BOOLEAN, evidence : Seq(Documents), extra : SUBSET STRING,
   answers : SUBSET Documents, sound : BOOLEAN, model : BOOLEAN]

Resolutions == {"invalid", "not_inspected", "resolved", "absent", "unavailable"}

VARIABLES
  stage,        \* what the operation does next
  request,      \* what was asked for
  resolutions,  \* per target, what became of it
  entities,     \* the entities that were read, in order
  spoken,       \* what the model was given
  output,       \* the result, and what was taken out of it
  redaction,    \* "not_applicable", "complete" or "withheld"
  removed,
  problems,     \* the failures reported
  printed,      \* the result as serialize_result has written it
  asked,        \* history: the targets that were asked for, as positions
  redirected,   \* history: the one whose answer led elsewhere, or 0
  seen,         \* history: the looks of an entity while entities were read
  raw           \* history: the result before anything was taken out

analysisVars == <<stage, request, resolutions, entities, spoken, output, redaction,
                  removed, problems, printed>>
analysisHistory == <<asked, redirected, seen, raw>>

Nothing == Leaf("null")

\* _empty_output
Empty == CASE request.op \in {"inspect", "find"} -> List(<<>>)
           [] request.op = "check" -> Leaf("not_verified")
           [] OTHER -> Nothing

AnalysisTypeOK ==
  /\ stage \in {"rest", "begin", "credential", "read", "check", "discover", "redact",
                "model", "print", "done"}
  /\ request \in Requests
  /\ resolutions \in [DOMAIN request.targets -> Resolutions]
  /\ Len(entities) <= Len(request.targets)
  /\ redaction \in {"not_applicable", "complete", "withheld"}
  /\ removed \in Nat
  /\ Range(asked) \subseteq DOMAIN request.targets /\ redirected \in {0} \cup Range(asked)
  /\ seen \in [Entities -> SUBSET (Looks \cup {Absent})]

AnalysisInit(start, asking) ==
  /\ stage = start
  /\ request = asking
  /\ resolutions = [i \in DOMAIN asking.targets |->
                      IF asking.targets[i] = Invalid THEN "invalid" ELSE "not_inspected"]
  /\ entities = <<>> /\ spoken = Nothing /\ output = Nothing /\ printed = Nothing
  /\ redaction = "not_applicable" /\ removed = 0
  /\ problems = {why \in {"target"} : asking.op = "inspect" /\
                    (\/ asking.strays
                     \/ asking.targets = <<>> \/ Invalid \in Range(asking.targets))}
  /\ asked = <<>> /\ redirected = 0 /\ raw = Nothing
  /\ seen = [e \in Entities |-> {}]

Working == stage \notin {"rest", "done"}

Valid == {i \in DOMAIN request.targets : request.targets[i] # Invalid}

-----------------------------------------------------------------------------
(* Moves of the operation.                                                 *)

Enter(next) ==
  /\ stage' = next
  /\ UNCHANGED <<request, resolutions, entities, spoken, output, redaction, removed,
                 problems, printed>>

\* The result is complete; `why' is the failure that it reports, if any.
Finish(result, status, count, why) ==
  /\ stage' = "print"
  /\ output' = result
  /\ redaction' = status
  /\ removed' = count
  /\ problems' = problems \cup why
  /\ UNCHANGED <<request, resolutions, entities, spoken, printed>>

GiveUp(why) == Finish(Empty, "not_applicable", removed, {why})

-----------------------------------------------------------------------------
(* The request, and the credential.                                        *)

\* Evidence that cannot be copied, none at all, or a request not understood.
OfflineSound ==
  /\ request.sound
  /\ request.evidence # <<>>
  /\ \A i \in DOMAIN request.evidence : IsJson(request.evidence[i])

Start ==
  /\ stage = "begin"
  /\ \/ request.op \in Live /\ GiveUp("origin")
     \/ request.op \in {"check", "find"} /\ Enter("credential")
     \/ request.op = "inspect" /\ (~request.sound \/ Valid = {}) /\ GiveUp("targets")
     \/ request.op = "inspect" /\ request.sound /\ Valid # {} /\ Enter("credential")
     \/ request.op \notin Live /\ ~OfflineSound /\ GiveUp("evidence")
     \/ request.op \notin Live /\ OfflineSound /\ Enter("redact")

\* A discovery that is not valid still reads the credential first.
Credential ==
  /\ stage = "credential"
  /\ \/ GiveUp("credential")
     \/ request.op = "inspect" /\ Enter("read")
     \/ request.op = "check" /\ Enter("check")
     \/ request.op = "find" /\ request.sound /\ Enter("discover")
     \/ request.op = "find" /\ ~request.sound /\ GiveUp("discovery")

-----------------------------------------------------------------------------
(* inspect_live_entities, one request per target.                          *)

\* The selected attributes that the entity has.
SelectedAttributes(look, fields) ==
  [k \in {k \in Range(fields) : k = Code \/ look.shade # "missing"} |->
     IF k = Code THEN Leaf("code") ELSE Leaf(look.shade)]

MinimumEntity(e, look, fields) ==
  Dict([k \in {EntityIdKey, StateKey} \cup {a \in {AttributesKey} : fields # <<>>} |->
          CASE k = EntityIdKey -> Leaf(e)
            [] k = StateKey -> Leaf(look.state)
            [] OTHER -> Dict(SelectedAttributes(look, fields))])

Unread == {i \in Valid : resolutions[i] = "not_inspected"}

\* The position that is answered, and what the answer makes of it.
Answered(i, what, why, on) ==
  /\ resolutions' = [resolutions EXCEPT ![i] = what]
  /\ problems' = problems \cup why
  /\ stage' = IF on /\ Unread # {i} THEN "read" ELSE "redact"
  /\ UNCHANGED <<request, spoken, output, redaction, removed, printed>>

\* Found, absent (404), refused (401, 403) and failed targets are noted and the
\* next one is asked for; `on' says whether this is done after a redirect too.
ReadNext(on) ==
  /\ stage = "read"
  /\ \E i \in Unread : LET t == request.targets[i] IN
        /\ \A j \in Unread : i <= j
        /\ \/ /\ answering /\ home[t] # Absent
              /\ entities' = Append(entities, MinimumEntity(t, home[t], request.fields))
              /\ Answered(i, "resolved", {}, TRUE)
              /\ UNCHANGED redirected
           \/ /\ answering /\ home[t] = Absent
              /\ Answered(i, "absent", {"absent"}, TRUE)
              /\ UNCHANGED <<entities, redirected>>
           \/ /\ \E why \in {"authorization", "read"} : Answered(i, "unavailable", {why}, TRUE)
              /\ UNCHANGED <<entities, redirected>>
           \/ /\ Answered(i, "unavailable", {"origin_change"}, on)
              /\ redirected' = i
              /\ UNCHANGED entities
        /\ asked' = Append(asked, i)

\* Mutant: the next target is asked for although the last one led elsewhere.
ReadPastRedirect == ReadNext(TRUE)

\* Mutant: an answer is awaited for as long as it takes.
ReadUnbounded == answering /\ ReadNext(FALSE)

\* A redirect ends the inspection.
ReadEntity == ReadNext(FALSE)

\* redact can fail although every entity was read: they lie deeper here.
RedactEntities ==
  /\ stage = "redact" /\ request.op = "inspect"
  /\ raw' = List(entities)
  /\ \/ LET r == Redact(List(entities), {}) IN Finish(r.tree, "complete", r.count, {})
     \/ Finish(Empty, "withheld", 0, {"redaction"})

-----------------------------------------------------------------------------
(* check_connection and find_entities, one request each.                   *)

CheckConnection ==
  /\ stage = "check"
  /\ \/ answering /\ Finish(Leaf("accepted"), "not_applicable", 0, {})
     \/ answering /\ Finish(Leaf("rejected"), "not_applicable", 0, {"authorization"})
     \/ \E why \in {"origin_change", "connection"} :
          Finish(Leaf("not_verified"), "not_applicable", 0, {why})

\* With the text asked for in name or id. Home Assistant lists for display
\* what is not disabled, and nothing else.
Matches(e) == registry[e].listed /\ ~registry[e].disabled /\ registry[e].tagged

\* Matches are sorted, and cut to the limit.
Discover ==
  /\ stage = "discover"
  /\ \/ /\ answering
        /\ \E matches \in Sorted({e \in Entities : Matches(e)}) :
             LET returned == IF Len(matches) <= Limit THEN matches ELSE SubSeq(matches, 1, Limit)
                 found == List([i \in DOMAIN returned |->
                                  Dict([k \in {EntityIdKey} |-> Leaf(returned[i])])])
                 r == Redact(found, {})
             IN /\ Finish(r.tree, "complete", r.count, {})
                /\ raw' = found
     \/ GiveUp("discovery") /\ UNCHANGED raw

-----------------------------------------------------------------------------
(* offline_analyze and interpret_evidence.                                 *)

\* Two kinds of scalars are as good as five.
Shape(doc) ==
  LET root == Root(doc)
      Described(type, counts) ==
        Dict([k \in {TypeKey} \cup counts |->
                IF k = TypeKey THEN Leaf(type) ELSE Leaf(ToString(Cardinality(Parts(doc, root))))])
  IN CASE root.kind = "dict" -> Described("object", {KeyCount})
       [] root.kind = "list" -> Described("array", {ItemCount})
       [] OTHER -> Described("string", {})

Summary == List([i \in DOMAIN request.evidence |-> Shape(request.evidence[i])])

RedactSummary ==
  /\ stage = "redact" /\ request.op = "offline"
  /\ raw' = Summary
  /\ \/ LET r == Redact(Summary, request.extra) IN Finish(r.tree, "complete", r.count, {})
     \/ Finish(Nothing, "withheld", 0, {"redaction"})

\* The evidence is redacted before it is known whether there is a model.
RedactEvidence ==
  /\ stage = "redact" /\ request.op = "interpret"
  /\ LET r == Redact(List(request.evidence), request.extra) IN
       \/ Finish(Nothing, "withheld", 0, {"redaction"})
       \/ ~request.model /\ Finish(Nothing, "complete", r.count, {"unconfigured"})
       \/ /\ request.model
          /\ stage' = "model" /\ spoken' = r.tree
          /\ redaction' = "complete" /\ removed' = r.count
          /\ UNCHANGED <<request, resolutions, entities, output, problems, printed>>
  /\ UNCHANGED raw

\* The model's answer is anything, what it was given included.
Interpret ==
  /\ stage = "model"
  /\ \/ Finish(Nothing, "complete", removed, {"model"}) /\ UNCHANGED raw
     \/ \E answer \in {spoken} \cup request.answers :
          /\ raw' = answer
          /\ \/ /\ IsJson(answer)
                /\ LET r == Redact(answer, request.extra)
                   IN Finish(r.tree, "complete", removed + r.count, {})
             \/ Finish(Nothing, "withheld", removed, {"redaction"})

-----------------------------------------------------------------------------
\* serialize_result redacts once more; if that fails, the output is withheld.
Serialize ==
  /\ stage = "print"
  /\ stage' = "done"
  /\ \/ /\ printed' = Redact(output, {}).tree
        /\ UNCHANGED <<redaction, removed, problems>>
     \/ /\ printed' = Empty
        /\ redaction' = "withheld" /\ removed' = 0
        /\ problems' = problems \cup {"redaction"}
  /\ UNCHANGED <<request, resolutions, entities, spoken, output>>

AnalysisStep ==
  /\ \/ (Start \/ Credential \/ CheckConnection \/ Serialize) /\ UNCHANGED <<asked, redirected, raw>>
     \/ ReadEntity /\ UNCHANGED raw
     \/ (RedactEntities \/ Discover \/ RedactSummary \/ RedactEvidence \/ Interpret)
          /\ UNCHANGED <<asked, redirected>>
  /\ UNCHANGED homeVars

AnalysisWitness ==
  seen' = IF stage' = "read" THEN [e \in Entities |-> seen[e] \cup {home'[e]}] ELSE seen

AnalysisStart ==
  /\ HomeTypeOK
  /\ \E asking \in Requests, start \in {"rest", "begin"} : AnalysisInit(start, asking)

AnalysisNext ==
  /\ AnalysisStep \/ (HomeStep /\ UNCHANGED <<analysisVars, asked, redirected, raw>>)
  /\ AnalysisWitness

\* One analysis, in any home.
AnalysisSpec == AnalysisStart /\ [][AnalysisNext]_<<homeVars, analysisVars, analysisHistory>>

-----------------------------------------------------------------------------
Successes == {i \in DOMAIN request.targets : resolutions[i] = "resolved"}

\* The numbers of S, from the least to the greatest.
Ascending(S) ==
  {f \in [1..Cardinality(S) -> S] : \A j, k \in DOMAIN f : j < k => f[j] < f[k]}

\* The caller can tell what was asked and what came of it: every target that
\* is given as resolved stands for one entity of the result, in order, as it
\* was at an instant of the inspection; absent is what was absent then; a
\* target is "not_inspected" if and only if no token was sent for it, and none
\* is sent after an answer that led to another origin. This holds for targets
\* that fail one by one, that are asked for twice, and that change meanwhile.
InspectionFaithful ==
  request.op = "inspect" /\ stage = "print" =>
    /\ redaction = "complete" =>
         \E found \in Ascending(Successes) : \E looks \in [DOMAIN found -> Looks] :
           LET Target(k) == request.targets[found[k]]
           IN /\ \A k \in DOMAIN found : looks[k] \in seen[Target(k)]
              /\ output = Redact(List([k \in DOMAIN found |->
                                         MinimumEntity(Target(k), looks[k], request.fields)]), {}).tree
    /\ \A i \in DOMAIN resolutions :
         /\ resolutions[i] = "absent" => Absent \in seen[request.targets[i]]
         /\ i \in Valid => (resolutions[i] = "not_inspected") = (i \notin Range(asked))
         /\ redirected > 0 /\ i \in Range(asked) => i <= redirected
    /\ problems = {} => Successes = DOMAIN request.targets /\ ~request.strays

Extra == IF request.op \in Live THEN {} ELSE request.extra

\* What lies under a sensitive key reaches neither a model nor the output, and
\* everything else does: the walk of redaction.py takes out exactly what a
\* definition by paths calls secret, and counts it, whether it stands in the
\* evidence, in an entity, or in what a model says. If it cannot be told, the
\* result is withheld, the model's answer included; if not, the text is the
\* result, from which a second redaction takes nothing more.
SecretsKept ==
  /\ spoken # Nothing => Redacts(List(request.evidence), spoken, Extra)
  /\ stage = "print" /\ redaction = "complete" =>
       /\ Redacts(raw, output, Extra)
       /\ removed = Cardinality(Secrets(raw, Extra))
                      + (IF request.op # "interpret" THEN 0
                         ELSE Cardinality(Secrets(List(request.evidence), Extra)))
  /\ stage = "print" /\ redaction = "withheld" => output = Empty
  /\ stage = "done" => /\ Clean(printed, Extra)
                       /\ printed = IF redaction = "withheld" THEN Empty ELSE output
=============================================================================
