------------------------- MODULE TargetedCall_proofs -------------------------
(***************************************************************************)
(* Proofs about a control call, for any number of entities and any home    *)
(* that changes at any instant: what it selects while registries are read  *)
(* one after the other, what it compares before its request, and what it   *)
(* concludes from the readback.                                            *)
(***************************************************************************)
EXTENDS TargetedCall, SequenceTheorems, FiniteSetTheorems, TLAPS

LEMMA AskedTypes ==
  ASSUME NEW asked \in Asks
  PROVE  /\ asked.job \in Jobs /\ asked.service \in Services /\ asked.by \in Selectors
         /\ asked.list \in Seq(Entities) /\ Len(asked.list) <= MaxTargets + 1
         /\ asked.expects \in {"on", "any"} /\ asked.data \subseteq {"shade", "opaque", "secret"}
         /\ asked.dry \in BOOLEAN
<1>1. asked.list \in BoundedSeq(Entities, MaxTargets + 1)
  BY DEF Asks
<1>2. PICK m \in 0..(MaxTargets + 1) : asked.list \in [1..m -> Entities]
  BY <1>1 DEF BoundedSeq, SeqOf
<1>3. m \in Nat /\ MaxTargets \in Nat
  BY CallAssumption
<1>4. asked.list \in Seq(Entities) /\ Len(asked.list) = m
  BY <1>2, <1>3
<1> QED BY <1>3, <1>4 DEF Asks

\* What is listed is there, and nothing else is; what is sorted is there once.
LEMMA ListedIsSet ==
  ASSUME NEW S \in SUBSET Entities, NEW f \in Listed(S)
  PROVE  /\ f \in Seq(Entities) /\ Len(f) = Cardinality(S) /\ Range(f) = S
         /\ IsFiniteSet(S) /\ Cardinality(S) \in Nat
<1>1. IsFiniteSet(S) /\ Cardinality(S) \in Nat
  BY HomeAssumption, FS_Subset, FS_CardinalityType
<1>2. f \in [1..Cardinality(S) -> S] /\ {f[i] : i \in DOMAIN f} = S
  BY DEF Listed
<1>3. f \in Seq(Entities) /\ Len(f) = Cardinality(S)
  BY <1>1, <1>2
<1>4. Range(f) = S
  BY <1>2 DEF Range
<1> QED BY <1>1, <1>3, <1>4

LEMMA SortedIsSet ==
  ASSUME NEW S \in SUBSET Entities, NEW f \in Sorted(S)
  PROVE  /\ f \in Seq(Entities) /\ Len(f) = Cardinality(S) /\ Range(f) = S
         /\ IsInjective(f) /\ IsFiniteSet(S) /\ Cardinality(S) \in Nat
<1>1. /\ f \in Seq(Entities) /\ Len(f) = Cardinality(S) /\ Range(f) = S
      /\ IsFiniteSet(S) /\ Cardinality(S) \in Nat
  BY ListedIsSet DEF Sorted
<1>2. f \in [1..Cardinality(S) -> S] /\ \A i, j \in DOMAIN f : i < j => Rank[f[i]] < Rank[f[j]]
  BY DEF Sorted, Listed
<1>3. \A i, j \in DOMAIN f : f[i] = f[j] => i = j
  <2> SUFFICES ASSUME NEW i \in DOMAIN f, NEW j \in DOMAIN f, f[i] = f[j], i # j
               PROVE  FALSE
    OBVIOUS
  <2>1. i \in Int /\ j \in Int /\ Rank[f[i]] \in Nat
    BY <1>1, <1>2, HomeAssumption
  <2> QED BY <1>2, <2>1
<1> QED BY <1>1, <1>3 DEF IsInjective

LEMMA FewOfFound ==
  ASSUME NEW found \in Seq(Entities)
  PROVE  /\ FirstFew(found) \in Seq(Entities) /\ Len(FirstFew(found)) <= MaxTargets
         /\ Range(FirstFew(found)) \subseteq Range(found)
<1> DEFINE n == IF Len(found) < MaxTargets THEN Len(found) ELSE MaxTargets
<1>1. n \in 0..Len(found) /\ n <= MaxTargets /\ Len(found) \in Nat
  BY CallAssumption, LenProperties
<1>2. FirstFew(found) = SubSeq(found, 1, n)
  BY DEF FirstFew
<1> HIDE DEF n
<1>3. /\ SubSeq(found, 1, n) \in Seq(Entities) /\ Len(SubSeq(found, 1, n)) = n
      /\ \A i \in 1..n : SubSeq(found, 1, n)[i] = found[i]
  <2>1. \A i \in 1..n : found[i] \in Entities
    BY <1>1, ElementOfSeq
  <2>2. /\ SubSeq(found, 1, n) \in Seq(Entities)
        /\ Len(SubSeq(found, 1, n)) = IF 1 <= n THEN n - 1 + 1 ELSE 0
        /\ \A i \in 1..(n - 1 + 1) : SubSeq(found, 1, n)[i] = found[1 + i - 1]
    BY <1>1, <2>1, SubSeqProperties
  <2> QED BY <1>1, <2>2
<1>4. Range(SubSeq(found, 1, n)) \subseteq Range(found)
  BY <1>1, <1>3, LenProperties DEF Range
<1> QED BY <1>1, <1>2, <1>3, <1>4

-----------------------------------------------------------------------------
(* What _resolve and _resolve_for_service decide.                          *)

\* Targets that are accepted are neither none nor too many, and a list names
\* none of them twice.
LEMMA RefusalMeans ==
  ASSUME NEW found \in Seq(Entities)
  PROVE  /\ Refusal(found) \in {"invalid", "ambiguous", "empty", "many", "none"}
         /\ Refusal(found) = "none" => /\ Len(found) \in 1..MaxTargets
                                       /\ ask.by = "list" => IsInjective(found)
         /\ Refusal(found) = "ambiguous" => Len(found) > 1 /\ ask.by = "name"
         /\ Refusal(found) = "empty" => Len(found) = 0
<1>1. Len(found) \in Nat /\ MaxTargets \in Nat
  BY CallAssumption, LenProperties
<1> DEFINE n == Len(found)
<1>2. n \in Nat /\ n = Len(found)
  BY <1>1
<1> HIDE DEF n
<1>3. CASE ask.by = "list" /\ ~(n \in 1..MaxTargets /\ IsInjective(found))
  <2>1. Refusal(found) = "invalid" \/ Refusal(found) \in {"empty", "many"}
    BY <1>2, <1>3 DEF Refusal
  <2>2. Refusal(found) = "empty" => n = 0
    BY <1>1, <1>2, <1>3 DEF Refusal
  <2> QED BY <1>2, <2>1, <2>2
<1>4. CASE ~(ask.by = "list" /\ ~(n \in 1..MaxTargets /\ IsInjective(found)))
  <2>1. CASE ask.by = "name" /\ n > 1
    BY <1>1, <1>2, <1>4, <2>1 DEF Refusal
  <2>2. CASE ~(ask.by = "name" /\ n > 1)
    BY <1>1, <1>2, <1>4, <2>2 DEF Refusal
  <2> QED BY <2>1, <2>2
<1> QED BY <1>3, <1>4

LEMMA UnsuitedMeans ==
  ASSUME NEW suited \in Seq(Entities)
  PROVE  /\ Unsuited(suited) \in {"conflict", "empty", "incompatible", "none"}
         /\ Unsuited(suited) = "none" /\ suited = <<>> => ask.service = "homeassistant"
         /\ Unsuited(suited) = "empty" => suited = <<>>
<1>1. CASE Direct
  <2>1. <<Script>> # <<>>
    OBVIOUS
  <2> QED BY <1>1, <2>1 DEF Unsuited, Direct
<1>2. CASE ~Direct
  BY <1>2 DEF Unsuited
<1> QED BY <1>1, <1>2

\* What becomes of what was found.
Chosen(suited) ==
  /\ step' = "preflight" /\ ask.job = "invoke" /\ targets' = suited
  /\ UNCHANGED <<ask, entries, devices, candidates, grouped, observations, outcome, failure>>

Resolved(found) ==
  /\ step' = "done" /\ outcome' = "ok" /\ ask.job = "resolve" /\ targets' = found
  /\ UNCHANGED <<ask, entries, devices, candidates, grouped, observations, failure>>

LooksAgain ==
  /\ step' = "again" /\ failure' = "ambiguous" /\ ask.job = "resolve"
  /\ UNCHANGED <<ask, entries, devices, targets, candidates, grouped, observations, outcome>>

Refuses(why) ==
  /\ step' = "done" /\ failure' = why
  /\ outcome' = IF ask.job = "invoke" THEN "not_dispatched" ELSE "failed"
  /\ UNCHANGED <<ask, entries, devices, targets, candidates, grouped, observations>>

LEMMA SettleCases ==
  ASSUME NEW found \in Seq(Entities), NEW suited \in Seq(Entities), Settle(found, suited)
  PROVE  \/ Chosen(suited) /\ Refusal(found) = "none" /\ Unsuited(suited) = "none"
         \/ Resolved(found) /\ Refusal(found) = "none"
         \/ LooksAgain /\ Refusal(found) = "ambiguous"
         \/ \E why \in Failures \ {"none"} :
              /\ Refuses(why)
              /\ why = "ambiguous" => Len(found) > 1
              /\ why = "empty" => Len(found) = 0 \/ (ask.job = "invoke" /\ suited = <<>>)
<1> DEFINE why == IF Refusal(found) = "none" /\ ask.job = "invoke"
                    THEN Unsuited(suited) ELSE Refusal(found)
<1>1. /\ why \in Failures
      /\ why = "ambiguous" => Refusal(found) = "ambiguous" /\ Len(found) > 1
      /\ why = "empty" => Len(found) = 0 \/ (ask.job = "invoke" /\ suited = <<>>)
      /\ why = "none" => /\ Refusal(found) = "none"
                         /\ ask.job = "invoke" => Unsuited(suited) = "none"
  BY RefusalMeans, UnsuitedMeans DEF Failures
<1>2. \/ why = "none" /\ Chosen(suited)
      \/ why = "none" /\ Resolved(found)
      \/ why = "ambiguous" /\ LooksAgain
      \/ why # "none" /\ Refuses(why)
  BY DEF Settle, Refuse, Answer, Chosen, Resolved, LooksAgain, Refuses
<1> HIDE DEF why
<1> QED BY <1>1, <1>2 DEF Chosen

-----------------------------------------------------------------------------
(* Types, and what each step of the call comes after.                      *)

CallSteps == {"rest", "begin", "catalog", "resolve", "devices", "areas", "again",
          "preflight", "send", "observe", "effect", "done"}

Outcomes == {"none", "ok", "failed", "dry_run", "not_dispatched",
             "outcome_unknown", "observed", "unverified", "partial"}

StateTypes ==
  /\ step \in CallSteps
  /\ ask \in Asks
  /\ entries \in [Entities -> Projections]
  /\ devices \in Areas
  /\ targets \in Seq(Entities) /\ Len(targets) <= MaxTargets
  /\ candidates \subseteq Entities
  /\ \A g \in DOMAIN grouped : g \in Entities /\ grouped[g] \subseteq Entities
  /\ observations \in Seq(Statuses) /\ Len(observations) <= Len(targets)
  /\ outcome \in Outcomes
  /\ failure \in Failures
  /\ step = "done" <=> outcome # "none"

WitnessTypes ==
  /\ ever \subseteq Entities /\ always \subseteq ever
  /\ moved \in Nat /\ moved <= changes
  /\ regrouped \in BOOLEAN
  /\ shown \in [Entities -> SUBSET (Looks \cup {Absent})]

Early == {"rest", "begin", "catalog", "resolve", "devices", "areas", "again"}

PhaseInv ==
  /\ step \in Early =>
       targets = <<>> /\ observations = <<>> /\ candidates = {} /\ DOMAIN grouped = {}
  /\ step \in {"preflight", "send"} =>
       observations = <<>> /\ ask.job = "invoke" /\ targets # <<>> /\ IsInjective(targets)
  /\ step = "observe" =>
       ask.job = "invoke" /\ ~Direct /\ Len(observations) < Len(targets)
  /\ step = "effect" =>
       ask.job = "invoke" /\ targets # <<>> /\ (Direct \/ Len(observations) = Len(targets))
  /\ step # "done" => failure \in {"none", "ambiguous"}
  /\ step # "done" /\ failure = "ambiguous" => step \in {"again", "devices", "areas"}

OrderInv == HomeTypeOK /\ StateTypes /\ PhaseInv

\* What is read of a registry.
LEMMA ProjectedTypes ==
  ASSUME HomeTypeOK
  PROVE  Projected \in [Entities -> Projections]
<1>1. ASSUME NEW e \in Entities
      PROVE  Projection(registry[e]) \in Projections
  <2>1. registry[e] \in Entries
    BY DEF HomeTypeOK
  <2> QED BY <2>1 DEF Entries, Projection, Projections
<1> QED BY <1>1 DEF Projected

\* The home stays one.
LEMMA HomeStays ==
  ASSUME HomeTypeOK, HomeStep
  PROVE  /\ HomeTypeOK' /\ changes' = changes + 1
         /\ \/ RegistryChange /\ UNCHANGED <<home, members>>
            \/ UNCHANGED <<registry, deviceArea, areaNamed>>
<1>1. changes' = changes + 1 /\ changes' \in 0..MaxChanges
  BY HomeAssumption
  DEF HomeStep, RegistryChange, ChangeEntry, MoveDevice, RenameArea, ChangeState, Regroup,
      FallSilent, Counted, HomeTypeOK
<1>2. CASE ChangeEntry
  <2>1. registry' \in [Entities -> Entries]
    <3>1. PICK e \in Entities :
            \/ \E area \in Areas : registry' = [registry EXCEPT ![e].area = area]
            \/ registry' = [registry EXCEPT ![e].tagged = ~@]
            \/ registry' = [registry EXCEPT ![e].listed = ~@]
            \/ registry' = [registry EXCEPT ![e].disabled = ~@]
      BY <1>2 DEF ChangeEntry
    <3>2. registry \in [Entities -> Entries] /\ registry[e] \in Entries
      BY DEF HomeTypeOK
    <3>3. PICK entry \in Entries : registry' = [registry EXCEPT ![e] = entry]
      BY <3>1, <3>2 DEF Entries
    <3> QED BY <3>2, <3>3
  <2> QED BY <1>1, <1>2, <2>1 DEF ChangeEntry, RegistryChange, HomeTypeOK
<1>3. CASE MoveDevice
  BY <1>1, <1>3 DEF MoveDevice, RegistryChange, HomeTypeOK
<1>4. CASE RenameArea
  BY <1>1, <1>4 DEF RenameArea, RegistryChange, HomeTypeOK
<1>5. CASE ChangeState
  BY <1>1, <1>5 DEF ChangeState, HomeTypeOK
<1>6. CASE Regroup
  <2>1. members' \in [Groups -> SUBSET Entities]
    BY <1>6 DEF Regroup, HomeTypeOK
  <2> QED BY <1>1, <1>6, <2>1 DEF Regroup, HomeTypeOK
<1>7. CASE FallSilent
  BY <1>1, <1>7 DEF FallSilent, HomeTypeOK
<1> QED BY <1>2, <1>3, <1>4, <1>5, <1>6, <1>7 DEF HomeStep, RegistryChange

\* The service does to its targets what it may.
LEMMA SendStays ==
  ASSUME HomeTypeOK, Send
  PROVE  HomeTypeOK' /\ UNCHANGED <<registry, deviceArea, areaNamed, members, changes>>
BY DEF Send, HomeTypeOK, homeVars

\* The answers that end a call.
LEMMA AnswerOrders ==
  ASSUME OrderInv, NEW what \in Outcomes \ {"none"}, NEW why \in Failures, Answer(what, why)
  PROVE  StateTypes' /\ PhaseInv'
BY DEF OrderInv, Answer, StateTypes, PhaseInv, CallSteps, Early

LEMMA RefuseOrders ==
  ASSUME OrderInv, NEW why \in Failures, Refuse(why)
  PROVE  StateTypes' /\ PhaseInv'
<1> QED BY AnswerOrders DEF Refuse, Outcomes

LEMMA GotoOrders ==
  ASSUME OrderInv, NEW point \in {"catalog", "resolve"}, Goto(point), step \in {"begin", "catalog"}
  PROVE  StateTypes' /\ PhaseInv'
BY DEF OrderInv, Goto, StateTypes, PhaseInv, CallSteps, Early, Direct

-----------------------------------------------------------------------------
LEMMA ChosenOrders ==
  ASSUME OrderInv, step \in {"resolve", "areas"}, failure = "none",
         NEW suited \in Seq(Entities), Len(suited) \in 1..MaxTargets, IsInjective(suited),
         Chosen(suited)
  PROVE  StateTypes' /\ PhaseInv'
<1>1. suited # <<>>
  OBVIOUS
<1>2. StateTypes'
  BY CallAssumption DEF OrderInv, StateTypes, PhaseInv, Chosen, CallSteps, Early
<1>3. PhaseInv'
  BY <1>1 DEF OrderInv, PhaseInv, Chosen, CallSteps, Early
<1> QED BY <1>2, <1>3

LEMMA ResolvedOrders ==
  ASSUME OrderInv, step \in {"resolve", "areas"},
         NEW found \in Seq(Entities), Len(found) <= MaxTargets, Resolved(found)
  PROVE  StateTypes' /\ PhaseInv'
BY CallAssumption DEF OrderInv, StateTypes, PhaseInv, Resolved, CallSteps, Early, Outcomes

LEMMA RefusesOrders ==
  ASSUME OrderInv, NEW why \in Failures, Refuses(why)
  PROVE  StateTypes' /\ PhaseInv'
<1>1. Refuse(why)
  BY DEF Refuses, Refuse, Answer
<1> QED BY <1>1, RefuseOrders

LEMMA AgainOrders ==
  ASSUME OrderInv, step \in {"resolve", "areas"}, LooksAgain
  PROVE  StateTypes' /\ PhaseInv'
BY DEF OrderInv, StateTypes, PhaseInv, LooksAgain, CallSteps, Early, Failures

\* What _resolve accepts, and what is left of it for the service.
LEMMA SuitedOfFound ==
  ASSUME NEW found \in Sorted(Selected), NEW suited \in Sorted({e \in Selected : Suited(e)})
  PROVE  /\ found \in Seq(Entities) /\ suited \in Seq(Entities) /\ IsInjective(suited)
         /\ Range(found) = Selected /\ Range(suited) = {e \in Selected : Suited(e)}
         /\ Len(found) = Cardinality(Selected) /\ Len(suited) <= Len(found)
         /\ Len(found) \in Nat /\ IsFiniteSet(Selected)
         /\ Refusal(found) = "none" /\ Unsuited(suited) = "none" => Len(suited) \in 1..MaxTargets
<1> DEFINE S == Selected
           T == {e \in Selected : Suited(e)}
<1>1. S \subseteq Entities /\ T \subseteq S
  BY DEF Selected
<1>2. found \in Sorted(S) /\ suited \in Sorted(T)
  OBVIOUS
<1>3. ask.service = "homeassistant" => T = S
  BY DEF Suited
<1> HIDE DEF S, T
<1>4. /\ found \in Seq(Entities) /\ Len(found) = Cardinality(S) /\ Range(found) = S
      /\ IsFiniteSet(S) /\ Cardinality(S) \in Nat
  BY <1>1, <1>2, SortedIsSet
<1>5. /\ suited \in Seq(Entities) /\ Len(suited) = Cardinality(T) /\ Range(suited) = T
      /\ IsInjective(suited) /\ Cardinality(T) \in Nat
  BY <1>1, <1>2, SortedIsSet
<1>6. Cardinality(T) <= Cardinality(S)
  BY <1>1, <1>4, FS_Subset
<1>7. ASSUME Refusal(found) = "none", Unsuited(suited) = "none"
      PROVE  Len(suited) \in 1..MaxTargets
  <2>1. Len(found) \in 1..MaxTargets
    BY <1>4, <1>7, RefusalMeans
  <2>2. CASE suited = <<>>
    <3>1. T = S
      BY <1>3, <1>5, <1>7, <2>2, UnsuitedMeans
    <3> QED BY <1>4, <1>5, <2>1, <3>1
  <2>3. CASE suited # <<>>
    <3>1. Len(suited) # 0
      BY <1>5, <2>3, EmptySeq
    <3> QED BY <1>4, <1>5, <1>6, <2>1, <3>1, CallAssumption
  <2> QED BY <2>2, <2>3
<1> QED BY <1>4, <1>5, <1>6, <1>7 DEF S, T

LEMMA BeginOrders ==
  ASSUME OrderInv, Begin
  PROVE  StateTypes' /\ PhaseInv'
<1>1. step = "begin" /\ failure = "none"
  BY DEF Begin, OrderInv, PhaseInv, StateTypes, Failures
<1>2. \/ Refuse("unconfigured") \/ Refuse("inadmissible")
      \/ Goto("catalog") \/ Goto("resolve")
  BY DEF Begin
<1> QED BY <1>1, <1>2, RefuseOrders, GotoOrders DEF Failures

LEMMA CatalogOrders ==
  ASSUME OrderInv, ReadCatalog
  PROVE  StateTypes' /\ PhaseInv'
<1>1. step = "catalog"
  BY DEF ReadCatalog
<1>2. Refuse("service") \/ Answer("ok", "none") \/ Goto("resolve")
  BY DEF ReadCatalog
<1> QED BY <1>1, <1>2, RefuseOrders, AnswerOrders, GotoOrders DEF Failures, Outcomes

LEMMA ReadingOrders ==
  ASSUME OrderInv, ReadEntities \/ ReadDevices
  PROVE  StateTypes' /\ PhaseInv'
<1> DEFINE why == IF failure = "none" THEN "registry" ELSE failure
<1>1. why \in Failures
  BY DEF OrderInv, StateTypes, Failures
<1>2. CASE Refuse(why)
  <2> HIDE DEF why
  <2> QED BY <1>1, <1>2, RefuseOrders
<1>3. CASE ReadEntities /\ ~Refuse(why)
  <2>1. /\ step \in {"resolve", "again"} /\ entries' = Projected /\ step' = "devices"
        /\ UNCHANGED <<ask, devices, targets, candidates, grouped, observations,
                       outcome, failure>>
    BY <1>3 DEF ReadEntities
  <2>2. Projected \in [Entities -> Projections]
    BY ProjectedTypes DEF OrderInv
  <2> QED BY <2>1, <2>2 DEF OrderInv, StateTypes, PhaseInv, CallSteps, Early
<1>4. CASE ReadDevices /\ ~Refuse(why)
  <2>1. /\ step = "devices" /\ devices' = deviceArea /\ step' = "areas"
        /\ UNCHANGED <<ask, entries, targets, candidates, grouped, observations,
                       outcome, failure>>
    BY <1>4 DEF ReadDevices
  <2> QED BY <2>1 DEF OrderInv, HomeTypeOK, StateTypes, PhaseInv, CallSteps, Early
<1> QED BY <1>2, <1>3, <1>4

\* What the last lists lead to.
Found ==
  \E matches \in Listed(Selected) :
    /\ ask.job = "find"
    /\ targets' = FirstFew(matches) /\ step' = "done" /\ outcome' = "ok"
    /\ UNCHANGED <<ask, entries, devices, candidates, grouped, observations, failure>>

Named ==
  \E matches \in Listed(Selected) :
    /\ failure = "ambiguous"
    /\ candidates' = Range(FirstFew(matches)) /\ step' = "done" /\ outcome' = "failed"
    /\ UNCHANGED <<ask, entries, devices, targets, grouped, observations, failure>>

Settled ==
  \E found \in Sorted(Selected), suited \in Sorted({e \in Selected : Suited(e)}) :
    ask.job # "find" /\ failure = "none" /\ Settle(found, suited)

LEMMA AreasCases ==
  ASSUME ReadAreas
  PROVE  /\ step = "areas" /\ UNCHANGED homeVars
         /\ \/ Found \/ Named \/ Settled
            \/ Refuse(IF failure = "none" THEN "registry" ELSE failure)
<1> DEFINE why == IF failure = "none" THEN "registry" ELSE failure
<1>1. step = "areas" /\ UNCHANGED homeVars
  BY DEF ReadAreas
<1>2. CASE Refuse(why)
  BY <1>1, <1>2
<1>3. CASE ~Refuse(why)
  <2>1. PICK matches \in Listed(Selected), found \in Sorted(Selected),
             suited \in Sorted({e \in Selected : Suited(e)}) :
          \/ /\ ask.job = "find"
             /\ targets' = FirstFew(matches)
             /\ step' = "done" /\ outcome' = "ok"
             /\ UNCHANGED <<ask, entries, devices, candidates, grouped, observations, failure>>
          \/ /\ ask.job # "find" /\ failure = "none"
             /\ Settle(found, suited)
          \/ /\ failure = "ambiguous"
             /\ candidates' = Range(FirstFew(matches))
             /\ step' = "done" /\ outcome' = "failed"
             /\ UNCHANGED <<ask, entries, devices, targets, grouped, observations, failure>>
    BY <1>3, Zenon DEF ReadAreas
  <2> QED BY <1>1, <2>1, Zenon DEF Found, Named, Settled
<1> QED BY <1>2, <1>3

LEMMA AreasOrder ==
  ASSUME OrderInv, ReadAreas
  PROVE  StateTypes' /\ PhaseInv'
<1> DEFINE why == IF failure = "none" THEN "registry" ELSE failure
<1>1. why \in Failures /\ step = "areas"
  BY AreasCases DEF OrderInv, StateTypes, Failures
<1>2. CASE Refuse(why)
  <2> HIDE DEF why
  <2> QED BY <1>1, <1>2, RefuseOrders
<1>3. CASE Found
  <2>1. PICK matches \in Listed(Selected) :
          /\ targets' = FirstFew(matches) /\ step' = "done" /\ outcome' = "ok"
          /\ UNCHANGED <<ask, entries, devices, candidates, grouped, observations, failure>>
    BY <1>3 DEF Found
  <2>2. Selected \in SUBSET Entities
    BY DEF Selected
  <2>3. targets' \in Seq(Entities) /\ Len(targets') <= MaxTargets
    BY <2>1, <2>2, ListedIsSet, FewOfFound
  <2>4. Len(targets') \in Nat
    BY <2>3, LenProperties
  <2> QED BY <1>1, <2>1, <2>3, <2>4 DEF OrderInv, StateTypes, PhaseInv, Early, CallSteps, Outcomes
<1>4. CASE Named
  <2>1. PICK matches \in Listed(Selected) :
          /\ candidates' = Range(FirstFew(matches)) /\ step' = "done" /\ outcome' = "failed"
          /\ UNCHANGED <<ask, entries, devices, targets, grouped, observations, failure>>
    BY <1>4 DEF Named
  <2>2. Selected \in SUBSET Entities
    BY DEF Selected
  <2>3. candidates' \subseteq Entities
    <3>1. Range(matches) \subseteq Entities /\ matches \in Seq(Entities)
      BY <2>2, ListedIsSet
    <3> QED BY <2>1, <3>1, FewOfFound
  <2> QED BY <1>1, <2>1, <2>3 DEF OrderInv, StateTypes, PhaseInv, Early, CallSteps, Outcomes
<1>5. CASE Settled
  <2>1. PICK found \in Sorted(Selected), suited \in Sorted({e \in Selected : Suited(e)}) :
          failure = "none" /\ Settle(found, suited)
    BY <1>5 DEF Settled
  <2>2. /\ found \in Seq(Entities) /\ suited \in Seq(Entities) /\ IsInjective(suited)
        /\ Refusal(found) = "none" /\ Unsuited(suited) = "none" => Len(suited) \in 1..MaxTargets
    BY SuitedOfFound
  <2>3. Refusal(found) = "none" => Len(found) <= MaxTargets
    BY <2>2, RefusalMeans, CallAssumption
  <2>4. \/ Chosen(suited) /\ Refusal(found) = "none" /\ Unsuited(suited) = "none"
        \/ Resolved(found) /\ Refusal(found) = "none"
        \/ LooksAgain
        \/ \E w \in Failures : Refuses(w)
    BY <2>1, <2>2, SettleCases
  <2> QED BY <1>1, <2>1, <2>2, <2>3, <2>4, ChosenOrders, ResolvedOrders, AgainOrders,
             RefusesOrders
<1> QED BY <1>2, <1>3, <1>4, <1>5, AreasCases

LEMMA ListOrders ==
  ASSUME OrderInv, TakeList
  PROVE  StateTypes' /\ PhaseInv'
<1> DEFINE given == IF Direct /\ ask.list = <<>> THEN <<Script>> ELSE ask.list
<1>1. step = "resolve" /\ ask.by = "list" /\ Settle(given, given)
  BY DEF TakeList, ReadsRegistry
<1>2. given \in Seq(Entities)
  BY AskedTypes, CallAssumption DEF OrderInv, StateTypes
<1>3. failure = "none"
  BY <1>1 DEF OrderInv, PhaseInv
<1> HIDE DEF given
<1>4. Refusal(given) = "none" =>
        Len(given) \in 1..MaxTargets /\ Len(given) <= MaxTargets /\ IsInjective(given)
  BY <1>1, <1>2, RefusalMeans, CallAssumption
<1>5. \/ Chosen(given) /\ Refusal(given) = "none"
      \/ Resolved(given) /\ Refusal(given) = "none"
      \/ LooksAgain
      \/ \E w \in Failures : Refuses(w)
  BY <1>1, <1>2, SettleCases
<1> QED BY <1>1, <1>2, <1>3, <1>4, <1>5, ChosenOrders, ResolvedOrders, AgainOrders,
           RefusesOrders

\* The target that is looked at next is one.
LEMMA TargetAt ==
  ASSUME targets \in Seq(Entities), NEW i \in 1..Len(targets)
  PROVE  targets[i] \in Entities /\ targets[i] \in Range(targets)
<1>1. targets[i] \in Entities
  BY ElementOfSeq
<1>2. i \in DOMAIN targets
  BY LenProperties
<1> QED BY <1>1, <1>2 DEF Range

\* The groups looked at are the first of the targets, as they are unless one
\* changed since; the request is sent when there is no target left.
LookedAt == Cardinality(DOMAIN grouped)

LookInv ==
  /\ step \in {"preflight", "send"} /\ ~Direct =>
       /\ LookedAt \in Nat /\ LookedAt <= Len(targets)
       /\ DOMAIN grouped = {targets[i] : i \in 1..LookedAt}
       /\ ~regrouped => \A u \in DOMAIN grouped \cap Inspected : grouped[u] = members[u]
  /\ step = "send" /\ ~Direct => LookedAt = Len(targets) /\ ~ReachedTwice

LEMMA NextIsTarget ==
  ASSUME OrderInv, LookInv, Preflighting
  PROVE  /\ LookedAt \in Nat /\ LookedAt + 1 \in 1..Len(targets)
         /\ NextTarget = targets[LookedAt + 1] /\ NextTarget \in Entities
<1>1. /\ LookedAt \in Nat /\ LookedAt < Len(targets) /\ targets \in Seq(Entities)
      /\ NextTarget = targets[LookedAt + 1]
  BY DEF LookInv, Preflighting, LookedAt, NextTarget, OrderInv, StateTypes
<1>2. LookedAt + 1 \in 1..Len(targets)
  BY <1>1, LenProperties
<1> QED BY <1>1, <1>2, TargetAt

\* A look at a target that is there.
LooksAt(t) ==
  /\ home[t] # Absent
  /\ grouped' = [u \in DOMAIN grouped \cup {t} |->
       IF u # t THEN grouped[u] ELSE IF t \in Inspected THEN members[t] ELSE {}]
  /\ UNCHANGED <<step, ask, entries, devices, targets, candidates,
                 observations, outcome, failure>>

LEMMA LookOrders ==
  ASSUME OrderInv, LookInv, LookBefore
  PROVE  StateTypes' /\ PhaseInv'
<1> DEFINE t == NextTarget
<1>1. /\ step = "preflight" /\ ~Direct
      /\ LooksAt(t) \/ Refuse("absent") \/ Refuse("unavailable")
  BY DEF LookBefore, Preflighting, LooksAt
<1>2. t \in Entities
  BY NextIsTarget DEF LookBefore
<1> HIDE DEF t
<1>3. CASE LooksAt(t)
  <2>1. \A g \in DOMAIN grouped' : g \in Entities /\ grouped'[g] \subseteq Entities
    <3> SUFFICES ASSUME NEW g \in DOMAIN grouped'
                 PROVE  g \in Entities /\ grouped'[g] \subseteq Entities
      OBVIOUS
    <3>1. /\ g \in DOMAIN grouped \cup {t}
          /\ grouped'[g] = IF g # t THEN grouped[g] ELSE IF t \in Inspected THEN members[t] ELSE {}
      BY <1>3 DEF LooksAt
    <3>2. t \in Inspected => members[t] \subseteq Entities
      BY CallAssumption DEF OrderInv, HomeTypeOK
    <3> QED BY <1>2, <3>1, <3>2 DEF OrderInv, StateTypes
  <2> QED BY <1>1, <1>3, <2>1 DEF LooksAt, OrderInv, StateTypes, PhaseInv, Early, CallSteps
<1> QED BY <1>1, <1>3, RefuseOrders DEF Failures

LEMMA CompareOrders ==
  ASSUME OrderInv, Compare
  PROVE  StateTypes' /\ PhaseInv'
<1>1. step = "preflight"
  BY DEF Compare
<1>2. CASE Refuse("member")
  BY <1>2, RefuseOrders DEF Failures
<1>3. CASE Answer("dry_run", "none")
  BY <1>3, AnswerOrders DEF Failures, Outcomes
<1>4. CASE Goto("send")
  BY <1>1, <1>4 DEF Goto, OrderInv, StateTypes, PhaseInv, Early, CallSteps
<1> QED BY <1>2, <1>3, <1>4 DEF Compare

LEMMA SendOrders ==
  ASSUME OrderInv, Send
  PROVE  StateTypes' /\ PhaseInv'
<1>1. step = "send" /\ Len(targets) \in Nat /\ Len(targets) # 0 /\ Len(observations) = 0
  BY EmptySeq, LenProperties DEF Send, OrderInv, StateTypes, PhaseInv
<1>2. CASE Refuse("withdrawn")
  BY <1>2, RefuseOrders DEF Failures
<1>3. CASE Answer("outcome_unknown", "none")
  BY <1>3, AnswerOrders DEF Failures, Outcomes
<1>4. CASE Goto(IF Direct THEN "effect" ELSE "observe")
  <2>1. CASE Direct
    BY <1>1, <1>4, <2>1 DEF Goto, OrderInv, StateTypes, PhaseInv, Early, CallSteps, Direct
  <2>2. CASE ~Direct
    BY <1>1, <1>4, <2>2 DEF Goto, OrderInv, StateTypes, PhaseInv, Early, CallSteps, Direct
  <2> QED BY <2>1, <2>2
<1> QED BY <1>2, <1>3, <1>4 DEF Send

\* The status that an observation records.
LEMMA ObserveCases ==
  ASSUME OrderInv, Observe
  PROVE  LET i == Len(observations) + 1 IN
         /\ step = "observe" /\ i \in 1..Len(targets) /\ Len(targets) \in Nat
         /\ targets[i] \in Entities /\ observations \in Seq(Statuses)
         /\ step' = IF i = Len(targets) THEN "effect" ELSE "observe"
         /\ UNCHANGED <<ask, entries, devices, targets, candidates, grouped, outcome, failure>>
         /\ UNCHANGED homeVars
         /\ \E status \in Statuses :
              /\ observations' = Append(observations, status)
              /\ \/ status = "unavailable"
                 \/ home[targets[i]] # Absent /\ status = StatusOf(home[targets[i]])
<1> DEFINE i == Len(observations) + 1
           t == targets[i]
<1>1. /\ step = "observe" /\ i \in 1..Len(targets) /\ Len(targets) \in Nat
      /\ observations \in Seq(Statuses) /\ targets \in Seq(Entities)
  <2>1. /\ step = "observe" /\ Len(observations) < Len(targets)
        /\ observations \in Seq(Statuses) /\ targets \in Seq(Entities)
    BY DEF Observe, OrderInv, StateTypes, PhaseInv
  <2>2. Len(observations) \in Nat /\ Len(targets) \in Nat
    BY <2>1, LenProperties
  <2> QED BY <2>1, <2>2
<1>2. t \in Entities
  BY <1>1, TargetAt
<1>3. /\ step' = IF i = Len(targets) THEN "effect" ELSE "observe"
      /\ UNCHANGED <<ask, entries, devices, targets, candidates, grouped, outcome, failure>>
      /\ UNCHANGED homeVars
  BY DEF Observe
<1>4. PICK status \in {"unavailable"} \cup
             (IF answering /\ home[t] # Absent THEN {StatusOf(home[t])} ELSE {}) :
        observations' = Append(observations, status)
  BY DEF Observe
<1> HIDE DEF t, i
<1>5. status \in Statuses
  <2>1. \A look : StatusOf(look) \in Statuses
    BY DEF StatusOf, Statuses
  <2> QED BY <1>4, <2>1 DEF Statuses
<1>6. status = "unavailable" \/ (home[t] # Absent /\ status = StatusOf(home[t]))
  BY <1>4
<1> QED BY <1>1, <1>2, <1>3, <1>4, <1>5, <1>6 DEF i, t

LEMMA ObserveOrders ==
  ASSUME OrderInv, Observe
  PROVE  StateTypes' /\ PhaseInv'
<1> DEFINE i == Len(observations) + 1
<1>1. /\ step = "observe" /\ i \in 1..Len(targets) /\ Len(targets) \in Nat
      /\ observations \in Seq(Statuses)
      /\ step' = IF i = Len(targets) THEN "effect" ELSE "observe"
      /\ UNCHANGED <<ask, entries, devices, targets, candidates, grouped, outcome, failure>>
  BY ObserveCases
<1>2. PICK status \in Statuses : observations' = Append(observations, status)
  BY ObserveCases
<1>3. observations' \in Seq(Statuses) /\ Len(observations') = i
  BY <1>1, <1>2, AppendProperties
<1> HIDE DEF i
<1>4. targets # <<>> /\ i <= Len(targets)
  BY <1>1 
<1>5. StateTypes'
  BY <1>1, <1>3, <1>4 DEF OrderInv, StateTypes, CallSteps
<1>6. PhaseInv'
  BY <1>1, <1>3, <1>4 DEF OrderInv, StateTypes, PhaseInv, Early, Direct
<1> QED BY <1>5, <1>6

LEMMA ConcludeOrders ==
  ASSUME OrderInv, Conclude
  PROVE  StateTypes' /\ PhaseInv'
<1>1. Effect \in Outcomes \ {"none"}
  BY DEF Effect, Outcomes
<1> QED BY <1>1, AnswerOrders DEF Conclude, Failures

-----------------------------------------------------------------------------
\* An access to the home leaves it as it is, but for the request itself.
LEMMA CallTouches ==
  ASSUME OrderInv, CallStep
  PROVE  /\ HomeTypeOK' /\ UNCHANGED <<registry, deviceArea, areaNamed, members, changes, ask>>
         /\ ~Send => UNCHANGED home
<1>1. CASE Send
  <2>1. UNCHANGED ask
    BY <1>1 DEF Send, Refuse, Answer, Goto
  <2> QED BY <1>1, <2>1, SendStays DEF OrderInv
<1>2. CASE ~Send
  <2>1. UNCHANGED homeVars
    BY <1>2, AreasCases
    DEF CallStep, Begin, ReadCatalog, ReadEntities, ReadDevices, TakeList, LookBefore,
        Compare, Observe, Conclude
  <2>2. UNCHANGED ask
    <3>1. CASE Begin \/ ReadCatalog \/ ReadEntities \/ ReadDevices \/ Compare \/ Conclude
      BY <3>1 DEF Begin, ReadCatalog, ReadEntities, ReadDevices, Compare, Conclude,
                  Refuse, Answer, Goto
    <3>2. CASE ReadAreas
      BY <3>2, AreasCases
      DEF Found, Named, Settled, Settle, Refuse, Answer
    <3>3. CASE TakeList
      BY <3>3 DEF TakeList, Settle, Refuse, Answer
    <3>4. CASE LookBefore \/ Observe
      BY <3>4 DEF LookBefore, Observe, Refuse, Answer
    <3> QED BY <1>2, <3>1, <3>2, <3>3, <3>4 DEF CallStep
  <2> QED BY <2>1, <2>2 DEF homeVars, OrderInv, HomeTypeOK
<1> QED BY <1>1, <1>2

LEMMA CallOrders ==
  ASSUME OrderInv, LookInv, CallStep
  PROVE  OrderInv'
<1>1. HomeTypeOK'
  BY CallTouches
<1>2. StateTypes' /\ PhaseInv'
  BY BeginOrders, CatalogOrders, ReadingOrders, AreasOrder, ListOrders, LookOrders,
     CompareOrders, SendOrders, ObserveOrders, ConcludeOrders DEF CallStep
<1> QED BY <1>1, <1>2 DEF OrderInv

LEMMA HomeOrders ==
  ASSUME OrderInv, HomeTypeOK', UNCHANGED callVars
  PROVE  OrderInv'
BY DEF OrderInv, StateTypes, PhaseInv, callVars, Direct

-----------------------------------------------------------------------------
(* What was true of the home meanwhile.                                    *)

\* The entities that the selector means in registries like these.
MeantBy(en, d, named) == {e \in Entities : Means(en[e], d, named)}

\* What is projected of an entry passes the filter and says the same of it,
\* disabled or not.
LEMMA ProjectionKeeps ==
  ASSUME NEW entry
  PROVE  /\ ~IsDisabled(Projection(entry))
         /\ Projection(entry).listed = entry.listed /\ Projection(entry).tagged = entry.tagged
         /\ Projection(entry).area = entry.area /\ Projection(entry).device = entry.device
<1>1. DOMAIN Projection(entry) = {"listed", "tagged", "area", "device"}
  BY DEF Projection
<1> QED BY <1>1 DEF IsDisabled, Projection

LEMMA SameProjection == UNCHANGED registry => UNCHANGED Projected
BY DEF Projected

LEMMA MeantThen ==
  ASSUME StateTypes, ask' = ask
  PROVE  /\ Meant' \subseteq Entities
         /\ ReadsRegistry' = ReadsRegistry
         /\ ReadsRegistry => Meant' = MeantBy(Projected', deviceArea', areaNamed')
         /\ Selected' = MeantBy(entries', devices', areaNamed')
         /\ MeantBy(Projected, deviceArea, areaNamed)' = MeantBy(Projected', deviceArea', areaNamed')
         /\ MeantBy(entries, deviceArea, areaNamed)' = MeantBy(entries', deviceArea', areaNamed')
<1>1. Meant' \subseteq Entities
  BY DEF Meant
<1>2. ReadsRegistry' = ReadsRegistry
  BY DEF ReadsRegistry
<1>3. Selected' = MeantBy(entries', devices', areaNamed')
  BY DEF Selected, MeantBy, Means, AreaOf, Sought
<1>4. MeantBy(Projected, deviceArea, areaNamed)' = MeantBy(Projected', deviceArea', areaNamed')
  BY DEF MeantBy, Means, AreaOf, Sought
<1>5. MeantBy(entries, deviceArea, areaNamed)' = MeantBy(entries', deviceArea', areaNamed')
  BY DEF MeantBy, Means, AreaOf, Sought
<1>6. ASSUME ReadsRegistry
      PROVE  Meant' = MeantBy(Projected', deviceArea', areaNamed')
  <2>1. /\ Sought \in {"name", "label", "device", "area", "area_name"}
        /\ Sought' = Sought
    <3>1. ask.by \in Selectors
      BY AskedTypes DEF StateTypes
    <3> QED BY <1>6, <3>1 DEF Selectors, ReadsRegistry, Sought
  <2>2. ASSUME NEW e \in Entities
        PROVE  /\ ~IsDisabled(Projected'[e]) /\ Projected'[e].listed = registry'[e].listed
               /\ Projected'[e].tagged = registry'[e].tagged
               /\ Projected'[e].area = registry'[e].area
               /\ Projected'[e].device = registry'[e].device
    <3>1. Projected'[e] = Projection(registry'[e])
      BY DEF Projected
    <3> QED BY <3>1, ProjectionKeeps
  <2>3. CASE Sought \in {"name", "label"}
    BY <2>1, <2>2, <2>3 DEF Meant, MeantBy, Means
  <2>4. CASE Sought = "device"
    BY <2>1, <2>2, <2>4 DEF Meant, MeantBy, Means
  <2>5. CASE Sought = "area"
    BY <2>1, <2>2, <2>5 DEF Meant, MeantBy, Means, AreaOf
  <2>6. CASE Sought = "area_name"
    BY <2>1, <2>2, <2>6 DEF Meant, MeantBy, Means, AreaOf
  <2> QED BY <2>1, <2>3, <2>4, <2>5, <2>6
<1> QED BY <1>1, <1>2, <1>3, <1>4, <1>5, <1>6

LEMMA WitnessStays ==
  ASSUME OrderInv, WitnessTypes, CallWitness, HomeTypeOK', ask' = ask,
         \/ UNCHANGED <<registry, deviceArea, areaNamed, changes>>
         \/ changes' = changes + 1
  PROVE  WitnessTypes'
<1>1. changes \in Nat /\ changes' \in Nat
  BY HomeAssumption DEF OrderInv, HomeTypeOK
<1>2. ever' \subseteq Entities /\ always' \subseteq ever'
  <2>1. Meant' \subseteq Entities
    BY MeantThen DEF OrderInv
  <2> QED BY <2>1 DEF WitnessTypes, CallWitness
<1>3. moved' \in Nat /\ moved' <= changes'
  BY <1>1 DEF WitnessTypes, CallWitness
<1>4. regrouped' \in BOOLEAN
  BY DEF WitnessTypes, CallWitness
<1>5. shown' \in [Entities -> SUBSET (Looks \cup {Absent})]
  BY DEF WitnessTypes, CallWitness, HomeTypeOK
<1> QED BY <1>2, <1>3, <1>4, <1>5 DEF WitnessTypes

-----------------------------------------------------------------------------
(* The look before the request.                                            *)

LEMMA NothingLooked ==
  ASSUME OrderInv, step \in Early
  PROVE  LookedAt = 0 /\ DOMAIN grouped = {}
BY FS_EmptySet DEF OrderInv, PhaseInv, LookedAt

\* Only what was found, or given, is looked at; nothing has been so far.
LEMMA ChosenLooks ==
  ASSUME OrderInv, step \in {"resolve", "areas"}, NEW suited \in Seq(Entities), Chosen(suited)
  PROVE  LookInv'
<1>1. /\ step' = "preflight" /\ DOMAIN grouped' = {} /\ targets' = suited
      /\ Cardinality(DOMAIN grouped') = 0
  BY NothingLooked DEF Chosen, LookedAt, Early
<1>2. Len(targets') \in Nat
  BY <1>1, LenProperties
<1>3. {targets'[i] : i \in 1..0} = {}
  OBVIOUS
<1> QED BY <1>1, <1>2, <1>3 DEF LookInv, LookedAt

LEMMA LookLooks ==
  ASSUME OrderInv, LookInv, CallWitness, LookBefore, UNCHANGED members
  PROVE  LookInv'
<1> DEFINE t == NextTarget
           n == LookedAt
           D == DOMAIN grouped
<1>1. /\ step = "preflight" /\ ~Direct /\ Preflighting
      /\ LooksAt(t) \/ Refuse("absent") \/ Refuse("unavailable")
  BY DEF LookBefore, Preflighting, LooksAt
<1>2. n \in Nat /\ n + 1 \in 1..Len(targets) /\ t = targets[n + 1] /\ t \in Entities
  BY <1>1, NextIsTarget
<1>3. /\ D = {targets[i] : i \in 1..n} /\ n = Cardinality(D)
      /\ targets \in Seq(Entities) /\ IsInjective(targets)
      /\ ~regrouped => \A u \in D \cap Inspected : grouped[u] = members[u]
      /\ D \subseteq Entities
  BY <1>1 DEF LookInv, LookedAt, OrderInv, StateTypes, PhaseInv
<1> HIDE DEF t, n, D
<1>4. CASE ~LooksAt(t)
  <2>1. step' = "done"
    BY <1>1, <1>4 DEF Refuse, Answer
  <2> QED BY <2>1 DEF LookInv
<1>5. CASE LooksAt(t)
  <2>1. /\ step' = "preflight" /\ targets' = targets /\ DOMAIN grouped' = D \cup {t}
        /\ \A u \in D \cup {t} : grouped'[u] =
             IF u # t THEN grouped[u] ELSE IF t \in Inspected THEN members[t] ELSE {}
    BY <1>1, <1>5 DEF LooksAt, D
  <2>2. Len(targets) \in Nat /\ DOMAIN targets = 1..Len(targets)
    BY <1>3, LenProperties
  <2>3. t \notin D
    <3>1. \A i, j \in DOMAIN targets : targets[i] = targets[j] => i = j
      BY <1>3 DEF IsInjective
    <3> QED BY <1>2, <1>3, <2>2, <3>1
  <2>4. Cardinality(D \cup {t}) = n + 1
    <3>1. IsFiniteSet(D)
      BY <1>3, HomeAssumption, FS_Subset
    <3> QED BY <1>2, <1>3, <2>3, <3>1, FS_AddElement
  <2>5. D \cup {t} = {targets[i] : i \in 1..(n + 1)}
    <3>1. 1..(n + 1) = (1..n) \cup {n + 1}
      BY <1>2
    <3> QED BY <1>2, <1>3, <3>1
  <2>6. ~regrouped' => \A u \in (D \cup {t}) \cap Inspected : grouped'[u] = members[u]
    <3>1. ~regrouped' => ~regrouped
      BY DEF CallWitness
    <3> QED BY <1>3, <2>1, <3>1
  <2>7. LookedAt' = n + 1 /\ n + 1 \in Nat /\ n + 1 <= Len(targets')
    BY <1>2, <2>1, <2>2, <2>4 DEF LookedAt
  <2>8. UNCHANGED members /\ step' # "send"
    BY <2>1
  <2> QED BY <2>1, <2>5, <2>6, <2>7, <2>8 DEF LookInv
<1> QED BY <1>4, <1>5

LEMMA CompareLooks ==
  ASSUME OrderInv, LookInv, CallWitness, Compare, UNCHANGED members
  PROVE  LookInv'
<1>1. step = "preflight" /\ ~Preflighting
  BY DEF Compare
<1>2. CASE step' = "done"
  BY <1>2 DEF LookInv
<1>3. CASE step' # "done"
  <2>1. Goto("send") /\ (Direct \/ ~ReachedTwice)
    BY <1>3 DEF Compare, Refuse, Answer
  <2>2. /\ step' = "send" /\ UNCHANGED <<ask, targets, grouped>>
        /\ Direct' = Direct /\ ReachedTwice' = ReachedTwice
    BY <2>1 DEF Goto, Direct, ReachedTwice
  <2>3. ~Direct => LookedAt = Len(targets)
    <3>1. Len(targets) \in Nat
      BY LenProperties DEF OrderInv, StateTypes
    <3> QED BY <1>1, <3>1 DEF LookInv, Preflighting, LookedAt
  <2>4. ~regrouped' => ~regrouped
    BY DEF CallWitness
  <2> QED BY <1>1, <2>1, <2>2, <2>3, <2>4 DEF LookInv, LookedAt
<1> QED BY <1>2, <1>3

LEMMA CallLooks ==
  ASSUME OrderInv, LookInv, CallStep, CallWitness
  PROVE  LookInv'
<1>1. UNCHANGED members
  BY CallTouches
<1>2. CASE step' \notin {"preflight", "send"}
  BY <1>2 DEF LookInv
<1>3. CASE step' \in {"preflight", "send"} /\ ReadAreas
  <2>1. Settled /\ step = "areas"
    BY <1>3, AreasCases DEF Found, Named, Refuse, Answer
  <2>2. PICK found \in Sorted(Selected), suited \in Sorted({e \in Selected : Suited(e)}) :
          Settle(found, suited)
    BY <2>1 DEF Settled
  <2>3. found \in Seq(Entities) /\ suited \in Seq(Entities)
    BY SuitedOfFound
  <2>4. Chosen(suited)
    BY <1>3, <2>2, <2>3, SettleCases DEF Resolved, LooksAgain, Refuses
  <2> QED BY <2>1, <2>3, <2>4, ChosenLooks
<1>4. CASE step' \in {"preflight", "send"} /\ TakeList
  <2> DEFINE given == IF Direct /\ ask.list = <<>> THEN <<Script>> ELSE ask.list
  <2>1. step = "resolve" /\ Settle(given, given)
    BY <1>4 DEF TakeList
  <2>2. given \in Seq(Entities)
    BY AskedTypes, CallAssumption DEF OrderInv, StateTypes
  <2> HIDE DEF given
  <2>3. Chosen(given)
    BY <1>4, <2>1, <2>2, SettleCases DEF Resolved, LooksAgain, Refuses
  <2> QED BY <2>1, <2>2, <2>3, ChosenLooks
<1>5. CASE LookBefore
  BY <1>1, <1>5, LookLooks
<1>6. CASE Compare
  BY <1>1, <1>6, CompareLooks
<1>7. CASE Begin \/ ReadCatalog \/ ReadEntities \/ ReadDevices \/ Send \/ Observe \/ Conclude
  <2>1. step' \notin {"preflight", "send"}
    BY <1>7 DEF Begin, ReadCatalog, ReadEntities, ReadDevices, Send, Observe, Conclude,
                Refuse, Answer, Goto
  <2> QED BY <1>2, <2>1
<1> QED BY <1>2, <1>3, <1>4, <1>5, <1>6, <1>7 DEF CallStep

LEMMA HomeLooks ==
  ASSUME LookInv, CallWitness, UNCHANGED callVars
  PROVE  LookInv'
<1>1. /\ UNCHANGED <<step, ask, targets, grouped>>
      /\ Direct' = Direct /\ ReachedTwice' = ReachedTwice /\ LookedAt' = LookedAt
  BY DEF callVars, Direct, ReachedTwice, LookedAt
<1>2. ~regrouped' => ~regrouped /\ members' = members
  BY DEF CallWitness
<1> QED BY <1>1, <1>2 DEF LookInv

\* A plain target reaches itself only.
LEMMA PlainReaches ==
  ASSUME NEW t \in Entities \ Inspected
  PROVE  Reaches(t) \subseteq {t}
<1>1. {t} \in SUBSET Entities /\ {t} \cap Inspected = {}
  OBVIOUS
<1> QED BY <1>1 DEF Reaches

\* The comparison of all groups that were looked at keeps a plain target from
\* being reached twice, and whoever has groups is warned.
LEMMA LooksReachOnce ==
  ASSUME OrderInv, LookInv
  PROVE  ReachedOnce
<1> SUFFICES ASSUME step = "send", ~Direct, ~regrouped,
                    NEW s \in Range(targets), NEW t \in Range(targets), s # t
             PROVE  /\ s \in Inspected /\ t \notin Inspected => t \notin members[s]
                    /\ Reaches(s) \cap Reaches(t) # {} => FanOutWarned
  BY DEF ReachedOnce
<1>1. /\ DOMAIN grouped = {targets[i] : i \in 1..Len(targets)} /\ ~ReachedTwice
      /\ \A u \in DOMAIN grouped \cap Inspected : grouped[u] = members[u]
  BY DEF LookInv
<1>2. Range(targets) = DOMAIN grouped /\ Range(targets) \subseteq Entities
  <2>1. DOMAIN targets = 1..Len(targets) /\ \A i \in 1..Len(targets) : targets[i] \in Entities
    BY LenProperties DEF OrderInv, StateTypes
  <2> QED BY <1>1, <2>1 DEF Range
<1>3. s \in Inspected /\ t \notin Inspected => t \notin members[s]
  BY <1>1, <1>2 DEF ReachedTwice
<1>4. ASSUME ~FanOutWarned
      PROVE  Reaches(s) \cap Reaches(t) = {}
  <2>1. s \in Entities \ Inspected /\ t \in Entities \ Inspected
    BY <1>2, <1>4 DEF FanOutWarned
  <2> QED BY <2>1, PlainReaches
<1> QED BY <1>3, <1>4

-----------------------------------------------------------------------------
(* The readback.                                                           *)

\* Every look that an observation is about was shown since the request.
ShownAs(i) ==
  \/ observations[i] = "unavailable"
  \/ \E look \in shown[targets[i]] : look \in Looks /\ observations[i] = StatusOf(look)

SeenInv ==
  Accepted => /\ \A e \in Entities : home[e] \in shown[e]
              /\ \A i \in DOMAIN observations : ShownAs(i)

LEMMA ShownNext ==
  ASSUME CallWitness, Accepted'
  PROVE  \A e \in Entities : home'[e] \in shown'[e] /\ shown[e] \subseteq shown'[e]
BY DEF CallWitness

LEMMA SeenStays ==
  ASSUME OrderInv, SeenInv, CallWitness, Accepted \/ observations = <<>>,
         UNCHANGED <<ask, targets, observations>>
  PROVE  SeenInv'
<1> SUFFICES ASSUME Accepted'
             PROVE  SeenInv'
  BY DEF SeenInv
<1>1. \A e \in Entities : home'[e] \in shown'[e] /\ shown[e] \subseteq shown'[e]
  BY ShownNext
<1>2. ASSUME NEW i \in DOMAIN observations
      PROVE  ShownAs(i)'
  <2>1. Accepted /\ ShownAs(i)
    BY <1>2 DEF SeenInv
  <2>2. targets[i] \in Entities
    <3>1. observations \in Seq(Statuses) /\ Len(observations) <= Len(targets)
          /\ targets \in Seq(Entities)
      BY DEF OrderInv, StateTypes
    <3>2. i \in 1..Len(observations) /\ Len(observations) \in Nat /\ Len(targets) \in Nat
      BY <1>2, <3>1, LenProperties
    <3>3. i \in 1..Len(targets)
      BY <3>1, <3>2
    <3> QED BY <3>1, <3>3, TargetAt
  <2>3. \A look : StatusOf(look)' = StatusOf(look)
    BY DEF StatusOf
  <2>4. shown[targets[i]] \subseteq shown'[targets[i]]
    BY <1>1, <2>2
  <2> QED BY <2>1, <2>3, <2>4 DEF ShownAs
<1> QED BY <1>1, <1>2 DEF SeenInv

LEMMA ObserveSees ==
  ASSUME OrderInv, SeenInv, CallWitness, Observe
  PROVE  SeenInv'
<1>0. PICK i : i = Len(observations) + 1
  OBVIOUS
<1>1. /\ step = "observe" /\ i \in 1..Len(targets) /\ Len(targets) \in Nat
      /\ targets[i] \in Entities /\ observations \in Seq(Statuses)
      /\ step' = IF i = Len(targets) THEN "effect" ELSE "observe"
      /\ UNCHANGED <<ask, targets>> /\ UNCHANGED homeVars
  BY <1>0, ObserveCases
<1>2. PICK status \in Statuses :
        /\ observations' = Append(observations, status)
        /\ \/ status = "unavailable"
           \/ home[targets[i]] # Absent /\ status = StatusOf(home[targets[i]])
  BY <1>0, ObserveCases
<1>3. Accepted /\ Accepted' /\ UNCHANGED home
  BY <1>1 DEF Accepted, homeVars
<1>4. \A e \in Entities : home'[e] \in shown'[e] /\ shown[e] \subseteq shown'[e]
  BY <1>3, ShownNext
<1>5. \A look : StatusOf(look)' = StatusOf(look)
  BY <1>1 DEF StatusOf
<1>6. /\ Len(observations) \in Nat /\ DOMAIN observations = 1..Len(observations)
      /\ DOMAIN observations' = 1..i
      /\ \A j \in 1..Len(observations) : observations'[j] = observations[j]
      /\ observations'[i] = status
  BY <1>0, <1>1, <1>2, AppendProperties, LenProperties
<1>7. ASSUME NEW j \in 1..Len(observations)
      PROVE  ShownAs(j)'
  <2>1. ShownAs(j) /\ observations'[j] = observations[j]
    BY <1>3, <1>6, <1>7 DEF SeenInv
  <2>2. shown[targets[j]] \subseteq shown'[targets[j]]
    <3>1. j \in 1..Len(targets)
      BY <1>0, <1>1, <1>6
    <3>2. targets[j] \in Entities
      BY <3>1, TargetAt DEF OrderInv, StateTypes
    <3> QED BY <1>4, <3>2
  <2> QED BY <1>1, <1>5, <2>1, <2>2 DEF ShownAs
<1>8. ShownAs(i)'
  <2>1. CASE status = "unavailable"
    BY <1>6, <2>1 DEF ShownAs
  <2>2. CASE home[targets[i]] # Absent /\ status = StatusOf(home[targets[i]])
    <3>1. home[targets[i]] \in Looks /\ home[targets[i]] \in shown'[targets[i]]
      BY <1>1, <1>3, <1>4, <2>2 DEF OrderInv, HomeTypeOK
    <3> QED BY <1>1, <1>5, <1>6, <2>2, <3>1 DEF ShownAs
  <2> QED BY <1>2, <2>1, <2>2
<1>9. \A j \in DOMAIN observations' : ShownAs(j)'
  <2>1. \A j \in 1..i : j \in 1..Len(observations) \/ j = i
    BY <1>0, <1>6
  <2> QED BY <1>6, <1>7, <1>8, <2>1
<1> QED BY <1>3, <1>4, <1>9 DEF SeenInv

LEMMA CallSees ==
  ASSUME OrderInv, SeenInv, CallWitness, CallStep
  PROVE  SeenInv'
<1>1. CASE Observe
  BY <1>1, ObserveSees
<1>2. CASE step' \notin {"observe", "effect"}
  BY <1>2 DEF SeenInv, Accepted
<1>3. CASE ~Observe /\ step' \in {"observe", "effect"}
  <2>1. Send
    <3>1. ~ReadAreas
      BY <1>3, AreasCases DEF Found, Named, Settled, Settle, Refuse, Answer
    <3> QED BY <1>3, <3>1
        DEF CallStep, Begin, ReadCatalog, ReadEntities, ReadDevices, TakeList, LookBefore,
            Compare, Conclude, Settle, Refuse, Answer, Goto, Preflighting
  <2>2. observations = <<>> /\ UNCHANGED <<ask, targets, observations>>
    BY <1>3, <2>1 DEF Send, Goto, Refuse, Answer, OrderInv, PhaseInv
  <2> QED BY <2>2, SeenStays
<1> QED BY <1>1, <1>2, <1>3

\* A status says of a look what the effect is told from.
LEMMA StatusTells ==
  ASSUME NEW look \in Looks
  PROVE  /\ StatusOf(look) = "observed" => "opaque" \notin ask.data /\ Fulfils(look)
         /\ StatusOf(look) \in {"observed", "unverified"} => ~Contradicts(look)
         /\ StatusOf(look) \notin {"observed", "unverified"} => ~Fulfils(look)
<1>1. look \in AnyLook
  BY HomeAssumption
<1>2. /\ look.state \in {"on", "off", "unknown", "secret"}
      /\ look.shade \in {"missing", "asked", "other"}
  BY <1>1 DEF AnyLook
<1> QED BY <1>2 DEF StatusOf, Fulfils, Contradicts

LEMMA ConcludeHonest ==
  ASSUME OrderInv, SeenInv, CallWitness, Conclude
  PROVE  EffectHonest'
<1>1. /\ step = "effect" /\ outcome' = Effect
      /\ UNCHANGED <<ask, targets, observations>> /\ step' = "done"
  BY DEF Conclude, Answer
<1>2. UNCHANGED shown
  BY <1>1 DEF CallWitness, Accepted
<1>3. /\ targets \in Seq(Entities) /\ targets # <<>> /\ observations \in Seq(Statuses)
      /\ Direct \/ Len(observations) = Len(targets)
  BY <1>1 DEF OrderInv, StateTypes, PhaseInv
<1>4. \A i \in DOMAIN observations : ShownAs(i)
  BY <1>1 DEF SeenInv, Accepted
<1>5. /\ \A look : Fulfils(look)' = Fulfils(look) /\ Contradicts(look)' = Contradicts(look)
      /\ Direct' = Direct
  BY <1>1 DEF Fulfils, Contradicts, Direct
<1> DEFINE seen == Range(observations)
<1>6. ASSUME ~Direct, NEW t \in Range(targets)
      PROVE  \E i \in DOMAIN observations : targets[i] = t /\ observations[i] \in seen
  <2>1. DOMAIN targets = 1..Len(targets) /\ DOMAIN observations = 1..Len(observations)
    BY <1>3, LenProperties
  <2>2. PICK i \in DOMAIN targets : targets[i] = t
    BY <1>6 DEF Range
  <2> QED BY <1>3, <1>6, <2>1, <2>2 DEF Range
<1>7. PICK t0 : t0 \in Range(targets)
  <2>1. Len(targets) \in Nat /\ Len(targets) # 0 /\ DOMAIN targets = 1..Len(targets)
    BY <1>3, LenProperties, EmptySeq
  <2>2. 1 \in DOMAIN targets
    BY <2>1
  <2> QED BY <2>2 DEF Range
<1>8. ASSUME outcome' = "observed"
      PROVE  /\ "opaque" \notin ask.data
             /\ \A t \in Range(targets) : \E look \in shown[t] : Fulfils(look)
  <2>1. ~Direct /\ seen = {"observed"}
    BY <1>1, <1>8 DEF Effect
  <2>2. ASSUME NEW t \in Range(targets)
        PROVE  "opaque" \notin ask.data /\ \E look \in shown[t] : Fulfils(look)
    <3>1. PICK i \in DOMAIN observations : targets[i] = t /\ observations[i] = "observed"
      BY <1>6, <2>1, <2>2
    <3>2. PICK look \in shown[t] : look \in Looks /\ StatusOf(look) = "observed"
      BY <1>4, <3>1 DEF ShownAs
    <3> QED BY <3>2, StatusTells
  <2> QED BY <1>7, <2>2
<1>9. ASSUME outcome' = "unverified", ~Direct
      PROVE  \A t \in Range(targets) : \E look \in shown[t] : ~Contradicts(look)
  <2>1. seen \subseteq {"observed", "unverified"}
    BY <1>1, <1>9 DEF Effect
  <2>2. ASSUME NEW t \in Range(targets)
        PROVE  \E look \in shown[t] : ~Contradicts(look)
    <3>1. PICK i \in DOMAIN observations :
            targets[i] = t /\ observations[i] \in {"observed", "unverified"}
      BY <1>6, <1>9, <2>1, <2>2
    <3>2. PICK look \in shown[t] : look \in Looks /\ StatusOf(look) \in {"observed", "unverified"}
      BY <1>4, <3>1 DEF ShownAs
    <3> QED BY <3>2, StatusTells
  <2> QED BY <2>2
<1>10. ASSUME outcome' = "partial"
       PROVE  \/ "unavailable" \in seen
              \/ \E t \in Range(targets) : \E look \in shown[t] : ~Fulfils(look)
  <2>1. ~Direct /\ ~(seen \subseteq {"observed", "unverified"})
    BY <1>1, <1>10 DEF Effect
  <2>2. PICK i \in DOMAIN observations : observations[i] \notin {"observed", "unverified"}
    BY <2>1 DEF Range
  <2>3. targets[i] \in Range(targets)
    <3>1. DOMAIN targets = 1..Len(targets) /\ DOMAIN observations = 1..Len(observations)
      BY <1>3, LenProperties
    <3> QED BY <1>3, <2>1, <2>2, <3>1 DEF Range
  <2>4. CASE observations[i] = "unavailable"
    BY <2>2, <2>4 DEF Range
  <2>5. CASE observations[i] # "unavailable"
    <3>1. PICK look \in shown[targets[i]] : look \in Looks /\ observations[i] = StatusOf(look)
      BY <1>4, <2>2, <2>5 DEF ShownAs
    <3>2. ~Fulfils(look)
      BY <2>2, <3>1, StatusTells
    <3> QED BY <2>3, <3>1, <3>2
  <2> QED BY <2>4, <2>5
<1> QED BY <1>1, <1>2, <1>5, <1>8, <1>9, <1>10 DEF EffectHonest

LEMMA CallHonest ==
  ASSUME OrderInv, SeenInv, CallWitness, CallStep
  PROVE  EffectHonest'
<1>1. CASE Conclude
  BY <1>1, ConcludeHonest
<1>2. CASE ~Conclude
  <2>1. step # "done"
    BY AreasCases
    DEF CallStep, Begin, ReadCatalog, ReadEntities, ReadDevices, TakeList, LookBefore,
        Preflighting, Compare, Send, Observe, Conclude
  <2>2. outcome = "none"
    BY <2>1 DEF OrderInv, StateTypes
  <2>3. CASE Begin \/ ReadCatalog \/ ReadEntities \/ ReadDevices \/ LookBefore \/ Compare
             \/ Send \/ Observe
    <3>1. outcome' \in {"none", "ok", "dry_run", "not_dispatched", "failed", "outcome_unknown"}
      BY <2>2, <2>3 DEF Begin, ReadCatalog, ReadEntities, ReadDevices, LookBefore, Compare,
                        Send, Observe, Refuse, Answer, Goto
    <3> QED BY <3>1 DEF EffectHonest
  <2>4. CASE ReadAreas \/ TakeList
    <3>1. outcome' \in {"none", "ok", "not_dispatched", "failed"}
      BY <2>2, <2>4, AreasCases DEF Found, Named, Settled, TakeList, Settle, Refuse, Answer
    <3> QED BY <3>1 DEF EffectHonest
  <2> QED BY <1>2, <2>3, <2>4 DEF CallStep
<1> QED BY <1>1, <1>2

LEMMA HomeSees ==
  ASSUME OrderInv, SeenInv, CallWitness, UNCHANGED callVars
  PROVE  SeenInv'
<1>1. UNCHANGED <<ask, targets, observations, step>>
  BY DEF callVars
<1>2. CASE Accepted
  BY <1>1, <1>2, SeenStays
<1>3. CASE ~Accepted
  BY <1>1, <1>3 DEF Accepted, SeenInv
<1> QED BY <1>2, <1>3

LEMMA HomeHonest ==
  ASSUME OrderInv, EffectHonest, CallWitness, UNCHANGED callVars
  PROVE  EffectHonest'
<1>1. UNCHANGED <<step, ask, targets, observations, outcome>>
  BY DEF callVars
<1>2. CASE outcome \in {"observed", "unverified", "partial"}
  <2>1. ~Accepted'
    BY <1>1, <1>2 DEF OrderInv, StateTypes, Accepted
  <2>2. UNCHANGED shown
    BY <2>1 DEF CallWitness
  <2>3. /\ \A look : Fulfils(look)' = Fulfils(look) /\ Contradicts(look)' = Contradicts(look)
        /\ Direct' = Direct
    BY <1>1 DEF Fulfils, Contradicts, Direct
  <2> QED BY <1>1, <2>2, <2>3 DEF EffectHonest
<1>3. CASE outcome \notin {"observed", "unverified", "partial"}
  BY <1>1, <1>3 DEF EffectHonest
<1> QED BY <1>2, <1>3

-----------------------------------------------------------------------------
(* The selection.                                                          *)

\* Of no more than one move, each list was read before or after it: what the
\* lists say together is what the home was at one of the two instants.
Witnessed(S) == S \subseteq ever /\ always \subseteq S

ReadInv ==
  /\ step \in {"rest", "begin", "catalog"} => always = {}
  /\ step \in {"devices", "areas", "again"} => ReadsRegistry
  /\ Reading => Witnessed(MeantBy(Projected, deviceArea, areaNamed))
  /\ step = "devices" =>
       /\ moved = 0 => entries = Projected
       /\ moved <= 1 => Witnessed(MeantBy(entries, deviceArea, areaNamed))
  /\ step = "areas" =>
       /\ moved = 0 => entries = Projected /\ devices = deviceArea
       /\ moved <= 1 => Witnessed(Selected)

LEMMA WitnessMoves ==
  ASSUME OrderInv, WitnessTypes, CallWitness, ask' = ask
  PROVE  /\ ever \subseteq ever' /\ moved \in Nat /\ moved' \in Nat /\ moved <= moved'
         /\ ~Reading' => ever' = ever /\ always' = always
         /\ Reading' =>
              /\ MeantBy(Projected', deviceArea', areaNamed') \subseteq ever'
              /\ always' \subseteq MeantBy(Projected', deviceArea', areaNamed')
              /\ Reading => always' \subseteq always
         /\ ~Reading => moved' = moved
         /\ Reading =>
              moved' = IF registry' = registry /\ deviceArea' = deviceArea /\ areaNamed' = areaNamed
                         THEN moved ELSE moved + 1
<1>1. Reading' => Meant' = MeantBy(Projected', deviceArea', areaNamed')
  BY MeantThen DEF OrderInv, Reading
<1>2. moved \in Nat
  BY DEF WitnessTypes
<1> QED BY <1>1, <1>2 DEF CallWitness

\* One change of the home is one of its registries at most.
LEMMA OneMoves ==
  ASSUME HomeStep
  PROVE  \/ UNCHANGED <<deviceArea, areaNamed>>
         \/ UNCHANGED <<registry, areaNamed>>
         \/ UNCHANGED <<registry, deviceArea>>
BY DEF HomeStep, RegistryChange, ChangeEntry, MoveDevice, RenameArea, ChangeState, Regroup,
       FallSilent

\* While it is being read, a registry is what it is now.
LEMMA ReadsNow ==
  ASSUME OrderInv, WitnessTypes, CallWitness, ask' = ask
  PROVE  Reading' => Witnessed(MeantBy(Projected, deviceArea, areaNamed))'
BY WitnessMoves, MeantThen DEF OrderInv, Witnessed

LEMMA HomeReads ==
  ASSUME OrderInv, WitnessTypes, ReadInv, CallWitness, HomeStep, UNCHANGED callVars
  PROVE  ReadInv'
<1>1. /\ UNCHANGED <<step, ask, entries, devices>>
      /\ ReadsRegistry' = ReadsRegistry /\ Reading' = Reading
  BY DEF callVars, ReadsRegistry, Reading
<1>2. Reading' => Witnessed(MeantBy(Projected, deviceArea, areaNamed))'
  BY <1>1, ReadsNow
<1>3. step \in {"rest", "begin", "catalog"} => always' = {}
  BY <1>1, WitnessMoves DEF ReadInv, Reading
<1>4. /\ MeantBy(entries, deviceArea, areaNamed)' = MeantBy(entries, deviceArea', areaNamed')
      /\ Selected' = MeantBy(entries, devices, areaNamed')
      /\ Selected = MeantBy(entries, devices, areaNamed)
  BY <1>1, MeantThen DEF OrderInv, Selected, MeantBy
<1> DEFINE still == registry' = registry /\ deviceArea' = deviceArea /\ areaNamed' = areaNamed
           past == MeantBy(Projected, deviceArea, areaNamed)
           now == MeantBy(Projected', deviceArea', areaNamed')
<1>5. Reading =>
        /\ ever \subseteq ever' /\ always' \subseteq always
        /\ past \subseteq ever /\ always \subseteq past
        /\ now \subseteq ever' /\ always' \subseteq now
  BY <1>1, WitnessMoves DEF ReadInv, Witnessed
<1>6. Reading => /\ still => moved' = moved
                 /\ ~still => moved' = moved + 1
                 /\ moved \in Nat
  BY <1>1, WitnessMoves
<1>7. ASSUME step = "devices"
      PROVE  /\ moved' = 0 => entries = Projected'
             /\ moved' <= 1 => /\ MeantBy(entries, deviceArea', areaNamed') \subseteq ever'
                               /\ always' \subseteq MeantBy(entries, deviceArea', areaNamed')
  <2>1. /\ Reading
        /\ moved = 0 => entries = Projected
        /\ moved <= 1 => Witnessed(MeantBy(entries, deviceArea, areaNamed))
    BY <1>7 DEF ReadInv, Reading
  <2>2. CASE still
    <3>1. moved' = moved
      BY <1>6, <2>1, <2>2
    <3> QED BY <1>5, <2>1, <2>2, <3>1, SameProjection DEF Witnessed
  <2>3. CASE ~still
    <3>1. moved' # 0 /\ (moved' <= 1 => entries = Projected)
      BY <1>6, <2>1, <2>3
    <3>2. CASE UNCHANGED <<deviceArea, areaNamed>>
      BY <1>5, <2>1, <3>1, <3>2
    <3>3. CASE UNCHANGED registry
      BY <1>5, <2>1, <3>1, <3>3, SameProjection
    <3> QED BY <3>2, <3>3, OneMoves
  <2> QED BY <2>2, <2>3
<1>8. ASSUME step = "areas"
      PROVE  /\ moved' = 0 => entries = Projected' /\ devices = deviceArea'
             /\ moved' <= 1 => /\ MeantBy(entries, devices, areaNamed') \subseteq ever'
                               /\ always' \subseteq MeantBy(entries, devices, areaNamed')
  <2>1. /\ Reading
        /\ moved = 0 => entries = Projected /\ devices = deviceArea
        /\ moved <= 1 => Witnessed(MeantBy(entries, devices, areaNamed))
    BY <1>4, <1>8 DEF ReadInv, Reading
  <2>2. CASE still
    <3>1. moved' = moved
      BY <1>6, <2>1, <2>2
    <3> QED BY <1>5, <2>1, <2>2, <3>1, SameProjection DEF Witnessed
  <2>3. CASE ~still
    <3>1. moved' # 0 /\ (moved' <= 1 => entries = Projected /\ devices = deviceArea)
      BY <1>6, <2>1, <2>3
    <3>2. CASE UNCHANGED areaNamed
      BY <1>5, <2>1, <3>1, <3>2
    <3>3. CASE UNCHANGED <<registry, deviceArea>>
      BY <1>5, <2>1, <3>1, <3>3, SameProjection
    <3> QED BY <3>2, <3>3, OneMoves
  <2> QED BY <2>2, <2>3
<1> HIDE DEF still, past, now
<1>9. step \in {"devices", "areas", "again"} => ReadsRegistry
  BY DEF ReadInv
<1> QED BY <1>1, <1>2, <1>3, <1>4, <1>7, <1>8, <1>9 DEF ReadInv, Witnessed

LEMMA CallReads ==
  ASSUME OrderInv, WitnessTypes, ReadInv, CallWitness, CallStep
  PROVE  ReadInv'
<1>1. /\ UNCHANGED <<registry, deviceArea, areaNamed, ask>>
      /\ ReadsRegistry' = ReadsRegistry
  BY CallTouches DEF ReadsRegistry
<1>2. Reading' => Witnessed(MeantBy(Projected, deviceArea, areaNamed))'
  BY <1>1, ReadsNow
<1>3. /\ moved' = moved /\ ever \subseteq ever'
      /\ ~Reading' => always' = always
      /\ Reading' => /\ MeantBy(Projected, deviceArea, areaNamed) \subseteq ever'
                     /\ always' \subseteq MeantBy(Projected, deviceArea, areaNamed)
                     /\ Reading => always' \subseteq always
  BY <1>1, WitnessMoves, SameProjection
<1>4. /\ MeantBy(entries, deviceArea, areaNamed)' = MeantBy(entries', deviceArea, areaNamed)
      /\ Selected' = MeantBy(entries', devices', areaNamed)
  BY <1>1, MeantThen DEF OrderInv
<1>5. CASE step' \notin {"rest", "begin", "catalog", "devices", "areas", "again"}
  BY <1>2, <1>5 DEF ReadInv
<1>6. CASE Begin \/ ReadCatalog \/ Compare \/ Send \/ Conclude \/ LookBefore \/ Observe
  <2>1. step' \in {"rest", "begin", "catalog", "devices", "areas", "again"} =>
          step' = "catalog" /\ step = "begin"
    BY <1>6 DEF Begin, ReadCatalog, Compare, Send, Conclude, LookBefore, Preflighting,
                Observe, Refuse, Answer, Goto
  <2>2. step' = "catalog" /\ step = "begin" => always' = {}
    BY <1>3 DEF ReadInv, Reading
  <2> QED BY <1>2, <2>1, <2>2 DEF ReadInv
<1>7. CASE ReadEntities /\ step' # "done"
  <2>1. step' = "devices" /\ entries' = Projected /\ ReadsRegistry
    BY <1>7 DEF ReadEntities, Refuse, Answer
  <2>2. Reading'
    BY <1>1, <2>1 DEF Reading
  <2> QED BY <1>1, <1>2, <1>3, <1>4, <2>1, <2>2, SameProjection DEF ReadInv, Witnessed
<1>8. CASE ReadDevices /\ step' # "done"
  <2>1. step = "devices" /\ step' = "areas" /\ devices' = deviceArea /\ entries' = entries
    BY <1>8 DEF ReadDevices, Refuse, Answer
  <2>2. /\ ReadsRegistry /\ Reading /\ Reading'
        /\ moved = 0 => entries = Projected
        /\ moved <= 1 => Witnessed(MeantBy(entries, deviceArea, areaNamed))
    BY <1>1, <2>1 DEF Reading, ReadInv
  <2> QED BY <1>1, <1>2, <1>3, <1>4, <2>1, <2>2, SameProjection DEF ReadInv, Witnessed
<1>9. CASE ReadAreas /\ step' \in {"rest", "begin", "catalog", "devices", "areas", "again"}
  <2>1. step = "areas" /\ Settled
    BY <1>9, AreasCases DEF Found, Named, Refuse, Answer
  <2>2. step' = "again"
    BY <1>9, <2>1 DEF Settled, Settle, Refuse, Answer
  <2>3. ReadsRegistry
    BY <2>1 DEF ReadInv
  <2> QED BY <1>1, <1>2, <2>2, <2>3 DEF ReadInv
<1>10. CASE TakeList /\ step' \in {"rest", "begin", "catalog", "devices", "areas", "again"}
  <2> DEFINE given == IF Direct /\ ask.list = <<>> THEN <<Script>> ELSE ask.list
  <2>1. step = "resolve" /\ Settle(given, given) /\ ask.by = "list"
    BY <1>10 DEF TakeList, ReadsRegistry
  <2>2. given \in Seq(Entities)
    BY AskedTypes, CallAssumption DEF OrderInv, StateTypes
  <2> HIDE DEF given
  <2>3. Refusal(given) = "ambiguous"
    BY <1>10, <2>1, <2>2, SettleCases DEF Chosen, Resolved, Refuses
  <2> QED BY <2>1, <2>2, <2>3, RefusalMeans
<1>11. CASE step' = "done"
  BY <1>5, <1>11
<1> QED BY <1>5, <1>6, <1>7, <1>8, <1>9, <1>10, <1>11 DEF CallStep

-----------------------------------------------------------------------------
LEMMA EverGrows ==
  ASSUME WitnessTypes, WitnessTypes', NEW S, S \subseteq ever', Cardinality(S) > 1
  PROVE  Cardinality(ever') > 1
<1>1. ever' \subseteq Entities
  BY DEF WitnessTypes
<1>2. IsFiniteSet(ever') /\ IsFiniteSet(S) /\ Cardinality(S) <= Cardinality(ever')
  BY <1>1, HomeAssumption, FS_Subset
<1>3. Cardinality(S) \in Nat /\ Cardinality(ever') \in Nat
  BY <1>2, FS_CardinalityType
<1> QED BY <1>2, <1>3

\* Is there a choice of targets to speak of?
HasChosen ==
  \/ ask.job = "invoke" /\ step \in {"preflight", "send", "observe", "effect"}
  \/ outcome \in {"ok", "dry_run", "observed", "unverified", "partial"}

\* The selection says the same as long as nothing is selected anew.
LEMMA SelectionStays ==
  ASSUME OrderInv, OrderInv', WitnessTypes, WitnessTypes', CallWitness, SelectionExact,
         UNCHANGED <<ask, targets, candidates>>,
         failure' = failure \/ failure' \notin {"empty", "ambiguous"},
         HasChosen' => HasChosen \/ always = {}
  PROVE  SelectionExact'
<1> SUFFICES ASSUME ReadsRegistry', moved' <= 1
             PROVE  SelectionExact'
  BY DEF SelectionExact
<1>1. /\ ReadsRegistry /\ Direct' = Direct
      /\ \A e : Suited(e)' = Suited(e)
  BY DEF ReadsRegistry, Direct, Suited, Compatible
<1>2. moved <= 1 /\ ever \subseteq ever'
  BY WitnessMoves
<1>3. /\ Range(targets) \cup candidates \subseteq ever
      /\ HasChosen /\ ask.job # "find" /\ ~Direct =>
           (IF ask.job = "invoke" THEN {e \in always : Suited(e)} ELSE always) \subseteq Range(targets)
      /\ failure = "empty" =>
           (IF ask.job = "invoke" THEN {e \in always : Suited(e)} ELSE always) = {}
      /\ failure = "ambiguous" => Cardinality(ever) > 1
  BY <1>1, <1>2 DEF SelectionExact, HasChosen
<1>4. Range(targets') \cup candidates' \subseteq ever'
  BY <1>2, <1>3
<1>5. failure' = "ambiguous" => Cardinality(ever') > 1
  BY <1>2, <1>3, EverGrows
<1>6. CASE Reading'
  <2>1. step' \in Early /\ outcome' = "none" /\ failure' # "empty"
    BY <1>6 DEF Reading, OrderInv, StateTypes, PhaseInv, Early
  <2>2. ~HasChosen'
    BY <2>1 DEF HasChosen, Early
  <2> QED BY <1>4, <1>5, <2>1, <2>2 DEF SelectionExact, HasChosen
<1>7. CASE ~Reading'
  <2>1. always' = always
    BY <1>7, WitnessMoves
  <2>2. HasChosen' /\ ask'.job # "find" /\ ~Direct' =>
          (IF ask'.job = "invoke" THEN {e \in always' : Suited(e)'} ELSE always')
            \subseteq Range(targets')
    BY <1>1, <1>3, <2>1
  <2>3. failure' = "empty" =>
          (IF ask'.job = "invoke" THEN {e \in always' : Suited(e)'} ELSE always') = {}
    BY <1>1, <1>3, <2>1
  <2> QED BY <1>4, <1>5, <2>2, <2>3 DEF SelectionExact, HasChosen
<1> QED BY <1>6, <1>7

\* What the last lists select is what the selector meant.
LEMMA AreasSelect ==
  ASSUME OrderInv, OrderInv', WitnessTypes, WitnessTypes', ReadInv, CallWitness,
         SelectionExact, ReadAreas
  PROVE  SelectionExact'
<1> DEFINE why == IF failure = "none" THEN "registry" ELSE failure
<1>1. /\ step = "areas" /\ UNCHANGED <<registry, deviceArea, areaNamed, ask>>
      /\ targets = <<>> /\ candidates = {} /\ failure \in {"none", "ambiguous"}
      /\ outcome = "none"
  <2>1. step = "areas"
    BY AreasCases
  <2>2. UNCHANGED <<registry, deviceArea, areaNamed, ask>>
    BY CallTouches DEF CallStep
  <2> QED BY <2>1, <2>2 DEF OrderInv, StateTypes, PhaseInv, Early
<1>2. CASE Refuse(why)
  <2>1. /\ UNCHANGED <<ask, targets, candidates>> /\ failure' = why /\ step' = "done"
        /\ outcome' \in {"not_dispatched", "failed"}
    BY <1>2 DEF Refuse, Answer
  <2>2. failure' = failure \/ failure' \notin {"empty", "ambiguous"}
    BY <2>1
  <2>3. ~HasChosen'
    BY <2>1 DEF HasChosen
  <2> QED BY <2>1, <2>2, <2>3, SelectionStays
<1> HIDE DEF why
<1> SUFFICES ASSUME ReadsRegistry', moved' <= 1, ~Refuse(why)
             PROVE  SelectionExact'
  BY <1>2 DEF SelectionExact
<1>3. /\ ReadsRegistry /\ Direct' = Direct
      /\ \A e : Suited(e)' = Suited(e)
  BY <1>1 DEF ReadsRegistry, Direct, Suited, Compatible
<1>4. moved' = moved /\ moved <= 1 /\ ever \subseteq ever' /\ Reading
  BY <1>1, <1>3, WitnessMoves DEF Reading
<1>5. Selected \subseteq ever' /\ always \subseteq Selected /\ Selected \subseteq Entities
  BY <1>1, <1>4 DEF ReadInv, Witnessed, Selected
<1>6. ~Reading' => always' = always
  BY <1>1, WitnessMoves
<1>7. failure = "ambiguous" => Cardinality(ever') > 1
  <2>1. failure = "ambiguous" => Cardinality(ever) > 1
    BY <1>3, <1>4 DEF SelectionExact
  <2> QED BY <1>4, <2>1, EverGrows
<1>8. CASE Found
  <2>1. PICK matches \in Listed(Selected) :
          /\ ask.job = "find" /\ targets' = FirstFew(matches) /\ step' = "done" /\ outcome' = "ok"
          /\ UNCHANGED <<ask, entries, devices, candidates, grouped, observations, failure>>
    BY <1>8 DEF Found
  <2>2. Range(targets') \subseteq Selected
    <3>1. matches \in Seq(Entities) /\ Range(matches) = Selected
      BY <1>5, ListedIsSet
    <3> QED BY <2>1, <3>1, FewOfFound
  <2>3. ask'.job = "find" /\ failure' # "empty" /\ candidates' = {}
    BY <1>1, <2>1
  <2>4. failure' = "ambiguous" => Cardinality(ever') > 1
    BY <1>7, <2>1
  <2> QED BY <1>5, <2>2, <2>3, <2>4 DEF SelectionExact
<1>9. CASE Named
  <2>1. PICK matches \in Listed(Selected) :
          /\ failure = "ambiguous"
          /\ candidates' = Range(FirstFew(matches)) /\ step' = "done" /\ outcome' = "failed"
          /\ UNCHANGED <<ask, entries, devices, targets, grouped, observations, failure>>
    BY <1>9 DEF Named
  <2>2. candidates' \subseteq Selected
    <3>1. matches \in Seq(Entities) /\ Range(matches) = Selected
      BY <1>5, ListedIsSet
    <3> QED BY <2>1, <3>1, FewOfFound
  <2>3. Range(targets') = {} /\ failure' = "ambiguous" /\ ~HasChosen'
    BY <1>1, <2>1 DEF Range, HasChosen
  <2> QED BY <1>5, <1>7, <2>1, <2>2, <2>3 DEF SelectionExact, HasChosen
<1>10. CASE Settled
  <2>1. PICK found \in Sorted(Selected), suited \in Sorted({e \in Selected : Suited(e)}) :
          ask.job # "find" /\ failure = "none" /\ Settle(found, suited)
    BY <1>10 DEF Settled
  <2>2. /\ found \in Seq(Entities) /\ suited \in Seq(Entities)
        /\ Range(found) = Selected /\ Range(suited) = {e \in Selected : Suited(e)}
        /\ Len(found) = Cardinality(Selected)
    BY SuitedOfFound
  <2>3. CASE Chosen(suited)
    <3>1. /\ targets' = suited /\ candidates' = {} /\ failure' = "none" /\ step' = "preflight"
          /\ ask'.job = "invoke" /\ ~Reading'
      BY <1>1, <2>1, <2>3 DEF Chosen, Reading
    <3>2. {e \in always' : Suited(e)'} \subseteq Range(targets')
      BY <1>3, <1>5, <1>6, <2>2, <3>1
    <3>3. Range(targets') \cup candidates' \subseteq ever'
      BY <1>5, <2>2, <3>1
    <3> QED BY <3>1, <3>2, <3>3 DEF SelectionExact
  <2>4. CASE Resolved(found)
    <3>1. /\ targets' = found /\ candidates' = {} /\ failure' = "none" /\ step' = "done"
          /\ ask'.job # "invoke" /\ ~Reading'
      BY <1>1, <2>1, <2>4 DEF Resolved, Reading
    <3>2. always' \subseteq Range(targets')
      BY <1>5, <1>6, <2>2, <3>1
    <3>3. Range(targets') \cup candidates' \subseteq ever'
      BY <1>5, <2>2, <3>1
    <3> QED BY <3>1, <3>2, <3>3 DEF SelectionExact
  <2>5. CASE LooksAgain /\ Refusal(found) = "ambiguous"
    <3>1. /\ Range(targets') \cup candidates' = {} /\ failure' = "ambiguous" /\ ~HasChosen'
      BY <1>1, <2>5 DEF LooksAgain, HasChosen, Range
    <3>2. Cardinality(ever') > 1
      <4>1. Cardinality(Selected) > 1
        BY <2>2, <2>5, RefusalMeans
      <4> QED BY <1>5, <4>1, EverGrows
    <3> QED BY <3>1, <3>2 DEF SelectionExact, HasChosen
  <2>6. ASSUME NEW w \in Failures, Refuses(w),
               w = "ambiguous" => Len(found) > 1,
               w = "empty" => Len(found) = 0 \/ (ask.job = "invoke" /\ suited = <<>>)
        PROVE  SelectionExact'
    <3>1. /\ Range(targets') \cup candidates' = {} /\ failure' = w /\ ~HasChosen'
          /\ ask' = ask /\ step' = "done"
      BY <1>1, <2>6 DEF Refuses, HasChosen, Range
    <3>2. failure' = "ambiguous" => Cardinality(ever') > 1
      BY <1>5, <2>2, <2>6, <3>1, EverGrows
    <3>3. ASSUME failure' = "empty"
          PROVE  (IF ask'.job = "invoke" THEN {e \in always' : Suited(e)'} ELSE always') = {}
      <4>1. always' \subseteq Selected
        BY <1>5, <1>6, <3>1 DEF Reading
      <4>2. CASE Len(found) = 0
        <5>1. found = <<>>
          BY <2>2, <4>2, EmptySeq
        <5>2. Range(<<>>) = {}
          BY DEF Range
        <5>3. Selected = {}
          BY <2>2, <5>1, <5>2
        <5> QED BY <4>1, <5>3
      <4>3. CASE ask.job = "invoke" /\ suited = <<>>
        <5>1. Range(<<>>) = {}
          BY DEF Range
        <5>2. {e \in Selected : Suited(e)} = {}
          BY <2>2, <4>3, <5>1
        <5> QED BY <1>3, <3>1, <4>1, <4>3, <5>2
      <4> QED BY <2>6, <3>1, <3>3, <4>2, <4>3
    <3> QED BY <3>1, <3>2, <3>3 DEF SelectionExact, HasChosen
  <2> QED BY <2>1, <2>2, <2>3, <2>4, <2>5, <2>6, SettleCases
<1> QED BY <1>8, <1>9, <1>10, AreasCases DEF why

LEMMA CallSelects ==
  ASSUME OrderInv, OrderInv', WitnessTypes, WitnessTypes', ReadInv, CallWitness,
         SelectionExact, CallStep
  PROVE  SelectionExact'
<1>1. UNCHANGED ask
  BY CallTouches
<1>2. CASE ReadAreas
  BY <1>2, AreasSelect
<1>3. CASE TakeList
  BY <1>1, <1>3 DEF TakeList, SelectionExact, ReadsRegistry
<1>4. CASE Begin \/ ReadCatalog
  <2>1. /\ UNCHANGED <<targets, candidates>> /\ always = {}
        /\ failure' = failure \/ failure' \in {"unconfigured", "inadmissible", "service", "none"}
    BY <1>4 DEF Begin, ReadCatalog, Refuse, Answer, Goto, ReadInv
  <2> QED BY <1>1, <2>1, SelectionStays
<1>5. CASE ReadEntities \/ ReadDevices
  <2>1. /\ UNCHANGED <<targets, candidates>> /\ step \in Early
        /\ failure' = failure \/ failure' = "registry"
        /\ outcome' \in {outcome, "not_dispatched", "failed"} /\ step' \in {"devices", "areas", "done"}
    BY <1>5 DEF ReadEntities, ReadDevices, Refuse, Answer, Early
  <2>2. outcome = "none"
    BY <2>1 DEF OrderInv, StateTypes, Early
  <2>3. ~HasChosen'
    BY <2>1, <2>2 DEF HasChosen
  <2> QED BY <1>1, <2>1, <2>3, SelectionStays
<1>6. CASE LookBefore \/ Compare \/ Send \/ Observe \/ Conclude
  <2>1. HasChosen
    BY <1>6 DEF LookBefore, Preflighting, Compare, Send, Observe, Conclude, OrderInv, PhaseInv,
                HasChosen
  <2>2. /\ UNCHANGED <<targets, candidates>>
        /\ failure' = failure \/ failure' \in {"absent", "unavailable", "member", "withdrawn", "none"}
    BY <1>6 DEF LookBefore, Compare, Send, Observe, Conclude, Refuse, Answer, Goto
  <2> QED BY <1>1, <2>1, <2>2, SelectionStays
<1> QED BY <1>2, <1>3, <1>4, <1>5, <1>6 DEF CallStep

LEMMA HomeSelects ==
  ASSUME OrderInv, OrderInv', WitnessTypes, WitnessTypes', CallWitness, SelectionExact,
         UNCHANGED callVars
  PROVE  SelectionExact'
<1>1. /\ UNCHANGED <<ask, targets, candidates>> /\ failure' = failure
      /\ HasChosen' = HasChosen
  BY DEF callVars, HasChosen
<1> QED BY <1>1, SelectionStays

-----------------------------------------------------------------------------
\* The inductive invariant: what each step comes after, what was true of the
\* home so far, and what the lists, the looks and the observations say of it.
CallInv ==
  OrderInv /\ WitnessTypes /\ LookInv /\ SeenInv /\ ReadInv /\ SelectionExact /\ EffectHonest

LEMMA CallInvInit == CallStart => CallInv
<1> SUFFICES ASSUME CallStart
             PROVE  CallInv
  OBVIOUS
<1>1. PICK asked \in Asks, start \in {"rest", "begin"} : CallInit(start, asked)
  BY DEF CallStart
<1>2. HomeTypeOK /\ changes = 0
  BY DEF CallStart
<1>3. /\ step \in {"rest", "begin"} /\ ask = asked /\ entries = Projected /\ devices = deviceArea
      /\ targets = <<>> /\ candidates = {} /\ grouped = <<>> /\ observations = <<>>
      /\ outcome = "none" /\ failure = "none"
      /\ ever = {} /\ always = {} /\ moved = 0 /\ regrouped = FALSE
      /\ shown = [e \in Entities |-> {}]
  BY <1>1 DEF CallInit
<1>4. DOMAIN grouped = {} /\ Len(targets) = 0 /\ Range(targets) = {}
  BY <1>3 DEF Range
<1>5. StateTypes
  BY <1>2, <1>3, <1>4, CallAssumption, ProjectedTypes DEF HomeTypeOK, StateTypes, CallSteps, Outcomes, Failures
<1>6. PhaseInv
  BY <1>3, <1>4 DEF PhaseInv
<1>7. WitnessTypes
  <2>1. shown \in [Entities -> SUBSET (Looks \cup {Absent})]
    BY <1>3, Zenon
  <2>2. moved \in Nat /\ moved <= changes
    BY <1>2, <1>3
  <2> QED BY <1>3, <2>1, <2>2 DEF WitnessTypes
<1>8. LookInv /\ SeenInv /\ ReadInv
  BY <1>3 DEF LookInv, SeenInv, Accepted, ReadInv, Reading
<1>9. SelectionExact /\ EffectHonest
  BY <1>3, <1>4 DEF SelectionExact, EffectHonest
<1> QED BY <1>2, <1>5, <1>6, <1>7, <1>8, <1>9 DEF CallInv, OrderInv

LEMMA CallInvNext == CallInv /\ [CallNext]_<<homeVars, callVars, callHistory>> => CallInv'
<1> SUFFICES ASSUME CallInv, [CallNext]_<<homeVars, callVars, callHistory>>
             PROVE  CallInv'
  OBVIOUS
<1>1. OrderInv /\ WitnessTypes /\ LookInv /\ SeenInv /\ ReadInv /\ SelectionExact /\ EffectHonest
  BY DEF CallInv
<1>2. CASE CallStep /\ CallWitness
  <2>1. OrderInv'
    BY <1>1, <1>2, CallOrders
  <2>2. WitnessTypes'
    <3>1. HomeTypeOK' /\ UNCHANGED <<registry, deviceArea, areaNamed, changes, ask>>
      BY <1>1, <1>2, CallTouches
    <3> QED BY <1>1, <1>2, <3>1, WitnessStays
  <2>3. LookInv' /\ SeenInv' /\ ReadInv' /\ EffectHonest'
    BY <1>1, <1>2, CallLooks, CallSees, CallReads, CallHonest
  <2>4. SelectionExact'
    BY <1>1, <1>2, <2>1, <2>2, CallSelects
  <2> QED BY <2>1, <2>2, <2>3, <2>4 DEF CallInv
<1>3. CASE HomeStep /\ UNCHANGED callVars /\ CallWitness
  <2>1. HomeTypeOK' /\ changes' = changes + 1
    BY <1>1, <1>3, HomeStays DEF OrderInv
  <2>2. OrderInv'
    BY <1>1, <1>3, <2>1, HomeOrders
  <2>3. WitnessTypes'
    <3>1. ask' = ask
      BY <1>3 DEF callVars
    <3> QED BY <1>1, <1>3, <2>1, <3>1, WitnessStays
  <2>4. LookInv' /\ SeenInv' /\ ReadInv' /\ EffectHonest'
    BY <1>1, <1>3, HomeLooks, HomeSees, HomeReads, HomeHonest
  <2>5. SelectionExact'
    BY <1>1, <1>3, <2>2, <2>3, HomeSelects
  <2> QED BY <2>2, <2>3, <2>4, <2>5 DEF CallInv
<1>4. CASE UNCHANGED <<homeVars, callVars, callHistory>>
  <2>1. OrderInv'
    BY <1>1, <1>4 DEF OrderInv, HomeTypeOK, StateTypes, PhaseInv, Direct, homeVars, callVars
  <2>2. WitnessTypes'
    BY <1>1, <1>4 DEF WitnessTypes, homeVars, callHistory
  <2>3. LookInv'
    BY <1>1, <1>4 DEF LookInv, LookedAt, ReachedTwice, Direct, homeVars, callVars, callHistory
  <2>4. SeenInv'
    BY <1>1, <1>4 DEF SeenInv, Accepted, ShownAs, StatusOf, homeVars, callVars, callHistory
  <2>5. ReadInv'
    BY <1>1, <1>4 DEF ReadInv, Reading, ReadsRegistry, Witnessed, MeantBy, Selected, Means,
                      AreaOf, Sought, Projected, homeVars, callVars, callHistory
  <2>6. SelectionExact'
    BY <1>1, <1>4 DEF SelectionExact, ReadsRegistry, Direct, Suited, Compatible,
                      callVars, callHistory
  <2>7. EffectHonest'
    BY <1>1, <1>4 DEF EffectHonest, Fulfils, Contradicts, Direct, callVars, callHistory
  <2> QED BY <2>1, <2>2, <2>3, <2>4, <2>5, <2>6, <2>7 DEF CallInv
<1> QED BY <1>2, <1>3, <1>4 DEF CallNext

\* The inductive invariant holds of one call in any home.
THEOREM CallSound == CallSpec => []CallInv
BY CallInvInit, CallInvNext, PTL DEF CallSpec

\* What is chosen is what the selector means, disabled or not, as live.py reads
\* the registries one list after the other and control.py selects from them
\* while the home moves; and after the look at every target the service does not
\* run on a plain one again as a member of another, nor a second time on
\* anything without a warning.
THEOREM TargetsAreSound == CallSpec => []TargetsSound
<1>1. CallInv => TargetsSound
  BY LooksReachOnce DEF CallInv, TargetsSound
<1> QED BY <1>1, CallSound, PTL

\* _observe and the effect that invoke concludes from it claim of each target
\* only what it has shown since the request was accepted.
THEOREM EffectIsHonest == CallSpec => []EffectHonest
<1>1. CallInv => EffectHonest
  BY DEF CallInv
<1> QED BY <1>1, CallSound, PTL

\* Types of a call, and the bounds of what it keeps: no more targets than
\* allowed, no more observations than targets.
THEOREM CallTypes == CallSpec => [](HomeTypeOK /\ CallTypeOK)
<1>1. ASSUME CallInv
      PROVE  HomeTypeOK /\ CallTypeOK
  <2>1. HomeTypeOK /\ StateTypes /\ WitnessTypes
    BY <1>1 DEF CallInv, OrderInv
  <2>2. Range(targets) \subseteq Entities /\ Range(observations) \subseteq Statuses
    <3>1. targets \in Seq(Entities) /\ observations \in Seq(Statuses)
      BY <2>1 DEF StateTypes
    <3> QED BY <3>1, LenProperties, ElementOfSeq DEF Range
  <2>3. moved \in 0..MaxChanges
    <3>1. moved \in Nat /\ moved <= changes /\ changes \in 0..MaxChanges
      BY <2>1 DEF WitnessTypes, HomeTypeOK
    <3> QED BY <3>1, HomeAssumption
  <2> QED BY <2>1, <2>2, <2>3 DEF CallTypeOK, StateTypes, WitnessTypes, CallSteps, Outcomes
<1> QED BY <1>1, CallSound, PTL
=============================================================================
