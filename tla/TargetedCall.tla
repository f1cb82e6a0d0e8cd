---------------------------- MODULE TargetedCall ----------------------------
(***************************************************************************)
(* What a control call concludes from Home Assistant: ControlRuntime's     *)
(* invoke, resolve, find and list_actions with the reads that              *)
(* ControlRuntime.tla leaves open. Targets are selected from registries    *)
(* that are read one list after the other, looked at one by one before the *)
(* request is sent, and looked at one by one after it was accepted, while  *)
(* the home changes.                                                       *)
(*                                                                         *)
(* Trust, journal and deadline are those of ControlRuntime.tla: here they  *)
(* are a refusal that can come at Begin and at Send. A read that comes too *)
(* late for the deadline of its call or phase has failed.                  *)
(***************************************************************************)
EXTENDS HomeStates, SequencesExt

CONSTANTS
  Inspected,   \* groups of the domains group, light and fan
  Script,      \* the entity of the script that a service names directly
  MaxTargets

ASSUME CallAssumption ==
  /\ Inspected \subseteq Groups
  /\ Script \in Entities
  /\ MaxTargets \in Nat

Jobs      == {"invoke", "resolve", "find", "list_actions"}
Services  == {"own", "scene", "homeassistant", "script", "excluded"}
Selectors == {"list", "name", "label", "device", "area", "area_name"}

\* What list_registry passes on of an entry: not whether it is disabled.
Projections == [listed : BOOLEAN, tagged : BOOLEAN, area : Areas, device : BOOLEAN]

Asks == [job : Jobs, service : Services, by : Selectors,
         list : BoundedSeq(Entities, MaxTargets + 1), expects : {"on", "any"},
         data : SUBSET {"shade", "opaque", "secret"}, dry : BOOLEAN]

Failures == {"none", "unconfigured", "inadmissible", "service", "registry",
             "invalid", "ambiguous", "empty", "many", "incompatible", "conflict",
             "absent", "unavailable", "member", "withdrawn"}

Statuses == {"withheld", "unverified", "unknown", "partial", "mismatched",
             "observed", "unavailable"}

VARIABLES
  step,          \* the access the call makes next
  ask,           \* what it was called with
  entries,       \* the projection of the entity registry as it was read
  devices,       \* the area of the device as it was read
  targets,       \* the resolved targets, in order; the matches of find
  candidates,    \* the entities named to the caller of an ambiguous name
  grouped,       \* the groups looked at before the request, and their members
  observations,  \* per target, the status of its readback
  outcome,       \* what the caller is told
  failure,       \* and why, if it was refused
  ever,          \* history: entities that the selector meant at some instant
  always,        \* of the reading of the registries, and at every instant
  moved,         \* history: how often the registries changed since it began
  regrouped,     \* history: did a group change since targets are looked at?
  shown          \* history: the looks of an entity since the request was accepted

callVars == <<step, ask, entries, devices, targets, candidates, grouped,
              observations, outcome, failure>>
callHistory == <<ever, always, moved, regrouped, shown>>

CallTypeOK ==
  /\ step \in {"rest", "begin", "catalog", "resolve", "devices", "areas", "again",
               "preflight", "send", "observe", "effect", "done"}
  /\ ask \in Asks
  /\ entries \in [Entities -> Projections]
  /\ devices \in Areas
  /\ Range(targets) \subseteq Entities /\ Len(targets) <= MaxTargets
  /\ candidates \subseteq Entities
  /\ \A g \in DOMAIN grouped : g \in Entities /\ grouped[g] \subseteq Entities
  /\ Range(observations) \subseteq Statuses /\ Len(observations) <= Len(targets)
  /\ outcome \in {"none", "ok", "failed", "dry_run", "not_dispatched",
                  "outcome_unknown", "observed", "unverified", "partial"}
  /\ failure \in Failures
  /\ ever \subseteq Entities /\ always \subseteq ever
  /\ moved \in 0..MaxChanges /\ regrouped \in BOOLEAN
  /\ shown \in [Entities -> SUBSET (Looks \cup {Absent})]
  /\ (step = "done") = (outcome # "none")

\* The projection keeps what a selector can name; disabled_by is dropped.
Projection(entry) ==
  [listed |-> entry.listed, tagged |-> entry.tagged, area |-> entry.area,
   device |-> entry.device]

Projected == [e \in Entities |-> Projection(registry[e])]

CallInit(start, asked) ==
  /\ step = start
  /\ ask = asked
  /\ entries = Projected /\ devices = deviceArea
  /\ targets = <<>> /\ candidates = {} /\ grouped = <<>> /\ observations = <<>>
  /\ outcome = "none" /\ failure = "none"
  /\ ever = {} /\ always = {} /\ moved = 0 /\ regrouped = FALSE
  /\ shown = [e \in Entities |-> {}]

Begun  == step \notin {"rest", "done"}
Direct == ask.service = "script"

-----------------------------------------------------------------------------
(* Moves of the call.                                                      *)

Goto(point) ==
  /\ step' = point
  /\ UNCHANGED <<ask, entries, devices, targets, candidates, grouped, observations,
                 outcome, failure>>

Answer(what, why) ==
  /\ step' = "done"
  /\ outcome' = what
  /\ failure' = why
  /\ UNCHANGED <<ask, entries, devices, targets, candidates, grouped, observations>>

\* _refuse for an invocation, a failed document for the read-only jobs.
Refuse(why) == Answer(IF ask.job = "invoke" THEN "not_dispatched" ELSE "failed", why)

-----------------------------------------------------------------------------
(* What is asked for, and the catalog of services.                         *)

ValidService == ask.service # "excluded"
ValidData    == "secret" \notin ask.data

\* Settings, keyring and trust are read in Begin, or the call ends there.
Begin ==
  /\ step = "begin"
  /\ \/ Refuse("unconfigured")
     \/ ask.job = "invoke" /\ ~(ValidService /\ ValidData) /\ Refuse("inadmissible")
     \/ ask.job = "invoke" /\ ValidService /\ ValidData /\ Goto("catalog")
     \/ ask.job = "list_actions" /\ Goto("catalog")
     \/ ask.job \in {"resolve", "find"} /\ Goto("resolve")
  /\ UNCHANGED homeVars

\* The service is not registered, needs a response, or nothing came back.
ReadCatalog ==
  /\ step = "catalog"
  /\ \/ Refuse("service")
     \/ answering /\ ask.job = "list_actions" /\ Answer("ok", "none")
     \/ answering /\ ask.job = "invoke" /\ Goto("resolve")
  /\ UNCHANGED homeVars

-----------------------------------------------------------------------------
(* The registries are four lists, asked for one after the other.           *)

ReadsRegistry == ask.job = "find" \/ ask.by # "list"

ReadEntities ==
  /\ step \in {"resolve", "again"}
  /\ ReadsRegistry
  /\ \/ /\ answering
        /\ entries' = Projected
        /\ step' = "devices"
        /\ UNCHANGED <<ask, devices, targets, candidates, grouped, observations,
                       outcome, failure>>
     \/ Refuse(IF failure = "none" THEN "registry" ELSE failure)
  /\ UNCHANGED homeVars

ReadDevices ==
  /\ step = "devices"
  /\ \/ /\ answering
        /\ devices' = deviceArea
        /\ step' = "areas"
        /\ UNCHANGED <<ask, entries, targets, candidates, grouped, observations,
                       outcome, failure>>
     \/ Refuse(IF failure = "none" THEN "registry" ELSE failure)
  /\ UNCHANGED homeVars

\* Mutant: the area of the device goes before the entity's own.
AreaOfDevice(entry, device) == IF entry.device THEN device ELSE entry.area

\* An entity without an area of its own is where its device is.
AreaOf(entry, device) ==
  IF entry.area = "none" /\ entry.device THEN device ELSE entry.area

\* find looks for names, whatever else it was called with.
Sought == IF ask.job = "find" THEN "name" ELSE ask.by

\* The filter of _registry: what carries disabled_by and a value is left out.
IsDisabled(entry) == "disabled" \in DOMAIN entry /\ entry.disabled

\* Does the selector find an entity of which this was read?
Means(entry, device, named) ==
  /\ entry.listed
  /\ ~IsDisabled(entry)
  /\ \/ Sought \in {"name", "label"} /\ entry.tagged
     \/ Sought = "device" /\ entry.device
     \/ Sought = "area" /\ AreaOf(entry, device) = "in"
     \/ Sought = "area_name" /\ AreaOf(entry, device) = "in" /\ named

\* The verdict of _resolve on what it was given or has found.
Refusal(found) ==
  IF ask.by = "list" /\ ~(Len(found) \in 1..MaxTargets /\ IsInjective(found)) THEN "invalid"
  ELSE IF ask.by = "name" /\ Len(found) > 1 THEN "ambiguous"
  ELSE IF Len(found) = 0                    THEN "empty"
  ELSE IF Len(found) > MaxTargets           THEN "many"
  ELSE "none"

Compatible(e) == Domain[e] \in {"own", "group"}

\* Areas, devices and labels are cut down to what the service is for.
Suited(e) ==
  \/ Direct \/ ask.by \in {"list", "name"} \/ ask.service = "homeassistant"
  \/ Compatible(e)

\* And that of _resolve_for_service on what is left of targets that _resolve
\* accepts.
Unsuited(suited) ==
  IF Direct /\ suited # <<Script>>                     THEN "conflict"
  ELSE IF Direct \/ ask.service = "homeassistant"      THEN "none"
  ELSE IF suited = <<>>                                THEN "empty"
  ELSE IF \E e \in Range(suited) : ~Compatible(e)      THEN "incompatible"
  ELSE "none"

\* invoke goes on, resolve answers; an ambiguous name is looked up again.
Settle(found, suited) ==
  LET why == IF Refusal(found) = "none" /\ ask.job = "invoke"
               THEN Unsuited(suited) ELSE Refusal(found)
  IN \/ /\ why = "none" /\ ask.job = "invoke"
        /\ targets' = suited
        /\ step' = "preflight"
        /\ UNCHANGED <<ask, entries, devices, candidates, grouped, observations,
                       outcome, failure>>
     \/ /\ why = "none" /\ ask.job = "resolve"
        /\ targets' = found
        /\ step' = "done" /\ outcome' = "ok"
        /\ UNCHANGED <<ask, entries, devices, candidates, grouped, observations, failure>>
     \/ /\ why = "ambiguous" /\ ask.job = "resolve"
        /\ step' = "again" /\ failure' = why
        /\ UNCHANGED <<ask, entries, devices, targets, candidates, grouped,
                       observations, outcome>>
     \/ /\ why # "none" /\ ~(why = "ambiguous" /\ ask.job = "resolve")
        /\ Refuse(why)

\* A direct script needs no target; anything else is taken as it was given.
TakeList ==
  /\ step = "resolve"
  /\ ~ReadsRegistry
  /\ LET given == IF Direct /\ ask.list = <<>> THEN <<Script>> ELSE ask.list
     IN Settle(given, given)
  /\ UNCHANGED homeVars

\* Mutant: matches are returned however many there are.
AllFound(found) == found

FirstFew(found) == SubSeq(found, 1, IF Len(found) < MaxTargets THEN Len(found) ELSE MaxTargets)

\* What the registries say that the selector means.
Selected == {e \in Entities : Means(entries[e], devices, areaNamed)}

\* The last lists, areas and labels, and the projection of all four. What is
\* returned to the caller keeps the order of the registry, targets are sorted.
ReadAreas ==
  /\ step = "areas"
  /\ \/ /\ answering
        /\ \E matches \in Listed(Selected), found \in Sorted(Selected),
              suited \in Sorted({e \in Selected : Suited(e)}) :
             \/ /\ ask.job = "find"
                /\ targets' = FirstFew(matches)
                /\ step' = "done" /\ outcome' = "ok"
                /\ UNCHANGED <<ask, entries, devices, candidates, grouped,
                               observations, failure>>
             \/ /\ ask.job # "find" /\ failure = "none"
                /\ Settle(found, suited)
             \/ /\ failure = "ambiguous"
                /\ candidates' = Range(FirstFew(matches))
                /\ step' = "done" /\ outcome' = "failed"
                /\ UNCHANGED <<ask, entries, devices, targets, grouped,
                               observations, failure>>
     \/ Refuse(IF failure = "none" THEN "registry" ELSE failure)
  /\ UNCHANGED homeVars

-----------------------------------------------------------------------------
(* The look at every target before the request.                            *)

Preflighting == step = "preflight" /\ ~Direct /\ Cardinality(DOMAIN grouped) < Len(targets)

NextTarget == targets[Cardinality(DOMAIN grouped) + 1]

\* A target is absent, present, or could not be read in time; the members of
\* a group are remembered.
LookBefore ==
  /\ Preflighting
  /\ LET t == NextTarget IN
       \/ /\ answering /\ home[t] # Absent
          /\ grouped' = [u \in DOMAIN grouped \cup {t} |->
               IF u # t THEN grouped[u] ELSE IF t \in Inspected THEN members[t] ELSE {}]
          /\ UNCHANGED <<step, ask, entries, devices, targets, candidates,
                         observations, outcome, failure>>
       \/ answering /\ home[t] = Absent /\ Refuse("absent")
       \/ Refuse("unavailable")
  /\ UNCHANGED homeVars

\* Mutant: a target is compared with the groups that were given before it.
ReachedEarlier ==
  \E i, j \in DOMAIN targets :
    i < j /\ targets[j] \notin Inspected /\ targets[j] \in grouped[targets[i]]

\* A target that is no group itself is reached through one as well.
ReachedTwice ==
  \E t \in Range(targets) \ Inspected : \E g \in DOMAIN grouped : t \in grouped[g]

\* Mutant: only the domain of the service is looked at.
WarnedByDomain == ask.service \in {"script", "scene"}

\* opaque_ha_side_fanout: the request may reach more than its targets, or one
\* of them twice. "own" stands for automation too, which has no groups.
FanOutWarned == ask.service \in {"script", "scene"} \/ Inspected \cap DOMAIN grouped # {}

Compare ==
  /\ step = "preflight" /\ ~Preflighting
  /\ \/ ~Direct /\ ReachedTwice /\ Refuse("member")
     \/ (Direct \/ ~ReachedTwice) /\ ask.dry /\ Answer("dry_run", "none")
     \/ (Direct \/ ~ReachedTwice) /\ ~ask.dry /\ Goto("send")
  /\ UNCHANGED homeVars

-----------------------------------------------------------------------------
(* The request, and the look at every target after it was accepted.        *)

\* Trust or time may be gone, the answer may be lost; in the end the service
\* may do anything to its targets, before the answer or later.
Send ==
  /\ step = "send"
  /\ \/ Refuse("withdrawn") /\ UNCHANGED homeVars
     \/ /\ Answer("outcome_unknown", "none")
        /\ UNCHANGED homeVars
     \/ /\ answering
        /\ home' \in [Entities -> Looks \cup {Absent}]
        /\ \A e \in Entities \ Range(targets) : home'[e] = home[e]
        /\ Goto(IF Direct THEN "effect" ELSE "observe")
        /\ UNCHANGED <<members, registry, deviceArea, areaNamed, answering, changes>>

\* What an observation says of the look it found, the first that applies.
StatusOf(look) ==
  IF look.state = "secret"                                     THEN "withheld"
  ELSE IF look.state = "unknown" /\ ask.service = "scene"       THEN "unverified"
  ELSE IF look.state = "unknown"                               THEN "unknown"
  ELSE IF ask.expects = "on" /\ look.state # "on"               THEN "partial"
  ELSE IF "opaque" \in ask.data                                THEN "unverified"
  ELSE IF "shade" \in ask.data /\ look.shade = "missing"       THEN "unverified"
  ELSE IF "shade" \in ask.data /\ look.shade = "other"         THEN "mismatched"
  ELSE "observed"

\* A target that cannot be read, or is gone, does not end the readback.
Observe ==
  /\ step = "observe"
  /\ LET t == targets[Len(observations) + 1] IN
       \E status \in {"unavailable"} \cup
           (IF answering /\ home[t] # Absent THEN {StatusOf(home[t])} ELSE {}) :
         observations' = Append(observations, status)
  /\ step' = IF Len(observations) + 1 = Len(targets) THEN "effect" ELSE "observe"
  /\ UNCHANGED <<ask, entries, devices, targets, candidates, grouped, outcome, failure>>
  /\ UNCHANGED homeVars

\* Mutant: one target that is as it should be speaks for all of them.
EffectOfAny ==
  LET seen == Range(observations) IN
    IF Direct \/ seen = {} THEN "unverified"
    ELSE IF "observed" \in seen THEN "observed"
    ELSE IF seen = {"unverified"} THEN "unverified" ELSE "partial"

Effect ==
  LET seen == Range(observations) IN
    IF Direct \/ seen = {} THEN "unverified"
    ELSE IF seen = {"observed"} THEN "observed"
    ELSE IF seen \subseteq {"observed", "unverified"} THEN "unverified" ELSE "partial"

Conclude ==
  /\ step = "effect"
  /\ Answer(Effect, "none")
  /\ UNCHANGED homeVars

-----------------------------------------------------------------------------
CallStep ==
  \/ Begin
  \/ ReadCatalog
  \/ ReadEntities
  \/ ReadDevices
  \/ ReadAreas
  \/ TakeList
  \/ LookBefore
  \/ Compare
  \/ Send
  \/ Observe
  \/ Conclude

\* The entities that the selector means at this instant, told from the home
\* itself and not from what was read of it. Disabled entities are among them:
\* their name, area, device and labels are in the registry, and that they are
\* disabled is what the code never learns, see DisabledLeftOut.
Meant ==
  LET placed == {e \in Entities : registry[e].area = "in"} \cup
                {e \in Entities : registry[e].area = "none" /\ registry[e].device
                                   /\ deviceArea = "in"}
      wanted == CASE Sought \in {"name", "label"} -> {e \in Entities : registry[e].tagged}
                  [] Sought = "device"    -> {e \in Entities : registry[e].device}
                  [] Sought = "area"      -> placed
                  [] Sought = "area_name" -> {e \in placed : areaNamed}
                  [] OTHER                -> {}
  IN {e \in wanted : registry[e].listed}

Reading == step \in {"resolve", "devices", "areas", "again"} /\ ReadsRegistry

Accepted == step \in {"observe", "effect"}

\* What was true of the home while the call was reading it.
CallWitness ==
  /\ ever'   = IF Reading' THEN ever \cup Meant' ELSE ever
  /\ always' = IF ~Reading' THEN always
                ELSE IF Reading THEN always \cap Meant' ELSE Meant'
  /\ moved'  = IF Reading /\ <<registry, deviceArea, areaNamed>>' # <<registry, deviceArea, areaNamed>>
                 THEN moved + 1 ELSE moved
  /\ regrouped' = (regrouped \/ members' # members)
  /\ shown' = IF Accepted' THEN [e \in Entities |-> shown[e] \cup {home'[e]}] ELSE shown

CallStart ==
  /\ HomeTypeOK /\ answering /\ changes = 0
  /\ \E asked \in Asks, start \in {"rest", "begin"} : CallInit(start, asked)

CallNext ==
  /\ CallStep \/ (HomeStep /\ UNCHANGED callVars)
  /\ CallWitness

\* One call, in any home.
CallSpec == CallStart /\ [][CallNext]_<<homeVars, callVars, callHistory>>

-----------------------------------------------------------------------------
\* The targets are those that the selector means, although it is looked up in
\* registries read one after the other while entities, devices and areas move:
\* none that it never meant, and, if no more than one move fell into the
\* reading, none missing that it meant all the time. "empty" and "ambiguous"
\* are just as true. live.py joins the four lists, control.py selects.
SelectionExact ==
  LET kept   == {e \in always : Suited(e)}
      chosen == \/ ask.job = "invoke" /\ step \in {"preflight", "send", "observe", "effect"}
                \/ outcome \in {"ok", "dry_run", "observed", "unverified", "partial"}
  IN ReadsRegistry /\ moved <= 1 =>
       /\ Range(targets) \cup candidates \subseteq ever
       /\ chosen /\ ask.job # "find" /\ ~Direct =>
            (IF ask.job = "invoke" THEN kept ELSE always) \subseteq Range(targets)
       /\ failure = "empty" => (IF ask.job = "invoke" THEN kept ELSE always) = {}
       /\ failure = "ambiguous" => Cardinality(ever) > 1

\* The entities that the service is run on because t is a target: itself, its
\* members, their members, and so on.
Reaches(t) ==
  {e \in Entities : \A S \in SUBSET Entities :
     t \in S /\ (\A g \in S \cap Inspected : members[g] \subseteq S) => e \in S}

\* As long as no group changed its members since the first look at one, a
\* service does not run on a plain target a second time because the target is a
\* member of another, in whatever order they were given; and if it runs twice
\* on anything all the same (two groups share a member, or one is in the
\* other), the caller is warned of the fan-out.
ReachedOnce ==
  step = "send" /\ ~Direct /\ ~regrouped =>
    \A s, t \in Range(targets) : s # t =>
      /\ s \in Inspected /\ t \notin Inspected => t \notin members[s]
      /\ Reaches(s) \cap Reaches(t) # {} => FanOutWarned

TargetsSound == SelectionExact /\ ReachedOnce

\* In a home that stands still no selector leads to a disabled entity: none is
\* a target, a match or a candidate. control.py:742 keeps an entry only if
\* `item.get("disabled_by") is None'.
DisabledLeftOut ==
  changes = 0 /\ ReadsRegistry =>
    \A e \in Range(targets) \cup candidates : ~registry[e].disabled

\* As the service was asked to make it, and not so.
Fulfils(look) ==
  /\ look.state \in (IF ask.expects = "on" THEN {"on"} ELSE {"on", "off"})
  /\ "shade" \in ask.data => look.shade = "asked"

Contradicts(look) ==
  \/ ask.expects = "on" /\ look.state \in {"off", "absent"}
  \/ "shade" \in ask.data /\ "opaque" \notin ask.data /\ look.shade = "other"
       /\ look.state \in {"on", "off"}

\* The reported effect is what the targets showed since the request was
\* accepted, each at its own instant: "observed" only if every one of them was
\* seen as it was asked for and nothing was asked that cannot be seen,
\* "unverified" only if no target was seen otherwise, "partial" only if one
\* was, or could not be read.
EffectHonest ==
  LET all == Range(targets) IN
    /\ outcome = "observed" =>
         /\ "opaque" \notin ask.data
         /\ \A t \in all : \E look \in shown[t] : Fulfils(look)
    /\ outcome = "unverified" /\ ~Direct =>
         \A t \in all : \E look \in shown[t] : ~Contradicts(look)
    /\ outcome = "partial" =>
         \/ "unavailable" \in Range(observations)
         \/ \E t \in all : \E look \in shown[t] : ~Fulfils(look)
=============================================================================
