--------------------------- MODULE MCHomeCommands ---------------------------
(***************************************************************************)
(* Instances of HomeCommands for TLC: a lamp of the service's own domain,  *)
(* a plug of another, a group, and a cluster, which is a group of the      *)
(* service's own domain, in a home with one device and one area of         *)
(* interest. Each command is given the inputs that it tells apart, and     *)
(* what it never reads has one value.                                      *)
(***************************************************************************)
EXTENDS HomeCommands

CONSTANTS homeOrigin, cabin, homeToken, homeToken2, cabinToken, lamp, plug, group,
          cluster

MCIssuer == [t \in Tokens |-> IF t = cabinToken THEN cabin ELSE homeOrigin]

MCDomain  == [e \in Entities |-> CASE e \in {lamp, cluster} -> "own" [] e = plug -> "other"
                                   [] OTHER -> "group"]
MCRank    == [e \in Entities |-> CASE e = group -> 1 [] e = lamp -> 2 [] e = plug -> 3
                                   [] OTHER -> 4]

Look(state, shade) == [state |-> state, shade |-> shade]
MCLooks == {Look("on", "asked"), Look("on", "other"), Look("on", "missing"),
            Look("off", "asked"), Look("unknown", "missing"), Look("secret", "missing")}

Usual == Look("on", "asked")

MCShade == [words |-> {"brightness"}, text |-> {}]
MCCode  == [words |-> {"code", "format", "codeformat"}, text |-> {"code"}]
Note    == [words |-> {"note"}, text |-> {"note"}]
Spinner == [words |-> {"spinner"}, text |-> {"pin"}]

-----------------------------------------------------------------------------
(* The connection of a call is a verdict, so nothing is configured.        *)

Unconfigured ==
  /\ settings = None /\ keyring = [o \in Origins |-> None] /\ trust = None
  /\ admin = [a \in Admins |-> AtRest] /\ revoked = FALSE

Entry(listed, tagged, area, device) ==
  [listed |-> listed, disabled |-> FALSE, tagged |-> tagged, area |-> area,
   device |-> device]

Plain == Entry(TRUE, FALSE, "none", FALSE)

StillHome ==
  /\ home = [e \in Entities |-> Usual]
  /\ members = [g \in Groups |-> {}]
  /\ registry = [e \in Entities |-> Plain]
  /\ deviceArea = "none" /\ areaNamed = TRUE

Asked(job, service, by, list, expects, data, dry) ==
  [job |-> job, service |-> service, by |-> by, list |-> list,
   expects |-> expects, data |-> data, dry |-> dry]

NoCall == Asked("find", "own", "list", <<>>, "any", {}, FALSE)

Request(op, ts, strays, fields, evidence, extra, answers, sound, model) ==
  [op |-> op, targets |-> ts, strays |-> strays, fields |-> fields,
   evidence |-> evidence, extra |-> extra, answers |-> answers, sound |-> sound, model |-> model]

NoAnalysis == Request("offline", <<>>, FALSE, <<>>, <<>>, {}, {}, TRUE, FALSE)

OwnerScene ==
  /\ awake = "owner" /\ LocalInit /\ StillHome
  /\ CallInit("rest", NoCall) /\ AnalysisInit("rest", NoAnalysis)

-----------------------------------------------------------------------------
(* Selection: every registry, a home that stands still. The lamp may be    *)
(* disabled, and then has no state.                                        *)

Registrations ==
  {Entry(FALSE, TRUE, "in", TRUE), Entry(TRUE, TRUE, "out", TRUE),
   Entry(TRUE, FALSE, "in", FALSE), Entry(TRUE, TRUE, "none", TRUE)}

DisabledLamp == [Entry(TRUE, TRUE, "in", TRUE) EXCEPT !.disabled = TRUE]

Registries ==
  {r \in [Entities -> Registrations \cup {DisabledLamp, Plain}] :
     /\ r[cluster] = Plain /\ Plain \notin {r[lamp], r[plug], r[group]}
     /\ DisabledLamp \notin {r[plug], r[group]}
     /\ r[lamp] = DisabledLamp => r[plug] = Entry(TRUE, TRUE, "out", TRUE)}

SelectionScene ==
  /\ awake = "call" /\ Unconfigured
  /\ registry \in Registries /\ registry[group].listed
  /\ home = [e \in Entities |-> IF registry[e].disabled THEN Absent ELSE Usual]
  /\ members = [g \in Groups |-> {}]
  /\ deviceArea \in {"in", "out"} /\ areaNamed \in BOOLEAN
  /\ \E job \in {"invoke", "resolve", "find"}, by \in {"name", "label", "device", "area", "area_name"},
        service \in {"own", "homeassistant", "script"} :
       /\ job = "find" => by = "name"
       /\ job # "invoke" => service = "own"
       /\ service # "own" => by \in {"name", "area"}
       /\ job = "resolve" => by \in {"name", "area_name"}
       /\ by # "area_name" => areaNamed
       /\ by \notin {"area", "area_name"} => deviceArea = "in"
       /\ CallInit("begin", Asked(job, service, by, <<>>, "any", {}, TRUE))
  /\ AnalysisInit("rest", NoAnalysis)

(* Effect: targets by name, every home, registries that stand still.       *)

Lists == {<<>>, <<lamp>>, <<plug>>, <<group>>, <<lamp, lamp>>, <<lamp, group>>,
          <<group, lamp>>, <<lamp, plug>>, <<group, lamp, plug>>,
          <<cluster, lamp>>, <<cluster, group>>}

EffectScene ==
  /\ awake = "call" /\ Unconfigured
  /\ registry = [e \in Entities |-> Plain] /\ deviceArea = "none" /\ areaNamed = TRUE
  /\ home \in [Entities -> {Usual, Absent}]
  /\ members \in [Groups -> (SUBSET {lamp, plug}) \cup {{group}}]
  /\ members[group] # {group}
  /\ \E job \in {"invoke", "resolve", "list_actions"},
        service \in {"own", "scene", "homeassistant", "script", "excluded"}, list \in Lists,
        wish \in {<<"on", {}>>, <<"any", {}>>, <<"on", {"shade"}>>,
                  <<"on", {"shade", "opaque"}>>, <<"any", {"secret"}>>},
        dry \in BOOLEAN :
       /\ (job # "invoke" \/ service \in {"excluded", "script"} \/ dry) => wish = <<"any", {}>>
       /\ job # "invoke" => service = "own" /\ ~dry
       /\ job = "list_actions" => list = <<>>
       /\ service = "scene" => list \in {<<lamp>>, <<group>>}
       /\ service = "homeassistant" =>
            (\E i \in DOMAIN list : list[i] = plug) /\ wish[2] = (IF dry THEN {} ELSE {"shade"})
       /\ list = <<lamp, group>> => wish[2] = {}
       /\ \A e \in Entities : (\A i \in DOMAIN list : list[i] # e) => home[e] = Usual
       /\ (\E g \in Groups : members[g] # {}) \/ (\E e \in Entities : home[e] = Absent) => wish = <<"any", {}>>
       /\ IF cluster \in {list[i] : i \in DOMAIN list}
            THEN /\ job = "invoke" /\ service = "own" /\ wish = <<"any", {}>> /\ ~dry
                 /\ home = [e \in Entities |-> Usual]
                 /\ members[group] = {lamp} /\ members[cluster] \in {{lamp}, {group}}
            ELSE /\ members[cluster] = {}
                 /\ group \notin {list[i] : i \in DOMAIN list} => members[group] = {}
       /\ CallInit("begin", Asked(job, service, "list", list, wish[1], wish[2], dry))
  /\ AnalysisInit("rest", NoAnalysis)

-----------------------------------------------------------------------------
(* Analyses.                                                               *)

InspectScene ==
  /\ awake = "analysis" /\ Unconfigured
  /\ home \in [Entities -> {Usual, Absent}]
  /\ home[group] = Usual /\ home[cluster] = Usual
  /\ members = [g \in Groups |-> {}]
  /\ registry = [e \in Entities |-> Plain] /\ deviceArea = "none" /\ areaNamed = TRUE
  /\ \E ts \in {<<>>, <<Invalid>>, <<lamp>>, <<lamp, lamp>>, <<Invalid, lamp>>,
                <<lamp, plug>>, <<lamp, plug, lamp>>},
        strays \in BOOLEAN, fields \in {<<>>, <<MCShade, MCCode>>}, sound \in BOOLEAN :
       /\ fields = <<>> \/ ~sound => ts \in {<<>>, <<lamp>>}
       /\ strays => fields = <<>> /\ sound
       /\ AnalysisInit("begin", Request("inspect", ts, strays, fields, <<>>, {}, {}, sound, FALSE))
  /\ CallInit("rest", NoCall)

DiscoverScene ==
  /\ awake = "analysis" /\ Unconfigured
  /\ home = [e \in Entities |-> Usual] /\ members = [g \in Groups |-> {}]
  /\ registry \in Registries \cup {[e \in Entities |-> Plain]}
  /\ deviceArea = "none" /\ areaNamed = TRUE
  /\ \E op \in {"check", "find"}, sound \in BOOLEAN :
       /\ op = "check" \/ ~sound => registry = [e \in Entities |-> Plain]
       /\ AnalysisInit("begin", Request(op, <<>>, FALSE, <<>>, <<>>, {}, {}, sound, FALSE))
  /\ CallInit("rest", NoCall)

Open == Leaf("open")
Single(k, doc) == Dict([x \in {k} |-> doc])

Nested == List(<<List(<<Single(Spinner, Open)>>), Single(Note, Single(MCCode, Open))>>)

\* Documents that are secret in a word, in a part of one, for this caller
\* only, below a list, below another secret, or not a document at all.
MCDocuments ==
  {Open, Foreign, Single(MCShade, Open), Single(MCCode, Open), Single(Spinner, Open),
   Single(Note, Open), Single(MCShade, List(<<Single(MCCode, Open), Open>>)),
   Single(MCCode, Single(Note, Open)), Single(MCShade, Single(MCCode, Foreign)), Nested}

EvidenceScene ==
  /\ awake = "analysis" /\ Unconfigured /\ StillHome
  /\ \E op \in {"offline", "interpret"}, extra \in {{}, {"note"}},
        first \in {<<>>} \cup {<<d>> : d \in Documents}, second \in {<<>>, <<Open>>, <<Nested>>},
        sound \in BOOLEAN, model \in BOOLEAN :
       /\ (first = <<>> \/ ~sound) => second = <<>>
       /\ op = "offline" => ~model
       /\ AnalysisInit("begin",
            Request(op, <<>>, FALSE, <<>>, first \o second, extra, Documents, sound, model))
  /\ CallInit("rest", NoCall)

-----------------------------------------------------------------------------
MCInit ==
  /\ answering = TRUE /\ changes = 0
  /\ \/ OwnerScene
     \/ SelectionScene
     \/ EffectScene
     \/ InspectScene
     \/ DiscoverScene
     \/ EvidenceScene

MCSpec == MCInit /\ [][CommandNext]_commandVars /\ CommandFairness
=============================================================================
