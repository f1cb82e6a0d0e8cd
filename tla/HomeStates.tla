----------------------------- MODULE HomeStates -----------------------------
(***************************************************************************)
(* Home Assistant as the read-only requests of live.py find it: the states *)
(* of its entities, who is a member of which group, and the registries of  *)
(* entities, devices and areas. The owner and the house change all of it   *)
(* at any time, and one request sees one instant.                          *)
(*                                                                         *)
(* Names, labels, devices and areas are looked at from the point of view   *)
(* of one selector: an entity carries the wanted name or label or it does  *)
(* not, there is one device, and an area is the wanted one or another.     *)
(***************************************************************************)
EXTENDS Naturals, Sequences, FiniteSets

CONSTANTS
  Entities,
  Looks,      \* the looks an entity that exists can have, see AnyLook
  Groups,     \* entities whose attribute entity_id is a list of members
  Domain,     \* per entity: "own", the domain of the service asked for,
              \* "group", or "other"
  Rank,       \* per entity, the place of its id among all ids
  MaxChanges  \* bound: how often the home changes during one call

\* The state, "secret" for one shaped like a credential, and an attribute
\* that services can set, as it was asked for or not.
AnyLook == [state : {"on", "off", "unknown", "secret"},
            shade : {"missing", "asked", "other"}]
Absent  == [state |-> "absent", shade |-> "missing"]

Areas   == {"in", "out", "none"}
Entries == [listed : BOOLEAN, disabled : BOOLEAN, tagged : BOOLEAN, area : Areas,
            device : BOOLEAN]

\* The elements of S, one after the other, in any order.
Listed(S) == {f \in [1..Cardinality(S) -> S] : {f[i] : i \in DOMAIN f} = S}

\* And in the order of their ids.
Sorted(S) == {f \in Listed(S) : \A i, j \in DOMAIN f : i < j => Rank[f[i]] < Rank[f[j]]}

ASSUME HomeAssumption ==
  /\ Looks \subseteq AnyLook
  /\ Groups \subseteq Entities
  /\ Domain \in [Entities -> {"own", "group", "other"}]
  /\ IsFiniteSet(Entities)
  /\ Rank \in [Entities -> Nat]
  /\ \A a, b \in Entities : Rank[a] = Rank[b] => a = b
  /\ MaxChanges \in Nat

VARIABLES
  home,        \* per entity, its look
  members,     \* per group, its members
  registry,    \* per entity: listed, disabled by somebody, tagged with the
               \* wanted name or label, its own area, and whether on the device
  deviceArea,  \* the area of the device
  areaNamed,   \* does the area have the wanted name?
  answering,   \* requests that were not answered yet can still be
  changes      \* how often anything of this changed

homeVars == <<home, members, registry, deviceArea, areaNamed, answering, changes>>

HomeTypeOK ==
  /\ home \in [Entities -> Looks \cup {Absent}]
  /\ members \in [Groups -> SUBSET Entities]
  /\ registry \in [Entities -> Entries]
  /\ deviceArea \in Areas
  /\ areaNamed \in BOOLEAN
  /\ answering \in BOOLEAN
  /\ changes \in 0..MaxChanges

-----------------------------------------------------------------------------
Counted == changes < MaxChanges /\ changes' = changes + 1

ChangeState ==
  /\ \E e \in Entities, look \in Looks \cup {Absent} :
       home' = [home EXCEPT ![e] = look]
  /\ UNCHANGED <<members, registry, deviceArea, areaNamed, answering>>
  /\ Counted

Regroup ==
  /\ \E g \in Groups, e \in Entities :
       members' = [members EXCEPT ![g] = (@ \ {e}) \cup ({e} \ @)]
  /\ UNCHANGED <<home, registry, deviceArea, areaNamed, answering>>
  /\ Counted

\* An entity is moved, renamed, labelled, registered or removed, disabled or
\* enabled.
ChangeEntry ==
  /\ \E e \in Entities :
       \/ \E area \in Areas : registry' = [registry EXCEPT ![e].area = area]
       \/ registry' = [registry EXCEPT ![e].tagged = ~@]
       \/ registry' = [registry EXCEPT ![e].listed = ~@]
       \/ registry' = [registry EXCEPT ![e].disabled = ~@]
  /\ UNCHANGED <<home, members, deviceArea, areaNamed, answering>>
  /\ Counted

MoveDevice ==
  /\ deviceArea' \in Areas \ {deviceArea}
  /\ UNCHANGED <<home, members, registry, areaNamed, answering>>
  /\ Counted

RenameArea ==
  /\ areaNamed' = ~areaNamed
  /\ UNCHANGED <<home, members, registry, deviceArea, answering>>
  /\ Counted

\* The connection hangs, or the home does.
FallSilent ==
  /\ answering
  /\ answering' = FALSE
  /\ UNCHANGED <<home, members, registry, deviceArea, areaNamed>>
  /\ Counted

RegistryChange == ChangeEntry \/ MoveDevice \/ RenameArea

\* The home goes its own way.
HomeStep == RegistryChange \/ ChangeState \/ Regroup \/ FallSilent
=============================================================================
