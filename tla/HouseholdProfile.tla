--------------------------- MODULE HouseholdProfile ---------------------------
(***************************************************************************)
(* HouseholdProfile of household_profile.py: aliases, facts, routines and  *)
(* the model choice are updated by reading the whole document, changing    *)
(* it, and writing it back as OwnerDocument does, with no lock between.    *)
(*                                                                         *)
(* A record is named by the save that set it, so that a document is the    *)
(* set of records it holds.                                                *)
(***************************************************************************)
EXTENDS OwnerDocument

ASSUME ProfileAssumption == None \notin SaveIds

VARIABLES
  read,       \* what a writer has read, and which saves had been stored then
  holds,      \* the records in each inode
  knew,       \* per save, what had been stored when its update read
  drops,      \* the record that a save leaves out or replaces
  overlapped  \* history: saves stored while another update, which has read
              \* before and was stored after, was under way

profileVars == <<docVars, read, holds, knew, drops, overlapped>>

Unread == [records |-> {}, stored |-> {}, at |-> "rest"]

ProfileTypeOK ==
  /\ DocTypeOK
  /\ read \in [Writers -> [records : SUBSET SaveIds, stored : SUBSET SaveIds,
                           at : {"rest", "read"}]]
  /\ holds \in [Inodes -> SUBSET SaveIds]
  /\ knew \in [SaveIds -> SUBSET SaveIds]
  /\ drops \in [SaveIds -> SaveIds \cup {None}]
  /\ overlapped \subseteq SaveIds
  /\ \A w \in Writers : read[w].at = "read" => pc[w] = "idle"

ProfileInit ==
  /\ DocInit
  /\ read = [w \in Writers |-> Unread]
  /\ holds = [i \in Inodes |-> {}]
  /\ knew = [s \in SaveIds |-> {}]
  /\ drops = [s \in SaveIds |-> None]
  /\ overlapped = {}

-----------------------------------------------------------------------------
\* Mutant: a profile that has written the document does not read it again.
ReadOnce(w) ==
  /\ pc[w] = "idle" /\ read[w].at = "rest" /\ attempt[w] < Saves
  /\ read' = [read EXCEPT ![w] =
                [records |-> IF Current(w) \in stored THEN holds[Current(w)] ELSE holds[path],
                 stored |-> stored, at |-> "read"]]
  /\ UNCHANGED <<docVars, holds, knew, drops, overlapped>>

\* Mutant: a document is read for the next update while one is written.
ReadAhead(w) ==
  /\ read[w].at = "rest" /\ attempt[w] < Saves
  /\ read' = [read EXCEPT ![w] = [records |-> holds[path], stored |-> stored,
                                  at |-> "read"]]
  /\ UNCHANGED <<docVars, holds, knew, drops, overlapped>>

\* _mutate: the document is read anew for every update.
ReadDocument(w) ==
  /\ pc[w] = "idle" /\ read[w].at = "rest" /\ attempt[w] < Saves
  /\ read' = [read EXCEPT ![w] = [records |-> holds[path], stored |-> stored,
                                  at |-> "read"]]
  /\ UNCHANGED <<docVars, holds, knew, drops, overlapped>>

\* The file is unsafe, too large or invalid, or what would be written is; or
\* the record to forget is not there, and nothing has to be written.
Abandon(w) ==
  /\ read[w].at = "read"
  /\ read' = [read EXCEPT ![w] = Unread]
  /\ UNCHANGED <<docVars, holds, knew, drops, overlapped>>

\* set_alias, set_fact, set_routine and configure_model set one record, which
\* may take the place of another; forget drops one. The rest of the document is
\* written as it was read.
Change(w) ==
  /\ read[w].at = "read"
  /\ Begin(w)
  /\ \E sets \in BOOLEAN, dropped \in read[w].records \cup {None} :
       LET save == <<w, attempt[w] + 1>>
           kept == read[w].records \ {dropped}
       IN /\ sets \/ dropped # None
          /\ holds' = [holds EXCEPT ![save] = IF sets THEN kept \cup {save} ELSE kept]
          /\ drops' = [drops EXCEPT ![save] = dropped]
          /\ knew'  = [knew EXCEPT ![save] = read[w].stored]
  /\ read' = [read EXCEPT ![w] = Unread]
  /\ UNCHANGED overlapped

\* _write, whose last access decides which updates this one has overtaken.
Store(w) ==
  /\ Create(w) \/ Write(w) \/ WriteRest(w) \/ WriteFails(w)
       \/ Replace(w) \/ Finish(w) \/ Clean(w)
  /\ overlapped' = IF path' = path THEN overlapped
                                   ELSE overlapped \cup (stored \ knew[path'])
  /\ UNCHANGED <<read, holds, knew, drops>>

\* A killed process forgets what it has read.
Stop(w) ==
  /\ Kill(w)
  /\ UNCHANGED <<read, holds, knew, drops, overlapped>>

ProfileNext ==
  \E w \in Writers : ReadDocument(w) \/ Abandon(w) \/ Change(w) \/ Store(w) \/ Stop(w)

ProfileSpec == ProfileInit /\ [][ProfileNext]_profileVars

-----------------------------------------------------------------------------
\* A stored update stays in force: the record it set is in the document until
\* a stored update drops it, and the record it dropped stays away, unless an
\* update that had read before it was stored was stored after it. Updates that
\* follow one another never undo one another, whatever fails or is killed.
\* _mutate of household_profile.py reads and writes without a lock.
UpdatesCompose ==
  \A s \in stored \ overlapped :
    /\ s \in holds[s] => s \in holds[path] \/ \E f \in stored : drops[f] = s
    /\ drops[s] = None \/ drops[s] \notin holds[path]
=============================================================================
