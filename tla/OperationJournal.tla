-------------------------- MODULE OperationJournal --------------------------
(***************************************************************************)
(* operations.jsonl, the append-only journal shared by all processes of    *)
(* the owner: OperationJournal.record of control.py as the three accesses  *)
(* it makes to the file. Each record counts as one unit of size.           *)
(***************************************************************************)
EXTENDS Naturals, FiniteSets

CONSTANTS
  Ops,           \* operations, the writers of the journal
  JournalLimit,  \* the size up to which record() still opens the file
  TornTails      \* can the file end in the first part of a line? (a short
                 \* write on a full disk, or a power loss)

ASSUME JournalAssumption == JournalLimit \in Nat /\ TornTails \in BOOLEAN

Notes   == {"refused", "intent", "outcome_unknown", "effect"}
Records == Ops \X Notes

VARIABLES
  lines,    \* readable records in the file
  durable,  \* those that an fsync covered
  size,     \* st_size, in records
  torn      \* the file does not end in a newline

journalVars == <<lines, durable, size, torn>>

JournalTypeOK ==
  /\ lines \subseteq Records
  /\ durable \subseteq Records
  /\ size \in Nat
  /\ torn \in BOOLEAN

JournalInit == lines = {} /\ durable = {} /\ size = 0 /\ torn = FALSE

\* Mutant: the limit is not looked at.
JournalAlwaysOpen == TRUE

\* _check_private_path, which looks at the size before the append.
JournalOpen == size <= JournalLimit

\* One write() in O_APPEND mode; what it returns is not looked at. A record
\* behind a torn tail shares its line, and is as unreadable as the tail.
Append(record) ==
  /\ size' = size + 1
  /\ \/ /\ lines' = IF torn THEN lines ELSE lines \cup {record}
        /\ torn' = FALSE
     \/ /\ TornTails
        /\ torn' = TRUE
        /\ UNCHANGED lines
  /\ UNCHANGED durable

\* fsync covers what every process has written so far.
Sync == durable' = lines /\ UNCHANGED <<lines, size, torn>>

\* Power loss: of what no fsync covered, any part may be gone.
LoseUnsynced ==
  /\ \E lost \in SUBSET (lines \ durable) :
       lines' = lines \ lost
  /\ torn' \in {torn, TornTails}
  /\ size' \in 0..size
  /\ UNCHANGED durable
=============================================================================
