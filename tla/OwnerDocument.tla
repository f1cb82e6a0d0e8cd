---------------------------- MODULE OwnerDocument ----------------------------
(***************************************************************************)
(* How the owner's JSON documents are rewritten: a temporary file in the   *)
(* same directory, then os.replace. Three copies of this protocol differ   *)
(* in the temporary's name: save_settings of settings.py takes the process *)
(* identity, TrustStore._write of control.py and HouseholdProfile._write   *)
(* of household_profile.py add a uuid.                                     *)
(*                                                                         *)
(* A file is its inode, so that a writer goes on writing to what it opened *)
(* when the name is removed or taken by another. Every access is a step.   *)
(***************************************************************************)
EXTENDS Naturals, FiniteSets

CONSTANTS
  Writers,      \* threads and processes that write the document
  Saves,        \* how many times each of them saves it
  UniqueNames,  \* is a uuid part of the temporary's name? If not, all the
                \* Writers have the same process identity: threads of one
                \* process, or processes of different PID namespaces
  None

ASSUME DocumentAssumption ==
  /\ Saves \in Nat
  /\ UniqueNames \in BOOLEAN
  /\ None \notin Writers

\* A save, the file that it creates, and the name that it gives it.
SaveIds == Writers \X (1..Saves)
Old     == <<None, 0>>
Inodes  == SaveIds \cup {Old}

VARIABLES
  pc,       \* the access that a writer makes next
  attempt,  \* how many saves it has begun
  temps,    \* the temporary names in the directory, and their inodes
  path,     \* the inode of the document
  content,  \* per inode: "empty", "part" or "whole"
  stored,   \* history: the saves whose file has been the document
  succeeded \* history: the saves that reported success

docVars == <<pc, attempt, temps, path, content, stored, succeeded>>

DocTypeOK ==
  /\ pc \in [Writers -> {"idle", "create", "write", "finish", "replace", "chmod",
                         "tidy", "clean", "dead"}]
  /\ attempt \in [Writers -> 0..Saves]
  /\ temps \in [Inodes -> Inodes \cup {None}]
  /\ path \in Inodes
  /\ content \in [Inodes -> {"empty", "part", "whole"}]
  /\ stored \subseteq SaveIds
  /\ succeeded \subseteq SaveIds

DocInit ==
  /\ pc = [w \in Writers |-> "idle"]
  /\ attempt = [w \in Writers |-> 0]
  /\ temps = [n \in Inodes |-> None]
  /\ path = Old
  /\ content = [i \in Inodes |-> IF i = Old THEN "whole" ELSE "empty"]
  /\ stored = {} /\ succeeded = {}

-----------------------------------------------------------------------------
Current(w)  == <<w, attempt[w]>>
Goto(w, at) == pc' = [pc EXCEPT ![w] = at]

\* Mutant: the process identity has to do.
ProcessName(w) == Old

TempName(w) == IF UniqueNames THEN Current(w) ELSE Old

\* Mutant: one save too many.
BeginOften(w) ==
  /\ pc[w] = "idle"
  /\ attempt' = [attempt EXCEPT ![w] = @ + 1]
  /\ Goto(w, "create")
  /\ UNCHANGED <<temps, path, content, stored, succeeded>>

\* The document is validated and encoded, its directory prepared.
Begin(w) ==
  /\ pc[w] = "idle" /\ attempt[w] < Saves
  /\ attempt' = [attempt EXCEPT ![w] = @ + 1]
  /\ Goto(w, "create")
  /\ UNCHANGED <<temps, path, content, stored, succeeded>>

\* O_EXCL. Only save_settings cleans up after a name that was taken.
Create(w) ==
  /\ pc[w] = "create"
  /\ IF temps[TempName(w)] = None
       THEN temps' = [temps EXCEPT ![TempName(w)] = Current(w)] /\ Goto(w, "write")
       ELSE UNCHANGED temps /\ Goto(w, IF UniqueNames THEN "idle" ELSE "clean")
  /\ UNCHANGED <<attempt, path, content, stored, succeeded>>

\* Two of the writes that flush and fsync may take.
Write(w) ==
  /\ pc[w] = "write"
  /\ content' = [content EXCEPT ![Current(w)] = "part"]
  /\ Goto(w, "finish")
  /\ UNCHANGED <<attempt, temps, path, stored, succeeded>>

WriteRest(w) ==
  /\ pc[w] = "finish"
  /\ content' = [content EXCEPT ![Current(w)] = "whole"]
  /\ Goto(w, "replace")
  /\ UNCHANGED <<attempt, temps, path, stored, succeeded>>

\* A full disk. save_settings cleans up twice, in either except clause.
WriteFails(w) ==
  /\ pc[w] \in {"write", "finish"}
  /\ Goto(w, IF UniqueNames THEN "clean" ELSE "tidy")
  /\ UNCHANGED <<attempt, temps, path, content, stored, succeeded>>

\* Mutant: replaces before everything is written.
ReplaceEarly(w) ==
  /\ pc[w] \in {"finish", "replace"}
  /\ temps[TempName(w)] # None
  /\ path' = temps[TempName(w)]
  /\ temps' = [temps EXCEPT ![TempName(w)] = None]
  /\ stored' = stored \cup {temps[TempName(w)]}
  /\ Goto(w, "chmod")
  /\ UNCHANGED <<attempt, content, succeeded>>

\* os.replace, of whatever has the temporary's name by now.
Replace(w) ==
  /\ pc[w] = "replace"
  /\ LET file == temps[TempName(w)] IN
       IF file = None
         THEN Goto(w, "clean") /\ UNCHANGED <<temps, path, stored>>
         ELSE /\ path' = file
              /\ temps' = [temps EXCEPT ![TempName(w)] = None]
              /\ stored' = stored \cup {file}
              /\ Goto(w, "chmod")
  /\ UNCHANGED <<attempt, content, succeeded>>

\* save_settings returns; the others set the mode of the document first,
\* and report a failure when they cannot, though it has been replaced.
Finish(w) ==
  /\ pc[w] = "chmod"
  /\ \/ succeeded' = succeeded \cup {Current(w)} /\ Goto(w, "idle")
     \/ UniqueNames /\ UNCHANGED succeeded /\ Goto(w, "clean")
  /\ UNCHANGED <<attempt, temps, path, content, stored>>

\* Mutant: a failed write leaves its file behind.
CleanNothing(w) ==
  /\ pc[w] \in {"tidy", "clean"}
  /\ Goto(w, "idle")
  /\ UNCHANGED <<attempt, temps, path, content, stored, succeeded>>

\* unlink of the temporary's name; a failure is reported.
Clean(w) ==
  /\ pc[w] \in {"tidy", "clean"}
  /\ temps' = [temps EXCEPT ![TempName(w)] = None]
  /\ Goto(w, IF pc[w] = "tidy" THEN "clean" ELSE "idle")
  /\ UNCHANGED <<attempt, path, content, stored, succeeded>>

\* A kill leaves the temporary file, whatever is in it.
Kill(w) ==
  /\ pc[w] \notin {"idle", "dead"}
  /\ Goto(w, "dead")
  /\ UNCHANGED <<attempt, temps, path, content, stored, succeeded>>

Save(w) ==
  Begin(w) \/ Create(w) \/ Write(w) \/ WriteRest(w) \/ WriteFails(w)
    \/ Replace(w) \/ Finish(w) \/ Clean(w)

DocNext == \E w \in Writers : Save(w) \/ Kill(w)

DocSpec == DocInit /\ [][DocNext]_docVars

-----------------------------------------------------------------------------
(* Properties.                                                             *)

\* Whoever opens the document finds all of it, at every instant and after
\* every kill.
WholeDocument == content[path] = "whole"

\* A save that reported success was stored, and not only some other one.
SuccessIsStored == succeeded \subseteq stored

\* A file that is no longer being written is not left in the directory,
\* unless its writer was killed.
NoLitter ==
  \A n \in Inodes :
    temps[n] # None =>
      \E w \in Writers : TempName(w) = n /\ pc[w] # "idle"

=============================================================================
