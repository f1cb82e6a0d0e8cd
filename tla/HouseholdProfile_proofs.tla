----------------------- MODULE HouseholdProfile_proofs -----------------------
(***************************************************************************)
(* Proofs about OwnerDocument, which are for any number of writers and of  *)
(* saves, and about HouseholdProfile, which writes such a document.        *)
(***************************************************************************)
EXTENDS HouseholdProfile, TLAPS

USE DEF SaveIds, Old, Inodes, Current, TempName

-----------------------------------------------------------------------------
(* The document. The invariant says where each file is: under the name of  *)
(* the save that created it while that save is under way, then the         *)
(* document, and never anywhere else.                                      *)

Begun(w) == pc[w] # "idle" => attempt[w] \in 1..Saves

\* A file has a name only while its save is under way, and its own name.
Named == \A n \in Inodes :
  temps[n] # None =>
    /\ temps[n] = n /\ n # Old
    /\ \E w \in Writers : Current(w) = n /\ pc[w] \notin {"idle", "create", "chmod"}

\* What has been stored is whole, and will not be written again.
Settled ==
  /\ path \in stored \cup {Old}
  /\ content[Old] = "whole"
  /\ \A s \in stored : content[s] = "whole" /\ s[2] <= attempt[s[1]]
  /\ \A w \in Writers :
       /\ pc[w] \in {"create", "write", "finish"} => Current(w) \notin stored
       /\ pc[w] = "replace" => content[Current(w)] = "whole"
       /\ pc[w] = "chmod" => Current(w) \in stored

DocInv ==
  /\ DocTypeOK
  /\ \A w \in Writers : Begun(w)
  /\ Named
  /\ Settled
  /\ SuccessIsStored

-----------------------------------------------------------------------------
\* The directory begins with a whole document and without temporary files.
LEMMA DocInitInv == DocInit => DocInv
BY DocumentAssumption, SMTT(30)
   DEF DocInit, DocInv, DocTypeOK, Begun, Named, Settled, SuccessIsStored

\* Each access of a save preserves the invariant.
LEMMA SaveInv ==
  ASSUME UniqueNames = TRUE, DocInv, NEW v \in Writers, Save(v) \/ Kill(v)
  PROVE  DocInv'
<1> USE DocumentAssumption DEF DocInv
<1>0. pc[v] # "idle" => Current(v) \in SaveIds /\ Current(v) # Old
  BY SMT DEF DocTypeOK, Begun
<1>1. DocTypeOK'
  <2>1. ASSUME Begin(v) PROVE DocTypeOK'
    BY <2>1 DEF DocTypeOK, Begin, Goto
  <2>2. ASSUME Create(v) PROVE DocTypeOK'
    BY <2>2, <1>0 DEF DocTypeOK, Create, Goto
  <2>3. ASSUME Write(v) \/ WriteRest(v) \/ WriteFails(v) \/ Kill(v) PROVE DocTypeOK'
    BY <2>3 DEF DocTypeOK, Write, WriteRest, WriteFails, Kill, Goto
  <2>4. ASSUME Replace(v), temps[Current(v)] = None PROVE DocTypeOK'
    BY <2>4 DEF DocTypeOK, Replace, Goto
  <2>5. ASSUME Replace(v), temps[Current(v)] # None PROVE DocTypeOK'
    <3>1. temps[Current(v)] = Current(v)
      BY <2>5, <1>0 DEF Named, Replace
    <3> QED BY <2>5, <3>1, <1>0 DEF DocTypeOK, Replace, Goto
  <2>6. ASSUME Finish(v) PROVE DocTypeOK'
    BY <2>6, <1>0 DEF DocTypeOK, Finish, Goto
  <2>7. ASSUME Clean(v) PROVE DocTypeOK'
    BY <2>7 DEF DocTypeOK, Clean, Goto
  <2> QED BY <2>1, <2>2, <2>3, <2>4, <2>5, <2>6, <2>7 DEF Save
<1>2. \A w \in Writers : Begun(w)'
  BY SMTT(30) DEF DocTypeOK, Save, Kill, Begin, Create, Write, WriteRest, WriteFails,
     Replace, Finish, Clean, Goto, Begun
<1>3. ASSUME Begin(v) PROVE Named' /\ Settled' /\ SuccessIsStored'
  BY <1>3, <1>1, SMTT(30) DEF Begin, Goto, DocTypeOK, Begun, Named, Settled, SuccessIsStored
<1>4. ASSUME Create(v) PROVE Named' /\ Settled' /\ SuccessIsStored'
  <2> USE <1>4 DEF Create, Goto, DocTypeOK
  <2>1. Named'
    <3> SUFFICES ASSUME NEW n \in Inodes, temps'[n] # None
                 PROVE  /\ temps'[n] = n /\ n # Old
                        /\ \E w \in Writers : Current(w)' = n /\ pc'[w] \notin {"idle", "create", "chmod"}
      BY DEF Named
    <3>1. CASE n = Current(v) /\ temps[n] = None
      BY <3>1, <1>0
    <3>2. CASE temps[n] # None
      BY <3>2 DEF Named
    <3> QED BY <3>1, <3>2
  <2>2. Settled' /\ SuccessIsStored'
    BY DEF Settled, SuccessIsStored
  <2> QED BY <2>1, <2>2
<1>5. ASSUME Write(v) \/ WriteRest(v) PROVE Named' /\ Settled' /\ SuccessIsStored'
  BY <1>5, <1>1, SMTT(30)
     DEF Write, WriteRest, Goto, DocTypeOK, Begun, Named, Settled, SuccessIsStored
<1>6. ASSUME WriteFails(v) \/ Kill(v) PROVE Named' /\ Settled' /\ SuccessIsStored'
  BY <1>6, <1>1, SMTT(30)
     DEF WriteFails, Kill, Goto, DocTypeOK, Begun, Named, Settled, SuccessIsStored
<1>7. ASSUME Replace(v) PROVE Named' /\ Settled' /\ SuccessIsStored'
  BY <1>7, <1>1, SMTT(30) DEF Replace, Goto, DocTypeOK, Begun, Named, Settled, SuccessIsStored
<1>8. ASSUME Finish(v) PROVE Named' /\ Settled' /\ SuccessIsStored'
  BY <1>8, <1>1, SMTT(30) DEF Finish, Goto, DocTypeOK, Begun, Named, Settled, SuccessIsStored
<1>9. ASSUME Clean(v) PROVE Named' /\ Settled' /\ SuccessIsStored'
  BY <1>9, <1>1, SMTT(30) DEF Clean, Goto, DocTypeOK, Begun, Named, Settled, SuccessIsStored
<1> QED BY <1>1, <1>2, <1>3, <1>4, <1>5, <1>6, <1>7, <1>8, <1>9 DEF Save

\* With a name for each save, every file is where its save has brought it.
THEOREM DocInvariance ==
  ASSUME UniqueNames = TRUE
  PROVE  DocSpec => []DocInv
<1>1. DocInv /\ [DocNext]_docVars => DocInv'
  <2> SUFFICES ASSUME DocInv, [DocNext]_docVars PROVE DocInv'
    OBVIOUS
  <2>1. CASE DocNext
    BY <2>1, SaveInv DEF DocNext
  <2>2. CASE UNCHANGED docVars
    BY <2>2 DEF docVars, DocInv, DocTypeOK, Begun, Named, Settled, SuccessIsStored
  <2> QED BY <2>1, <2>2
<1> QED BY <1>1, DocInitInv, PTL DEF DocSpec

\* With a name for each save, whoever opens the trust file or the profile
\* finds all of it, however many threads and processes write it and
\* wherever they are killed.
THEOREM DocumentStaysWhole ==
  ASSUME UniqueNames = TRUE
  PROVE  DocSpec => []WholeDocument
<1>1. DocInv => WholeDocument
  BY DEF DocInv, Settled, WholeDocument
<1> QED BY <1>1, DocInvariance, PTL

\* And a save that reports success has been the document.
THEOREM SuccessIsTrue ==
  ASSUME UniqueNames = TRUE
  PROVE  DocSpec => []SuccessIsStored
<1>1. DocInv => SuccessIsStored
  BY DEF DocInv
<1> QED BY <1>1, DocInvariance, PTL

\* And no temporary file outlives its save, but for that of a killed one.
THEOREM DirectoryStaysClean ==
  ASSUME UniqueNames = TRUE
  PROVE  DocSpec => []NoLitter
<1>1. DocInv => NoLitter
  BY DEF DocInv, Named, NoLitter
<1> QED BY <1>1, DocInvariance, PTL

-----------------------------------------------------------------------------
(* That updates of the profile compose. What an update writes is fixed     *)
(* when it begins, so the invariant says it of every update that has       *)
(* begun: it keeps what it had read, and what it had read was right about  *)
(* all updates stored by then.                                             *)

\* The records are right about the updates `known': each is in force in them,
\* or a stored update dropped what it set, or is about to drop it.
Right(known, records, dropping) ==
  \A s \in known \ overlapped :
    /\ s \in holds[s] =>
         s \in records \/ s = dropping \/ \E f \in stored : drops[f] = s
    /\ drops[s] = None \/ drops[s] \notin records

HasBegun(s) == s \in SaveIds /\ s[2] <= attempt[s[1]]

ReadInv ==
  \A w \in Writers :
    /\ read[w].records \subseteq stored
    /\ read[w].stored \subseteq stored
    /\ Right(read[w].stored, read[w].records, None)

SaveKnows ==
  \A s \in SaveIds : HasBegun(s) =>
    /\ holds[s] \subseteq stored \cup {s}
    /\ knew[s] \subseteq stored
    /\ drops[s] \in stored \cup {None}
    /\ drops[s] = None \/ drops[s] \notin holds[s]
    /\ Right(knew[s], holds[s], drops[s])

ProfileInv ==
  /\ ProfileTypeOK
  /\ holds[Old] = {}
  /\ ReadInv
  /\ SaveKnows
  /\ Right(stored, holds[path], None)

-----------------------------------------------------------------------------
\* Every step of the profile is a step of its document, or none.
LEMMA StepIsDocument ==
  ASSUME [ProfileNext]_profileVars
  PROVE  [DocNext]_docVars
BY DEF ProfileNext, ReadDocument, Abandon, Change, Store, Stop, Save, DocNext, profileVars

\* So the profile is a document like the others, to all of whose promises it
\* is held.
THEOREM ProfileIsDocument == ProfileSpec => DocSpec
<1>1. ProfileInit => DocInit
  BY DEF ProfileInit
<1> QED BY <1>1, StepIsDocument, PTL DEF ProfileSpec, DocSpec

\* Nothing is stored, read or dropped at first.
LEMMA ProfileInitInv == ProfileInit => ProfileInv
<1> SUFFICES ASSUME ProfileInit PROVE ProfileInv
  OBVIOUS
<1>1. DocTypeOK
  BY DocInitInv DEF ProfileInit, DocInv
<1>2. ProfileTypeOK
  BY <1>1 DEF ProfileInit, ProfileTypeOK, Unread
<1>3. SaveKnows
  <2> SUFFICES ASSUME NEW s \in SaveIds
               PROVE  /\ holds[s] = {} /\ knew[s] = {} /\ drops[s] = None
                      /\ Right({}, {}, None)
    BY DEF SaveKnows
  <2> QED BY DEF ProfileInit, Right
<1>4. ReadInv /\ holds[Old] = {} /\ Right(stored, holds[path], None)
  <2>1. \A w \in Writers : read[w].records = {} /\ read[w].stored = {}
    BY DEF ProfileInit, Unread
  <2>2. stored = {} /\ holds[Old] = {}
    BY DEF ProfileInit, DocInit
  <2> QED BY <2>1, <2>2 DEF ReadInv, Right
<1> QED BY <1>2, <1>3, <1>4 DEF ProfileInv

-----------------------------------------------------------------------------
\* What is right stays right while updates are stored and overtaken and while
\* nothing that has been stored is rewritten.
LEMMA RightStays ==
  ASSUME NEW K, NEW R, NEW d, Right(K, R, d),
         overlapped \subseteq overlapped', stored \subseteq stored',
         \A s \in K : holds'[s] = holds[s] /\ drops'[s] = drops[s],
         \A s \in stored : drops'[s] = drops[s]
  PROVE  \A s \in K \ overlapped' :
           /\ s \in holds'[s] => s \in R \/ s = d \/ \E f \in stored' : drops'[f] = s
           /\ drops'[s] = None \/ drops'[s] \notin R
<1> SUFFICES ASSUME NEW s \in K \ overlapped'
             PROVE  /\ s \in holds'[s] => s \in R \/ s = d \/ \E f \in stored' : drops'[f] = s
                    /\ drops'[s] = None \/ drops'[s] \notin R
  OBVIOUS
<1>1. /\ s \in holds[s] => s \in R \/ s = d \/ \E f \in stored : drops[f] = s
      /\ drops[s] = None \/ drops[s] \notin R
  BY DEF Right
<1> QED BY <1>1

\* The document holds records of stored updates only.
LEMMA PathRecords ==
  ASSUME DocInv, ProfileInv
  PROVE  path \in Inodes /\ holds[path] \subseteq stored
<1>1. path = Old \/ (path \in stored /\ HasBegun(path))
  BY DEF DocInv, Settled, HasBegun, DocTypeOK
<1> QED BY <1>1 DEF ProfileInv, SaveKnows, DocInv, DocTypeOK

\* Whatever an access of a save does to the document, it does nothing, or it
\* puts the file of its own save in its place.
LEMMA StoreReplaces ==
  ASSUME UniqueNames = TRUE, DocInv, ProfileInv, NEW w \in Writers, Store(w)
  PROVE  /\ UNCHANGED <<attempt, holds, knew, drops, read>>
         /\ pc[w] # "idle" /\ \A v \in Writers \ {w} : pc'[v] = pc[v]
         /\ \/ UNCHANGED <<path, stored, overlapped>>
            \/ \E n \in SaveIds :
                 /\ HasBegun(n) /\ path' = n /\ stored' = stored \cup {n}
                 /\ overlapped' = overlapped \cup (stored \ knew[n])
<1>1. pc \in [Writers -> {"idle", "create", "write", "finish", "replace", "chmod",
                          "tidy", "clean", "dead"}]
  BY DEF DocInv, DocTypeOK
<1>2. CASE Create(w)
  BY <1>1, <1>2 DEF Create, Store, Goto
<1>3. CASE Write(w) \/ WriteRest(w) \/ WriteFails(w) \/ Finish(w) \/ Clean(w)
  BY <1>1, <1>3 DEF Write, WriteRest, WriteFails, Finish, Clean, Store, Goto
<1>4. CASE Replace(w)
  <2>1. /\ attempt' = attempt /\ holds' = holds /\ knew' = knew /\ drops' = drops /\ read' = read
        /\ pc[w] = "replace" /\ \A v \in Writers \ {w} : pc'[v] = pc[v]
    BY <1>1, <1>4 DEF Replace, Store, Goto
  <2>2. CASE temps[Current(w)] = None
    BY <2>1, <2>2, <1>4 DEF Replace, Store
  <2>3. CASE temps[Current(w)] # None
    <3> DEFINE n == Current(w)
    <3>1. n \in SaveIds /\ HasBegun(n)
      BY <2>1, SMT DEF DocInv, DocTypeOK, Begun, HasBegun
    <3>2. temps[n] = n
      BY <3>1, <2>3 DEF DocInv, Named
    <3>3. path' = n /\ stored' = stored \cup {n}
      BY <2>3, <3>2, <1>4 DEF Replace
    <3>4. CASE path' = path
      <4>1. n \in stored
        BY <3>1, <3>3, <3>4, ProfileAssumption, DocumentAssumption, SMT DEF DocInv, Settled
      <4> QED BY <2>1, <3>3, <3>4, <4>1 DEF Store
    <3>5. CASE path' # path
      BY <2>1, <3>1, <3>3, <3>5 DEF Store
    <3> QED BY <3>4, <3>5
  <2> QED BY <2>2, <2>3
<1> QED BY <1>2, <1>3, <1>4 DEF Store

\* What an update begins with is new, and is right about what it had read.
LEMMA ChangeInv ==
  ASSUME DocInv, DocInv', ProfileInv, NEW w \in Writers, Change(w)
  PROVE  ProfileInv'
<1> DEFINE n == <<w, attempt[w] + 1>>
<1> USE DocumentAssumption, ProfileAssumption
<1>0. PICK dropped \in read[w].records \cup {None} :
        /\ \E sets \in BOOLEAN :
             holds' = [holds EXCEPT ![n] = IF sets THEN (read[w].records \ {dropped}) \cup {n}
                                                   ELSE read[w].records \ {dropped}]
        /\ drops' = [drops EXCEPT ![n] = dropped]
        /\ knew' = [knew EXCEPT ![n] = read[w].stored]
  BY DEF Change
<1>1. /\ attempt' = [attempt EXCEPT ![w] = attempt[w] + 1]
      /\ read' = [read EXCEPT ![w] = Unread]
      /\ UNCHANGED <<path, stored, overlapped>>
      /\ pc[w] = "idle" /\ \A v \in Writers \ {w} : pc'[v] = pc[v]
  BY DEF Change, Begin, Goto, DocInv, DocTypeOK
<1>2. n \in SaveIds /\ n \notin stored /\ ~HasBegun(n)
  <2>1. attempt[w] \in 0..Saves /\ attempt[w] < Saves
    BY DEF Change, Begin, DocInv, DocTypeOK
  <2>2. \A s \in stored : s[2] <= attempt[s[1]]
    BY DEF DocInv, Settled
  <2> QED BY <2>1, <2>2, SMT DEF HasBegun
<1>3. n # Old /\ path # n /\ path \in Inodes
  BY <1>2, SMT DEF DocInv, Settled, DocTypeOK
<1>4. \A s \in Inodes \ {n} : holds'[s] = holds[s]
  BY <1>0, <1>2 DEF ProfileInv, ProfileTypeOK
<1>5. \A s \in SaveIds \ {n} : drops'[s] = drops[s] /\ knew'[s] = knew[s]
  BY <1>0, <1>2 DEF ProfileInv, ProfileTypeOK
<1>6. read[w].records \subseteq stored /\ read[w].stored \subseteq stored /\ stored \subseteq SaveIds
  BY DEF ProfileInv, ReadInv, DocInv, DocTypeOK
<1>7. /\ holds'[n] \subseteq (read[w].records \ {dropped}) \cup {n}
      /\ read[w].records \ {dropped} \subseteq holds'[n]
      /\ drops'[n] = dropped /\ knew'[n] = read[w].stored
  BY <1>0, <1>2 DEF ProfileInv, ProfileTypeOK
<1>8. \A s \in stored : s # n /\ holds'[s] = holds[s] /\ drops'[s] = drops[s]
  BY <1>2, <1>4, <1>5, <1>6
<1>9. \A s \in stored : drops[s] \in stored \cup {None}
  <2>1. \A s \in stored : HasBegun(s)
    BY <1>6 DEF HasBegun, DocInv, Settled
  <2> QED BY <2>1, <1>6 DEF ProfileInv, SaveKnows
<1>10. \A v \in Writers : read'[v] = read[v] \/ read'[v] = Unread
  BY <1>1 DEF ProfileInv, ProfileTypeOK
<1>11. ProfileTypeOK'
  <2>1. holds' \in [Inodes -> SUBSET SaveIds]
    BY <1>0, <1>2, <1>6 DEF ProfileInv, ProfileTypeOK
  <2>2. knew' \in [SaveIds -> SUBSET SaveIds] /\ drops' \in [SaveIds -> SaveIds \cup {None}]
    BY <1>0, <1>2, <1>6 DEF ProfileInv, ProfileTypeOK
  <2>3. \A v \in Writers : read'[v].at = "read" => pc'[v] = "idle"
    BY <1>1 DEF ProfileInv, ProfileTypeOK, Unread
  <2>4. DocTypeOK'
    BY DEF DocInv
  <2>5. read' \in [Writers -> [records : SUBSET SaveIds, stored : SUBSET SaveIds,
                               at : {"rest", "read"}]]
    BY <1>1 DEF ProfileInv, ProfileTypeOK, Unread
  <2> QED BY <2>1, <2>2, <2>3, <2>4, <2>5, <1>1 DEF ProfileInv, ProfileTypeOK
<1>12. ReadInv'
  <2> SUFFICES ASSUME NEW v \in Writers
               PROVE  /\ read'[v].records \subseteq stored'
                      /\ read'[v].stored \subseteq stored'
                      /\ Right(read[v].stored, read[v].records, None)'
    BY DEF ReadInv
  <2>1. CASE read'[v] = Unread
    BY <2>1 DEF Unread, Right
  <2>2. CASE read'[v] = read[v]
    <3>1. /\ read[v].records \subseteq stored /\ read[v].stored \subseteq stored
          /\ Right(read[v].stored, read[v].records, None)
      BY DEF ProfileInv, ReadInv
    <3> QED BY <2>2, <3>1, <1>1, <1>8, RightStays DEF Right
  <2> QED BY <2>1, <2>2, <1>10
<1>13. SaveKnows'
  <2> SUFFICES ASSUME NEW s \in SaveIds, HasBegun(s)'
               PROVE  /\ holds'[s] \subseteq stored' \cup {s}
                      /\ knew'[s] \subseteq stored'
                      /\ drops'[s] \in stored' \cup {None}
                      /\ drops'[s] = None \/ drops'[s] \notin holds'[s]
                      /\ Right(knew[s], holds[s], drops[s])'
    BY DEF SaveKnows
  <2>1. CASE s = n
    <3>1. dropped \in stored \cup {None} /\ dropped # n
      BY <1>0, <1>6, <1>2
    <3>2. dropped \notin holds'[n]
      BY <1>7, <3>1
    <3>3. Right(knew[s], holds[s], drops[s])'
      <4> SUFFICES ASSUME NEW t \in read[w].stored \ overlapped
                   PROVE  /\ t \in holds'[t] =>
                               t \in holds'[n] \/ t = dropped \/ \E f \in stored' : drops'[f] = t
                          /\ drops'[t] = None \/ drops'[t] \notin holds'[n]
        BY <2>1, <1>1, <1>7 DEF Right
      <4>1. t \in stored /\ t \in SaveIds
        BY <1>6
      <4>2. /\ t \in holds[t] =>
                 t \in read[w].records \/ t = None \/ \E f \in stored : drops[f] = t
            /\ drops[t] = None \/ drops[t] \notin read[w].records
        BY DEF ProfileInv, ReadInv, Right
      <4>3. t # None /\ drops[t] # n
        BY <4>1, <1>9, <1>2
      <4> QED BY <4>1, <4>2, <4>3, <1>1, <1>7, <1>8, <1>9
    <3> QED BY <2>1, <3>1, <3>2, <3>3, <1>1, <1>6, <1>7
  <2>2. CASE s # n
    <3>1. HasBegun(s)
      <4>1. attempt[w] \in Nat
        BY DEF DocInv, DocTypeOK
      <4>2. s[1] = w => attempt'[s[1]] = attempt[w] + 1
        BY <1>1 DEF DocInv, DocTypeOK
      <4>3. s[1] # w => attempt'[s[1]] = attempt[s[1]]
        BY <1>1 DEF DocInv, DocTypeOK
      <4>4. s = <<s[1], s[2]>> /\ s[2] \in 1..Saves
        OBVIOUS
      <4> QED BY <2>2, <4>1, <4>2, <4>3, <4>4, SMT DEF HasBegun
    <3>2. /\ holds[s] \subseteq stored \cup {s} /\ knew[s] \subseteq stored
          /\ drops[s] \in stored \cup {None}
          /\ drops[s] = None \/ drops[s] \notin holds[s]
          /\ Right(knew[s], holds[s], drops[s])
      BY <3>1 DEF ProfileInv, SaveKnows
    <3>3. holds'[s] = holds[s] /\ knew'[s] = knew[s] /\ drops'[s] = drops[s]
      BY <2>2, <1>4, <1>5
    <3>4. \A t \in knew[s] : holds'[t] = holds[t] /\ drops'[t] = drops[t]
      BY <3>2, <1>8
    <3>5. Right(knew[s], holds[s], drops[s])'
      BY <3>2, <3>3, <3>4, <1>1, <1>8, RightStays DEF Right
    <3> QED BY <3>2, <3>3, <3>5, <1>1
  <2> QED BY <2>1, <2>2
<1>14. Right(stored, holds[path], None)' /\ holds'[Old] = {}
  <2>1. holds'[path'] = holds[path] /\ holds'[Old] = {}
    BY <1>1, <1>3, <1>4 DEF ProfileInv
  <2>2. Right(stored, holds[path], None)
    BY DEF ProfileInv
  <2> QED BY <2>1, <2>2, <1>1, <1>8, RightStays DEF Right
<1> QED BY <1>11, <1>12, <1>13, <1>14 DEF ProfileInv

\* What has been read and begun stays right while the other saves proceed.
LEMMA KnownStays ==
  ASSUME ProfileInv, UNCHANGED <<attempt, holds, knew, drops, read>>,
         overlapped \subseteq overlapped', stored \subseteq stored'
  PROVE  ReadInv' /\ SaveKnows'
<1>1. ReadInv'
  <2> SUFFICES ASSUME NEW v \in Writers
               PROVE  /\ read[v].records \subseteq stored'
                      /\ read[v].stored \subseteq stored'
                      /\ Right(read[v].stored, read[v].records, None)'
    BY DEF ReadInv
  <2>1. /\ read[v].records \subseteq stored /\ read[v].stored \subseteq stored
        /\ Right(read[v].stored, read[v].records, None)
    BY DEF ProfileInv, ReadInv
  <2> QED BY <2>1, RightStays DEF Right
<1>2. SaveKnows'
  <2> SUFFICES ASSUME NEW s \in SaveIds, HasBegun(s)
               PROVE  /\ holds[s] \subseteq stored' \cup {s}
                      /\ knew[s] \subseteq stored'
                      /\ drops[s] \in stored' \cup {None}
                      /\ drops[s] = None \/ drops[s] \notin holds[s]
                      /\ Right(knew[s], holds[s], drops[s])'
    BY DEF SaveKnows, HasBegun
  <2>1. /\ holds[s] \subseteq stored \cup {s} /\ knew[s] \subseteq stored
        /\ drops[s] \in stored \cup {None}
        /\ drops[s] = None \/ drops[s] \notin holds[s]
        /\ Right(knew[s], holds[s], drops[s])
    BY DEF ProfileInv, SaveKnows
  <2>2. Right(knew[s], holds[s], drops[s])'
    BY <2>1, RightStays DEF Right
  <2> QED BY <2>1, <2>2
<1> QED BY <1>1, <1>2

\* An update that is stored has overtaken those it did not know, and is right
\* about all others.
LEMMA StoreInv ==
  ASSUME UniqueNames = TRUE, DocInv, DocInv', ProfileInv, NEW w \in Writers, Store(w)
  PROVE  ProfileInv'
<1>1. /\ UNCHANGED <<attempt, holds, knew, drops, read>>
      /\ pc[w] # "idle" /\ \A v \in Writers \ {w} : pc'[v] = pc[v]
  BY StoreReplaces
<1>2. /\ stored \subseteq stored' /\ overlapped \subseteq overlapped'
      /\ overlapped' \subseteq SaveIds
  <2>1. overlapped \subseteq SaveIds /\ stored \subseteq SaveIds
    BY DEF ProfileInv, ProfileTypeOK, DocInv, DocTypeOK
  <2>2. CASE UNCHANGED <<path, stored, overlapped>>
    BY <2>1, <2>2
  <2>3. CASE \E n \in SaveIds : /\ stored' = stored \cup {n}
                               /\ overlapped' = overlapped \cup (stored \ knew[n])
    BY <2>1, <2>3
  <2> QED BY <2>2, <2>3, StoreReplaces
<1>3. ProfileTypeOK'
  BY <1>1, <1>2 DEF ProfileInv, ProfileTypeOK, DocInv
<1>4. ReadInv' /\ SaveKnows'
  BY <1>1, <1>2, KnownStays
<1>5. Right(stored, holds[path], None)'
  <2>1. CASE UNCHANGED <<path, stored, overlapped>>
    BY <2>1, <1>1 DEF ProfileInv, Right
  <2>2. ASSUME NEW n \in SaveIds, HasBegun(n), path' = n, stored' = stored \cup {n},
               overlapped' = overlapped \cup (stored \ knew[n])
        PROVE  Right(stored, holds[path], None)'
    <3> SUFFICES ASSUME NEW s \in stored' \ overlapped'
                 PROVE  /\ s \in holds[s] =>
                             s \in holds[n] \/ \E f \in stored' : drops[f] = s
                        /\ drops[s] = None \/ drops[s] \notin holds[n]
      BY <1>1, <2>2 DEF Right
    <3>1. /\ drops[n] = None \/ drops[n] \notin holds[n]
          /\ Right(knew[n], holds[n], drops[n])
      BY <2>2 DEF ProfileInv, SaveKnows
    <3>2. CASE s = n
      BY <3>1, <3>2
    <3>3. CASE s \in knew[n] \ overlapped
      BY <2>2, <3>1, <3>3 DEF Right
    <3> QED BY <2>2, <3>2, <3>3
  <2> QED BY <2>1, <2>2, StoreReplaces
<1> QED BY <1>1, <1>3, <1>4, <1>5 DEF ProfileInv

\* Every step keeps what has been read and begun right.
LEMMA ProfileStepInv ==
  ASSUME UniqueNames = TRUE, DocInv, DocInv', ProfileInv, [ProfileNext]_profileVars
  PROVE  ProfileInv'
<1>1. ASSUME NEW w \in Writers, ReadDocument(w) PROVE ProfileInv'
  <2>1. /\ UNCHANGED <<docVars, holds, knew, drops, overlapped>>
        /\ \A v \in Writers : read'[v] = IF v = w
                                THEN [records |-> holds[path], stored |-> stored, at |-> "read"]
                                ELSE read[v]
    BY <1>1 DEF ReadDocument, ProfileInv, ProfileTypeOK
  <2>2. UNCHANGED <<pc, attempt, temps, path, content, stored, succeeded>>
    BY <2>1 DEF docVars
  <2>3. holds[path] \subseteq stored /\ stored \subseteq SaveIds
    BY PathRecords DEF DocInv, DocTypeOK
  <2>4. ProfileTypeOK'
    BY <1>1, <2>2, <2>3 DEF ReadDocument, ProfileInv, ProfileTypeOK, DocInv
  <2>5. ReadInv'
    BY <2>1, <2>2, <2>3 DEF ProfileInv, ReadInv, Right
  <2> QED BY <2>1, <2>2, <2>4, <2>5 DEF ProfileInv, SaveKnows, HasBegun, Right
<1>2. ASSUME NEW w \in Writers, Abandon(w) PROVE ProfileInv'
  <2>1. /\ UNCHANGED <<docVars, holds, knew, drops, overlapped>>
        /\ \A v \in Writers : read'[v] = IF v = w THEN Unread ELSE read[v]
    BY <1>2 DEF Abandon, ProfileInv, ProfileTypeOK
  <2>2. UNCHANGED <<pc, attempt, temps, path, content, stored, succeeded>>
    BY <2>1 DEF docVars
  <2>3. ProfileTypeOK'
    BY <1>2, <2>2 DEF Abandon, Unread, ProfileInv, ProfileTypeOK, DocInv
  <2>4. ReadInv'
    BY <2>1, <2>2 DEF ProfileInv, ReadInv, Right, Unread
  <2> QED BY <2>1, <2>2, <2>3, <2>4 DEF ProfileInv, SaveKnows, HasBegun, Right
<1>3. ASSUME NEW w \in Writers, Stop(w) PROVE ProfileInv'
  <2>1. UNCHANGED <<attempt, path, stored, read, holds, knew, drops, overlapped>>
    BY <1>3 DEF Stop, Kill
  <2>2. \A v \in Writers : pc[v] = "idle" => pc'[v] = "idle"
    BY <1>3 DEF Stop, Kill, Goto, DocInv, DocTypeOK
  <2>3. ProfileTypeOK'
    BY <2>1, <2>2 DEF ProfileInv, ProfileTypeOK, DocInv
  <2> QED BY <2>1, <2>3 DEF ProfileInv, ReadInv, SaveKnows, HasBegun, Right
<1>4. CASE UNCHANGED profileVars
  <2>1. UNCHANGED <<pc, attempt, path, stored, read, holds, knew, drops, overlapped>>
    BY <1>4 DEF profileVars, docVars
  <2>2. ProfileTypeOK'
    BY <2>1 DEF ProfileInv, ProfileTypeOK, DocInv
  <2>3. ReadInv' /\ SaveKnows'
    BY <2>1, KnownStays
  <2> QED BY <2>1, <2>2, <2>3 DEF ProfileInv, Right
<1> QED BY <1>1, <1>2, <1>3, <1>4, ChangeInv, StoreInv DEF ProfileNext

\* What the reader of the document, and what each update, relies on.
LEMMA ProfileInvariance ==
  ASSUME UniqueNames = TRUE
  PROVE  ProfileSpec => []ProfileInv
<1>1. DocInv /\ DocInv' /\ ProfileInv /\ [ProfileNext]_profileVars => ProfileInv'
  BY ProfileStepInv
<1> QED BY <1>1, ProfileInitInv, ProfileIsDocument, DocInvariance, PTL DEF ProfileSpec

\* Every writer holds what it may hold, and has read only while nothing of its
\* own is being written.
THEOREM ProfileTypes ==
  ASSUME UniqueNames = TRUE
  PROVE  ProfileSpec => []ProfileTypeOK
<1>1. ProfileInv => ProfileTypeOK
  BY DEF ProfileInv
<1> QED BY <1>1, ProfileInvariance, PTL

\* A stored update of the profile stays in force until a stored update drops
\* it, unless one that had read earlier is stored later, for any number of
\* commands and updates, wherever they fail or are killed.
THEOREM UpdatesStand ==
  ASSUME UniqueNames = TRUE
  PROVE  ProfileSpec => []UpdatesCompose
<1>1. ProfileInv => UpdatesCompose
  BY ProfileAssumption DEF ProfileInv, ProfileTypeOK, DocTypeOK, Right, UpdatesCompose
<1> QED BY <1>1, ProfileInvariance, PTL
=============================================================================
