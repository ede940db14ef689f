-------------------------- MODULE WorkspaceProofs --------------------------
(***************************************************************************)
(* Proofs about ProjectStore and Workspace, for any number of uploads,     *)
(* samples, renames, runs, languages, lines and faults and titles of any   *)
(* length.                                                                 *)
(*                                                                         *)
(* The store alone first: a project that is shown is whole and named by a  *)
(* request about it, and its name is the one last answered unless a write  *)
(* of its record failed or met another. Then the store beside runs and     *)
(* readers: it keeps these promises whatever they do, and a project that   *)
(* was there is answered "not found" or left out of the index only for a   *)
(* rename that opened its record, and never when the ledger vouches for it.*)
(* Last the word "ready", by counting lines.                               *)
(***************************************************************************)
EXTENDS Workspace, SequenceTheorems, FiniteSetTheorems, WellFoundedInduction, TLAPS

Whole(u) == "video" \in parts[u] /\ (u \in Samples \/ "language" \in parts[u])
Record(title) == [title |-> title, size |-> TitleSize[title]]

\* Only a complete upload moves its directory to the projects.
Uploaded ==
  \A u \in Uploads :
    /\ step[u] \in {"record", "move", "done"} => Whole(u)
    /\ step[u] = "move" => file[u] = Record(u)
    /\ dir[u] = "project" <=> step[u] = "done"
    /\ answered[u] # NoTitle => step[u] = "done"

\* A rename loaded the record of a project.
Renaming ==
  \A r \in Renames : step[r] \in {"loaded", "opened"} => step[about[r]] = "done"

\* A record names the upload or a rename that was answered.
Named ==
  \A u \in Uploads :
    file[u].title \in {NoTitle, u} \union {r \in Renames : about[r] = u /\ step[r] = "done"}

\* While one rename at a time writes, the record is empty; between them it is
\* the one that was answered.
Recorded ==
  \A u \in Uploads : alone[u] =>
    /\ \A r, q \in Writing(u) : r = q
    /\ Writing(u) # {} => file[u] = NoFile
    /\ Writing(u) = {} /\ answered[u] # NoTitle => file[u] = Record(answered[u])

\* A rename opened the record of this project.
Touched(u) == \E r \in Renames : about[r] = u /\ step[r] \in {"opened", "done", "failed"}

Spoiled == \A u \in Uploads : ~ alone[u] => Touched(u)

StoreInv == StoreTypeOK /\ Uploaded /\ Renaming /\ Named /\ Recorded /\ Spoiled

LEMMA Disjoint ==
  /\ \A u \in Uploads : u \notin Renames /\ u \in Requests /\ u \in Titles /\ u # NoTitle
  /\ \A r \in Renames : r \notin Uploads /\ r \in Requests /\ r \in Titles /\ r # NoTitle
BY RequestsAssumption DEF Requests, Titles

LEMMA RecordType ==
  \A title \in Requests : Record(title) \in Files /\ Overwritten(NoFile, title) = Record(title)
<1>1. SUFFICES ASSUME NEW title \in Requests
               PROVE  Record(title) \in Files /\ Overwritten(NoFile, title) = Record(title)
  OBVIOUS
<1>2. TitleSize[title] \in Nat \ {0} BY SizeAssumption DEF Requests
<1>. QED BY <1>2 DEF Record, Files, Titles, Overwritten, NoFile

-----------------------------------------------------------------------------
(***************************************************************************)
(* Uploads and samples.                                                    *)
(***************************************************************************)
\* An upload writes no record that a rename could be about, and a step of its
\* own changes nothing for the other requests.
LEMMA StageStep ==
  ASSUME StoreInv, NEW u \in Uploads,
         Stage(u) \/ AllParts(u) \/ \E part \in Parts : StorePart(u, part)
  PROVE  StoreInv'
<1>1. PICK s \in {"parts", "record"} :
        /\ step' = [step EXCEPT ![u] = s]
        /\ s = "record" => Whole(u) /\ UNCHANGED parts
        /\ step[u] \in {"idle", "parts"}
  <2>1. CASE Stage(u) BY <2>1 DEF Stage, Proceed
  <2>2. CASE AllParts(u) BY <2>2 DEF AllParts, Proceed, Whole
  <2>3. CASE \E part \in Parts : StorePart(u, part)
    <3>1. step[u] = "parts" /\ step' = step BY <2>3 DEF StorePart
    <3>2. step' = [step EXCEPT ![u] = "parts"] BY <3>1 DEF StoreInv, StoreTypeOK
    <3>. QED BY <3>1, <3>2
  <2>. QED BY <2>1, <2>2, <2>3
<1>2. /\ parts' \in [Uploads -> SUBSET Parts]
      /\ \A v \in Uploads \ {u} : parts'[v] = parts[v] /\ dir'[v] = dir[v]
      /\ dir' \in [Uploads -> {"none", "staging", "project"}]
      /\ dir'[u] \in {"staging", dir[u]}
      /\ UNCHANGED <<file, about, alone, answered>>
  BY DEF Stage, AllParts, StorePart, StoreInv, StoreTypeOK
<1>3. u \in Requests /\ u \notin Renames /\ step \in [Requests -> Steps] /\ s \in Steps
  BY Disjoint DEF StoreInv, StoreTypeOK, Steps
<1>4. /\ step'[u] = s /\ step' \in [Requests -> Steps]
      /\ \A v \in Requests \ {u} : step'[v] = step[v]
  BY <1>1, <1>3
<1>5. StoreTypeOK' BY <1>2, <1>4 DEF StoreInv, StoreTypeOK
<1>6. \A r \in Renames : step'[r] = step[r] /\ about[r] \in Uploads
  BY <1>3, <1>4, Disjoint DEF StoreInv, StoreTypeOK
<1>7. Uploaded'
  <2>1. SUFFICES ASSUME NEW v \in Uploads
                 PROVE  /\ step'[v] \in {"record", "move", "done"} => Whole(v)'
                        /\ step'[v] = "move" => file'[v] = Record(v)
                        /\ dir'[v] = "project" <=> step'[v] = "done"
                        /\ answered'[v] # NoTitle => step'[v] = "done"
    BY DEF Uploaded, Record
  <2>2. CASE v = u BY <1>1, <1>2, <1>4, <2>2 DEF StoreInv, Uploaded, Whole
  <2>3. CASE v # u BY <1>2, <1>4, <2>3, Disjoint DEF StoreInv, Uploaded, Whole
  <2>. QED BY <2>2, <2>3
<1>8. Renaming'
  <2>1. \A r \in Renames : step[r] \in {"loaded", "opened"} => about[r] # u
    BY <1>1 DEF StoreInv, Renaming
  <2>. QED BY <1>2, <1>4, <1>6, <2>1, Disjoint DEF StoreInv, Renaming
<1>9. Named' BY <1>2, <1>6 DEF StoreInv, Named
<1>10. \A v : Writing(v)' = Writing(v) BY <1>2, <1>6 DEF Writing
<1>11. Recorded' BY <1>2, <1>10 DEF StoreInv, Recorded, Record
<1>12. Spoiled' BY <1>2, <1>6 DEF StoreInv, Spoiled, Touched
<1>. QED BY <1>5, <1>7, <1>8, <1>9, <1>11, <1>12 DEF StoreInv

\* The first record, the move and the removal: there is no rename of this
\* project yet, and nobody was answered.
LEMMA UploadStep ==
  ASSUME StoreInv, NEW u \in Uploads, WriteFirstRecord(u) \/ Move(u) \/ AbandonUpload(u)
  PROVE  StoreInv'
<1>1. step[u] \in {"parts", "record", "move"}
  BY DEF WriteFirstRecord, Move, AbandonUpload
<1>2. u \in Requests /\ u \notin Renames /\ u \in Titles /\ u # NoTitle
      /\ step \in [Requests -> Steps]
  BY Disjoint DEF StoreInv, StoreTypeOK
<1>3. answered[u] = NoTitle /\ Writing(u) = {}
  BY <1>1 DEF StoreInv, Uploaded, Renaming, Writing
<1>4. PICK s \in {"move", "done", "failed"} :
        /\ step' = [step EXCEPT ![u] = s]
        /\ s = "move" => /\ step[u] = "record"
                         /\ file' = [file EXCEPT ![u] = Record(u)]
                         /\ UNCHANGED <<dir, parts, answered>>
        /\ s = "done" => /\ step[u] = "move"
                         /\ dir' = [dir EXCEPT ![u] = "project"]
                         /\ answered' = [answered EXCEPT ![u] = u]
                         /\ UNCHANGED <<parts, file>>
        /\ s = "failed" => /\ dir' = [dir EXCEPT ![u] = "none"]
                           /\ parts' = [parts EXCEPT ![u] = {}]
                           /\ file' = [file EXCEPT ![u] = NoFile]
                           /\ UNCHANGED answered
        /\ UNCHANGED <<about, alone>>
  BY <1>2, RecordType DEF WriteFirstRecord, Move, AbandonUpload, Proceed, Truncated
<1>5. /\ step'[u] = s /\ step' \in [Requests -> Steps]
      /\ \A v \in Requests \ {u} : step'[v] = step[v]
  BY <1>2, <1>4 DEF Steps
<1>6. Record(u) \in Files /\ NoFile \in Files BY <1>2, RecordType DEF NoFile, Files, Titles
<1>7. /\ dir' \in [Uploads -> {"none", "staging", "project"}]
      /\ parts' \in [Uploads -> SUBSET Parts]
      /\ file' \in [Uploads -> Files]
      /\ answered' \in [Uploads -> Titles]
      /\ \A v \in Uploads \ {u} : /\ dir'[v] = dir[v] /\ parts'[v] = parts[v]
                                  /\ file'[v] = file[v] /\ answered'[v] = answered[v]
  BY <1>2, <1>4, <1>6 DEF StoreInv, StoreTypeOK
<1>8. /\ s = "move" => file'[u] = Record(u) /\ dir'[u] = dir[u] /\ parts'[u] = parts[u]
                       /\ answered'[u] = NoTitle
      /\ s = "done" => file'[u] = Record(u) /\ dir'[u] = "project" /\ parts'[u] = parts[u]
                       /\ answered'[u] = u
      /\ s = "failed" => file'[u] = NoFile /\ dir'[u] = "none" /\ answered'[u] = NoTitle
  BY <1>3, <1>4 DEF StoreInv, StoreTypeOK, Uploaded
<1>9. StoreTypeOK' BY <1>4, <1>5, <1>7 DEF StoreInv, StoreTypeOK
<1>10. \A r \in Renames : step'[r] = step[r] /\ about[r] \in Uploads
  BY <1>2, <1>5, Disjoint DEF StoreInv, StoreTypeOK
<1>11. Uploaded'
  <2>1. SUFFICES ASSUME NEW v \in Uploads
                 PROVE  /\ step'[v] \in {"record", "move", "done"} => Whole(v)'
                        /\ step'[v] = "move" => file'[v] = Record(v)
                        /\ dir'[v] = "project" <=> step'[v] = "done"
                        /\ answered'[v] # NoTitle => step'[v] = "done"
    BY DEF Uploaded, Record
  <2>2. CASE v = u
    <3>1. step[u] \in {"record", "move"} => Whole(u) BY DEF StoreInv, Uploaded
    <3>2. dir[u] = "project" => step[u] = "done" BY DEF StoreInv, Uploaded
    <3>. QED BY <1>1, <1>4, <1>5, <1>8, <2>2, <3>1, <3>2 DEF Whole
  <2>3. CASE v # u BY <1>5, <1>7, <2>3, Disjoint DEF StoreInv, Uploaded, Whole
  <2>. QED BY <2>2, <2>3
<1>12. Renaming'
  <2>1. \A r \in Renames : step[r] \in {"loaded", "opened"} => about[r] # u
    BY <1>1 DEF StoreInv, Renaming
  <2>. QED BY <1>4, <1>5, <1>10, <2>1, Disjoint DEF StoreInv, Renaming
<1>13. Named'
  <2>1. SUFFICES ASSUME NEW v \in Uploads
                 PROVE  file'[v].title \in {NoTitle, v} \union
                          {r \in Renames : about[r] = v /\ step[r] = "done"}
    BY <1>4, <1>10 DEF Named
  <2>2. CASE v = u BY <1>8, <2>2 DEF Record, NoFile
  <2>3. CASE v # u BY <1>7, <2>3 DEF StoreInv, Named
  <2>. QED BY <2>2, <2>3
<1>14. \A v : Writing(v)' = Writing(v) BY <1>4, <1>10 DEF Writing
<1>15. Recorded'
  <2>1. SUFFICES ASSUME NEW v \in Uploads, alone[v]
                 PROVE  /\ \A r, q \in Writing(v) : r = q
                        /\ Writing(v) # {} => file'[v] = NoFile
                        /\ Writing(v) = {} /\ answered'[v] # NoTitle =>
                             file'[v] = Record(answered'[v])
    BY <1>4, <1>14 DEF Recorded, Record
  <2>2. CASE v = u BY <1>3, <1>8, <2>2
  <2>3. CASE v # u BY <1>7, <2>1, <2>3 DEF StoreInv, Recorded
  <2>. QED BY <2>2, <2>3
<1>16. Spoiled' BY <1>4, <1>10 DEF StoreInv, Spoiled, Touched
<1>. QED BY <1>9, <1>11, <1>12, <1>13, <1>15, <1>16 DEF StoreInv

-----------------------------------------------------------------------------
(***************************************************************************)
(* Renames.                                                                *)
(***************************************************************************)
LEMMA RenameStep ==
  ASSUME StoreInv, NEW r \in Renames,
         LoadRecord(r) \/ OpenRecord(r) \/ OpenFails(r) \/ WriteRecord(r) \/ WriteFails(r)
  PROVE  StoreInv'
<1>. DEFINE u == about[r]
<1>1. PICK s \in {"loaded", "opened", "done", "failed"} :
        /\ step' = [step EXCEPT ![r] = s]
        /\ step[r] # "done"
        /\ s = "loaded" => Readable(u) /\ step[r] = "idle" /\ UNCHANGED <<file, alone, answered>>
        /\ s = "opened" => /\ step[r] = "loaded"
                           /\ file' = [file EXCEPT ![u] = NoFile]
                           /\ alone' = [alone EXCEPT ![u] = @ /\ Writing(u) = {}]
                           /\ UNCHANGED answered
        /\ s = "done" => /\ step[r] = "opened"
                         /\ file' = [file EXCEPT ![u] = Overwritten(@, r)]
                         /\ answered' = [answered EXCEPT ![u] = r]
                         /\ UNCHANGED alone
        /\ s = "failed" => /\ \/ step[r] # "opened" /\ UNCHANGED alone
                              \/ step[r] = "opened" /\ alone' = [alone EXCEPT ![u] = FALSE]
                           /\ UNCHANGED <<file, answered>>
        /\ UNCHANGED <<dir, parts, about>>
  <2>1. CASE LoadRecord(r) /\ step' = [step EXCEPT ![r] = "loaded"] /\ Readable(u)
    BY <2>1 DEF LoadRecord, Proceed
  <2>2. CASE LoadRecord(r) /\ step' = [step EXCEPT ![r] = "failed"]
    BY <2>2 DEF LoadRecord, Proceed
  <2>3. CASE OpenRecord(r) BY <2>3 DEF OpenRecord, Proceed, Truncated
  <2>4. CASE OpenFails(r) BY <2>4 DEF OpenFails, Proceed
  <2>5. CASE WriteRecord(r) BY <2>5 DEF WriteRecord, Proceed
  <2>6. CASE WriteFails(r) BY <2>6 DEF WriteFails, Proceed
  <2>. QED BY <2>1, <2>2, <2>3, <2>4, <2>5, <2>6 DEF LoadRecord, Proceed
<1>2. r \in Requests /\ r \notin Uploads /\ r \in Titles /\ r # NoTitle
      /\ u \in Uploads /\ about \in [Renames -> Uploads]
  BY Disjoint DEF StoreInv, StoreTypeOK
<1>3. /\ step'[r] = s /\ step' \in [Requests -> Steps]
      /\ \A v \in Requests \ {r} : step'[v] = step[v]
  BY <1>1, <1>2 DEF StoreInv, StoreTypeOK, Steps
<1>4. \A v \in Uploads : step'[v] = step[v] BY <1>2, <1>3, Disjoint
<1>. HIDE DEF u
<1>5. file[u] \in Files /\ TitleSize[r] \in Nat \ {0}
  BY <1>2, SizeAssumption DEF StoreInv, StoreTypeOK, Requests
<1>6. Overwritten(file[u], r) \in Files /\ Overwritten(file[u], r).title = r /\ NoFile \in Files
  BY <1>2, <1>5 DEF Overwritten, Files, NoFile, Titles
<1>7. StoreTypeOK'
  <2>1. file' \in [Uploads -> Files] BY <1>1, <1>2, <1>6 DEF StoreInv, StoreTypeOK
  <2>2. alone' \in [Uploads -> BOOLEAN]
    <3>1. alone[u] \in BOOLEAN BY <1>2 DEF StoreInv, StoreTypeOK
    <3>. QED BY <1>1, <1>2, <3>1 DEF StoreInv, StoreTypeOK
  <2>3. answered' \in [Uploads -> Titles] BY <1>1, <1>2 DEF StoreInv, StoreTypeOK
  <2>. QED BY <1>1, <1>3, <2>1, <2>2, <2>3 DEF StoreInv, StoreTypeOK
<1>8. step[r] \in {"loaded", "opened"} \/ Readable(u) => step[u] = "done"
  BY <1>2 DEF StoreInv, Renaming, Uploaded, Readable, RecordOf, u
<1>9. Uploaded'
  <2>1. SUFFICES ASSUME NEW v \in Uploads
                 PROVE  /\ step[v] \in {"record", "move", "done"} => Whole(v)'
                        /\ step[v] = "move" => file'[v] = Record(v)
                        /\ dir'[v] = "project" <=> step[v] = "done"
                        /\ answered'[v] # NoTitle => step[v] = "done"
    BY <1>4 DEF Uploaded, Record
  <2>2. step[v] = "move" => file'[v] = file[v]
    <3>1. CASE v = u BY <1>1, <1>8, <3>1
    <3>2. CASE v # u BY <1>1, <3>2 DEF StoreInv, StoreTypeOK
    <3>. QED BY <3>1, <3>2
  <2>3. answered'[v] # NoTitle => answered[v] # NoTitle \/ step[v] = "done"
    <3>1. CASE v = u BY <1>1, <1>8, <3>1
    <3>2. CASE v # u BY <1>1, <3>2 DEF StoreInv, StoreTypeOK
    <3>. QED BY <3>1, <3>2
  <2>. QED BY <1>1, <2>2, <2>3 DEF StoreInv, Uploaded, Whole
<1>10. Renaming'
  <2>1. SUFFICES ASSUME NEW q \in Renames, step'[q] \in {"loaded", "opened"}
                 PROVE  step[about[q]] = "done"
    BY <1>1, <1>2, <1>4 DEF Renaming
  <2>2. CASE q = r BY <1>1, <1>3, <1>8, <2>1, <2>2 DEF u
  <2>3. CASE q # r BY <1>3, <2>1, <2>3, Disjoint DEF StoreInv, Renaming
  <2>. QED BY <2>2, <2>3
<1>11. Named'
  <2>1. SUFFICES ASSUME NEW v \in Uploads
                 PROVE  file'[v].title \in {NoTitle, v} \union
                          {q \in Renames : about[q] = v /\ step'[q] = "done"}
    BY <1>1 DEF Named
  <2>2. \A q \in Renames : step[q] = "done" => step'[q] = "done" BY <1>1, <1>3, Disjoint
  <2>3. CASE file'[v] = file[v] BY <2>2, <2>3 DEF StoreInv, Named
  <2>4. CASE file'[v] = NoFile BY <2>4 DEF NoFile
  <2>5. CASE v = u /\ s = "done" /\ file'[v] = Overwritten(file[u], r)
    BY <1>3, <1>6, <2>5 DEF u
  <2>6. \/ file'[v] = file[v] \/ file'[v] = NoFile
        \/ v = u /\ s = "done" /\ file'[v] = Overwritten(file[u], r)
    BY <1>1 DEF StoreInv, StoreTypeOK
  <2>. QED BY <2>3, <2>4, <2>5, <2>6
<1>12. Recorded'
  <2>1. SUFFICES ASSUME NEW v \in Uploads, alone'[v]
                 PROVE  /\ \A p, q \in Writing(v)' : p = q
                        /\ Writing(v)' # {} => file'[v] = NoFile
                        /\ Writing(v)' = {} /\ answered'[v] # NoTitle =>
                             file'[v] = Record(answered'[v])
    BY DEF Recorded, Record
  <2>2. \A q \in Renames \ {r} : step'[q] = step[q] BY <1>3, Disjoint
  <2>3. CASE v # u
    <3>1. Writing(v)' = Writing(v) BY <1>1, <2>2, <2>3 DEF Writing, u
    <3>2. file'[v] = file[v] /\ answered'[v] = answered[v] /\ alone[v]
      BY <1>1, <2>1, <2>3 DEF StoreInv, StoreTypeOK
    <3>. QED BY <3>1, <3>2 DEF StoreInv, Recorded
  <2>4. CASE v = u
    <3>1. Writing(v)' = IF s = "opened" THEN Writing(v) \union {r} ELSE Writing(v) \ {r}
      BY <1>1, <1>3, <2>2, <2>4 DEF Writing, u
    <3>2. r \in Writing(v) <=> step[r] = "opened" BY <2>4 DEF Writing, u
    <3>3. CASE s = "opened"
      <4>1. Writing(v) = {} /\ file'[v] = NoFile
        BY <1>1, <1>2, <2>1, <2>4, <3>3 DEF StoreInv, StoreTypeOK
      <4>. QED BY <3>1, <3>3, <4>1
    <3>4. CASE s = "done"
      <4>1. alone[v] /\ r \in Writing(v) BY <1>1, <2>1, <3>2, <3>4
      <4>2. file[v] = NoFile /\ Writing(v)' = {} BY <3>1, <3>4, <4>1 DEF StoreInv, Recorded
      <4>3. file'[v] = Record(r) /\ answered'[v] = r
        BY <1>1, <1>2, <2>4, <3>4, <4>2, RecordType DEF StoreInv, StoreTypeOK
      <4>. QED BY <4>2, <4>3
    <3>5. CASE s \in {"loaded", "failed"}
      <4>1. alone[v] /\ r \notin Writing(v) /\ file'[v] = file[v] /\ answered'[v] = answered[v]
        BY <1>1, <1>2, <2>1, <2>4, <3>2, <3>5 DEF StoreInv, StoreTypeOK
      <4>2. Writing(v)' = Writing(v) BY <3>1, <3>5, <4>1
      <4>. QED BY <4>1, <4>2 DEF StoreInv, Recorded
    <3>. QED BY <3>3, <3>4, <3>5
  <2>. QED BY <2>3, <2>4
<1>13. Spoiled'
  <2>1. SUFFICES ASSUME NEW v \in Uploads, ~ alone'[v]
                 PROVE  \E q \in Renames : about[q] = v /\ step'[q] \in {"opened", "done", "failed"}
    BY <1>1 DEF Spoiled, Touched
  <2>2. \A q \in Renames : step[q] \in {"opened", "done", "failed"} =>
          \/ step'[q] \in {"opened", "done", "failed"}
          \/ q = r /\ s = "loaded"
    BY <1>1, <1>3, Disjoint
  <2>3. CASE ~ alone[v]
    <3>1. PICK q \in Renames : about[q] = v /\ step[q] \in {"opened", "done", "failed"}
      BY <2>3 DEF StoreInv, Spoiled, Touched
    <3>2. step'[q] \in {"opened", "done", "failed"} BY <1>1, <2>2, <3>1
    <3>. QED BY <3>1, <3>2
  <2>4. CASE alone[v]
    <3>1. v = u /\ s \in {"opened", "failed"}
      BY <1>1, <2>1, <2>4 DEF StoreInv, StoreTypeOK
    <3>. QED BY <1>3, <3>1 DEF u
  <2>. QED BY <2>3, <2>4
<1>. QED BY <1>7, <1>9, <1>10, <1>11, <1>12, <1>13 DEF StoreInv

-----------------------------------------------------------------------------
LEMMA StoreDiesStep == ASSUME StoreInv, StoreDies PROVE StoreInv'
<1>1. /\ step' = [r \in Requests |-> IF step[r] \in {"idle", "done"} THEN step[r] ELSE "failed"]
      /\ alone' = [u \in Uploads |-> alone[u] /\ Writing(u) = {}]
      /\ UNCHANGED <<dir, parts, file, about, answered>>
  BY DEF StoreDies
<1>2. \A r \in Requests : (step'[r] = "done" <=> step[r] = "done")
                          /\ step'[r] \in {"idle", "done", "failed"}
  BY <1>1
<1>3. \A u \in Uploads : (step'[u] = "done" <=> step[u] = "done")
                         /\ step'[u] \in {"idle", "done", "failed"}
  BY <1>2, Disjoint
<1>4. \A r \in Renames : (step'[r] = "done" <=> step[r] = "done")
                         /\ step'[r] \in {"idle", "done", "failed"}
  BY <1>2, Disjoint
<1>5. StoreTypeOK' BY <1>1 DEF StoreInv, StoreTypeOK, Steps
<1>6. Uploaded' BY <1>1, <1>3 DEF StoreInv, Uploaded, Whole
<1>7. Renaming' BY <1>4 DEF Renaming
<1>8. Named' BY <1>1, <1>4 DEF StoreInv, Named
<1>9. Recorded'
  <2>1. \A u : Writing(u)' = {} BY <1>4 DEF Writing
  <2>2. \A u \in Uploads : alone'[u] => alone[u] /\ Writing(u) = {} BY <1>1
  <2>. QED BY <1>1, <2>1, <2>2 DEF StoreInv, Recorded, Record
<1>10. Spoiled'
  <2>1. SUFFICES ASSUME NEW u \in Uploads, ~ alone'[u]
                 PROVE  \E r \in Renames : about[r] = u /\ step'[r] \in {"opened", "done", "failed"}
    BY <1>1 DEF Spoiled, Touched
  <2>2. \E r \in Renames : about[r] = u /\ step[r] \in {"opened", "done", "failed"}
    <3>1. ~ alone[u] \/ Writing(u) # {} BY <1>1, <2>1
    <3>. QED BY <3>1 DEF StoreInv, Spoiled, Touched, Writing
  <2>3. \A r \in Renames : step[r] \in {"opened", "done", "failed"} => step'[r] \in {"done", "failed"}
    BY <1>1, Disjoint
  <2>. QED BY <2>2, <2>3
<1>. QED BY <1>5, <1>6, <1>7, <1>8, <1>9, <1>10 DEF StoreInv

LEMMA StoreInitInv == StoreInit => StoreInv
<1>. SUFFICES ASSUME StoreInit PROVE StoreInv OBVIOUS
<1>1. /\ \A r \in Requests : step[r] = "idle"
      /\ about \in [Renames -> Uploads]
      /\ dir = [u \in Uploads |-> "none"] /\ parts = [u \in Uploads |-> {}]
      /\ file = [u \in Uploads |-> NoFile] /\ alone = [u \in Uploads |-> TRUE]
      /\ answered = [u \in Uploads |-> NoTitle] /\ step = [r \in Requests |-> "idle"]
  BY DEF StoreInit
<1>2. StoreTypeOK BY <1>1 DEF StoreTypeOK, Steps, NoFile, Files, Titles
<1>3. Uploaded /\ Renaming BY <1>1, Disjoint DEF Uploaded, Renaming
<1>4. Named BY <1>1 DEF Named, NoFile
<1>5. Recorded BY <1>1, Disjoint DEF Recorded, Writing
<1>6. Spoiled BY <1>1 DEF Spoiled
<1>. QED BY <1>2, <1>3, <1>4, <1>5, <1>6 DEF StoreInv

\* Every step of the store keeps the invariant.
LEMMA StoreStepInv == StoreInv /\ [StoreNext]_storeVars => StoreInv'
<1>. SUFFICES ASSUME StoreInv, [StoreNext]_storeVars PROVE StoreInv' OBVIOUS
<1>1. CASE \E u \in Uploads :
             \/ Stage(u) \/ AllParts(u) \/ WriteFirstRecord(u) \/ Move(u) \/ AbandonUpload(u)
             \/ \E part \in Parts : StorePart(u, part)
  BY <1>1, StageStep, UploadStep
<1>2. CASE \E r \in Renames :
             \/ LoadRecord(r) \/ OpenRecord(r) \/ OpenFails(r)
             \/ WriteRecord(r) \/ WriteFails(r)
  BY <1>2, RenameStep
<1>3. CASE StoreDies BY <1>3, StoreDiesStep
<1>4. CASE UNCHANGED storeVars
  <2>1. UNCHANGED <<dir, parts, file, step, about, alone, answered>> BY <1>4 DEF storeVars
  <2>. QED BY <2>1 DEF StoreInv, StoreTypeOK, Uploaded, Whole, Record, Renaming, Named,
                       Recorded, Writing, Spoiled, Touched
<1>. QED BY <1>1, <1>2, <1>3, <1>4 DEF StoreNext, StoreStep

\* A project that was answered stays answered, and one that a rename opened
\* stays touched.
LEMMA AnswersStay ==
  ASSUME StoreInv, [StoreNext]_storeVars, NEW u \in Uploads
  PROVE  answered[u] # NoTitle => answered'[u] # NoTitle
<1>1. answered \in [Uploads -> Titles] BY DEF StoreInv, StoreTypeOK
<1>2. CASE \E v \in Uploads : Move(v) BY <1>1, <1>2, Disjoint DEF Move
<1>3. CASE \E r \in Renames : WriteRecord(r) BY <1>1, <1>3, Disjoint DEF WriteRecord
<1>4. CASE ~ ((\E v \in Uploads : Move(v)) \/ (\E r \in Renames : WriteRecord(r)))
  <2>1. UNCHANGED answered
    BY <1>4 DEF StoreNext, StoreStep, Stage, AllParts, WriteFirstRecord, AbandonUpload, StorePart,
                LoadRecord, OpenRecord, OpenFails, WriteFails, StoreDies, storeVars
  <2>. QED BY <2>1
<1>. QED BY <1>2, <1>3, <1>4

LEMMA TouchedStays ==
  ASSUME StoreInv, [StoreNext]_storeVars, NEW u \in Uploads, Touched(u)
  PROVE  Touched(u)'
<1>1. PICK r \in Renames : about[r] = u /\ step[r] \in {"opened", "done", "failed"}
  BY DEF Touched
<1>2. r \in Requests /\ r \notin Uploads /\ step \in [Requests -> Steps]
  BY Disjoint DEF StoreInv, StoreTypeOK
<1>3. UNCHANGED about
  BY DEF StoreNext, StoreStep, Stage, AllParts, WriteFirstRecord, Move, AbandonUpload, StorePart,
         LoadRecord, OpenRecord, OpenFails, WriteRecord, WriteFails, StoreDies, storeVars
<1>4. step'[r] \in {"opened", "done", "failed"}
  <2>1. ASSUME NEW v \in Uploads,
               \/ Stage(v) \/ AllParts(v) \/ WriteFirstRecord(v) \/ Move(v) \/ AbandonUpload(v)
               \/ \E part \in Parts : StorePart(v, part)
        PROVE  step'[r] = step[r]
    BY <1>2, <2>1 DEF Stage, AllParts, WriteFirstRecord, Move, AbandonUpload, StorePart, Proceed
  <2>2. ASSUME NEW q \in Renames,
               \/ LoadRecord(q) \/ OpenRecord(q) \/ OpenFails(q)
               \/ WriteRecord(q) \/ WriteFails(q)
        PROVE  step'[r] \in {"opened", "done", "failed"}
    BY <1>1, <1>2, <2>2 DEF LoadRecord, OpenRecord, OpenFails, WriteRecord, WriteFails, Proceed
  <2>3. CASE StoreDies BY <1>1, <1>2, <2>3 DEF StoreDies
  <2>4. CASE UNCHANGED storeVars BY <1>1, <2>4 DEF storeVars
  <2>. QED BY <1>1, <2>1, <2>2, <2>3, <2>4 DEF StoreNext, StoreStep
<1>. QED BY <1>1, <1>3, <1>4 DEF Touched

LEMMA StoreInvariant == StoreSpec => []StoreInv
BY StoreInitInv, StoreStepInv, PTL DEF StoreSpec

\* What is shown, from the invariant.
LEMMA ShownIsWhole == StoreInv => ShownProjectsAreWhole
<1>1. SUFFICES ASSUME StoreInv, NEW u \in Uploads, Readable(u)
               PROVE  /\ "video" \in parts[u]
                      /\ u \in Samples \/ "language" \in parts[u]
                      /\ RecordOf(u) \in {u} \union {r \in Renames : about[r] = u /\ step[r] = "done"}
  BY DEF ShownProjectsAreWhole
<1>2. dir[u] = "project" /\ RecordOf(u) = file[u].title /\ file[u].title # NoTitle
  BY <1>1 DEF Readable, RecordOf, Holds
<1>. QED BY <1>1, <1>2 DEF StoreInv, Uploaded, Whole, Named

LEMMA ShownIsAnswered == StoreInv => AnsweredNameIsShown
<1>1. SUFFICES ASSUME StoreInv, NEW u \in Uploads,
                      answered[u] # NoTitle, alone[u], Writing(u) = {}
               PROVE  RecordOf(u) = answered[u]
  BY DEF AnsweredNameIsShown
<1>2. file[u] = Record(answered[u]) /\ dir[u] = "project"
  BY <1>1 DEF StoreInv, Recorded, Uploaded
<1>. QED BY <1>1, <1>2 DEF RecordOf, Holds, Record

\* A project that was answered can be read, unless a rename opened its record.
LEMMA AnsweredIsReadable ==
  ASSUME StoreInv, NEW u \in Uploads, answered[u] # NoTitle, ~ Touched(u) PROVE Readable(u)
<1>1. alone[u] /\ Writing(u) = {} BY DEF StoreInv, Spoiled, Touched, Writing
<1>. QED BY <1>1, ShownIsAnswered DEF AnsweredNameIsShown, Readable

\* The directories, records and requests of the store stay in the states the
\* code has for them.
THEOREM StoreTypeCorrect == StoreSpec => []StoreTypeOK
<1>1. StoreInv => StoreTypeOK BY DEF StoreInv
<1>. QED BY <1>1, StoreInvariant, PTL

-----------------------------------------------------------------------------
(***************************************************************************)
(* The workspace.                                                          *)
(***************************************************************************)
\* A run writes its commit before any other row.
Journal ==
  /\ journal # <<>> => journal[1].kind = "commit"
  /\ \A r \in Runs :
       /\ run[r] \in {"idle", "rendering"} => place[r] = 0
       /\ run[r] = "rows" /\ place[r] > 0 => journal # <<>>

\* What a request that is under way has found.
Asking ==
  request.step # "idle" =>
    /\ request.known => answered[Dub] # NoTitle
    /\ ~ request.empty => delivered > 0
    /\ request.step \in {"record", "target", "timeline"} /\ ~ request.empty => request.commits # {}
    /\ request.step \in {"target", "timeline"} /\ ~ request.stored /\ request.known =>
         Touched(Dub)
    /\ request.step = "answered" /\ request.word = "not found" => request.empty
    /\ request.step = "answered" /\ request.word \in {"not found", "not listed"} /\ request.known =>
         Touched(Dub)

IInv == TypeOK /\ StoreInv /\ Journal /\ Asking

-----------------------------------------------------------------------------
LEMMA ReadinessWord ==
  ASSUME NEW running \in BOOLEAN, NEW n, NEW segments, NEW tracks
  PROVE  Readiness(running, n, segments, tracks) \in {"running", "pending", "review", "ready"}
BY DEF Readiness

LEMMA RowTypes ==
  \A row \in Row : /\ row.kind \in {"commit", "take", "state"}
                   /\ row.kind = "commit" => row.id \in Runs
BY DEF Row

\* A journal that has reached ClickHouse at all shows a commit.
LEMMA CommitShown ==
  ASSUME IInv
  PROVE  Commits(delivered) \subseteq Runs /\ (delivered > 0 => Commits(delivered) # {})
<1>1. journal \in Seq(Row) /\ delivered \in 0 .. Len(journal) /\ Len(journal) \in Nat
  BY DEF IInv, TypeOK
<1>2. \A i \in 1 .. delivered : journal[i] \in Row BY <1>1
<1>3. Commits(delivered) \subseteq Runs BY <1>2, RowTypes DEF Commits, RowsIn
<1>4. ASSUME delivered > 0 PROVE Commits(delivered) # {}
  <2>1. 1 \in 1 .. delivered /\ journal # <<>> BY <1>1, <1>4
  <2>. QED BY <2>1 DEF IInv, Journal, Commits, RowsIn
<1>. QED BY <1>3, <1>4

LEMMA DubIsUpload == Dub \in Uploads
BY DubAssumption

\* Only the store changes the store.
LEMMA StoreUnchanged == ASSUME StoreInv, UNCHANGED storeVars PROVE StoreInv'
BY StoreStepInv

\* A step of the store alone.
LEMMA AskingKept ==
  ASSUME IInv, [StoreNext]_storeVars, UNCHANGED request,
         delivered > 0 => delivered' > 0
  PROVE  Asking'
<1>1. answered[Dub] # NoTitle => answered'[Dub] # NoTitle BY DubIsUpload, AnswersStay DEF IInv
<1>2. Touched(Dub) => Touched(Dub)' BY DubIsUpload, TouchedStays DEF IInv
<1>. QED BY <1>1, <1>2 DEF IInv, Asking

LEMMA StoreInvType == StoreInv => StoreTypeOK
BY DEF StoreInv

LEMMA StoreOnlyStep == ASSUME IInv, Store PROVE IInv'
<1>1. [StoreNext]_storeVars
      /\ UNCHANGED <<journal, delivered, run, language, found, place, request, faults>>
  BY DEF Store, StoreNext, ledgerVars, runVars
<1>2. StoreInv' BY <1>1, StoreStepInv DEF IInv
<1>3. TypeOK' BY <1>1, <1>2, StoreInvType DEF IInv, TypeOK, StoreInv
<1>4. Journal' BY <1>1 DEF IInv, Journal
<1>5. Asking' BY <1>1, AskingKept DEF IInv, TypeOK
<1>. QED BY <1>2, <1>3, <1>4, <1>5 DEF IInv

-----------------------------------------------------------------------------
(***************************************************************************)
(* Runs and delivery.                                                      *)
(***************************************************************************)
LEMMA Minimum ==
  ASSUME NEW S, S \subseteq Nat, S # {}
  PROVE  Lowest(S) \in S /\ \A y \in S : Lowest(S) <= y
<1>1. \E x \in S : \A y \in S : ~ (<<y, x>> \in OpToRel(<, Nat))
  BY NatLessThanWellFounded, WFMin
<1>2. PICK x \in S : \A y \in S : ~ (<<y, x>> \in OpToRel(<, Nat)) BY <1>1
<1>3. \A y \in S : x <= y
  <2>1. SUFFICES ASSUME NEW y \in S PROVE x <= y OBVIOUS
  <2>2. ~ (y < x) BY <1>2 DEF OpToRel
  <2>. QED BY <2>2
<1>. QED BY <1>3 DEF Lowest

\* A run goes on to the nearest of its places.
LEMMA NextIsLater ==
  ASSUME IInv, NEW r \in Runs, place[r] < LastPlace
  PROVE  /\ NextPlace(r) \in Places(r) /\ NextPlace(r) \in 0 .. LastPlace
         /\ NextPlace(r) > place[r] /\ NextPlace(r) > 0
         /\ \A p \in Places(r) : p > place[r] => NextPlace(r) <= p
<1>1. /\ place[r] \in Nat /\ LineCount \in Nat /\ LastPlace \in Nat
      /\ found[r] \subseteq 1 .. LineCount
  BY BoundsAssumption DEF IInv, TypeOK, LastPlace, Lines
<1>2. Places(r) \subseteq 0 .. LastPlace BY <1>1 DEF Places, LastPlace
<1>. DEFINE later == {p \in Places(r) : p > place[r]}
<1>3. LastPlace \in later BY DEF Places
<1>4. later \subseteq Nat BY <1>2
<1>5. NextPlace(r) = Lowest(later) BY DEF NextPlace
<1>. HIDE DEF later
<1>6. NextPlace(r) \in later /\ \A p \in later : NextPlace(r) <= p
  BY <1>3, <1>4, <1>5, Minimum
<1>. QED BY <1>1, <1>2, <1>6 DEF later

\* The rows of a run.
LEMMA RowsOfRun ==
  ASSUME IInv, NEW r \in Runs, run[r] = "rows", place[r] < LastPlace, NEW row \in RowsAt(r)
  PROVE  row \in Row /\ (place[r] = 0 => row.kind = "commit")
<1>1. place[r] \in Nat /\ language[r] \in Languages /\ LineCount \in Nat \ {0}
      /\ place[r] < 1 + 2 * LineCount
  BY BoundsAssumption DEF IInv, TypeOK, LastPlace
<1>2. CASE place[r] = 0 BY <1>2 DEF RowsAt, Row
<1>3. CASE place[r] # 0 /\ place[r] <= LineCount
  BY <1>1, <1>3 DEF RowsAt, Row, Lines
<1>4. CASE place[r] > LineCount
  BY <1>1, <1>4 DEF RowsAt, Row, Lines
<1>. QED BY <1>1, <1>2, <1>3, <1>4

\* Appending a row to the journal keeps it well formed.
LEMMA AppendRow ==
  ASSUME IInv, NEW r \in Runs, run[r] = "rows", place[r] < LastPlace, NEW row \in RowsAt(r)
  PROVE  /\ Append(journal, row) \in Seq(Row)
         /\ Len(Append(journal, row)) = Len(journal) + 1
         /\ Append(journal, row) # <<>>
         /\ Append(journal, row)[1].kind = "commit"
<1>1. journal \in Seq(Row) /\ Len(journal) \in Nat BY DEF IInv, TypeOK
<1>2. row \in Row /\ (place[r] = 0 => row.kind = "commit") BY RowsOfRun
<1>3. Append(journal, row) \in Seq(Row) /\ Len(Append(journal, row)) = Len(journal) + 1
      /\ Append(journal, row)[Len(journal) + 1] = row
      /\ \A i \in 1 .. Len(journal) : Append(journal, row)[i] = journal[i]
  BY <1>1, <1>2
<1>4. Append(journal, row) # <<>> BY <1>1, <1>2, AppendProperties
<1>5. Append(journal, row)[1].kind = "commit"
  <2>1. CASE journal = <<>>
    <3>1. place[r] = 0 BY <2>1 DEF IInv, TypeOK, Journal
    <3>2. Len(journal) = 0 BY <2>1
    <3>. QED BY <1>2, <1>3, <3>1, <3>2
  <2>2. CASE journal # <<>>
    <3>1. 1 \in 1 .. Len(journal) BY <1>1, <2>2
    <3>. QED BY <1>3, <2>2, <3>1 DEF IInv, Journal
  <2>. QED BY <2>1, <2>2
<1>. QED BY <1>3, <1>4, <1>5

LEMMA RunStep ==
  ASSUME IInv, NEW r \in Runs,
         \/ RunStart(r) \/ RunFlush(r) \/ RunWrite(r) \/ RunSkips(r) \/ RunEnds(r) \/ RunFails(r)
  PROVE  IInv'
<1>1. UNCHANGED storeVars
  BY DEF RunStart, RunFlush, RunWrite, RunSkips, RunEnds, RunFails
<1>2. StoreInv' BY <1>1, StoreUnchanged DEF IInv
<1>3. StoreTypeOK' BY <1>2 DEF StoreInv
<1>4. journal \in Seq(Row) /\ Len(journal) \in Nat /\ delivered \in 0 .. Len(journal)
      /\ faults \in 0 .. MaxFaults /\ MaxFaults \in Nat
      /\ run \in [Runs -> {"idle", "rendering", "rows", "done", "failed"}]
      /\ place \in [Runs -> 0 .. LastPlace] /\ LastPlace \in Nat /\ LineCount \in Nat
  BY BoundsAssumption DEF IInv, TypeOK, LastPlace
<1>5. CASE RunStart(r)
  <2>1. /\ run[r] = "idle" /\ run' = [run EXCEPT ![r] = "rendering"]
        /\ \E lang \in Languages : language' = [language EXCEPT ![r] = lang]
        /\ request' = [request EXCEPT !.beside = request.step # "idle"]
        /\ UNCHANGED <<journal, delivered, found, place, faults>>
    BY <1>5 DEF RunStart, ledgerVars
  <2>2. /\ request' \in Request
        /\ request'.step = request.step /\ request'.known = request.known
        /\ request'.empty = request.empty /\ request'.commits = request.commits
        /\ request'.stored = request.stored /\ request'.word = request.word
    BY <2>1 DEF IInv, TypeOK, Request
  <2>3. TypeOK' BY <1>3, <1>4, <2>1, <2>2 DEF IInv, TypeOK
  <2>4. Journal' BY <1>4, <2>1 DEF IInv, Journal
  <2>5. Asking'
    <3>1. Touched(Dub)' = Touched(Dub) BY <1>1 DEF Touched, storeVars
    <3>2. answered' = answered BY <1>1 DEF storeVars
    <3>. QED BY <2>1, <2>2, <3>1, <3>2 DEF IInv, Asking
  <2>. QED BY <1>2, <2>3, <2>4, <2>5 DEF IInv
<1>6. CASE RunFlush(r)
  <2>1. /\ run[r] = "rendering"
        /\ \/ delivered' = Len(journal) /\ run' = [run EXCEPT ![r] = "rows"] /\ UNCHANGED faults
              /\ \E lines \in Segmentations : found' = [found EXCEPT ![r] = lines]
           \/ /\ run' = [run EXCEPT ![r] = "failed"] /\ UNCHANGED <<delivered, found>>
              /\ faults < MaxFaults /\ faults' = faults + 1
        /\ UNCHANGED <<journal, language, place, request>>
    BY <1>6 DEF RunFlush, Fault
  <2>2. TypeOK'
    <3>1. delivered' \in 0 .. Len(journal') /\ faults' \in 0 .. MaxFaults BY <1>4, <2>1
    <3>2. run' \in [Runs -> {"idle", "rendering", "rows", "done", "failed"}] BY <1>4, <2>1
    <3>3. found' \in [Runs -> SUBSET Lines]
      BY <2>1, SegmentationsAssumption DEF IInv, TypeOK, Lines
    <3>. QED BY <1>3, <2>1, <3>1, <3>2, <3>3 DEF IInv, TypeOK
  <2>3. Journal' BY <1>4, <2>1 DEF IInv, Journal
  <2>4. delivered > 0 => delivered' > 0 BY <1>4, <2>1
  <2>5. Asking' BY <1>1, <2>1, <2>4, AskingKept
  <2>. QED BY <1>2, <2>2, <2>3, <2>5 DEF IInv
<1>7. CASE RunWrite(r)
  <2>1. PICK row \in RowsAt(r) :
          \/ /\ journal' = Append(journal, row) /\ delivered' = Len(journal) + 1
             /\ UNCHANGED <<run, faults>>
          \/ /\ faults < MaxFaults /\ faults' = faults + 1
             /\ run' = [run EXCEPT ![r] = "failed"]
             /\ journal' \in {journal, Append(journal, row)}
             /\ UNCHANGED delivered
    BY <1>7 DEF RunWrite, Fault
  <2>2. /\ run[r] = "rows" /\ place[r] < LastPlace
        /\ place' = [place EXCEPT ![r] = NextPlace(r)]
        /\ UNCHANGED <<language, found, request>>
    BY <1>7 DEF RunWrite
  <2>next. NextPlace(r) \in 0 .. LastPlace /\ NextPlace(r) > 0 BY <1>4, <2>2, NextIsLater
  <2>3. /\ Append(journal, row) \in Seq(Row)
        /\ Len(Append(journal, row)) = Len(journal) + 1
        /\ Append(journal, row) # <<>>
        /\ Append(journal, row)[1].kind = "commit"
    BY <2>2, AppendRow
  <2>4. /\ journal' \in Seq(Row) /\ delivered' \in 0 .. Len(journal')
        /\ delivered > 0 => delivered' > 0
    <3>1. CASE journal' = Append(journal, row) /\ delivered' = Len(journal) + 1
      BY <1>4, <2>3, <3>1
    <3>2. CASE journal' = Append(journal, row) /\ delivered' = delivered
      <4>1. Len(journal') = Len(journal) + 1 BY <2>3, <3>2
      <4>. QED BY <1>4, <2>3, <3>2, <4>1
    <3>3. CASE journal' = journal /\ delivered' = delivered BY <1>4, <3>3
    <3>. QED BY <2>1, <3>1, <3>2, <3>3
  <2>5. run' \in [Runs -> {"idle", "rendering", "rows", "done", "failed"}]
        /\ faults' \in 0 .. MaxFaults /\ place' \in [Runs -> 0 .. LastPlace]
    BY <1>4, <2>1, <2>2, <2>next
  <2>6. TypeOK' BY <1>3, <2>2, <2>4, <2>5 DEF IInv, TypeOK
  <2>7. Journal'
    <3>1. journal' # <<>> => journal'[1].kind = "commit" BY <2>1, <2>3 DEF IInv, Journal
    <3>2. CASE journal' = Append(journal, row)
      BY <1>4, <2>1, <2>2, <2>3, <2>next, <3>1, <3>2 DEF IInv, Journal
    <3>3. CASE journal' = journal /\ run' = [run EXCEPT ![r] = "failed"]
      BY <1>4, <2>2, <2>next, <3>1, <3>3 DEF IInv, Journal
    <3>. QED BY <2>1, <3>2, <3>3
  <2>8. Asking' BY <1>1, <2>2, <2>4, AskingKept
  <2>. QED BY <1>2, <2>6, <2>7, <2>8 DEF IInv
<1>8. CASE RunSkips(r) \/ RunEnds(r) \/ RunFails(r)
  <2>1. /\ \/ /\ run[r] = "rows" /\ place[r] \in Lines
              /\ place' = [place EXCEPT ![r] = NextPlace(r)] /\ UNCHANGED <<run, faults>>
           \/ /\ run' = [run EXCEPT ![r] = "done"] /\ UNCHANGED <<place, faults>>
           \/ /\ run' = [run EXCEPT ![r] = "failed"] /\ UNCHANGED place
              /\ faults < MaxFaults /\ faults' = faults + 1
        /\ UNCHANGED <<journal, delivered, language, found, request>>
    BY <1>8 DEF RunSkips, RunEnds, RunFails, Fault, ledgerVars
  <2>2. run' \in [Runs -> {"idle", "rendering", "rows", "done", "failed"}]
        /\ faults' \in 0 .. MaxFaults
    BY <1>4, <2>1
  <2>next. place[r] \in Lines => NextPlace(r) \in 0 .. LastPlace /\ NextPlace(r) > 0
    BY <1>4, NextIsLater DEF Lines, LastPlace
  <2>3. place' \in [Runs -> 0 .. LastPlace] BY <1>4, <2>1, <2>next
  <2>4. TypeOK' BY <1>3, <2>1, <2>2, <2>3 DEF IInv, TypeOK
  <2>5. Journal'
    <3>1. CASE UNCHANGED run
      <4>1. \/ place[r] > 0 /\ place' = [place EXCEPT ![r] = NextPlace(r)] /\ run[r] = "rows"
            \/ UNCHANGED place
        BY <1>4, <2>1, <3>1 DEF Lines
      <4>. QED BY <1>4, <2>1, <3>1, <4>1 DEF IInv, Journal
    <3>2. CASE run' \in {[run EXCEPT ![r] = "done"], [run EXCEPT ![r] = "failed"]}
               /\ UNCHANGED place
      BY <1>4, <2>1, <3>2 DEF IInv, Journal
    <3>. QED BY <2>1, <3>1, <3>2
  <2>6. Asking' BY <1>1, <1>4, <2>1, AskingKept
  <2>. QED BY <1>2, <2>4, <2>5, <2>6 DEF IInv
<1>. QED BY <1>5, <1>6, <1>7, <1>8

LEMMA ReconcileStep == ASSUME IInv, Reconcile PROVE IInv'
<1>1. /\ delivered < Len(journal) /\ delivered' = Len(journal)
      /\ UNCHANGED storeVars /\ UNCHANGED <<journal, run, language, found, place, request, faults>>
  BY DEF Reconcile, runVars
<1>2. Len(journal) \in Nat /\ delivered \in Nat BY DEF IInv, TypeOK
<1>3. StoreInv' BY <1>1, StoreUnchanged DEF IInv
<1>4. TypeOK' BY <1>1, <1>2, <1>3, StoreInvType DEF IInv, TypeOK, StoreInv
<1>5. Journal' BY <1>1 DEF IInv, Journal
<1>6. Asking' BY <1>1, <1>2, AskingKept
<1>. QED BY <1>3, <1>4, <1>5, <1>6 DEF IInv

-----------------------------------------------------------------------------
(***************************************************************************)
(* The reads.                                                              *)
(***************************************************************************)
\* A read changes the request alone.
LEMMA ReadKeeps ==
  ASSUME IInv, UNCHANGED <<storeVars, ledgerVars, runVars, faults>>, request' \in Request, Asking'
  PROVE  IInv'
<1>1. /\ UNCHANGED storeVars
      /\ UNCHANGED <<journal, delivered, run, language, found, place, faults>>
  BY DEF ledgerVars, runVars
<1>2. StoreInv' BY <1>1, StoreUnchanged DEF IInv
<1>3. TypeOK' BY <1>1, <1>2 DEF IInv, TypeOK, StoreInv
<1>4. Journal' BY <1>1 DEF IInv, Journal
<1>. QED BY <1>2, <1>3, <1>4 DEF IInv

LEMMA ReadStep == ASSUME IInv, Read PROVE IInv'
<1>1. UNCHANGED <<storeVars, ledgerVars, runVars, faults>>
  BY DEF Read, AskWorkspace, ReadTakes, ReadLanguages, ReadCommits, ReadRecord, ReadTarget,
         AnswerWorkspace, AskIndex, ReadIndexTakes, AnswerIndex, EndRequest
<1>2. /\ answered' = answered /\ delivered' = delivered /\ (Touched(Dub)' <=> Touched(Dub))
  BY <1>1 DEF storeVars, ledgerVars, Touched
<1>3. request \in Request /\ delivered \in Nat BY DEF IInv, TypeOK
<1>zero. delivered' = 0 \/ delivered' > 0 BY <1>2, <1>3
<1>4. NoRequest \in Request BY DEF NoRequest, Request, Words
<1>5. ~ Readable(Dub) /\ answered[Dub] # NoTitle => Touched(Dub)
  BY DubIsUpload, AnsweredIsReadable DEF IInv
<1>6. Commits(delivered) \subseteq Runs /\ (delivered > 0 => Commits(delivered) # {})
  BY CommitShown
<1>7. \A s \in {"takes", "index takes", "answered"} :
        /\ Asked(s) \in Request /\ Asked(s).step = s
        /\ Asked(s).known <=> answered[Dub] # NoTitle
        /\ Asked(s).empty <=> delivered = 0
        /\ Asked(s).word = "none"
  BY <1>4 DEF Asked, NoRequest, Request, Words
<1>8. CASE AskWorkspace
  <2>1. request' = [Asked("takes") EXCEPT !.running = Active, !.beside = Active]
    BY <1>8 DEF AskWorkspace
  <2>2. Active \in BOOLEAN BY DEF Active
  <2>3. /\ request' \in Request /\ request'.step = "takes" /\ request'.word = "none"
        /\ request'.known <=> answered[Dub] # NoTitle
        /\ request'.empty <=> delivered = 0
    BY <1>7, <2>1, <2>2 DEF Request
  <2>4. Asking' BY <1>2, <1>zero, <2>3 DEF Asking
  <2>. QED BY <1>1, <2>3, <2>4, ReadKeeps
<1>9. CASE ReadTakes \/ ReadLanguages \/ ReadTarget \/ ReadIndexTakes
  <2>1. /\ request' \in Request
        /\ \/ request.step = "takes" /\ request'.step = "languages"
           \/ request.step = "languages" /\ request'.step = "commits"
           \/ request.step = "target" /\ request'.step = "timeline"
           \/ request.step = "index takes" /\ request'.step = "index counts"
        /\ request'.known = request.known /\ request'.empty = request.empty
        /\ request'.commits = request.commits /\ request'.stored = request.stored
    <3>1. Readable(Dub) \in BOOLEAN BY DEF Readable
    <3>2. (TakeLanguages(delivered) # {}) \in BOOLEAN OBVIOUS
    <3>3. CASE ReadTakes BY <1>3, <3>3 DEF ReadTakes, Request
    <3>4. CASE ReadLanguages BY <1>3, <3>2, <3>4 DEF ReadLanguages, Request
    <3>5. CASE ReadTarget BY <1>3, <3>1, <3>5 DEF ReadTarget, Request
    <3>6. CASE ReadIndexTakes BY <1>3, <3>6 DEF ReadIndexTakes, Request
    <3>. QED BY <1>9, <3>3, <3>4, <3>5, <3>6
  <2>2. Asking' BY <1>2, <2>1 DEF IInv, Asking
  <2>. QED BY <1>1, <2>1, <2>2, ReadKeeps
<1>10. CASE ReadCommits
  <2>1. request.step = "commits"
        /\ request' = [request EXCEPT !.commits = Commits(delivered), !.step = "record"]
    BY <1>10 DEF ReadCommits
  <2>2. /\ request' \in Request /\ request'.step = "record"
        /\ request'.commits = Commits(delivered)
        /\ request'.known = request.known /\ request'.empty = request.empty
    BY <1>3, <1>6, <2>1 DEF Request
  <2>3. Asking' BY <1>2, <1>6, <2>1, <2>2 DEF IInv, Asking
  <2>. QED BY <1>1, <2>2, <2>3, ReadKeeps
<1>11. CASE ReadRecord
  <2>1. request.step = "record"
        /\ request' = [request EXCEPT !.stored = Readable(Dub),
                                      !.step = IF Readable(Dub) THEN "target" ELSE "timeline"]
    BY <1>11 DEF ReadRecord
  <2>2. /\ request' \in Request /\ request'.stored = Readable(Dub)
        /\ request'.step = IF Readable(Dub) THEN "target" ELSE "timeline"
        /\ request'.commits = request.commits
        /\ request'.known = request.known /\ request'.empty = request.empty
    BY <1>3, <2>1 DEF Request, Readable
  <2>3. Asking' BY <1>2, <1>5, <2>1, <2>2 DEF IInv, Asking
  <2>. QED BY <1>1, <2>2, <2>3, ReadKeeps
<1>12. CASE AnswerWorkspace
  <2>. DEFINE word == WorkspaceWord(request.running, request.takes, request.languages,
                                    request.commits, request.stored, request.named, delivered)
  <2>1. request.step = "timeline"
        /\ request' = [request EXCEPT !.word = word, !.step = "answered"]
    BY <1>12 DEF AnswerWorkspace
  <2>2. /\ word \in {"not found", "running", "pending", "review", "ready"}
        /\ word = "not found" => ~ request.stored /\ request.commits = {}
    <3>1. request.running \in BOOLEAN BY <1>3 DEF Request
    <3>. QED BY <3>1, ReadinessWord DEF WorkspaceWord
  <2>. HIDE DEF word
  <2>3. /\ request' \in Request /\ request'.step = "answered" /\ request'.word = word
        /\ request'.known = request.known /\ request'.empty = request.empty
    BY <1>3, <2>1, <2>2 DEF Request, Words
  <2>4. Asking' BY <1>2, <2>1, <2>2, <2>3 DEF IInv, Asking
  <2>. QED BY <1>1, <2>3, <2>4, ReadKeeps
<1>13. CASE AskIndex
  <2>1. CASE Readable(Dub)
    <3>1. request' = [Asked("index takes") EXCEPT !.stored = TRUE, !.beside = Active]
      BY <1>13, <2>1 DEF AskIndex
    <3>2. Active \in BOOLEAN BY DEF Active
    <3>3. /\ request' \in Request /\ request'.step = "index takes"
          /\ request'.known <=> answered[Dub] # NoTitle
          /\ request'.empty <=> delivered = 0
      BY <1>7, <3>1, <3>2 DEF Request
    <3>4. ~ request'.empty => delivered' > 0 BY <1>2, <1>zero, <3>3
    <3>5. request'.known => answered'[Dub] # NoTitle BY <1>2, <3>3
    <3>6. Asking' BY <3>3, <3>4, <3>5 DEF Asking
    <3>. QED BY <1>1, <3>3, <3>6, ReadKeeps
  <2>2. CASE ~ Readable(Dub)
    <3>1. request' = [Asked("answered") EXCEPT !.word = "not listed"]
      BY <1>13, <2>2 DEF AskIndex
    <3>2. /\ request' \in Request /\ request'.step = "answered" /\ request'.word = "not listed"
          /\ request'.known <=> answered[Dub] # NoTitle
          /\ request'.empty <=> delivered = 0
      BY <1>7, <3>1 DEF Request, Words
    <3>3. ~ request'.empty => delivered' > 0 BY <1>2, <1>zero, <3>2
    <3>4. request'.known => answered'[Dub] # NoTitle /\ Touched(Dub)'
      BY <1>2, <1>5, <2>2, <3>2
    <3>5. Asking' BY <3>2, <3>3, <3>4 DEF Asking
    <3>. QED BY <1>1, <3>2, <3>5, ReadKeeps
  <2>. QED BY <2>1, <2>2
<1>14. CASE AnswerIndex
  <2>1. request.step = "index counts"
        /\ request' = [request EXCEPT !.word = IndexWord(request.takes, delivered),
                                      !.step = "answered"]
    BY <1>14 DEF AnswerIndex
  <2>2. IndexWord(request.takes, delivered) \in {"running", "pending", "review", "ready"}
    BY ReadinessWord DEF IndexWord
  <2>3. /\ request' \in Request /\ request'.step = "answered"
        /\ request'.word \in {"running", "pending", "review", "ready"}
        /\ request'.known = request.known /\ request'.empty = request.empty
    BY <1>3, <2>1, <2>2 DEF Request, Words
  <2>4. Asking' BY <1>2, <2>1, <2>3 DEF IInv, Asking
  <2>. QED BY <1>1, <2>3, <2>4, ReadKeeps
<1>15. CASE EndRequest
  <2>1. request' \in Request /\ request'.step = "idle"
    BY <1>4, <1>15 DEF EndRequest, NoRequest
  <2>2. Asking' BY <2>1 DEF Asking
  <2>. QED BY <1>1, <2>1, <2>2, ReadKeeps
<1>. QED BY <1>8, <1>9, <1>10, <1>11, <1>12, <1>13, <1>14, <1>15 DEF Read

LEMMA CrashStep == ASSUME IInv, Crash PROVE IInv'
<1>1. /\ StoreDies /\ request' = NoRequest
      /\ run' = [r \in Runs |-> IF run[r] \in {"idle", "done"} THEN run[r] ELSE "failed"]
      /\ faults < MaxFaults /\ faults' = faults + 1
      /\ UNCHANGED <<journal, delivered, language, found, place>>
  BY DEF Crash, Fault, ledgerVars
<1>2. StoreInv' BY <1>1, StoreStepInv DEF IInv, StoreNext
<1>3. NoRequest \in Request /\ NoRequest.step = "idle" BY DEF NoRequest, Request, Words
<1>4. faults' \in 0 .. MaxFaults BY <1>1, BoundsAssumption DEF IInv, TypeOK
<1>5. TypeOK' BY <1>1, <1>2, <1>3, <1>4 DEF IInv, TypeOK, StoreInv
<1>6. Journal' BY <1>1 DEF IInv, TypeOK, Journal
<1>7. Asking' BY <1>1, <1>3 DEF Asking
<1>. QED BY <1>2, <1>5, <1>6, <1>7 DEF IInv

-----------------------------------------------------------------------------
LEMMA InitInv == Init => IInv
<1>. SUFFICES ASSUME Init PROVE IInv OBVIOUS
<1>1. StoreInv BY StoreInitInv DEF Init
<1>2. NoRequest \in Request /\ NoRequest.step = "idle" BY DEF NoRequest, Request, Words
<1>3. 0 \in 0 .. LastPlace /\ 0 \in 0 .. MaxFaults /\ StoredLanguage \in Languages
  BY BoundsAssumption, LanguagesAssumption DEF LastPlace
<1>4. TypeOK BY <1>1, <1>2, <1>3 DEF Init, TypeOK, StoreInv, Lines
<1>5. Journal BY DEF Init, Journal
<1>6. Asking BY <1>2 DEF Init, Asking
<1>. QED BY <1>1, <1>4, <1>5, <1>6 DEF IInv

\* Every step keeps the invariant.
LEMMA NextInv == IInv /\ [Next]_vars => IInv'
<1>. SUFFICES ASSUME IInv, [Next]_vars PROVE IInv' OBVIOUS
<1>1. CASE UNCHANGED vars
  <2>1. UNCHANGED <<storeVars, ledgerVars, runVars, faults>> /\ UNCHANGED request
        /\ delivered' = delivered
    BY <1>1 DEF vars, ledgerVars
  <2>2. Asking' BY <2>1, AskingKept DEF IInv, TypeOK
  <2>. QED BY <2>1, <2>2, ReadKeeps DEF IInv, TypeOK
<1>. QED BY <1>1, StoreOnlyStep, RunStep, ReconcileStep, ReadStep, CrashStep DEF Next

LEMMA Invariant == Spec => []IInv
BY InitInv, NextInv, PTL DEF Spec

\* The store, the ledger, the runs and the request stay in the states the code
\* has for them.
THEOREM TypeCorrect == Spec => []TypeOK
<1>1. IInv => TypeOK BY DEF IInv
<1>. QED BY <1>1, Invariant, PTL

\* Runs and readers only look at the store: what it does beside them is a
\* behaviour of ProjectStore.
THEOREM WorkspaceRunsStore == Spec => StoreSpec
<1>1. Init => StoreInit BY DEF Init
<1>2. [Next]_vars => [StoreNext]_storeVars
  <2>. SUFFICES ASSUME [Next]_vars PROVE [StoreNext]_storeVars OBVIOUS
  <2>1. CASE Store BY <2>1 DEF Store, StoreNext
  <2>2. CASE \E r \in Runs : RunStart(r) \/ RunFlush(r) \/ RunWrite(r) \/ RunSkips(r)
                              \/ RunEnds(r) \/ RunFails(r)
    BY <2>2 DEF RunStart, RunFlush, RunWrite, RunSkips, RunEnds, RunFails
  <2>3. CASE Reconcile BY <2>3 DEF Reconcile
  <2>4. CASE Read
    BY <2>4 DEF Read, AskWorkspace, ReadTakes, ReadLanguages, ReadCommits, ReadRecord, ReadTarget,
                AnswerWorkspace, AskIndex, ReadIndexTakes, AnswerIndex, EndRequest
  <2>5. CASE Crash BY <2>5 DEF Crash, StoreNext
  <2>6. CASE UNCHANGED vars BY <2>6 DEF vars
  <2>. QED BY <2>1, <2>2, <2>3, <2>4, <2>5, <2>6 DEF Next
<1>. QED BY <1>1, <1>2, PTL DEF Spec, StoreSpec

\* Whatever request stopped where, a project a reader is shown has its parts and
\* a name that an accepted request asked for (upload.go, sample.go).
THEOREM ShownIsWholeAlways == Spec => []ShownProjectsAreWhole
BY WorkspaceRunsStore, StoreInvariant, ShownIsWhole, PTL

\* A record that was written by one rename at a time shows the name last
\* answered (NewRenameHandler in upload.go).
THEOREM ShownIsAnsweredAlways == Spec => []AnsweredNameIsShown
BY WorkspaceRunsStore, StoreInvariant, ShownIsAnswered, PTL

\* "Not found" and a gap in the index mean a rename that writes the record or
\* has ended, and "not found" an empty ledger as well, whatever arrives between
\* the reads
\* (assembleWorkspace in workspace.go, ListUploadSummaries).
THEOREM NotFoundIsHonest == Spec => []NotFoundMeansNothing
<1>1. IInv => NotFoundMeansNothing BY DEF IInv, Asking, NotFoundMeansNothing, Touched
<1>. QED BY <1>1, Invariant, PTL

-----------------------------------------------------------------------------
(***************************************************************************)
(* Readiness. A run that succeeded has left a snapshot of every line it    *)
(* found, so where no run is in progress and none failed half way, every   *)
(* take is of a line of its language's timeline. There are then at most    *)
(* tracks times longest timeline lines with a take, and the rule, which    *)
(* asks for as many, leaves no line out if the first timeline is longest.  *)
(***************************************************************************)
\* Rows are of runs that have begun to write; takes are in the language of
\* their run, of a line it found, and after its commit.
Attributed ==
  \A i \in 1 .. Len(journal) :
    /\ journal[i].id \in Runs /\ place[journal[i].id] > 0
    /\ journal[i].kind = "take" =>
         /\ journal[i].language = language[journal[i].id]
         /\ journal[i].line \in found[journal[i].id]
         /\ \E j \in 1 .. i : journal[j].kind = "commit" /\ journal[j].id = journal[i].id

SnapshotOf(i, r, l) ==
  /\ journal[i].kind = "state" /\ journal[i].id = r
  /\ journal[i].language = language[r] /\ journal[i].line = l

\* What a run that met no fault has written so far.
Written ==
  \A r \in Runs :
    /\ run[r] = "rows" /\ place[r] > 0 =>
         /\ place[r] \in Places(r)
         /\ \E j \in 1 .. Len(journal) : journal[j].kind = "commit" /\ journal[j].id = r
    /\ run[r] \in {"rows", "done"} => \A l \in found[r] : place[r] > LineCount + l =>
         \E i \in 1 .. delivered : SnapshotOf(i, r, l)
    /\ run[r] = "done" => place[r] = LastPlace

\* A row that stays behind is of a run that failed half way.
Queued == delivered < Len(journal) => HalfRecorded

Undisturbed ==
  (Ready \/ request.step \notin {"idle", "answered"}) /\ ~ request.beside => ~ Active

\* A request lists the commits there are, the index no language without takes.
Listed ==
  /\ request.takes <= delivered
  /\ request.step \in {"record", "target", "timeline"} /\ ~ request.beside /\ ~ HalfRecorded =>
       request.commits = Commits(delivered)
  /\ request.step \in {"index takes", "index counts"} => ~ request.named

Rows == Attributed /\ Written /\ Queued
Reads == Undisturbed /\ Listed /\ ReadyIsWhole

WInv == IInv /\ Rows /\ Reads

LEMMA RowFields ==
  \A row \in Row : /\ row.id \in Runs
                   /\ row.kind # "commit" => row.language \in Languages /\ row.line \in Lines
BY DEF Row

\* Pairs of an element of D and one of its own at most n things number at most
\* n for each of D, and if they number that many none is missing.
LEMMA Counting ==
  ASSUME NEW D, IsFiniteSet(D), NEW n \in Nat, NEW T,
         \A d \in D : IsFiniteSet(T[d]) /\ Cardinality(T[d]) <= n,
         NEW R, \A p \in R : \E d \in D : \E x \in T[d] : p = <<d, x>>
  PROVE  /\ Cardinality(R) \in Nat /\ Cardinality(R) <= Cardinality(D) * n
         /\ Cardinality(R) = Cardinality(D) * n => \A d \in D : \A x \in T[d] : <<d, x>> \in R
<1>1. IsFiniteSet(1 .. n) /\ Cardinality(1 .. n) = n
  <2>1. 1 \in Int /\ n \in Int OBVIOUS
  <2>. QED BY <2>1, FS_Interval
<1>2. ASSUME NEW d \in D PROVE Injection(T[d], 1 .. n) # {}
  <2>. DEFINE m == Cardinality(T[d])
  <2>1. m \in Nat /\ m <= n BY FS_CardinalityType
  <2>2. IsFiniteSet(1 .. m) /\ Cardinality(1 .. m) = m
    <3>1. 1 \in Int /\ m \in Int BY <2>1
    <3>. HIDE DEF m
    <3>. QED BY <2>1, <3>1, FS_Interval
  <2>3. PICK b \in Bijection(T[d], 1 .. m) : TRUE
    BY <2>2, FS_SameCardinalityBij DEF ExistsBijection
  <2>4. b \in [T[d] -> 1 .. m] /\ IsInjective(b) BY <2>3 DEF Bijection, Injection
  <2>. HIDE DEF m
  <2>5. b \in [T[d] -> 1 .. n] BY <2>1, <2>4
  <2>. QED BY <2>4, <2>5 DEF Injection
<1>. DEFINE number == [d \in D |-> CHOOSE f \in Injection(T[d], 1 .. n) : TRUE]
            f == [p \in R |-> <<p[1], number[p[1]][p[2]]>>]
<1>3. ASSUME NEW d \in D
      PROVE  /\ number[d] \in [T[d] -> 1 .. n]
             /\ \A x, y \in T[d] : number[d][x] = number[d][y] => x = y
  <2>1. number[d] \in Injection(T[d], 1 .. n) BY <1>2
  <2>. HIDE DEF number
  <2>2. number[d] \in [T[d] -> 1 .. n] /\ IsInjective(number[d]) BY <2>1 DEF Injection
  <2>. QED BY <2>2 DEF IsInjective
<1>. HIDE DEF number
<1>4. ASSUME NEW d \in D, NEW x \in T[d], <<d, x>> \in R PROVE f[<<d, x>>] = <<d, number[d][x]>>
  BY <1>4
<1>5. f \in [R -> D \X (1 .. n)] BY <1>3
<1>6. ASSUME NEW p \in R, NEW q \in R, f[p] = f[q] PROVE p = q
  <2>1. PICK d \in D : \E x \in T[d] : p = <<d, x>> OBVIOUS
  <2>2. PICK x \in T[d] : p = <<d, x>> BY <2>1
  <2>3. PICK e \in D : \E y \in T[e] : q = <<e, y>> OBVIOUS
  <2>4. PICK y \in T[e] : q = <<e, y>> BY <2>3
  <2>5. <<d, number[d][x]>> = <<e, number[e][y]>> BY <1>4, <1>6, <2>2, <2>4
  <2>. QED BY <1>3, <2>2, <2>4, <2>5
<1>7. f \in Injection(R, D \X (1 .. n)) BY <1>5, <1>6 DEF Injection, IsInjective
<1>8. IsFiniteSet(D \X (1 .. n)) /\ Cardinality(D \X (1 .. n)) = Cardinality(D) * n
  BY <1>1, FS_Product
<1>. HIDE DEF f
<1>9. /\ IsFiniteSet(R) /\ Cardinality(R) <= Cardinality(D) * n
      /\ Cardinality(R) = Cardinality(D) * n => f \in Surjection(R, D \X (1 .. n))
  BY <1>7, <1>8, FS_Injection
<1>10. ASSUME f \in Surjection(R, D \X (1 .. n)), NEW d \in D, NEW x \in T[d]
       PROVE  <<d, x>> \in R
  <2>1. <<d, number[d][x]>> \in D \X (1 .. n) BY <1>3
  <2>2. PICK p \in R : f[p] = <<d, number[d][x]>> BY <1>10, <2>1 DEF Surjection
  <2>3. PICK e \in D : \E y \in T[e] : p = <<e, y>> OBVIOUS
  <2>4. PICK y \in T[e] : p = <<e, y>> BY <2>3
  <2>5. <<e, number[e][y]>> = <<d, number[d][x]>> BY <1>4, <2>2, <2>4
  <2>6. e = d /\ number[e][y] = number[d][x] BY <2>5
  <2>7. y = x BY <1>3, <2>6
  <2>. QED BY <2>2, <2>4, <2>6, <2>7
<1>. QED BY <1>9, <1>10, FS_CardinalityType

\* With nobody at work and nothing half recorded, every row is of a run that
\* succeeded.
LEMMA AllRecorded ==
  ASSUME IInv, Attributed, ~ Active, ~ HalfRecorded, NEW i \in 1 .. Len(journal)
  PROVE  /\ journal[i] \in Row /\ journal[i].id \in Runs
         /\ run[journal[i].id] = "done"
<1>1. journal[i] \in Row BY DEF IInv, TypeOK
<1>2. journal[i].id \in Runs /\ place[journal[i].id] > 0 BY DEF Attributed
<1>3. run[journal[i].id] \notin {"idle", "rendering"} BY <1>2 DEF IInv, Journal
<1>4. run[journal[i].id] \in {"idle", "rendering", "rows", "done", "failed"}
  BY <1>2 DEF IInv, TypeOK
<1>. QED BY <1>1, <1>2, <1>3, <1>4 DEF Active, HalfRecorded

\* Then the line of every take is in the timeline of its language.
LEMMA TakesAreCounted ==
  ASSUME IInv, Attributed, Written, ~ Active, ~ HalfRecorded,
         NEW i \in 1 .. delivered, journal[i].kind = "take"
  PROVE  journal[i].language \in Languages /\ journal[i].line \in Timeline(journal[i].language)
<1>1. /\ journal \in Seq(Row) /\ delivered \in 0 .. Len(journal) /\ Len(journal) \in Nat
      /\ LineCount \in Nat /\ found \in [Runs -> SUBSET Lines]
  BY BoundsAssumption DEF IInv, TypeOK
<1>2. i \in 1 .. Len(journal) BY <1>1
<1>3. PICK r \in Runs : r = journal[i].id /\ run[r] = "done" BY <1>2, AllRecorded
<1>4. PICK l \in found[r] : l = journal[i].line BY <1>2, <1>3 DEF Attributed
<1>5. journal[i].language = language[r] BY <1>2, <1>3 DEF Attributed
<1>6. PICK j \in 1 .. i : journal[j].kind = "commit" /\ journal[j].id = r
  BY <1>2, <1>3 DEF Attributed
<1>7. r \in Commits(delivered)
  <2>1. j \in 1 .. delivered BY <1>1, <1>6
  <2>. QED BY <1>6, <2>1 DEF Commits, RowsIn
<1>8. place[r] > LineCount + l
  <2>1. l \in 1 .. LineCount BY <1>1 DEF Lines
  <2>2. place[r] = 1 + 2 * LineCount BY <1>3 DEF Written, LastPlace
  <2>. QED BY <1>1, <2>1, <2>2
<1>9. PICK k \in 1 .. delivered : SnapshotOf(k, r, l) BY <1>3, <1>8 DEF Written
<1>10. l \in Timeline(language[r]) BY <1>7, <1>9 DEF SnapshotOf, Timeline, Segments, RowsIn
<1>. QED BY <1>2, <1>4, <1>5, <1>10, AllRecorded, RowFields

LEMMA TimelineIsFinite ==
  ASSUME IInv, NEW lang
  PROVE  IsFiniteSet(Timeline(lang)) /\ Cardinality(Timeline(lang)) \in Nat
<1>1. journal \in Seq(Row) /\ delivered \in 0 .. Len(journal) BY DEF IInv, TypeOK
<1>2. ASSUME NEW i \in RowsIn(delivered, "state") PROVE journal[i].line \in Lines
  <2>1. i \in 1 .. Len(journal) /\ journal[i].kind = "state" BY <1>1, <1>2 DEF RowsIn
  <2>2. journal[i] \in Row BY <1>1, <2>1
  <2>. QED BY <2>1, <2>2, RowFields
<1>3. Timeline(lang) \subseteq Lines BY <1>2 DEF Timeline, Segments
<1>4. IsFiniteSet(Lines)
  <2>1. 1 \in Int /\ LineCount \in Int BY BoundsAssumption
  <2>. QED BY <2>1, FS_Interval DEF Lines
<1>. QED BY <1>3, <1>4, FS_Subset, FS_CardinalityType

LEMMA ReadyMeans ==
  ASSUME NEW running \in BOOLEAN, NEW n, NEW s, NEW m, Readiness(running, n, s, m) = "ready"
  PROVE  /\ RowsIn(n, "take") # {} /\ FlaggedLines(n) = {}
         /\ ~ (s > 0 /\ Cardinality(RenderedLines(n)) < s * m)
BY DEF Readiness

\* "Ready" from the reads of one request means a fitting take of every line of
\* every timeline, if the first is longest.
LEMMA ReadyShows ==
  ASSUME IInv, Attributed, Written, ~ Active, ~ HalfRecorded,
         NEW n \in Nat, n <= delivered, NEW named \in BOOLEAN, NEW running \in BOOLEAN,
         \A lang \in Tracks(n, named) :
           Cardinality(Timeline(lang)) <= Cardinality(Timeline(FirstTrack(n))),
         Readiness(running, n, Cardinality(Timeline(FirstTrack(n))),
                   Cardinality(Tracks(n, named))) = "ready"
  PROVE  \A lang \in Tracks(n, named) :
           /\ lang \in TakeLanguages(n)
           /\ \A line \in Timeline(lang) : \E i \in TakesOf(n, lang, line) : journal[i].fits
<1>. DEFINE TL == TakeLanguages(n)
            rendered == RenderedLines(n)
            first == Timeline(FirstTrack(n))
            s == Cardinality(first)
            tracks == Tracks(n, named)
            m == Cardinality(tracks)
<1>1. /\ RowsIn(n, "take") # {} /\ FlaggedLines(n) = {}
      /\ ~ (s > 0 /\ Cardinality(rendered) < s * m)
  <2>1. Readiness(running, n, s, m) = "ready" OBVIOUS
  <2>. HIDE DEF s, m
  <2>. QED BY <2>1, ReadyMeans
<1>2. \A i \in 1 .. n : i \in 1 .. delivered
  <2>1. delivered \in Nat BY DEF IInv, TypeOK
  <2>. QED BY <2>1
<1>3. \A i \in RowsIn(n, "take") :
        journal[i].language \in Languages /\ journal[i].line \in Timeline(journal[i].language)
  BY <1>2, TakesAreCounted DEF RowsIn
<1>4. IsFiniteSet(TL)
  <2>. DEFINE S == RowsIn(n, "take")
              f == [i \in S |-> journal[i].language]
  <2>1. IsFiniteSet(1 .. n) /\ S \subseteq 1 .. n BY FS_Interval DEF RowsIn
  <2>2. IsFiniteSet(S) BY <2>1, FS_Subset
  <2>3. f \in Surjection(S, TL) BY DEF Surjection, TakeLanguages
  <2>. HIDE DEF S, f, TL
  <2>. QED BY <2>2, <2>3, FS_Surjection
<1>5. Cardinality(TL) \in Nat BY <1>4, FS_CardinalityType
<1>6. TL \subseteq tracks BY DEF Tracks
<1>7. s \in Nat /\ s > 0
  <2>1. TL \subseteq Nat /\ TL # {} BY <1>1, <1>3, LanguagesAssumption DEF TakeLanguages
  <2>2. FirstTrack(n) \in TL
    <3>. HIDE DEF TL
    <3>1. Lowest(TL) \in TL BY <2>1, Minimum
    <3>2. FirstTrack(n) = Lowest(TL) BY <2>1 DEF FirstTrack, TL
    <3>. QED BY <3>1, <3>2
  <2>3. first # {} BY <1>3, <2>2 DEF TakeLanguages
  <2>4. IsFiniteSet(first) /\ s \in Nat BY TimelineIsFinite
  <2>. HIDE DEF first
  <2>5. s # 0 BY <2>3, <2>4, FS_EmptySet
  <2>. QED BY <2>4, <2>5
<1>8. \A p \in rendered : \E lang \in TL : \E line \in Timeline(lang) : p = <<lang, line>>
  BY <1>3 DEF RenderedLines, TakesOf
<1>9. \A lang \in TL : IsFiniteSet(Timeline(lang)) /\ Cardinality(Timeline(lang)) <= s
  BY <1>6, TimelineIsFinite
<1>. DEFINE lines == [lang \in TL |-> Timeline(lang)]
<1>10. /\ Cardinality(rendered) \in Nat /\ Cardinality(rendered) <= Cardinality(TL) * s
       /\ Cardinality(rendered) = Cardinality(TL) * s =>
            \A lang \in TL : \A line \in lines[lang] : <<lang, line>> \in rendered
  <2>1. \A lang \in TL : IsFiniteSet(lines[lang]) /\ Cardinality(lines[lang]) <= s BY <1>9
  <2>2. \A p \in rendered : \E lang \in TL : \E line \in lines[lang] : p = <<lang, line>>
    BY <1>8
  <2>. HIDE DEF lines, TL, rendered, s
  <2>. QED BY <1>4, <1>7, <2>1, <2>2, Counting
<1>11. tracks = TL
  <2>1. SUFFICES ASSUME named, StoredLanguage \notin TL PROVE FALSE
    BY DEF Tracks
  <2>2. tracks = TL \union {StoredLanguage} BY <2>1 DEF Tracks
  <2>. HIDE DEF tracks, TL
  <2>3. m = Cardinality(TL) + 1 BY <1>4, <2>1, <2>2, FS_AddElement
  <2>. HIDE DEF m, s, rendered
  <2>4. ~ (Cardinality(rendered) < s * (Cardinality(TL) + 1)) BY <1>1, <1>7, <2>3
  <2>5. \A k, a, c \in Nat : k <= c * a /\ a > 0 => k < a * (c + 1) OBVIOUS
  <2>. QED BY <1>5, <1>7, <1>10, <2>4, <2>5
<1>12. \A lang \in TL : \A line \in Timeline(lang) : <<lang, line>> \in rendered
  <2>1. m = Cardinality(TL) BY <1>11
  <2>2. \A k, a, c \in Nat : k <= c * a /\ ~ (k < a * c) => k = c * a OBVIOUS
  <2>. HIDE DEF m, s, TL, rendered
  <2>3. Cardinality(rendered) = Cardinality(TL) * s BY <1>1, <1>5, <1>7, <1>10, <2>1, <2>2
  <2>. QED BY <1>10, <2>3
<1>13. ASSUME NEW lang \in TL, NEW line \in Timeline(lang)
       PROVE  \E i \in TakesOf(n, lang, line) : journal[i].fits
  <2>1. <<lang, line>> \in RenderedLines(n) BY <1>12
  <2>. QED BY <1>1, <2>1 DEF FlaggedLines
<1>. QED BY <1>11, <1>13

-----------------------------------------------------------------------------
(***************************************************************************)
(* What keeps this so.                                                     *)
(***************************************************************************)
\* Rows that follow change nothing in what the first n rows say.
LEMMA RowsStay ==
  ASSUME NEW n \in Nat, NEW k \in Nat, n <= k, \A i \in 1 .. k : journal'[i] = journal[i]
  PROVE  /\ Commits(n)' = Commits(n) /\ TakeLanguages(n)' = TakeLanguages(n)
         /\ \A commits, lang : Segments(commits, n, lang)' = Segments(commits, n, lang)
         /\ \A lang, line : TakesOf(n, lang, line)' = TakesOf(n, lang, line)
         /\ \A lang, line : \A i \in TakesOf(n, lang, line) : journal'[i] = journal[i]
<1>1. \A i \in 1 .. n : journal'[i] = journal[i] OBVIOUS
<1>2. ASSUME NEW kind PROVE RowsIn(n, kind)' = RowsIn(n, kind) BY <1>1 DEF RowsIn
<1>3. Commits(n)' = Commits(n) BY <1>1, <1>2 DEF Commits, RowsIn
<1>4. TakeLanguages(n)' = TakeLanguages(n) BY <1>1, <1>2 DEF TakeLanguages, RowsIn
<1>5. ASSUME NEW commits, NEW lang
      PROVE  Segments(commits, n, lang)' = Segments(commits, n, lang)
  BY <1>1, <1>2 DEF Segments, RowsIn
<1>6. ASSUME NEW lang, NEW line
      PROVE  /\ TakesOf(n, lang, line)' = TakesOf(n, lang, line)
             /\ \A i \in TakesOf(n, lang, line) : journal'[i] = journal[i]
  BY <1>1, <1>2 DEF TakesOf, RowsIn
<1>. QED BY <1>3, <1>4, <1>5, <1>6

\* What a request read stays what it read, as long as no row arrives.
LEMMA ReadRowsStay ==
  ASSUME IInv, request.takes <= Len(journal), UNCHANGED <<request, delivered>>,
         \A i \in 1 .. Len(journal) : journal'[i] = journal[i]
  PROVE  /\ ShowsEveryLine' <=> ShowsEveryLine
         /\ FirstIsLongest' <=> FirstIsLongest
         /\ Commits(delivered)' = Commits(delivered)
<1>. DEFINE n == request.takes
<1>1. n \in Nat /\ Len(journal) \in Nat /\ delivered \in Nat /\ delivered <= Len(journal)
  <2>1. request \in Request /\ journal \in Seq(Row) /\ delivered \in 0 .. Len(journal)
    BY DEF IInv, TypeOK
  <2>2. request.takes \in Nat BY <2>1 DEF Request
  <2>. QED BY <2>1, <2>2
<1>2. n' = n /\ delivered' = delivered /\ request'.named = request.named OBVIOUS
<1>. HIDE DEF n
<1>3. /\ TakeLanguages(n)' = TakeLanguages(n)
      /\ \A lang, line : TakesOf(n, lang, line)' = TakesOf(n, lang, line)
      /\ \A lang, line : \A i \in TakesOf(n, lang, line) : journal'[i] = journal[i]
  BY <1>1, <1>2, RowsStay DEF n
<1>4. /\ Commits(delivered)' = Commits(delivered)
      /\ \A commits, lang : Segments(commits, delivered, lang)' = Segments(commits, delivered, lang)
  BY <1>1, <1>2, RowsStay
<1>5. \A lang : Timeline(lang)' = Timeline(lang) BY <1>2, <1>4 DEF Timeline
<1>6. Tracks(n, request.named)' = Tracks(n, request.named) /\ FirstTrack(n)' = FirstTrack(n)
  BY <1>2, <1>3 DEF Tracks, FirstTrack
<1>7. ShowsEveryLine' <=> ShowsEveryLine BY <1>2, <1>3, <1>5, <1>6 DEF ShowsEveryLine, n
<1>8. FirstIsLongest' <=> FirstIsLongest BY <1>2, <1>5, <1>6 DEF FirstIsLongest, n
<1>. QED BY <1>4, <1>7, <1>8

\* A request under way learns of a run, and no row arrives but by one.
LEMMA RequestKept ==
  ASSUME WInv, UNCHANGED request,
         \A i \in 1 .. Len(journal) : journal'[i] = journal[i],
         delivered' \in Nat, delivered <= delivered',
         delivered' = delivered \/ Active \/ HalfRecorded,
         HalfRecorded => HalfRecorded', ~ Active => ~ Active'
  PROVE  Reads'
<1>1. request.takes \in Nat /\ delivered \in Nat /\ Len(journal) \in Nat /\ delivered <= Len(journal)
  <2>1. request \in Request /\ journal \in Seq(Row) /\ delivered \in 0 .. Len(journal)
    BY DEF WInv, IInv, TypeOK
  <2>2. request.takes \in Nat BY <2>1 DEF Request
  <2>. QED BY <2>1, <2>2
<1>2. request.takes <= delivered BY DEF WInv, Reads, Listed
<1>3. request.takes <= Len(journal) /\ request.takes <= delivered' BY <1>1, <1>2
<1>4. Undisturbed' BY DEF WInv, Reads, Undisturbed, Ready
<1>5. ASSUME delivered' = delivered
      PROVE  /\ ShowsEveryLine' <=> ShowsEveryLine
             /\ FirstIsLongest' <=> FirstIsLongest
             /\ Commits(delivered)' = Commits(delivered)
  BY <1>3, <1>5, ReadRowsStay DEF WInv
<1>6. /\ Ready \/ request.step \notin {"idle", "answered"}
      /\ ~ request.beside /\ ~ HalfRecorded'
      => delivered' = delivered
  BY DEF WInv, Reads, Undisturbed
<1>7. Listed'
  <2>1. ASSUME request.step \in {"record", "target", "timeline"}, ~ request.beside, ~ HalfRecorded'
        PROVE  request.commits = Commits(delivered)'
    <3>1. delivered' = delivered BY <1>6, <2>1
    <3>. QED BY <1>5, <2>1, <3>1 DEF WInv, Reads, Listed
  <2>. QED BY <1>3, <2>1 DEF WInv, Reads, Listed
<1>8. ReadyIsWhole'
  <2>1. SUFFICES ASSUME Ready, ~ request.beside, ~ HalfRecorded', FirstIsLongest'
                 PROVE  ShowsEveryLine'
    BY DEF ReadyIsWhole, Ready
  <2>2. delivered' = delivered BY <1>6, <2>1
  <2>. QED BY <1>5, <2>1, <2>2 DEF WInv, Reads, ReadyIsWhole
<1>. QED BY <1>4, <1>7, <1>8 DEF Reads

\* The runs do nothing.
LEMMA RunsKept ==
  ASSUME WInv, UNCHANGED <<journal, run, language, found, place>>,
         delivered' \in Nat, delivered <= delivered'
  PROVE  Rows' /\ (HalfRecorded' <=> HalfRecorded) /\ (Active' <=> Active)
<1>1. delivered \in Nat /\ Len(journal) \in Nat BY DEF WInv, IInv, TypeOK
<1>2. \A i \in 1 .. delivered : i \in 1 .. delivered' BY <1>1
<1>3. Attributed' BY DEF WInv, Rows, Attributed
<1>4. Written' BY <1>2 DEF WInv, Rows, Written, SnapshotOf, Places
<1>5. (HalfRecorded' <=> HalfRecorded) /\ (Active' <=> Active) BY DEF HalfRecorded, Active
<1>6. Queued' BY <1>1, <1>5 DEF WInv, Rows, Queued
<1>. QED BY <1>3, <1>4, <1>5, <1>6 DEF Rows

\* One run of a project at a time: no row is of the run that starts, and a
\* request under way learns of it.
LEMMA StartKeeps ==
  ASSUME WInv, NEW r \in Runs, RunStart(r)
  PROVE  Rows' /\ Reads'
<1>1. /\ run[r] = "idle" /\ run' = [run EXCEPT ![r] = "rendering"]
      /\ \E lang \in Languages : language' = [language EXCEPT ![r] = lang]
      /\ request' = [request EXCEPT !.beside = request.step # "idle"]
      /\ UNCHANGED <<journal, delivered, found, place>>
  BY DEF RunStart, ledgerVars
<1>2. /\ run \in [Runs -> {"idle", "rendering", "rows", "done", "failed"}]
      /\ language \in [Runs -> Languages] /\ request \in Request
  BY DEF WInv, IInv, TypeOK
<1>3. place[r] = 0 BY <1>1 DEF WInv, IInv, Journal
<1>4. run'[r] = "rendering"
      /\ \A q \in Runs \ {r} : run'[q] = run[q] /\ language'[q] = language[q]
  BY <1>1, <1>2
<1>5. /\ request'.step = request.step /\ request'.takes = request.takes
      /\ request'.commits = request.commits /\ request'.named = request.named
      /\ request'.beside <=> request.step # "idle"
  BY <1>1, <1>2 DEF Request
<1>6. Attributed'
  <2>1. SUFFICES ASSUME NEW i \in 1 .. Len(journal)
                 PROVE  /\ journal[i].id \in Runs /\ place[journal[i].id] > 0
                        /\ journal[i].kind = "take" =>
                             /\ journal[i].language = language'[journal[i].id]
                             /\ journal[i].line \in found[journal[i].id]
                             /\ \E j \in 1 .. i : journal[j].kind = "commit"
                                                  /\ journal[j].id = journal[i].id
    BY <1>1 DEF Attributed
  <2>2. journal[i].id \in Runs /\ place[journal[i].id] > 0 BY DEF WInv, Rows, Attributed
  <2>3. journal[i].id # r BY <1>3, <2>2
  <2>. QED BY <1>4, <2>2, <2>3 DEF WInv, Rows, Attributed
<1>7. Written'
  <2>1. ASSUME NEW q \in Runs, run'[q] \in {"rows", "done"}
        PROVE  /\ q # r /\ run'[q] = run[q]
               /\ \A i, l : SnapshotOf(i, q, l)' <=> SnapshotOf(i, q, l)
    BY <1>1, <1>4, <2>1 DEF SnapshotOf
  <2>2. SUFFICES ASSUME NEW q \in Runs, run'[q] \in {"rows", "done"}
                 PROVE  /\ run'[q] = "rows" /\ place[q] > 0 =>
                             /\ place[q] \in Places(q)
                             /\ \E j \in 1 .. Len(journal) : journal[j].kind = "commit"
                                                             /\ journal[j].id = q
                        /\ \A l \in found[q] : place[q] > LineCount + l =>
                             \E i \in 1 .. delivered : SnapshotOf(i, q, l)'
                        /\ run'[q] = "done" => place[q] = LastPlace
    BY <1>1 DEF Written, Places
  <2>. QED BY <2>1, <2>2 DEF WInv, Rows, Written
<1>8. Queued'
  <2>1. ASSUME NEW q \in Runs, run[q] = "failed", place[q] > 0 PROVE run'[q] = "failed"
    BY <1>1, <1>4, <2>1
  <2>. QED BY <1>1, <2>1 DEF WInv, Rows, Queued, HalfRecorded
<1>9. Undisturbed' BY <1>5 DEF Undisturbed, Ready
<1>10. Listed' BY <1>1, <1>5 DEF WInv, Reads, Listed
<1>11. ReadyIsWhole' BY <1>5 DEF ReadyIsWhole, Ready
<1>. QED BY <1>6, <1>7, <1>8, <1>9, <1>10, <1>11 DEF Rows, Reads

\* The other steps of a run that write no row.
LEMMA WorkKeeps ==
  ASSUME WInv, NEW r \in Runs, RunFlush(r) \/ RunSkips(r) \/ RunEnds(r) \/ RunFails(r)
  PROVE  Rows' /\ Reads'
<1>1. /\ journal \in Seq(Row) /\ Len(journal) \in Nat /\ delivered \in 0 .. Len(journal)
      /\ run \in [Runs -> {"idle", "rendering", "rows", "done", "failed"}]
      /\ place \in [Runs -> 0 .. LastPlace] /\ LineCount \in Nat /\ LastPlace \in Nat
      /\ found \in [Runs -> SUBSET Lines]
      /\ Lines \subseteq Nat \ {0} /\ Lines = 1 .. LineCount
  BY BoundsAssumption DEF WInv, IInv, TypeOK, LastPlace, Lines
<1>2. PICK s \in {"rows", "done", "failed"}, p \in 0 .. LastPlace :
        /\ run' = [run EXCEPT ![r] = s] /\ place' = [place EXCEPT ![r] = p]
        /\ run[r] \in {"rendering", "rows"} /\ p >= place[r]
        /\ \/ found' = found
           \/ place[r] = 0 /\ p = 0 /\ \E F : found' = [found EXCEPT ![r] = F]
        /\ (s = "rows" /\ p > 0) => /\ run[r] = "rows" /\ place[r] > 0 /\ found' = found
                                    /\ p \in Places(r)
                                    /\ \A l \in found[r] : p <= LineCount + l
        /\ s = "done" => run[r] = "rows" /\ p = place[r] /\ p = LastPlace /\ found' = found
        /\ delivered' \in {delivered, Len(journal)}
        /\ UNCHANGED <<journal, language, request>>
  <2>1. place[r] \in 0 .. LastPlace /\ run' \in {run', run} BY <1>1
  <2>2. CASE RunFlush(r)
    <3>1. place[r] = 0 BY <2>2 DEF WInv, IInv, Journal, RunFlush
    <3>2. place' = [place EXCEPT ![r] = place[r]] BY <1>1, <2>2 DEF RunFlush
    <3>3. CASE /\ run' = [run EXCEPT ![r] = "rows"] /\ delivered' = Len(journal)
               /\ \E lines \in Segmentations : found' = [found EXCEPT ![r] = lines]
      BY <1>1, <2>1, <2>2, <3>1, <3>2, <3>3 DEF RunFlush
    <3>4. CASE run' = [run EXCEPT ![r] = "failed"] /\ delivered' = delivered /\ found' = found
      BY <1>1, <2>1, <2>2, <3>1, <3>2, <3>4 DEF RunFlush
    <3>. QED BY <2>2, <3>3, <3>4 DEF RunFlush
  <2>3. CASE RunSkips(r)
    <3>. DEFINE p == NextPlace(r)
    <3>1. /\ run[r] = "rows" /\ place[r] \in 1 .. LineCount
          /\ run' = [run EXCEPT ![r] = "rows"] /\ place' = [place EXCEPT ![r] = p]
          /\ UNCHANGED <<journal, delivered, language, found, request>>
      BY <1>1, <2>3 DEF RunSkips, Lines, ledgerVars
    <3>2. place[r] < LastPlace BY <1>1, <3>1 DEF LastPlace
    <3>3. /\ p \in 0 .. LastPlace /\ p \in Places(r) /\ p > place[r]
          /\ \A q \in Places(r) : q > place[r] => p <= q
      BY <3>2, NextIsLater DEF WInv
    <3>4. ASSUME NEW l \in found[r] PROVE p <= LineCount + l
      <4>1. l \in Nat /\ l > 0 BY <1>1
      <4>2. LineCount + l \in Places(r) /\ LineCount + l > place[r]
        BY <1>1, <3>1, <4>1 DEF Places
      <4>. QED BY <3>3, <4>2
    <3>. HIDE DEF p
    <3>5. p >= place[r] /\ place[r] > 0 BY <1>1, <3>1, <3>3
    <3>. QED BY <3>1, <3>3, <3>4, <3>5
  <2>4. CASE RunEnds(r)
    <3>1. place' = [place EXCEPT ![r] = place[r]] BY <1>1, <2>4 DEF RunEnds
    <3>. QED BY <1>1, <2>1, <2>4, <3>1 DEF RunEnds, ledgerVars
  <2>5. CASE RunFails(r)
    <3>1. place' = [place EXCEPT ![r] = place[r]] BY <1>1, <2>5 DEF RunFails
    <3>. QED BY <1>1, <2>1, <2>5, <3>1 DEF RunFails, ledgerVars
  <2>. QED BY <2>2, <2>3, <2>4, <2>5
<1>3. /\ run'[r] = s /\ place'[r] = p
      /\ \A q \in Runs \ {r} : run'[q] = run[q] /\ place'[q] = place[q] /\ found'[q] = found[q]
      /\ delivered' \in Nat /\ delivered <= delivered'
  BY <1>1, <1>2
<1>4. \A q \in Runs : place[q] \in Nat /\ place'[q] \in Nat /\ place'[q] >= place[q]
  BY <1>1, <1>2, <1>3
<1>5. Attributed'
  <2>1. SUFFICES ASSUME NEW i \in 1 .. Len(journal)
                 PROVE  /\ journal[i].id \in Runs /\ place'[journal[i].id] > 0
                        /\ found'[journal[i].id] = found[journal[i].id]
    BY <1>2 DEF WInv, Rows, Attributed
  <2>2. journal[i].id \in Runs /\ place[journal[i].id] > 0 BY DEF WInv, Rows, Attributed
  <2>. QED BY <1>2, <1>3, <1>4, <2>2
<1>6. Written'
  <2>1. \A i \in 1 .. delivered : i \in 1 .. delivered' BY <1>1, <1>3
  <2>2. \A q, i, l : SnapshotOf(i, q, l)' <=> SnapshotOf(i, q, l) BY <1>2 DEF SnapshotOf
  <2>3. SUFFICES ASSUME NEW q \in Runs, run'[q] \in {"rows", "done"}
                 PROVE  /\ run'[q] = "rows" /\ place'[q] > 0 =>
                             /\ place'[q] \in Places(q)'
                             /\ \E j \in 1 .. Len(journal) : journal[j].kind = "commit"
                                                             /\ journal[j].id = q
                        /\ \A l \in found'[q] : place'[q] > LineCount + l =>
                             \E i \in 1 .. delivered' : SnapshotOf(i, q, l)
                        /\ run'[q] = "done" => place'[q] = LastPlace
    BY <1>2, <2>2 DEF Written
  <2>4. CASE q # r BY <1>3, <2>1, <2>3, <2>4 DEF WInv, Rows, Written, Places
  <2>5. CASE q = r /\ s = "rows" /\ p = 0
    <3>1. \A l \in found'[r] : ~ (p > LineCount + l)
      <4>1. found'[r] \in SUBSET Lines
        BY <1>2, <1>1, <2>5, NextInv DEF WInv, IInv, TypeOK, Next
      <4>. QED BY <1>1, <2>5, <4>1
    <3>. QED BY <1>3, <2>5, <3>1
  <2>6. CASE q = r /\ s = "rows" /\ p > 0
    <3>1. /\ found' = found /\ run[r] = "rows" /\ place[r] > 0 /\ p \in Places(r)
          /\ \A l \in found[r] : p <= LineCount + l
      BY <1>2, <2>6
    <3>2. \A l \in found[r] : ~ (p > LineCount + l)
      <4>1. p \in Nat /\ \A l \in found[r] : LineCount + l \in Nat BY <1>1
      <4>. QED BY <3>1, <4>1
    <3>3. Places(r)' = Places(r) BY <3>1 DEF Places
    <3>. QED BY <1>3, <2>6, <3>1, <3>2, <3>3 DEF WInv, Rows, Written
  <2>7. CASE q = r /\ s = "done" BY <1>2, <1>3, <2>1, <2>7 DEF WInv, Rows, Written
  <2>8. (s \in {"rows", "done"} \/ q # r) /\ (p = 0 \/ p > 0) BY <1>3, <2>3
  <2>. QED BY <2>4, <2>5, <2>6, <2>7, <2>8
<1>7. HalfRecorded => HalfRecorded'
  <2>1. ASSUME NEW q \in Runs, run[q] = "failed", place[q] > 0 PROVE HalfRecorded'
    BY <1>2, <1>3, <2>1 DEF HalfRecorded
  <2>. QED BY <2>1 DEF HalfRecorded
<1>8. Queued' BY <1>1, <1>2, <1>7 DEF WInv, Rows, Queued
<1>9. Active BY <1>2 DEF Active
<1>10. Reads' BY <1>2, <1>3, <1>7, <1>9, RequestKept
<1>. QED BY <1>5, <1>6, <1>8, <1>10 DEF Rows

\* The row of a place.
LEMMA RowOfPlace ==
  ASSUME NEW r, NEW row \in RowsAt(r), LineCount \in Nat, found[r] \subseteq 1 .. LineCount,
         place[r] = 0 \/ place[r] \in Places(r), place[r] < LastPlace
  PROVE  /\ row.id = r
         /\ place[r] = 0 => row.kind = "commit"
         /\ row.kind = "take" => place[r] > 0 /\ row.language = language[r] /\ row.line \in found[r]
         /\ place[r] > LineCount => /\ row.kind = "state" /\ row.language = language[r]
                                    /\ row.line = place[r] - LineCount
<1>1. CASE place[r] = 0 BY <1>1 DEF RowsAt
<1>2. CASE place[r] \in found[r] BY <1>2 DEF RowsAt
<1>3. CASE place[r] # 0 /\ place[r] \notin found[r]
  <2>1. PICK l \in found[r] : place[r] = LineCount + l BY <1>3 DEF Places, LastPlace
  <2>2. place[r] > LineCount /\ ~ (place[r] <= LineCount) BY <2>1
  <2>3. RowsAt(r) = {[kind |-> "state", id |-> r, language |-> language[r],
                      line |-> place[r] - LineCount]}
    BY <1>3, <2>2 DEF RowsAt
  <2>4. row = [kind |-> "state", id |-> r, language |-> language[r], line |-> place[r] - LineCount]
    BY <2>3
  <2>. QED BY <1>3, <2>2, <2>4
<1>. QED BY <1>1, <1>2, <1>3

\* A row that is written arrives with all rows before it; one that is not
\* known to have arrived ends the run, which then has recorded a part.
LEMMA WriteKeeps ==
  ASSUME WInv, NEW r \in Runs, RunWrite(r)
  PROVE  Rows' /\ Reads'
<1>1. /\ journal \in Seq(Row) /\ Len(journal) \in Nat /\ delivered \in 0 .. Len(journal)
      /\ run \in [Runs -> {"idle", "rendering", "rows", "done", "failed"}]
      /\ place \in [Runs -> 0 .. LastPlace] /\ LineCount \in Nat /\ LastPlace \in Nat
      /\ Lines = 1 .. LineCount /\ found \in [Runs -> SUBSET Lines]
  BY BoundsAssumption DEF WInv, IInv, TypeOK, LastPlace, Lines
<1>2. PICK row \in RowsAt(r) :
        \/ /\ journal' = Append(journal, row) /\ delivered' = Len(journal) + 1
           /\ UNCHANGED run
        \/ /\ run' = [run EXCEPT ![r] = "failed"]
           /\ journal' \in {journal, Append(journal, row)}
           /\ UNCHANGED delivered
  BY DEF RunWrite, Fault
<1>3. /\ run[r] = "rows" /\ place[r] < LastPlace
      /\ place' = [place EXCEPT ![r] = NextPlace(r)]
      /\ UNCHANGED <<language, found, request>>
  BY DEF RunWrite
<1>next. /\ NextPlace(r) \in Places(r) /\ NextPlace(r) \in Nat /\ NextPlace(r) > place[r]
         /\ \A p \in Places(r) : p > place[r] => NextPlace(r) <= p
  BY <1>1, <1>3, NextIsLater DEF WInv
<1>4. place[r] \in Nat /\ place'[r] = NextPlace(r)
      /\ \A q \in Runs \ {r} : place'[q] = place[q] /\ run'[q] = run[q]
  BY <1>1, <1>2, <1>3
<1>5. /\ row.id = r
      /\ place[r] = 0 => row.kind = "commit"
      /\ row.kind = "take" => place[r] > 0 /\ row.language = language[r] /\ row.line \in found[r]
      /\ place[r] > LineCount => /\ row.kind = "state" /\ row.language = language[r]
                                 /\ row.line = place[r] - LineCount
  <2>1. place[r] = 0 \/ place[r] \in Places(r) BY <1>3, <1>4 DEF WInv, Rows, Written
  <2>. QED BY <1>1, <1>3, <2>1, RowOfPlace
<1>6. row \in Row BY <1>3, RowsOfRun DEF WInv
<1>7. /\ Len(Append(journal, row)) = Len(journal) + 1
      /\ Append(journal, row)[Len(journal) + 1] = row
      /\ \A i \in 1 .. Len(journal) : Append(journal, row)[i] = journal[i]
  BY <1>1, <1>6
<1>8. \A i \in 1 .. Len(journal) : journal'[i] = journal[i] BY <1>2, <1>7
<1>9. delivered' \in Nat /\ delivered <= delivered' BY <1>1, <1>2
<1>10. \A q \in Runs : place[q] \in Nat /\ place'[q] \in Nat /\ place'[q] >= place[q]
  BY <1>1, <1>4, <1>next
<1>11. place[r] > 0 => \E j \in 1 .. Len(journal) : journal[j].kind = "commit" /\ journal[j].id = r
  BY <1>3 DEF WInv, Rows, Written
<1>12. Attributed'
  <2>1. SUFFICES ASSUME NEW i \in 1 .. Len(journal')
                 PROVE  /\ journal'[i].id \in Runs /\ place'[journal'[i].id] > 0
                        /\ journal'[i].kind = "take" =>
                             /\ journal'[i].language = language[journal'[i].id]
                             /\ journal'[i].line \in found[journal'[i].id]
                             /\ \E j \in 1 .. i : journal'[j].kind = "commit"
                                                  /\ journal'[j].id = journal'[i].id
    BY <1>3 DEF Attributed
  <2>2. CASE i \in 1 .. Len(journal)
    <3>1. /\ journal[i].id \in Runs /\ place[journal[i].id] > 0
          /\ journal[i].kind = "take" =>
               /\ journal[i].language = language[journal[i].id]
               /\ journal[i].line \in found[journal[i].id]
               /\ \E j \in 1 .. i : journal[j].kind = "commit" /\ journal[j].id = journal[i].id
      BY <2>2 DEF WInv, Rows, Attributed
    <3>2. \A j \in 1 .. i : journal'[j] = journal[j] BY <1>1, <1>8, <2>2
    <3>3. place'[journal[i].id] > 0 BY <1>10, <3>1
    <3>4. journal'[i] = journal[i] BY <1>8, <2>2
    <3>. QED BY <3>1, <3>2, <3>3, <3>4
  <2>3. CASE i \notin 1 .. Len(journal)
    <3>1. i = Len(journal) + 1 /\ journal'[i] = row BY <1>1, <1>2, <1>7, <2>1, <2>3
    <3>2. place'[r] > 0 BY <1>4, <1>next
    <3>3. ASSUME row.kind = "take"
          PROVE  \E j \in 1 .. i : journal'[j].kind = "commit" /\ journal'[j].id = r
      <4>1. PICK j \in 1 .. Len(journal) : journal[j].kind = "commit" /\ journal[j].id = r
        BY <1>5, <1>11, <3>3
      <4>2. j \in 1 .. i /\ journal'[j] = journal[j] BY <1>1, <1>8, <3>1
      <4>. QED BY <4>1, <4>2
    <3>. QED BY <1>5, <3>1, <3>2, <3>3
  <2>. QED BY <2>2, <2>3
<1>13. Written'
  <2>1. /\ \A i \in 1 .. delivered : i \in 1 .. delivered' /\ journal'[i] = journal[i]
        /\ \A j \in 1 .. Len(journal) : j \in 1 .. Len(journal') /\ journal'[j] = journal[j]
    BY <1>1, <1>2, <1>7, <1>8, <1>9
  <2>2. SUFFICES ASSUME NEW q \in Runs, run'[q] \in {"rows", "done"}
                 PROVE  /\ run'[q] = "rows" /\ place'[q] > 0 =>
                             /\ place'[q] \in Places(q)
                             /\ \E j \in 1 .. Len(journal') : journal'[j].kind = "commit"
                                                              /\ journal'[j].id = q
                        /\ \A l \in found[q] : place'[q] > LineCount + l =>
                             \E i \in 1 .. delivered' : SnapshotOf(i, q, l)'
                        /\ run'[q] = "done" => place'[q] = LastPlace
    BY <1>3 DEF Written, Places
  <2>3. ASSUME NEW l, \E i \in 1 .. delivered : SnapshotOf(i, q, l)
        PROVE  \E i \in 1 .. delivered' : SnapshotOf(i, q, l)'
    BY <1>3, <2>1, <2>3 DEF SnapshotOf
  <2>4. CASE q # r
    <3>1. run[q] = run'[q] /\ place'[q] = place[q] BY <1>4, <2>4
    <3>2. run[q] \in {"rows", "done"} /\ (run[q] = "done" => place[q] = LastPlace)
      BY <2>2, <3>1 DEF WInv, Rows, Written
    <3>3. \A l \in found[q] : place[q] > LineCount + l => \E i \in 1 .. delivered : SnapshotOf(i, q, l)
      BY <3>2 DEF WInv, Rows, Written
    <3>4. run[q] = "rows" /\ place[q] > 0 =>
            /\ place[q] \in Places(q)
            /\ \E j \in 1 .. Len(journal) : journal[j].kind = "commit" /\ journal[j].id = q
      BY DEF WInv, Rows, Written
    <3>. QED BY <2>1, <2>3, <3>1, <3>2, <3>3, <3>4
  <2>5. CASE q = r
    <3>1. journal' = Append(journal, row) /\ delivered' = Len(journal) + 1 /\ run'[r] = "rows"
      BY <1>1, <1>2, <1>3, <2>2, <2>5
    <3>2. journal'[Len(journal) + 1] = row /\ Len(journal') = Len(journal) + 1
      BY <1>7, <3>1
    <3>3. \E j \in 1 .. Len(journal') : journal'[j].kind = "commit" /\ journal'[j].id = r
      <4>1. CASE place[r] = 0
        <5>1. Len(journal) + 1 \in 1 .. Len(journal') BY <1>1, <3>2
        <5>. QED BY <1>5, <3>2, <4>1, <5>1
      <4>2. CASE place[r] > 0
        <5>1. PICK j \in 1 .. Len(journal) : journal[j].kind = "commit" /\ journal[j].id = r
          BY <1>11, <4>2
        <5>. QED BY <2>1, <5>1
      <4>. QED BY <1>4, <4>1, <4>2
    <3>4. ASSUME NEW l \in found[r], place'[r] > LineCount + l
          PROVE  \E i \in 1 .. delivered' : SnapshotOf(i, r, l)'
      <4>1. CASE place[r] > LineCount + l
        <5>1. \E i \in 1 .. delivered : SnapshotOf(i, r, l) BY <1>3, <4>1 DEF WInv, Rows, Written
        <5>. QED BY <2>3, <2>5, <5>1
      <4>2. CASE ~ (place[r] > LineCount + l)
        <5>1. l \in Nat /\ l > 0 BY <1>1
        <5>2. place[r] = LineCount + l
          <6>1. LineCount + l \in Places(r) /\ LineCount + l \in Nat BY <1>1, <5>1 DEF Places
          <6>2. ~ (LineCount + l > place[r]) BY <1>4, <1>next, <3>4, <6>1
          <6>. QED BY <1>4, <4>2, <6>1, <6>2
        <5>3. row.kind = "state" /\ row.language = language[r] /\ row.line = l
          BY <1>1, <1>5, <5>1, <5>2
        <5>4. PICK i \in 1 .. delivered' : i = Len(journal) + 1 BY <1>1, <3>1
        <5>5. SnapshotOf(i, r, l)' BY <1>3, <1>5, <3>2, <5>3, <5>4 DEF SnapshotOf
        <5>. QED BY <5>4, <5>5
      <4>. QED BY <4>1, <4>2
    <3>. QED BY <1>4, <1>next, <2>5, <3>1, <3>3, <3>4
  <2>. QED BY <2>4, <2>5
<1>14. HalfRecorded => HalfRecorded'
  <2>1. ASSUME NEW q \in Runs, run[q] = "failed", place[q] > 0 PROVE HalfRecorded'
    <3>1. run'[q] = "failed" /\ place'[q] > 0 BY <1>3, <1>4, <2>1
    <3>. QED BY <3>1 DEF HalfRecorded
  <2>. QED BY <2>1 DEF HalfRecorded
<1>15. Queued'
  <2>1. CASE journal' = Append(journal, row) /\ delivered' = Len(journal) + 1
    BY <1>1, <1>7, <2>1 DEF Queued
  <2>2. CASE run' = [run EXCEPT ![r] = "failed"]
    <3>1. run'[r] = "failed" /\ place'[r] > 0 BY <1>1, <1>4, <1>next, <2>2
    <3>. QED BY <3>1 DEF Queued, HalfRecorded
  <2>. QED BY <1>2, <2>1, <2>2
<1>16. Active BY <1>3 DEF Active
<1>17. Reads' BY <1>3, <1>8, <1>9, <1>14, <1>16, RequestKept
<1>. QED BY <1>12, <1>13, <1>15, <1>17 DEF Rows

LEMMA CrashKeeps ==
  ASSUME WInv, Crash
  PROVE  Rows' /\ Reads'
<1>1. /\ request' = NoRequest
      /\ run' = [q \in Runs |-> IF run[q] \in {"idle", "done"} THEN run[q] ELSE "failed"]
      /\ UNCHANGED <<journal, delivered, language, found, place>>
  BY DEF Crash, ledgerVars
<1>2. delivered \in Nat BY DEF WInv, IInv, TypeOK
<1>3. /\ request'.step = "idle" /\ request'.takes = 0 BY <1>1 DEF NoRequest
<1>4. Attributed' BY <1>1 DEF WInv, Rows, Attributed
<1>5. Written'
  <2>1. \A q \in Runs : /\ run'[q] # "rows" /\ (run'[q] = "done" => run[q] = "done")
                        /\ \A i, l : SnapshotOf(i, q, l)' <=> SnapshotOf(i, q, l)
    BY <1>1 DEF SnapshotOf
  <2>. QED BY <1>1, <2>1 DEF WInv, Rows, Written
<1>6. Queued'
  <2>1. ASSUME NEW q \in Runs, run[q] = "failed", place[q] > 0 PROVE run'[q] = "failed"
    BY <1>1, <2>1
  <2>. QED BY <1>1, <2>1 DEF WInv, Rows, Queued, HalfRecorded
<1>7. Reads' BY <1>1, <1>2, <1>3 DEF Reads, Undisturbed, Listed, ReadyIsWhole, Ready
<1>. QED BY <1>4, <1>5, <1>6, <1>7 DEF Rows

\* A word "ready" that a request is about to get is the readiness of its takes.
LEMMA WorkspaceReady ==
  ASSUME NEW n \in Nat, NEW running \in BOOLEAN, NEW langs, NEW commits, NEW stored, NEW named,
         NEW m, WorkspaceWord(running, n, langs, commits, stored, named, m) = "ready"
  PROVE  Readiness(running, n, Cardinality(Segments(commits, m, FirstTrack(n))),
                   Cardinality(Tracks(n, named))) = "ready"
<1>. DEFINE tracks == Tracks(n, named)
            segments == IF tracks = {} THEN {} ELSE Segments(commits, m, FirstTrack(n))
            s == Cardinality(segments)
            k == Cardinality(tracks)
<1>1. Readiness(running, n, s, k) = "ready" BY DEF WorkspaceWord
<1>2. RowsIn(n, "take") # {}
  <2>. HIDE DEF s, k
  <2>. QED BY <1>1, ReadyMeans
<1>3. tracks # {} BY <1>2 DEF Tracks, TakeLanguages
<1>4. segments = Segments(commits, m, FirstTrack(n)) BY <1>3
<1>. QED BY <1>1, <1>4

LEMMA IndexReady ==
  ASSUME NEW n \in Nat, NEW m, IndexWord(n, m) = "ready"
  PROVE  Readiness(FALSE, n, Cardinality(Segments(Commits(m), m, FirstTrack(n))),
                   Cardinality(Tracks(n, FALSE))) = "ready"
<1>. DEFINE tracks == TakeLanguages(n)
            segments == IF tracks = {} THEN {} ELSE Segments(Commits(m), m, Lowest(tracks))
            s == Cardinality(segments)
            k == Cardinality(tracks)
<1>1. Readiness(FALSE, n, s, k) = "ready" BY DEF IndexWord
<1>2. RowsIn(n, "take") # {}
  <2>1. FALSE \in BOOLEAN OBVIOUS
  <2>. HIDE DEF s, k
  <2>. QED BY <1>1, <2>1, ReadyMeans
<1>3. tracks # {} BY <1>2 DEF TakeLanguages
<1>4. segments = Segments(Commits(m), m, FirstTrack(n)) BY <1>3 DEF FirstTrack
<1>5. Tracks(n, FALSE) = tracks BY DEF Tracks
<1>. QED BY <1>1, <1>4, <1>5

\* A read changes the request alone, and an answer is worth what was read.
LEMMA ReadKeepsReady ==
  ASSUME WInv, Read
  PROVE  Rows' /\ Reads'
<1>1. UNCHANGED <<journal, delivered, run, language, found, place>>
  BY DEF Read, AskWorkspace, ReadTakes, ReadLanguages, ReadCommits, ReadRecord, ReadTarget,
         AnswerWorkspace, AskIndex, ReadIndexTakes, AnswerIndex, EndRequest, ledgerVars, runVars
<1>2. /\ journal \in Seq(Row) /\ delivered \in Nat /\ request \in Request
      /\ delivered' \in Nat /\ delivered <= delivered'
  BY <1>1 DEF WInv, IInv, TypeOK
<1>3. Rows' /\ (HalfRecorded' <=> HalfRecorded) /\ (Active' <=> Active)
  BY <1>1, <1>2, RunsKept
<1>4. /\ request.takes \in Nat /\ request.running \in BOOLEAN /\ request.named \in BOOLEAN
      /\ request.takes <= delivered
  <2>1. request.takes \in Nat BY <1>2 DEF Request
  <2>2. request.running \in BOOLEAN /\ request.named \in BOOLEAN BY <1>2 DEF Request
  <2>. QED BY <2>1, <2>2 DEF WInv, Reads, Listed
<1>5. Commits(delivered)' = Commits(delivered) BY <1>1 DEF Commits, RowsIn
<1>6. ASSUME request'.takes = request.takes, request'.named = request.named
      PROVE  /\ ShowsEveryLine' <=> ShowsEveryLine
             /\ FirstIsLongest' <=> FirstIsLongest
  <2>1. ShowsEveryLine' <=> ShowsEveryLine
    BY <1>1, <1>6 DEF ShowsEveryLine, Tracks, TakeLanguages, TakesOf, Timeline, Segments, Commits,
                      RowsIn
  <2>2. FirstIsLongest' <=> FirstIsLongest
    BY <1>1, <1>6 DEF FirstIsLongest, FirstTrack, Tracks, TakeLanguages, Timeline, Segments, Commits,
                      RowsIn
  <2>. QED BY <2>1, <2>2
<1>7. \A k \in Nat : 0 <= k OBVIOUS
<1>8. CASE AskWorkspace \/ (AskIndex /\ Readable(Dub))
  <2>1. /\ request'.step \in {"takes", "index takes"}
        /\ request'.takes = 0 /\ request'.named = FALSE
        /\ request'.beside = Active
    BY <1>8 DEF AskWorkspace, AskIndex, Asked, NoRequest
  <2>2. Undisturbed' BY <1>3, <2>1 DEF Undisturbed
  <2>3. Listed' BY <1>2, <1>7, <2>1 DEF Listed
  <2>4. ReadyIsWhole' BY <2>1 DEF ReadyIsWhole, Ready
  <2>. QED BY <1>3, <2>2, <2>3, <2>4 DEF Reads
<1>9. CASE AskIndex /\ ~ Readable(Dub)
  <2>1. /\ request'.step = "answered" /\ request'.word = "not listed" /\ request'.takes = 0
    BY <1>9 DEF AskIndex, Asked, NoRequest
  <2>2. Undisturbed' BY <2>1 DEF Undisturbed, Ready
  <2>3. Listed' BY <1>2, <1>7, <2>1 DEF Listed
  <2>4. ReadyIsWhole' BY <2>1 DEF ReadyIsWhole, Ready
  <2>. QED BY <1>3, <2>2, <2>3, <2>4 DEF Reads
<1>10. CASE ReadTakes \/ ReadLanguages \/ ReadIndexTakes
  <2>1. /\ request.step \notin {"idle", "answered"}
        /\ request'.step \notin {"idle", "answered", "record", "target", "timeline"}
        /\ request'.takes \in {request.takes, delivered}
        /\ request'.beside = request.beside
        /\ request'.step \in {"index takes", "index counts"} => request.step = "index takes"
        /\ request'.named = request.named
    BY <1>2, <1>10 DEF ReadTakes, ReadLanguages, ReadIndexTakes, Request
  <2>2. Undisturbed' BY <1>3, <2>1 DEF WInv, Reads, Undisturbed
  <2>3. Listed' BY <1>1, <1>2, <1>4, <2>1 DEF WInv, Reads, Listed
  <2>4. ReadyIsWhole' BY <2>1 DEF ReadyIsWhole, Ready
  <2>. QED BY <1>3, <2>2, <2>3, <2>4 DEF Reads
<1>11. CASE ReadCommits
  <2>1. /\ request.step = "commits" /\ request'.step = "record"
        /\ request'.takes = request.takes /\ request'.commits = Commits(delivered)
        /\ request'.beside = request.beside
    BY <1>2, <1>11 DEF ReadCommits, Request
  <2>2. Undisturbed' BY <1>3, <2>1 DEF WInv, Reads, Undisturbed
  <2>3. Listed' BY <1>1, <1>4, <1>5, <2>1 DEF Listed
  <2>4. ReadyIsWhole' BY <2>1 DEF ReadyIsWhole, Ready
  <2>. QED BY <1>3, <2>2, <2>3, <2>4 DEF Reads
<1>12. CASE ReadRecord \/ ReadTarget
  <2>1. /\ request.step \in {"record", "target"} /\ request'.step \in {"target", "timeline"}
        /\ request'.takes = request.takes /\ request'.commits = request.commits
        /\ request'.beside = request.beside
    BY <1>2, <1>12 DEF ReadRecord, ReadTarget, Request
  <2>2. Undisturbed' BY <1>3, <2>1 DEF WInv, Reads, Undisturbed
  <2>3. ~ request'.beside /\ ~ HalfRecorded' => request'.commits = Commits(delivered)'
    BY <1>3, <1>5, <2>1 DEF WInv, Reads, Listed
  <2>4. Listed' BY <1>1, <1>4, <2>1, <2>3 DEF Listed
  <2>5. ReadyIsWhole' BY <2>1 DEF ReadyIsWhole, Ready
  <2>. QED BY <1>3, <2>2, <2>4, <2>5 DEF Reads
<1>13. CASE AnswerWorkspace
  <2>. DEFINE word == WorkspaceWord(request.running, request.takes, request.languages,
                                    request.commits, request.stored, request.named, delivered)
  <2>1. request.step = "timeline"
        /\ request' = [request EXCEPT !.word = word, !.step = "answered"]
    BY <1>13 DEF AnswerWorkspace
  <2>2. /\ request'.step = "answered" /\ request'.word = word
        /\ request'.takes = request.takes /\ request'.named = request.named
        /\ request'.beside = request.beside
    <3>. HIDE DEF word
    <3>. QED BY <1>2, <2>1 DEF Request
  <2>3. Undisturbed' /\ Listed'
    <3>1. Undisturbed' BY <1>3, <2>1, <2>2 DEF WInv, Reads, Undisturbed
    <3>2. Listed' BY <1>1, <1>4, <2>2 DEF Listed
    <3>. QED BY <3>1, <3>2
  <2>4. ASSUME word = "ready", ~ request.beside, ~ HalfRecorded, FirstIsLongest
        PROVE  ShowsEveryLine
    <3>1. request.commits = Commits(delivered) BY <2>1, <2>4 DEF WInv, Reads, Listed
    <3>2. Readiness(request.running, request.takes,
                    Cardinality(Timeline(FirstTrack(request.takes))),
                    Cardinality(Tracks(request.takes, request.named))) = "ready"
      BY <1>4, <2>4, <3>1, WorkspaceReady DEF Timeline
    <3>3. ~ Active BY <2>1, <2>4 DEF WInv, Reads, Undisturbed
    <3>4. \A lang \in Tracks(request.takes, request.named) :
            Cardinality(Timeline(lang)) <= Cardinality(Timeline(FirstTrack(request.takes)))
      BY <2>4 DEF FirstIsLongest
    <3>. HIDE DEF word
    <3>. QED BY <1>4, <2>4, <3>2, <3>3, <3>4, ReadyShows DEF WInv, Rows, ShowsEveryLine
  <2>. HIDE DEF word
  <2>5. ReadyIsWhole' BY <1>3, <1>6, <2>2, <2>4 DEF ReadyIsWhole, Ready
  <2>. QED BY <1>3, <2>3, <2>5 DEF Reads
<1>14. CASE AnswerIndex
  <2>. DEFINE word == IndexWord(request.takes, delivered)
  <2>1. request.step = "index counts"
        /\ request' = [request EXCEPT !.word = word, !.step = "answered"]
    BY <1>14 DEF AnswerIndex
  <2>2. /\ request'.step = "answered" /\ request'.word = word
        /\ request'.takes = request.takes /\ request'.named = request.named
        /\ request'.beside = request.beside
    <3>. HIDE DEF word
    <3>. QED BY <1>2, <2>1 DEF Request
  <2>3. Undisturbed' /\ Listed'
    <3>1. Undisturbed' BY <1>3, <2>1, <2>2 DEF WInv, Reads, Undisturbed
    <3>2. Listed' BY <1>1, <1>4, <2>2 DEF Listed
    <3>. QED BY <3>1, <3>2
  <2>4. ASSUME word = "ready", ~ request.beside, ~ HalfRecorded, FirstIsLongest
        PROVE  ShowsEveryLine
    <3>1. request.named = FALSE /\ FALSE \in BOOLEAN BY <1>4, <2>1 DEF WInv, Reads, Listed
    <3>2. Readiness(FALSE, request.takes, Cardinality(Timeline(FirstTrack(request.takes))),
                    Cardinality(Tracks(request.takes, request.named))) = "ready"
      BY <1>4, <2>4, <3>1, IndexReady DEF Timeline
    <3>3. ~ Active BY <2>1, <2>4 DEF WInv, Reads, Undisturbed
    <3>4. \A lang \in Tracks(request.takes, request.named) :
            Cardinality(Timeline(lang)) <= Cardinality(Timeline(FirstTrack(request.takes)))
      BY <2>4 DEF FirstIsLongest
    <3>. HIDE DEF word
    <3>. QED BY <1>4, <2>4, <3>1, <3>2, <3>3, <3>4, ReadyShows DEF WInv, Rows, ShowsEveryLine
  <2>. HIDE DEF word
  <2>5. ReadyIsWhole' BY <1>3, <1>6, <2>2, <2>4 DEF ReadyIsWhole, Ready
  <2>. QED BY <1>3, <2>3, <2>5 DEF Reads
<1>15. CASE EndRequest
  <2>1. request'.step = "idle" /\ request'.takes = 0 BY <1>15 DEF EndRequest, NoRequest
  <2>. QED BY <1>2, <1>3, <1>7, <2>1 DEF Reads, Undisturbed, Listed, ReadyIsWhole, Ready
<1>. QED BY <1>8, <1>9, <1>10, <1>11, <1>12, <1>13, <1>14, <1>15 DEF Read

-----------------------------------------------------------------------------
LEMMA InitReady == Init => WInv
<1>. SUFFICES ASSUME Init PROVE WInv OBVIOUS
<1>1. /\ journal = <<>> /\ Len(journal) = 0 /\ delivered = 0
      /\ \A r \in Runs : run[r] = "idle"
      /\ request.step = "idle" /\ request.takes = 0
  BY DEF Init, NoRequest
<1>2. Attributed BY <1>1 DEF Attributed
<1>3. Written BY <1>1 DEF Written
<1>4. Queued BY <1>1 DEF Queued
<1>5. Reads BY <1>1 DEF Reads, Undisturbed, Listed, ReadyIsWhole, Ready
<1>. QED BY <1>2, <1>3, <1>4, <1>5, InitInv DEF WInv, Rows

LEMMA NextReady == WInv /\ [Next]_vars => WInv'
<1>. SUFFICES ASSUME WInv, [Next]_vars PROVE WInv' OBVIOUS
<1>1. IInv' BY NextInv DEF WInv
<1>2. SUFFICES Rows' /\ Reads'
  BY <1>1 DEF WInv
<1>3. CASE Store \/ Reconcile \/ UNCHANGED vars
  <2>1. /\ UNCHANGED <<journal, run, language, found, place, request>>
        /\ \/ delivered' = delivered
           \/ delivered' = Len(journal) /\ delivered < Len(journal)
    BY <1>3 DEF Store, Reconcile, vars, ledgerVars, runVars
  <2>2. delivered \in 0 .. Len(journal) /\ journal \in Seq(Row) BY DEF WInv, IInv, TypeOK
  <2>3. delivered' \in Nat /\ delivered <= delivered' BY <2>1, <2>2
  <2>4. Rows' /\ (HalfRecorded' <=> HalfRecorded) /\ (Active' <=> Active) BY <2>1, <2>3, RunsKept
  <2>5. delivered' = delivered \/ HalfRecorded BY <2>1 DEF WInv, Rows, Queued
  <2>6. Reads' BY <2>1, <2>3, <2>4, <2>5, RequestKept
  <2>. QED BY <2>4, <2>6
<1>. QED BY <1>3, StartKeeps, WorkKeeps, WriteKeeps, ReadKeepsReady, CrashKeeps DEF Next

\* A project is called ready only by a request that read, for every language it
\* lists, a fitting take of each line of its timeline, unless a run failed half
\* way or worked meanwhile, or a language has more lines than the first
\* (workspaceReadiness, DeriveReadiness).
THEOREM ReadyMeansEveryLine == Spec => []ReadyIsWhole
<1>1. WInv => ReadyIsWhole BY DEF WInv, Reads
<1>. QED BY <1>1, InitReady, NextReady, PTL DEF Spec
=============================================================================
