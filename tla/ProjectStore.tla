---------------------------- MODULE ProjectStore ----------------------------
(***************************************************************************)
(* The stored projects of the upload volume: the upload and sample routes  *)
(* that create them (internal/api/upload.go, sample.go), the rename route  *)
(* that rewrites their record (upload.go NewRenameHandler), and what the   *)
(* readers of the record see (ListUploadSummaries, loadUploadRecord).      *)
(*                                                                         *)
(* A request to create a project stages its files in a directory readers   *)
(* skip, writes the record there, and moves the directory to its final     *)
(* name. A rename has no such stage: os.WriteFile truncates the record in  *)
(* place and then writes it.                                               *)
(*                                                                         *)
(* Of a record only the title ever changes, so a record is the request     *)
(* that named it, and its length is the length of that title. A file is    *)
(* the record its last write put at its start, and the size of the file:   *)
(* the record parses only if nothing follows it.                           *)
(*                                                                         *)
(* A rename is answered in the step that writes its record: the order in   *)
(* which two renames write is the order in which they are answered.        *)
(***************************************************************************)
EXTENDS Naturals

CONSTANTS Uploads,     \* requests to create a project; also its identifier
          Samples,     \* those of them that copy the sample video
          Renames,     \* rename requests; also the title each one asks for
          TitleSize,   \* the length of the title each request asks for
          NoTitle      \* no record

ASSUME RequestsAssumption ==
  /\ Uploads \intersect Renames = {} /\ Samples \subseteq Uploads
  /\ NoTitle \notin Uploads \union Renames
ASSUME SizeAssumption == TitleSize \in [Uploads \union Renames -> Nat \ {0}]

VARIABLES dir,       \* where the directory of each project is
          parts,     \* the parts of each project stored completely
          file,      \* the record file of each project
          step,      \* the step each request is at
          about,     \* the project each rename is about
          alone,     \* no write of the record failed, crashed or met another
          answered   \* the title of the last request answered with success

storeVars == <<dir, parts, file, step, about, alone, answered>>

Requests == Uploads \union Renames
Titles == Requests \union {NoTitle}
\* The optional music is left out: nothing ever asks for it.
Parts == {"video", "language"}
Files == [title : Titles, size : Nat]
NoFile == [title |-> NoTitle, size |-> 0]
Steps == {"idle", "parts", "record", "move", "loaded", "opened", "done", "failed"}

StoreTypeOK ==
  /\ dir \in [Uploads -> {"none", "staging", "project"}]
  /\ parts \in [Uploads -> SUBSET Parts]
  /\ file \in [Uploads -> Files]
  /\ step \in [Requests -> Steps]
  /\ about \in [Renames -> Uploads]
  /\ alone \in [Uploads -> BOOLEAN]
  /\ answered \in [Uploads -> Titles]

-----------------------------------------------------------------------------
(***************************************************************************)
(* What a reader of the volume finds.                                      *)
(***************************************************************************)
Holds(f, title) == f.title = title /\ title # NoTitle /\ f.size = TitleSize[title]

\* loadUploadRecord: missing, empty and unparsable records are no project.
RecordOf(u) ==
  IF dir[u] = "project" /\ Holds(file[u], file[u].title) THEN file[u].title ELSE NoTitle

Readable(u) == RecordOf(u) # NoTitle

\* open(O_TRUNC), and one write at the start of the file.
Truncated == NoFile
Overwritten(f, title) ==
  [title |-> title, size |-> IF f.size > TitleSize[title] THEN f.size ELSE TitleSize[title]]

Proceed(r, s) == step' = [step EXCEPT ![r] = s]
Writing(u) == {r \in Renames : step[r] = "opened" /\ about[r] = u}

-----------------------------------------------------------------------------
StoreInit ==
  /\ dir = [u \in Uploads |-> "none"]
  /\ parts = [u \in Uploads |-> {}]
  /\ file = [u \in Uploads |-> NoFile]
  /\ step = [r \in Requests |-> "idle"]
  /\ about \in [Renames -> Uploads]
  /\ alone = [u \in Uploads |-> TRUE]
  /\ answered = [u \in Uploads |-> NoTitle]

(***************************************************************************)
(* UploadHandler and SampleHandler.                                        *)
(***************************************************************************)
Stage(u) ==
  /\ step[u] = "idle"
  /\ dir' = [dir EXCEPT ![u] = "staging"]
  /\ Proceed(u, "parts")
  /\ UNCHANGED <<parts, file, about, alone, answered>>

\* One part of the request is stored; a second file of one kind is refused.
StorePart(u, part) ==
  /\ step[u] = "parts"
  /\ u \in Samples => part = "video"
  /\ part \notin parts[u]
  /\ parts' = [parts EXCEPT ![u] = @ \union {part}]
  /\ UNCHANGED <<dir, file, step, about, alone, answered>>

\* Faulty: a language is not asked for.
AllPartsButLanguage(u) ==
  /\ step[u] = "parts"
  /\ "video" \in parts[u]
  /\ Proceed(u, "record")
  /\ UNCHANGED <<dir, parts, file, about, alone, answered>>

\* The request ends with the parts it needs; a sample names its own language.
AllParts(u) ==
  /\ step[u] = "parts"
  /\ (IF u \in Samples THEN {"video"} ELSE {"video", "language"}) \subseteq parts[u]
  /\ Proceed(u, "record")
  /\ UNCHANGED <<dir, parts, file, about, alone, answered>>

WriteFirstRecord(u) ==
  /\ step[u] = "record"
  /\ file' = [file EXCEPT ![u] = Overwritten(Truncated, u)]
  /\ Proceed(u, "move")
  /\ UNCHANGED <<dir, parts, about, alone, answered>>

Move(u) ==
  /\ step[u] = "move"
  /\ dir' = [dir EXCEPT ![u] = "project"]
  /\ Proceed(u, "done")
  /\ answered' = [answered EXCEPT ![u] = u]
  /\ UNCHANGED <<parts, file, about, alone>>

\* A part is refused, the body breaks off, or the disk refuses a write or the
\* move: the deferred RemoveAll takes the staging directory away.
AbandonUpload(u) ==
  /\ step[u] \in {"parts", "record", "move"}
  /\ dir' = [dir EXCEPT ![u] = "none"]
  /\ parts' = [parts EXCEPT ![u] = {}]
  /\ file' = [file EXCEPT ![u] = NoFile]
  /\ Proceed(u, "failed")
  /\ UNCHANGED <<about, alone, answered>>

(***************************************************************************)
(* RenameHandler: no lock between the load, the open and the write.        *)
(***************************************************************************)
\* A blank or overlong title is refused, and so is a project without a record.
LoadRecord(r) ==
  /\ step[r] = "idle"
  /\ \/ Readable(about[r]) /\ Proceed(r, "loaded")
     \/ Proceed(r, "failed")
  /\ UNCHANGED <<dir, parts, file, about, alone, answered>>

\* Faulty: the record is opened without O_TRUNC.
OpenKeepingBytes(r) ==
  /\ step[r] = "loaded"
  /\ alone' = [alone EXCEPT ![about[r]] = @ /\ Writing(about[r]) = {}]
  /\ Proceed(r, "opened")
  /\ UNCHANGED <<dir, parts, file, about, answered>>

OpenRecord(r) ==
  /\ step[r] = "loaded"
  /\ file' = [file EXCEPT ![about[r]] = Truncated]
  /\ alone' = [alone EXCEPT ![about[r]] = @ /\ Writing(about[r]) = {}]
  /\ Proceed(r, "opened")
  /\ UNCHANGED <<dir, parts, about, answered>>

OpenFails(r) ==
  /\ step[r] = "loaded"
  /\ Proceed(r, "failed")
  /\ UNCHANGED <<dir, parts, file, about, alone, answered>>

WriteRecord(r) ==
  /\ step[r] = "opened"
  /\ file' = [file EXCEPT ![about[r]] = Overwritten(@, r)]
  /\ Proceed(r, "done")
  /\ answered' = [answered EXCEPT ![about[r]] = r]
  /\ UNCHANGED <<dir, parts, about, alone>>

\* The disk is full: the record was truncated and stays so.
WriteFails(r) ==
  /\ step[r] = "opened"
  /\ alone' = [alone EXCEPT ![about[r]] = FALSE]
  /\ Proceed(r, "failed")
  /\ UNCHANGED <<dir, parts, file, about, answered>>

\* The process dies. Nothing removes the staging directories it leaves.
StoreDies ==
  /\ step' = [r \in Requests |-> IF step[r] \in {"idle", "done"} THEN step[r] ELSE "failed"]
  /\ alone' = [u \in Uploads |-> alone[u] /\ Writing(u) = {}]
  /\ UNCHANGED <<dir, parts, file, about, answered>>

StoreStep ==
  \/ \E u \in Uploads :
       \/ Stage(u) \/ AllParts(u) \/ WriteFirstRecord(u) \/ Move(u) \/ AbandonUpload(u)
       \/ \E part \in Parts : StorePart(u, part)
  \/ \E r \in Renames :
       \/ LoadRecord(r) \/ OpenRecord(r) \/ OpenFails(r)
       \/ WriteRecord(r) \/ WriteFails(r)

StoreNext == StoreStep \/ StoreDies

StoreSpec == StoreInit /\ [][StoreNext]_storeVars

-----------------------------------------------------------------------------
(***************************************************************************)
(* Properties.                                                             *)
(***************************************************************************)

\* Whatever request stopped where, a project a reader is shown has its video
\* and a language to dub into, and its name is one that an accepted request
\* for this project asked for (upload.go:322-324, workspace.go:307-308).
ShownProjectsAreWhole ==
  \A u \in Uploads : Readable(u) =>
    /\ "video" \in parts[u]
    /\ u \in Samples \/ "language" \in parts[u]
    /\ RecordOf(u) \in {u} \union {r \in Renames : about[r] = u /\ step[r] = "done"}

\* A project whose record was always written by one request at a time, and
\* never half, is shown under the name last answered, except while a rename
\* writes (upload.go:388-390).
AnsweredNameIsShown ==
  \A u \in Uploads :
    (answered[u] # NoTitle /\ alone[u] /\ Writing(u) = {}) => RecordOf(u) = answered[u]
=============================================================================
