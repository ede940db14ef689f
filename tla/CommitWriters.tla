--------------------------- MODULE CommitWriters ---------------------------
(***************************************************************************)
(* The three writers of one dub's commit history: a timeline edit          *)
(* (internal/api/mutations.go), a line re-render (internal/api/rerender.go)*)
(* and a pipeline run (internal/api/run.go), with the recorders that write *)
(* their rows (cmd/ajilamu/main.go persist and RecordEdit).                *)
(*                                                                         *)
(* The journal is the durable queue with everything it ever held: rows     *)
(* reach ClickHouse in journal order (the promise of LedgerDelivery), so   *)
(* ClickHouse holds a prefix of it. Every read goes to ClickHouse and      *)
(* never to the queue.                                                     *)
(*                                                                         *)
(* A line has two parts that different writers set: its slot (boundaries   *)
(* and speaker) and its take (text and audio). A row names, for each part, *)
(* the commit that set it, so a part copied from elsewhere is visible.     *)
(* Each writer makes one commit, whose identifier is the writer.           *)
(***************************************************************************)
EXTENDS Naturals, Sequences

CONSTANTS Edits, Rerenders, Runs,  \* the requests of each kind
          LineCount,               \* lines of the film
          NoCommit,                \* the empty commit identifier
          MaxFaults                \* bound on failed calls and crashes

ASSUME WritersAssumption ==
  /\ Edits \intersect Rerenders = {} /\ Edits \intersect Runs = {}
  /\ Rerenders \intersect Runs = {}
  /\ NoCommit \notin Edits \union Rerenders \union Runs
ASSUME CountsAssumption == LineCount \in Nat \ {0} /\ MaxFaults \in Nat

VARIABLES journal,    \* every row enqueued, in order
          delivered,  \* ClickHouse holds journal[1 .. delivered]
          lock,       \* the dub's commit lock: its holder, or NoCommit
          pc,         \* the step each writer is at
          head,       \* the head commit each writer last read
          version,    \* the version_seq each writer is about to use
          line,       \* the line a re-render or an edit is about
          base,       \* the row it read for that line
          written,    \* rows written after the commit row
          faults      \* faults so far, at most MaxFaults

readVars == <<head, version, line, base>>
vars == <<journal, delivered, lock, pc, readVars, written, faults>>

Writers == Edits \union Rerenders \union Runs
Lines == 1 .. LineCount
Ids == Writers \union {NoCommit}
Steps == {"idle", "editHead", "editTimeline", "lineTimeline", "rendering",
          "flush", "head", "append", "rows", "done", "failed"}
Holding == {"editHead", "editTimeline", "flush", "head", "append", "rows"}

Versions == Nat \ {0}
CommitRow == [kind : {"commit"}, id : Writers, parent : Ids, version : Versions]
StateRow == [kind : {"state"}, id : Writers, version : Versions,
             line : Lines, slot : Writers, take : Writers]
OtherRow == [kind : {"action", "take"}, id : Writers]
Row == CommitRow \union StateRow \union OtherRow
Blank == [slot |-> NoCommit, take |-> NoCommit]

TypeOK ==
  /\ journal \in Seq(Row)
  /\ delivered \in 0 .. Len(journal)
  /\ lock \in Ids
  /\ pc \in [Writers -> Steps]
  /\ head \in [Writers -> Ids]
  /\ version \in [Writers -> Nat]
  /\ line \in [Writers -> Lines]
  /\ base \in [Writers -> [slot : Ids, take : Ids]]
  /\ written \in [Writers -> Nat]
  /\ faults \in 0 .. MaxFaults

-----------------------------------------------------------------------------
(***************************************************************************)
(* What ClickHouse answers.                                                *)
(***************************************************************************)
CommitsIn(n) == {i \in 1 .. n : journal[i].kind = "commit"}

\* The last of ListCommits, which orders by version_seq.
IsHead(i) ==
  /\ i \in CommitsIn(delivered)
  /\ \A j \in CommitsIn(delivered) : journal[j].version <= journal[i].version

\* The recursive query: of the commits among n journal rows, the least set
\* with the given one that has the parent of each commit in it.
Ancestry(id, n) ==
  LET commits == CommitsIn(n)
      Stored == {journal[i].id : i \in commits}
      Closed == {S \in SUBSET Stored :
                   /\ id \in Stored => id \in S
                   /\ \A i \in commits :
                        journal[i].id \in S /\ journal[i].parent \in Stored => journal[i].parent \in S}
  IN  {a \in Stored : \A S \in Closed : a \in S}

\* timeline_at_commit: the newest snapshot of the line in the ancestry.
IsTimelineRow(i, id, l, n) ==
  LET ancestors == Ancestry(id, n)
      Candidates == {j \in 1 .. n : /\ journal[j].kind = "state"
                                    /\ journal[j].line = l
                                    /\ journal[j].id \in ancestors}
  IN  i \in Candidates /\ \A j \in Candidates : journal[j].version <= journal[i].version

-----------------------------------------------------------------------------
(***************************************************************************)
(* The rows a writer records after its commit row. A run sets every part   *)
(* of every line; an edit copies the take it read; a re-render copies the  *)
(* slot it read. An edit has no take row.                                  *)
(***************************************************************************)
Action(w) == [kind |-> "action", id |-> w]
TakeRow(w) == [kind |-> "take", id |-> w]
State(w, l, slot, take) ==
  [kind |-> "state", id |-> w, version |-> version[w], line |-> l,
   slot |-> slot, take |-> take]

RowsOf(w) ==
  IF w \in Edits
  THEN <<Action(w), State(w, line[w], w, base[w].take)>>
  ELSE IF w \in Rerenders
  THEN <<Action(w), TakeRow(w), State(w, line[w], base[w].slot, w)>>
  ELSE <<Action(w)>> \o [l \in Lines |-> TakeRow(w)] \o [l \in Lines |-> State(w, l, w, w)]

Go(w, step) == pc' = [pc EXCEPT ![w] = step]

Fault ==
  /\ faults < MaxFaults
  /\ faults' = faults + 1

\* Faulty: no deferred unlock, so an error keeps the dub locked.
FailHoldingLock(w) == Go(w, "failed") /\ UNCHANGED lock

\* The handler returns an error; a deferred unlock releases the dub.
Fail(w) ==
  /\ Go(w, "failed")
  /\ lock' = IF lock = w THEN NoCommit ELSE lock

\* Flush delivers the whole queue, or stops anywhere on an error.
Flushed(n) == delivered' = n
FlushStopped(n) == delivered' \in delivered .. n /\ Fault

\* Faulty: nobody waits for the writer before.
NoLock == TRUE

LockFree == lock = NoCommit

RunInProgress == \E r \in Runs : pc[r] \notin {"idle", "done", "failed"}
RerenderInProgress == \E r \in Rerenders : pc[r] \notin {"idle", "done", "failed"}

-----------------------------------------------------------------------------
Init ==
  /\ journal = <<>>
  /\ delivered = 0
  /\ lock = NoCommit
  /\ pc = [w \in Writers |-> "idle"]
  /\ head = [w \in Writers |-> NoCommit]
  /\ version = [w \in Writers |-> 0]
  /\ line \in [Writers -> Lines]
  /\ base = [w \in Writers |-> Blank]
  /\ written = [w \in Writers |-> 0]
  /\ faults = 0

(***************************************************************************)
(* EditsHandler: under the lock, read the head, read its timeline, derive  *)
(* the edited row, and only then call RecordEdit, which flushes first.     *)
(***************************************************************************)
EditLock(w) ==
  /\ w \in Edits
  /\ pc[w] = "idle"
  /\ LockFree
  /\ lock' = w
  /\ Go(w, "editHead")
  /\ UNCHANGED <<journal, delivered, readVars, written, faults>>

EditReadHead(w) ==
  /\ pc[w] = "editHead"
  /\ \/ /\ \E i \in CommitsIn(delivered) :
             IsHead(i) /\ head' = [head EXCEPT ![w] = journal[i].id]
        /\ Go(w, "editTimeline")
        /\ UNCHANGED lock
     \/ /\ CommitsIn(delivered) = {}
        /\ Fail(w)
        /\ UNCHANGED head
  /\ UNCHANGED <<journal, delivered, version, line, base, written, faults>>

(***************************************************************************)
(* The row of the line at the head read, for an edit and a re-render.      *)
(***************************************************************************)
ReadLine(w) ==
  \E i \in 1 .. delivered :
    /\ IsTimelineRow(i, head[w], line[w], delivered)
    /\ base' = [base EXCEPT ![w] = [slot |-> journal[i].slot, take |-> journal[i].take]]

EditDerive(w) ==
  /\ pc[w] = "editTimeline"
  /\ \/ ReadLine(w) /\ Go(w, "flush") /\ UNCHANGED lock
     \/ Fail(w) /\ UNCHANGED base  \* no such line, or a refused edit
  /\ UNCHANGED <<journal, delivered, head, version, line, written, faults>>

(***************************************************************************)
(* RerenderHandler: one at a time, refused while a run of the dub is       *)
(* active, reads the head line without the lock, then renders.             *)
(***************************************************************************)
RerenderReadHead(w) ==
  /\ w \in Rerenders
  /\ pc[w] = "idle"
  /\ ~ RunInProgress /\ ~ RerenderInProgress
  /\ \/ /\ \E i \in CommitsIn(delivered) :
             IsHead(i) /\ head' = [head EXCEPT ![w] = journal[i].id]
        /\ Go(w, "lineTimeline")
     \/ CommitsIn(delivered) = {} /\ Go(w, "failed") /\ UNCHANGED head
  /\ UNCHANGED <<journal, delivered, lock, version, line, base, written, faults>>

RerenderReadLine(w) ==
  /\ pc[w] = "lineTimeline"
  /\ \/ ReadLine(w) /\ Go(w, "rendering")
     \/ Go(w, "failed") /\ UNCHANGED base
  /\ UNCHANGED <<journal, delivered, lock, head, version, line, written, faults>>

\* RunStartHandler: one active run of a dub at a time.
RunStart(w) ==
  /\ w \in Runs
  /\ pc[w] = "idle"
  /\ ~ RunInProgress
  /\ Go(w, "rendering")
  /\ UNCHANGED <<journal, delivered, lock, readVars, written, faults>>

RenderFails(w) ==
  /\ pc[w] = "rendering"
  /\ Fault
  /\ Go(w, "failed")
  /\ UNCHANGED <<journal, delivered, lock, readVars, written>>

\* persist takes the lock once the audio is rendered.
PersistLock(w) ==
  /\ pc[w] = "rendering"
  /\ LockFree
  /\ lock' = w
  /\ Go(w, "flush")
  /\ UNCHANGED <<journal, delivered, readVars, written, faults>>

(***************************************************************************)
(* persist and RecordEdit: flush, read the head, append the commit, write  *)
(* the other rows, flush, unlock. The first error ends the call.           *)
(***************************************************************************)
\* Faulty: reads the head while an earlier commit may still be queued.
NoFlushFirst(w) ==
  /\ pc[w] = "flush"
  /\ Go(w, "head")
  /\ UNCHANGED <<journal, delivered, lock, readVars, written, faults>>

FlushFirst(w) ==
  /\ pc[w] = "flush"
  /\ \/ Flushed(Len(journal)) /\ Go(w, "head") /\ UNCHANGED <<lock, faults>>
     \/ FlushStopped(Len(journal)) /\ Fail(w)
  /\ UNCHANGED <<journal, readVars, written>>

\* Faulty: the first commit of a dub is version 0.
ReadHeadFromZero(w) ==
  /\ pc[w] = "head"
  /\ \/ \E i \in CommitsIn(delivered) :
          /\ IsHead(i)
          /\ head' = [head EXCEPT ![w] = journal[i].id]
          /\ version' = [version EXCEPT ![w] = journal[i].version + 1]
     \/ /\ CommitsIn(delivered) = {}
        /\ head' = [head EXCEPT ![w] = NoCommit]
        /\ version' = [version EXCEPT ![w] = 0]
  /\ Go(w, "append")
  /\ UNCHANGED <<journal, delivered, lock, line, base, written, faults>>

ReadHead(w) ==
  /\ pc[w] = "head"
  /\ \/ \E i \in CommitsIn(delivered) :
          /\ IsHead(i)
          /\ head' = [head EXCEPT ![w] = journal[i].id]
          /\ version' = [version EXCEPT ![w] = journal[i].version + 1]
     \/ /\ CommitsIn(delivered) = {}
        /\ head' = [head EXCEPT ![w] = NoCommit]
        /\ version' = [version EXCEPT ![w] = 1]
  /\ Go(w, "append")
  /\ UNCHANGED <<journal, delivered, lock, line, base, written, faults>>

\* A read of ClickHouse fails before anything is written.
ReadFails(w) ==
  /\ pc[w] \in {"editHead", "editTimeline", "lineTimeline", "head", "append"}
  /\ Fault
  /\ Fail(w)
  /\ UNCHANGED <<journal, delivered, readVars, written>>

\* AppendCommit looks the parent up in ClickHouse.
ParentStored(w) ==
  head[w] # NoCommit =>
    \E i \in CommitsIn(delivered) :
      journal[i].id = head[w] /\ journal[i].version < version[w]

(***************************************************************************)
(* EnqueueJSON: the row is enqueued, then everything queued is flushed. On *)
(* an error the row may be in the queue or not.                            *)
(***************************************************************************)
\* Faulty: the error of EnqueueJSON is dropped.
WriteUnchecked(w, row, step) ==
  \/ /\ journal' = Append(journal, row)
     /\ Flushed(Len(journal) + 1)
     /\ Go(w, step)
     /\ UNCHANGED <<lock, faults>>
  \/ /\ Fault
     /\ Go(w, step)
     /\ UNCHANGED <<journal, delivered, lock>>

Write(w, row, step) ==
  \/ /\ journal' = Append(journal, row)
     /\ Flushed(Len(journal) + 1)
     /\ Go(w, step)
     /\ UNCHANGED <<lock, faults>>
  \/ /\ journal' = Append(journal, row)
     /\ FlushStopped(Len(journal) + 1)
     /\ Fail(w)
  \/ /\ Fault
     /\ Fail(w)
     /\ UNCHANGED <<journal, delivered>>

AppendCommit(w) ==
  /\ pc[w] = "append"
  /\ IF ParentStored(w)
     THEN Write(w, [kind |-> "commit", id |-> w, parent |-> head[w], version |-> version[w]],
                "rows")
     ELSE Fail(w) /\ UNCHANGED <<journal, delivered, faults>>
  /\ UNCHANGED <<readVars, written>>

WriteRow(w) ==
  /\ pc[w] = "rows"
  /\ written[w] < Len(RowsOf(w))
  /\ written' = [written EXCEPT ![w] = @ + 1]
  /\ Write(w, RowsOf(w)[written[w] + 1], "rows")
  /\ UNCHANGED readVars

FlushLast(w) ==
  /\ pc[w] = "rows"
  /\ written[w] = Len(RowsOf(w))
  /\ \/ Flushed(Len(journal)) /\ Go(w, "done") /\ lock' = NoCommit /\ UNCHANGED faults
     \/ FlushStopped(Len(journal)) /\ Fail(w)
  /\ UNCHANGED <<journal, readVars, written>>

-----------------------------------------------------------------------------
\* The reconciler, or any other caller's flush, delivers queued rows.
Reconcile ==
  /\ delivered' \in delivered + 1 .. Len(journal)
  /\ UNCHANGED <<journal, lock, pc, readVars, written, faults>>

\* The process dies: every request in progress is gone, the queue is not.
Crash ==
  /\ Fault
  /\ lock' = NoCommit
  /\ pc' = [w \in Writers |-> IF pc[w] \in {"idle", "done"} THEN pc[w] ELSE "failed"]
  /\ UNCHANGED <<journal, delivered, readVars, written>>

WriterStep(w) ==
  \/ EditReadHead(w) \/ EditDerive(w) \/ RerenderReadLine(w)
  \/ PersistLock(w) \/ FlushFirst(w) \/ ReadHead(w)
  \/ AppendCommit(w) \/ WriteRow(w) \/ FlushLast(w)

Next ==
  \/ \E w \in Writers : \/ EditLock(w) \/ RerenderReadHead(w) \/ RunStart(w)
                        \/ RenderFails(w) \/ ReadFails(w) \/ WriterStep(w)
  \/ Reconcile
  \/ Crash

Spec == Init /\ [][Next]_vars

(***************************************************************************)
(* Fairness: a handler takes its next step. Weak fairness is enough for    *)
(* the lock too: finitely many writers each take it once, so from some     *)
(* state on it stays free for one that waits.                              *)
(***************************************************************************)
Fairness ==
  \A w \in Writers : WF_vars(WriterStep(w))

FairSpec == Spec /\ Fairness

-----------------------------------------------------------------------------
(***************************************************************************)
(* Properties.                                                             *)
(***************************************************************************)
Commits == CommitsIn(Len(journal))

\* The commits of a dub form a chain: each one is the next version of the
\* commit before it, whatever failed, crashed or arrived late in between
\* (mutations.go:56, "The commit DAG stays a chain").
Chain ==
  \A i \in Commits :
    /\ \A j \in Commits : j < i => journal[j].version < journal[i].version
    /\ IF journal[i].version = 1
       THEN journal[i].parent = NoCommit
       ELSE \E j \in Commits : /\ j < i
                               /\ journal[j].id = journal[i].parent
                               /\ journal[j].version + 1 = journal[i].version

\* A writer that reports success has its commit and every other row of it in
\* ClickHouse (main.go persist, "every row reaches ClickHouse before the run
\* reports done").
SuccessIsStored ==
  \A w \in Writers : pc[w] = "done" =>
    /\ \E i \in CommitsIn(delivered) : journal[i].id = w
    /\ \A k \in 1 .. Len(RowsOf(w)) : \E i \in 1 .. delivered : journal[i] = RowsOf(w)[k]

\* The newest snapshot of a line still has the slot and the take that the
\* newest commit setting each of them gave it (mutations.go:56, "the head
\* timeline keeps every commit").
Newest(S) == CHOOSE i \in S : \A j \in S : journal[j].version <= journal[i].version

HeadKeepsEveryCommit ==
  \A l \in Lines :
    LET States == {i \in 1 .. Len(journal) : journal[i].kind = "state" /\ journal[i].line = l}
        SlotSetters == {i \in States : journal[i].slot = journal[i].id}
        TakeSetters == {i \in States : journal[i].take = journal[i].id}
    IN  States # {} =>
          /\ journal[Newest(States)].slot = journal[Newest(SlotSetters)].id
          /\ journal[Newest(States)].take = journal[Newest(TakeSetters)].id

\* As long as no call failed and no re-render wrote, edits and runs that took
\* turns at the dub lock undid nothing of each other (mutations.go:229-231,
\* the edit is derived "from a head no other writer can move").
EditsKeepEveryCommit ==
  (faults = 0 /\ \A w \in Rerenders : pc[w] # "done" /\ written[w] = 0) => HeadKeepsEveryCommit

\* Every request that started ends, whatever fails and whoever holds the lock
\* meanwhile (LockDubCommit and the deferred unlock).
EveryWriterEnds ==
  \A w \in Writers : pc[w] # "idle" ~> pc[w] \in {"done", "failed"}
=============================================================================
