------------------------ MODULE CommitWritersProofs ------------------------
(***************************************************************************)
(* Proofs about CommitWriters, for any requests, lines and faults: the     *)
(* state is well typed, the commits of a dub form a chain, a success is    *)
(* stored, and edits and runs keep each other's work.                      *)
(***************************************************************************)
EXTENDS CommitWriters, SequenceTheorems, WellFoundedInduction, TLAPS

PlainRow == StateRow \union OtherRow

\* Each step of a handler belongs to one kind of writer.
Roles ==
  \A w \in Writers :
    /\ pc[w] \in {"editHead", "editTimeline"} => w \in Edits
    /\ pc[w] = "lineTimeline" => w \in Rerenders
    /\ pc[w] = "rendering" => w \in Rerenders \union Runs

\* The part of a line that a writer copies forward was read from a row.
Prepared ==
  \A w \in Writers :
    /\ w \in Edits /\ pc[w] \in {"flush", "head", "append", "rows"}
         => base[w].take \in Writers
    /\ w \in Rerenders /\ pc[w] \in {"rendering", "flush", "head", "append", "rows"}
         => base[w].slot \in Writers

\* The lock is held by exactly the writer that is between its two ends.
LockHolder == \A w \in Writers : pc[w] \in Holding <=> lock = w

\* A writer past its first flush reads a ClickHouse that has caught up.
CaughtUp == \A w \in Writers : pc[w] \in {"head", "append"} => delivered = Len(journal)

\* What a writer is about to append continues the chain.
NextInChain ==
  \A w \in Writers : pc[w] = "append" =>
    /\ \A j \in Commits : journal[j].version < version[w]
    /\ IF version[w] = 1
       THEN head[w] = NoCommit
       ELSE \E j \in Commits : /\ journal[j].id = head[w]
                               /\ journal[j].version + 1 = version[w]

Numbered == \A w \in Writers : pc[w] \in {"append", "rows"} => version[w] \in Versions

Control == Roles /\ Prepared /\ LockHolder /\ CaughtUp /\ Numbered

IInv == TypeOK /\ Control /\ NextInChain /\ Chain

-----------------------------------------------------------------------------
\* A row the history answers with is a state row ClickHouse holds.
LEMMA TimelineRowIsState ==
  ASSUME TypeOK, NEW w \in Writers, NEW i \in 1 .. delivered,
         IsTimelineRow(i, head[w], line[w], delivered)
  PROVE  journal[i] \in StateRow
<1>1. journal[i] \in Row BY DEF TypeOK
<1>2. journal[i].kind = "state" BY DEF IsTimelineRow
<1>. QED BY <1>1, <1>2 DEF Row, CommitRow, StateRow, OtherRow

\* What persist and RecordEdit write after the commit row is well typed and
\* holds no other commit.
LEMMA RowsArePlain ==
  ASSUME TypeOK, Prepared, Numbered, NEW w \in Writers, pc[w] = "rows"
  PROVE  RowsOf(w) \in Seq(PlainRow)
<1>. DEFINE Takes == [l \in Lines |-> TakeRow(w)]
            States == [l \in Lines |-> State(w, l, w, w)]
<1>1. Action(w) \in PlainRow /\ TakeRow(w) \in PlainRow
  BY DEF Action, TakeRow, PlainRow, OtherRow
<1>2. version[w] \in Versions /\ line[w] \in Lines
  BY DEF Numbered, TypeOK
<1>3. ASSUME NEW l \in Lines, NEW s \in Writers, NEW t \in Writers
      PROVE  State(w, l, s, t) \in PlainRow
  BY <1>2 DEF State, PlainRow, StateRow
<1>4. CASE w \in Edits
  <2>1. State(w, line[w], w, base[w].take) \in PlainRow
    BY <1>2, <1>3, <1>4 DEF Prepared
  <2>. QED BY <1>1, <1>4, <2>1 DEF RowsOf
<1>5. CASE w \in Rerenders
  <2>1. State(w, line[w], base[w].slot, w) \in PlainRow
    BY <1>2, <1>3, <1>5 DEF Prepared
  <2>2. w \notin Edits BY <1>5, WritersAssumption
  <2>. QED BY <1>1, <1>5, <2>1, <2>2 DEF RowsOf
<1>6. CASE w \notin Edits /\ w \notin Rerenders
  <2>1. Takes \in Seq(PlainRow) /\ States \in Seq(PlainRow)
    BY <1>1, <1>3, CountsAssumption DEF Lines
  <2>2. <<Action(w)>> \in Seq(PlainRow) BY <1>1
  <2>3. RowsOf(w) = (<<Action(w)>> \o Takes) \o States BY <1>6 DEF RowsOf
  <2>. HIDE DEF Takes, States
  <2>4. <<Action(w)>> \o Takes \in Seq(PlainRow) BY <2>1, <2>2, ConcatProperties
  <2>. QED BY <2>1, <2>3, <2>4, ConcatProperties
<1>. QED BY <1>4, <1>5, <1>6

-----------------------------------------------------------------------------
\* A step that leaves the journal alone and takes no writer to its append
\* leaves the chain alone.
LEMMA QuietStep ==
  ASSUME IInv, journal' = journal,
         \A w \in Writers : pc'[w] = "append" =>
           pc[w] = "append" /\ head'[w] = head[w] /\ version'[w] = version[w]
  PROVE  NextInChain' /\ Chain'
<1>1. Commits' = Commits BY DEF Commits, CommitsIn
<1>2. Chain' BY <1>1 DEF IInv, Chain
<1>3. NextInChain' BY <1>1 DEF IInv, NextInChain
<1>. QED BY <1>2, <1>3

\* An early return: the writer has failed and the lock, if it was its own, is
\* free (the deferred unlock of every handler).
LEMMA FailKeepsControl ==
  ASSUME IInv, NEW w \in Writers, Fail(w), UNCHANGED <<version, base>>,
         pc[w] \in Holding \/ UNCHANGED <<journal, delivered>>
  PROVE  /\ pc' \in [Writers -> Steps]
         /\ lock' \in Ids
         /\ Control'
<1>1. pc' \in [Writers -> Steps] /\ lock' \in Ids
  BY DEF IInv, TypeOK, Fail, Go, Steps, Ids
<1>2. Roles' /\ Prepared' /\ Numbered'
  BY DEF IInv, TypeOK, Control, Roles, Prepared, Numbered, Fail, Go
<1>3. LockHolder'
  BY WritersAssumption DEF IInv, TypeOK, Control, LockHolder, Fail, Go, Holding, Writers
<1>4. CaughtUp'
  BY DEF IInv, TypeOK, Control, CaughtUp, LockHolder, Fail, Go, Holding
<1>. QED BY <1>1, <1>2, <1>3, <1>4 DEF Control

-----------------------------------------------------------------------------
\* The steps before the first flush of a commit.
LEMMA EditStep ==
  ASSUME IInv, NEW w \in Writers, EditLock(w) \/ EditReadHead(w) \/ EditDerive(w)
  PROVE  IInv'
<1>1. UNCHANGED <<journal, delivered, version, faults>>
  BY DEF EditLock, EditReadHead, EditDerive, readVars
<1>2. NextInChain' /\ Chain'
  <2>1. \A v \in Writers : pc'[v] = "append" => pc[v] = "append" /\ v # w
    BY DEF EditLock, EditReadHead, EditDerive, Fail, Go, IInv, TypeOK
  <2>2. \A v \in Writers : v # w => head'[v] = head[v]
    BY DEF EditLock, EditReadHead, EditDerive, IInv, TypeOK, readVars
  <2>. QED BY <1>1, <2>1, <2>2, QuietStep
<1>3. CASE EditLock(w)
  <2>1. TypeOK' BY <1>3 DEF EditLock, Go, IInv, TypeOK, readVars, Ids, Steps
  <2>2. Roles' /\ Prepared' /\ CaughtUp' /\ Numbered'
    BY <1>3, WritersAssumption
    DEF EditLock, Go, IInv, TypeOK, Control, Roles, Prepared, CaughtUp, Numbered, readVars
  <2>3. LockHolder'
    BY <1>3, WritersAssumption
    DEF EditLock, LockFree, Go, IInv, TypeOK, Control, LockHolder, Holding, Writers
  <2>. QED BY <1>2, <2>1, <2>2, <2>3 DEF IInv, Control
<1>4. CASE EditReadHead(w)
  <2>1. pc[w] \in Holding BY <1>4 DEF EditReadHead, Holding
  <2>2. head' \in [Writers -> Ids] /\ UNCHANGED <<line, base, written>>
    <3>1. ASSUME NEW i \in CommitsIn(delivered) PROVE journal[i].id \in Ids
      BY DEF CommitsIn, IInv, TypeOK, Row, CommitRow, StateRow, OtherRow, Ids
    <3>. QED BY <1>4, <3>1 DEF EditReadHead, IInv, TypeOK
  <2>3. CASE Fail(w)
    <3>1. pc' \in [Writers -> Steps] /\ lock' \in Ids /\ Control'
      BY <1>1, <2>1, <2>2, <2>3, FailKeepsControl
    <3>. QED BY <1>1, <1>2, <2>2, <3>1 DEF IInv, TypeOK
  <2>4. CASE Go(w, "editTimeline") /\ UNCHANGED lock
    <3>1. TypeOK' BY <1>1, <2>2, <2>4 DEF Go, IInv, TypeOK, Steps
    <3>2. Control'
      BY <1>1, <1>4, <2>2, <2>4
      DEF EditReadHead, Go, IInv, TypeOK, Control, Roles, Prepared, LockHolder, CaughtUp, Numbered, Holding
    <3>. QED BY <1>2, <3>1, <3>2 DEF IInv
  <2>. QED BY <1>4, <2>3, <2>4 DEF EditReadHead
<1>5. CASE EditDerive(w)
  <2>1. pc[w] \in Holding BY <1>5 DEF EditDerive, Holding
  <2>2. UNCHANGED <<head, line, written>> BY <1>5 DEF EditDerive
  <2>3. CASE Fail(w) /\ UNCHANGED base
    <3>1. pc' \in [Writers -> Steps] /\ lock' \in Ids /\ Control'
      BY <1>1, <2>1, <2>3, FailKeepsControl
    <3>. QED BY <1>1, <1>2, <2>2, <2>3, <3>1 DEF IInv, TypeOK
  <2>4. CASE ReadLine(w) /\ Go(w, "flush") /\ UNCHANGED lock
    <3>1. PICK i \in 1 .. delivered :
            /\ IsTimelineRow(i, head[w], line[w], delivered)
            /\ base' = [base EXCEPT ![w] = [slot |-> journal[i].slot, take |-> journal[i].take]]
      BY <2>4 DEF ReadLine
    <3>2. journal[i] \in StateRow BY <3>1, TimelineRowIsState DEF IInv
    <3>3. base' \in [Writers -> [slot : Ids, take : Ids]] /\ base'[w].take \in Writers
      BY <3>1, <3>2 DEF StateRow, IInv, TypeOK, Ids
    <3>4. TypeOK' BY <1>1, <2>2, <2>4, <3>3 DEF Go, IInv, TypeOK, Steps
    <3>5. w \in Edits /\ w \notin Rerenders
      BY <1>5, WritersAssumption DEF EditDerive, IInv, Control, Roles
    <3>6. Prepared'
      BY <2>4, <3>1, <3>3, <3>5 DEF Go, IInv, TypeOK, Control, Prepared
    <3>7. Roles' /\ LockHolder' /\ CaughtUp' /\ Numbered'
      BY <1>1, <1>5, <2>4
      DEF EditDerive, Go, IInv, TypeOK, Control, Roles, LockHolder, CaughtUp, Numbered, Holding
    <3>. QED BY <1>2, <3>4, <3>6, <3>7 DEF IInv, Control
  <2>. QED BY <1>5, <2>3, <2>4 DEF EditDerive
<1>. QED BY <1>3, <1>4, <1>5

\* The steps of a re-render before it takes the lock.
LEMMA RerenderStep ==
  ASSUME IInv, NEW w \in Writers, RerenderReadHead(w) \/ RerenderReadLine(w)
  PROVE  IInv'
<1>1. UNCHANGED <<journal, delivered, lock, version, line, written, faults>>
  BY DEF RerenderReadHead, RerenderReadLine
<1>2. NextInChain' /\ Chain'
  <2>1. \A v \in Writers : pc'[v] = "append" => pc[v] = "append" /\ v # w
    BY DEF RerenderReadHead, RerenderReadLine, Go, IInv, TypeOK
  <2>2. \A v \in Writers : v # w => head'[v] = head[v]
    BY DEF RerenderReadHead, RerenderReadLine, IInv, TypeOK
  <2>. QED BY <1>1, <2>1, <2>2, QuietStep
<1>3. CASE RerenderReadHead(w)
  <2>1. ASSUME NEW i \in CommitsIn(delivered) PROVE journal[i].id \in Ids
    BY DEF CommitsIn, IInv, TypeOK, Row, CommitRow, StateRow, OtherRow, Ids
  <2>2. head' \in [Writers -> Ids] BY <1>3, <2>1 DEF RerenderReadHead, IInv, TypeOK
  <2>3. TypeOK' BY <1>1, <1>3, <2>2 DEF RerenderReadHead, Go, IInv, TypeOK, Steps
  <2>4. Control'
    BY <1>1, <1>3
    DEF RerenderReadHead, Go, IInv, TypeOK, Control, Roles, Prepared, LockHolder, CaughtUp, Numbered, Holding
  <2>. QED BY <1>2, <2>3, <2>4 DEF IInv
<1>4. CASE RerenderReadLine(w)
  <2>1. w \in Rerenders /\ w \notin Edits
    BY <1>4, WritersAssumption DEF RerenderReadLine, IInv, Control, Roles
  <2>2. UNCHANGED head BY <1>4 DEF RerenderReadLine
  <2>3. Roles' /\ LockHolder' /\ CaughtUp' /\ Numbered'
    BY <1>1, <1>4, <2>1
    DEF RerenderReadLine, Go, IInv, TypeOK, Control, Roles, LockHolder, CaughtUp, Numbered, Holding
  <2>4. CASE UNCHANGED base /\ Go(w, "failed")
    <3>1. TypeOK' BY <1>1, <2>2, <2>4 DEF Go, IInv, TypeOK, Steps
    <3>2. Prepared' BY <2>4 DEF Go, IInv, TypeOK, Control, Prepared
    <3>. QED BY <1>2, <2>3, <3>1, <3>2 DEF IInv, Control
  <2>5. CASE ReadLine(w) /\ Go(w, "rendering")
    <3>1. PICK i \in 1 .. delivered :
            /\ IsTimelineRow(i, head[w], line[w], delivered)
            /\ base' = [base EXCEPT ![w] = [slot |-> journal[i].slot, take |-> journal[i].take]]
      BY <2>5 DEF ReadLine
    <3>2. journal[i] \in StateRow BY <3>1, TimelineRowIsState DEF IInv
    <3>3. base' \in [Writers -> [slot : Ids, take : Ids]] /\ base'[w].slot \in Writers
      BY <3>1, <3>2 DEF StateRow, IInv, TypeOK, Ids
    <3>4. TypeOK' BY <1>1, <2>2, <2>5, <3>3 DEF Go, IInv, TypeOK, Steps
    <3>5. Prepared' BY <2>1, <2>5, <3>1, <3>3 DEF Go, IInv, TypeOK, Control, Prepared
    <3>. QED BY <1>2, <2>3, <3>4, <3>5 DEF IInv, Control
  <2>. QED BY <1>4, <2>4, <2>5 DEF RerenderReadLine
<1>. QED BY <1>3, <1>4

\* A run or a re-render around its rendering, and a read that fails.
LEMMA RenderStep ==
  ASSUME IInv, NEW w \in Writers,
         RunStart(w) \/ RenderFails(w) \/ PersistLock(w) \/ ReadFails(w)
  PROVE  IInv'
<1>1. UNCHANGED <<journal, delivered, head, version, line, base, written>>
  BY DEF RunStart, RenderFails, PersistLock, ReadFails, readVars
<1>2. faults' \in 0 .. MaxFaults
  BY CountsAssumption
  DEF RunStart, RenderFails, PersistLock, ReadFails, Fault, IInv, TypeOK
<1>3. NextInChain' /\ Chain'
  <2>1. \A v \in Writers : pc'[v] = "append" => pc[v] = "append"
    BY DEF RunStart, RenderFails, PersistLock, ReadFails, Fail, Go, IInv, TypeOK
  <2>. QED BY <1>1, <2>1, QuietStep
<1>4. CASE RunStart(w) \/ RenderFails(w)
  <2>1. UNCHANGED lock BY <1>4 DEF RunStart, RenderFails
  <2>2. TypeOK' BY <1>1, <1>2, <1>4, <2>1 DEF RunStart, RenderFails, Go, IInv, TypeOK, Steps
  <2>3. Control'
    BY <1>1, <1>4, <2>1, WritersAssumption
    DEF RunStart, RenderFails, Go, IInv, TypeOK, Control, Roles, Prepared, LockHolder, CaughtUp, Numbered, Holding
  <2>. QED BY <1>3, <2>2, <2>3 DEF IInv
<1>5. CASE PersistLock(w)
  <2>1. TypeOK' BY <1>1, <1>2, <1>5 DEF PersistLock, Go, IInv, TypeOK, Steps, Ids
  <2>2. Roles' /\ CaughtUp' /\ Numbered'
    BY <1>1, <1>5 DEF PersistLock, Go, IInv, TypeOK, Control, Roles, CaughtUp, Numbered
  <2>3. Prepared'
    BY <1>1, <1>5, WritersAssumption
    DEF PersistLock, Go, IInv, TypeOK, Control, Roles, Prepared
  <2>4. LockHolder'
    BY <1>5, WritersAssumption
    DEF PersistLock, LockFree, Go, IInv, TypeOK, Control, LockHolder, Holding, Writers
  <2>. QED BY <1>3, <2>1, <2>2, <2>3, <2>4 DEF IInv, Control
<1>6. CASE ReadFails(w)
  <2>1. pc' \in [Writers -> Steps] /\ lock' \in Ids /\ Control'
    BY <1>1, <1>6, FailKeepsControl DEF ReadFails
  <2>. QED BY <1>1, <1>2, <1>3, <2>1 DEF IInv, TypeOK
<1>. QED BY <1>4, <1>5, <1>6

-----------------------------------------------------------------------------
\* A flush that stops on an error delivers part of the journal and no more.
LEMMA FlushStoppedType ==
  ASSUME IInv, NEW n \in {Len(journal), Len(journal) + 1}, FlushStopped(n)
  PROVE  delivered' \in 0 .. n /\ faults' \in 0 .. MaxFaults
BY CountsAssumption DEF FlushStopped, Fault, IInv, TypeOK

\* One EnqueueJSON of persist or RecordEdit. Its writer holds the lock, so no
\* other writer is at a step that relies on the journal.
LEMMA WriteStep ==
  ASSUME IInv, NEW w \in Writers, pc[w] \in {"append", "rows"}, NEW row \in Row,
         Write(w, row, "rows"), UNCHANGED readVars, written' \in [Writers -> Nat]
  PROVE  /\ TypeOK' /\ Control' /\ NextInChain'
         /\ journal' = journal \/ journal' = Append(journal, row)
<1>1. pc[w] \in Holding BY DEF Holding
<1>2. UNCHANGED <<head, version, line, base>> BY DEF readVars
<1>3. journal' = journal \/ journal' = Append(journal, row) BY DEF Write
<1>4. \A v \in Writers : pc'[v] = "append" => v # w /\ pc[v] = "append"
  BY DEF Write, Fail, Go, IInv, TypeOK
<1>5. NextInChain'
  BY <1>1, <1>4 DEF NextInChain, IInv, Control, LockHolder, Holding
<1>6. journal' \in Seq(Row) /\ delivered' \in 0 .. Len(journal') /\ faults' \in 0 .. MaxFaults
  <2>1. Append(journal, row) \in Seq(Row) /\ Len(Append(journal, row)) = Len(journal) + 1
    BY DEF IInv, TypeOK
  <2>2. CASE journal' = Append(journal, row) /\ Flushed(Len(journal) + 1) /\ UNCHANGED faults
    BY <2>1, <2>2 DEF Flushed, IInv, TypeOK
  <2>3. CASE journal' = Append(journal, row) /\ FlushStopped(Len(journal) + 1)
    BY <2>1, <2>3, FlushStoppedType
  <2>4. CASE UNCHANGED <<journal, delivered>> /\ Fault
    BY <2>4, CountsAssumption DEF Fault, IInv, TypeOK
  <2>. QED BY <2>2, <2>3, <2>4 DEF Write
<1>7. CASE Fail(w)
  <2>1. pc' \in [Writers -> Steps] /\ lock' \in Ids /\ Control'
    BY <1>1, <1>2, <1>7, FailKeepsControl
  <2>. QED BY <1>2, <1>3, <1>5, <1>6, <2>1 DEF IInv, TypeOK
<1>8. CASE Go(w, "rows") /\ UNCHANGED lock
  <2>1. TypeOK' BY <1>2, <1>6, <1>8 DEF Go, IInv, TypeOK, Steps
  <2>2. Roles' /\ Prepared' /\ LockHolder' /\ Numbered'
    BY <1>2, <1>8
    DEF Go, IInv, TypeOK, Control, Roles, Prepared, LockHolder, Numbered, Holding
  <2>3. CaughtUp'
    BY <1>1, <1>8 DEF Go, IInv, TypeOK, Control, CaughtUp, LockHolder, Holding
  <2>. QED BY <1>3, <1>5, <2>1, <2>2, <2>3 DEF Control
<1>. QED BY <1>7, <1>8 DEF Write

\* A row that is no commit leaves the chain as it is.
LEMMA PlainRowKeepsChain ==
  ASSUME IInv, NEW row \in PlainRow, journal' = Append(journal, row)
  PROVE  Chain'
<1>1. Len(journal') = Len(journal) + 1
      /\ \A i \in 1 .. Len(journal) : journal'[i] = journal[i]
      /\ journal'[Len(journal) + 1] = row
  BY DEF IInv, TypeOK
<1>2. row.kind # "commit" BY DEF PlainRow, StateRow, OtherRow
<1>3. Commits' = Commits BY <1>1, <1>2 DEF Commits, CommitsIn, IInv, TypeOK
<1>4. \A i \in Commits : journal'[i] = journal[i] BY <1>1 DEF Commits, CommitsIn
<1>. QED BY <1>3, <1>4 DEF IInv, Chain

\* The commit AppendCommit writes is the next one of the chain.
LEMMA CommitExtendsChain ==
  ASSUME IInv, NEW w \in Writers, pc[w] = "append",
         journal' = Append(journal, [kind |-> "commit", id |-> w, parent |-> head[w],
                                     version |-> version[w]])
  PROVE  Chain'
<1>. DEFINE n == Len(journal) + 1
<1>1. Len(journal') = n /\ n \in Nat
      /\ \A i \in 1 .. Len(journal) : journal'[i] = journal[i]
      /\ journal'[n].kind = "commit" /\ journal'[n].parent = head[w]
      /\ journal'[n].version = version[w]
  BY DEF IInv, TypeOK
<1>2. Commits' = Commits \union {n} BY <1>1 DEF Commits, CommitsIn, IInv, TypeOK
<1>3. \A i \in Commits : i \in 1 .. Len(journal) /\ i < n /\ journal'[i] = journal[i]
  BY <1>1 DEF Commits, CommitsIn, IInv, TypeOK
<1>. HIDE DEF n
<1>4. ASSUME NEW i \in Commits', NEW j \in Commits', j < i
      PROVE  journal'[j].version < journal'[i].version
  <2>1. j \in Commits BY <1>2, <1>3, <1>1, <1>4
  <2>2. CASE i = n BY <1>1, <1>3, <2>1, <2>2 DEF IInv, NextInChain
  <2>3. CASE i \in Commits BY <1>3, <1>4, <2>1, <2>3 DEF IInv, Chain
  <2>. QED BY <1>2, <2>2, <2>3
<1>5. ASSUME NEW i \in Commits'
      PROVE  IF journal'[i].version = 1
             THEN journal'[i].parent = NoCommit
             ELSE \E j \in Commits' : /\ j < i
                                      /\ journal'[j].id = journal'[i].parent
                                      /\ journal'[j].version + 1 = journal'[i].version
  <2>1. CASE i = n BY <1>1, <1>2, <1>3, <2>1 DEF IInv, NextInChain
  <2>2. CASE i \in Commits BY <1>2, <1>3, <2>2 DEF IInv, Chain
  <2>. QED BY <1>2, <2>1, <2>2
<1>. QED BY <1>4, <1>5 DEF Chain

-----------------------------------------------------------------------------
\* persist and RecordEdit between the two flushes, row by row.
LEMMA RowStep ==
  ASSUME IInv, NEW w \in Writers, AppendCommit(w) \/ WriteRow(w)
  PROVE  IInv'
<1>1. CASE AppendCommit(w) /\ ParentStored(w)
  <2>. DEFINE row == [kind |-> "commit", id |-> w, parent |-> head[w], version |-> version[w]]
  <2>1. pc[w] = "append" /\ Write(w, row, "rows") /\ UNCHANGED <<readVars, written>>
    BY <1>1 DEF AppendCommit
  <2>2. row \in Row
    BY <2>1 DEF Row, CommitRow, IInv, TypeOK, Control, Numbered
  <2>3. /\ TypeOK' /\ Control' /\ NextInChain'
        /\ journal' = journal \/ journal' = Append(journal, row)
    <3>. HIDE DEF row
    <3>1. written' \in [Writers -> Nat] BY <2>1 DEF IInv, TypeOK
    <3>. QED BY <2>1, <2>2, <3>1, WriteStep
  <2>4. Chain'
    <3>1. CASE journal' = journal BY <3>1 DEF IInv, Chain, Commits, CommitsIn
    <3>2. CASE journal' = Append(journal, row) BY <2>1, <3>2, CommitExtendsChain
    <3>. QED BY <2>3, <3>1, <3>2
  <2>. QED BY <2>3, <2>4 DEF IInv
<1>2. CASE AppendCommit(w) /\ ~ ParentStored(w)
  <2>1. pc[w] = "append" /\ Fail(w)
        /\ UNCHANGED <<journal, delivered, faults, head, version, line, base, written>>
    BY <1>2 DEF AppendCommit, readVars
  <2>2. pc' \in [Writers -> Steps] /\ lock' \in Ids /\ Control'
    BY <2>1, FailKeepsControl
  <2>3. NextInChain' /\ Chain'
    <3>1. \A v \in Writers : pc'[v] = "append" => pc[v] = "append"
      BY <2>1 DEF Fail, Go, IInv, TypeOK
    <3>. QED BY <2>1, <3>1, QuietStep
  <2>. QED BY <2>1, <2>2, <2>3 DEF IInv, TypeOK
<1>3. CASE WriteRow(w)
  <2>. DEFINE row == RowsOf(w)[written[w] + 1]
  <2>1. pc[w] = "rows" /\ Write(w, row, "rows") /\ UNCHANGED readVars
    BY <1>3 DEF WriteRow
  <2>2. row \in PlainRow
    <3>1. RowsOf(w) \in Seq(PlainRow) BY <2>1, RowsArePlain DEF IInv, Control
    <3>2. written[w] + 1 \in 1 .. Len(RowsOf(w))
      <4>1. Len(RowsOf(w)) \in Nat BY <3>1
      <4>. QED BY <1>3, <4>1 DEF WriteRow, IInv, TypeOK
    <3>. QED BY <3>1, <3>2
  <2>3. row \in Row BY <2>2 DEF PlainRow, Row
  <2>4. written' \in [Writers -> Nat] BY <1>3 DEF WriteRow, IInv, TypeOK
  <2>. HIDE DEF row
  <2>5. /\ TypeOK' /\ Control' /\ NextInChain'
        /\ journal' = journal \/ journal' = Append(journal, row)
    BY <2>1, <2>3, <2>4, WriteStep
  <2>6. Chain'
    <3>1. CASE journal' = journal BY <3>1 DEF IInv, Chain, Commits, CommitsIn
    <3>2. CASE journal' = Append(journal, row) BY <2>2, <3>2, PlainRowKeepsChain
    <3>. QED BY <2>5, <3>1, <3>2
  <2>. QED BY <2>5, <2>6 DEF IInv
<1>. QED BY <1>1, <1>2, <1>3

\* The two flushes of persist and RecordEdit.
LEMMA FlushStep ==
  ASSUME IInv, NEW w \in Writers, FlushFirst(w) \/ FlushLast(w)
  PROVE  IInv'
<1>1. UNCHANGED <<journal, head, version, line, base, written>>
  BY DEF FlushFirst, FlushLast, readVars
<1>2. pc[w] \in Holding BY DEF FlushFirst, FlushLast, Holding
<1>3. NextInChain' /\ Chain'
  <2>1. \A v \in Writers : pc'[v] = "append" => pc[v] = "append"
    BY DEF FlushFirst, FlushLast, Fail, Go, IInv, TypeOK
  <2>. QED BY <1>1, <2>1, QuietStep
<1>4. CASE FlushStopped(Len(journal)) /\ Fail(w)
  <2>1. delivered' \in 0 .. Len(journal) /\ faults' \in 0 .. MaxFaults
    BY <1>4, FlushStoppedType
  <2>2. pc' \in [Writers -> Steps] /\ lock' \in Ids /\ Control'
    BY <1>1, <1>2, <1>4, FailKeepsControl
  <2>. QED BY <1>1, <1>3, <2>1, <2>2 DEF IInv, TypeOK
<1>5. CASE FlushFirst(w) /\ Flushed(Len(journal)) /\ Go(w, "head") /\ UNCHANGED <<lock, faults>>
  <2>1. TypeOK' BY <1>1, <1>5 DEF Flushed, Go, IInv, TypeOK, Steps
  <2>2. Roles' /\ Prepared' /\ LockHolder' /\ Numbered'
    BY <1>1, <1>5
    DEF FlushFirst, Go, IInv, TypeOK, Control, Roles, Prepared, LockHolder, Numbered, Holding
  <2>3. CaughtUp' BY <1>1, <1>5 DEF Flushed, CaughtUp
  <2>. QED BY <1>3, <2>1, <2>2, <2>3 DEF IInv, Control
<1>6. CASE Flushed(Len(journal)) /\ Go(w, "done") /\ lock' = NoCommit /\ UNCHANGED faults
  <2>1. TypeOK' BY <1>1, <1>6 DEF Flushed, Go, IInv, TypeOK, Steps, Ids
  <2>2. Roles' /\ Prepared' /\ Numbered'
    BY <1>1, <1>6 DEF Go, IInv, TypeOK, Control, Roles, Prepared, Numbered
  <2>3. LockHolder'
    BY <1>2, <1>6, WritersAssumption
    DEF Go, IInv, TypeOK, Control, LockHolder, Holding, Writers
  <2>4. CaughtUp' BY <1>1, <1>6 DEF Flushed, CaughtUp
  <2>. QED BY <1>3, <2>1, <2>2, <2>3, <2>4 DEF IInv, Control
<1>. QED BY <1>4, <1>5, <1>6 DEF FlushFirst, FlushLast

\* The read of the head behind the first flush: everything in the queue is in
\* ClickHouse, so the head is the last commit of the chain.
LEMMA ReadHeadStep ==
  ASSUME IInv, NEW w \in Writers, ReadHead(w)
  PROVE  IInv'
<1>1. UNCHANGED <<journal, delivered, lock, line, base, written, faults>> /\ pc[w] = "head"
      /\ Go(w, "append")
  BY DEF ReadHead
<1>2. delivered = Len(journal) BY <1>1 DEF IInv, Control, CaughtUp
<1>3. CommitsIn(delivered) = Commits BY <1>2 DEF Commits
<1>4. ASSUME NEW i \in Commits PROVE journal[i] \in CommitRow
  <2>1. journal[i] \in Row /\ journal[i].kind = "commit"
    BY DEF Commits, CommitsIn, IInv, TypeOK
  <2>. QED BY <2>1 DEF Row, StateRow, OtherRow
<1>5. ASSUME NEW i \in Commits, IsHead(i),
             head' = [head EXCEPT ![w] = journal[i].id],
             version' = [version EXCEPT ![w] = journal[i].version + 1]
      PROVE  /\ head' \in [Writers -> Ids] /\ version' \in [Writers -> Nat]
             /\ version'[w] \in Versions /\ version'[w] # 1
             /\ \A j \in Commits : journal[j].version < version'[w]
             /\ journal[i].id = head'[w] /\ journal[i].version + 1 = version'[w]
  <2>1. journal[i].id \in Writers /\ journal[i].version \in Versions
    BY <1>4 DEF CommitRow
  <2>2. head'[w] = journal[i].id /\ version'[w] = journal[i].version + 1
    BY <1>5 DEF IInv, TypeOK
  <2>3. \A j \in Commits : journal[j].version \in Nat /\ journal[j].version <= journal[i].version
    BY <1>3, <1>4, <1>5 DEF IsHead, CommitRow, Versions
  <2>4. head' \in [Writers -> Ids] BY <1>5, <2>1 DEF IInv, TypeOK, Ids
  <2>5. journal[i].version + 1 \in Versions /\ journal[i].version + 1 # 1
    BY <2>1 DEF Versions
  <2>6. version' \in [Writers -> Nat] BY <1>5, <2>5 DEF Versions, IInv, TypeOK
  <2>7. \A j \in Commits : journal[j].version < version'[w]
    BY <2>1, <2>2, <2>3 DEF Versions
  <2>. QED BY <2>2, <2>4, <2>5, <2>6, <2>7
<1>6. ASSUME Commits = {}, head' = [head EXCEPT ![w] = NoCommit],
             version' = [version EXCEPT ![w] = 1]
      PROVE  /\ head' \in [Writers -> Ids] /\ version' \in [Writers -> Nat]
             /\ version'[w] = 1 /\ head'[w] = NoCommit
  BY <1>6 DEF IInv, TypeOK, Ids
<1>7. /\ head' \in [Writers -> Ids] /\ version' \in [Writers -> Nat] /\ version'[w] \in Versions
      /\ \A j \in Commits : journal[j].version < version'[w]
      /\ IF version'[w] = 1
         THEN head'[w] = NoCommit
         ELSE \E j \in Commits : journal[j].id = head'[w] /\ journal[j].version + 1 = version'[w]
  <2>1. CASE \E i \in CommitsIn(delivered) :
               /\ IsHead(i)
               /\ head' = [head EXCEPT ![w] = journal[i].id]
               /\ version' = [version EXCEPT ![w] = journal[i].version + 1]
    BY <1>3, <1>5, <2>1
  <2>2. CASE CommitsIn(delivered) = {} /\ head' = [head EXCEPT ![w] = NoCommit]
             /\ version' = [version EXCEPT ![w] = 1]
    BY <1>3, <1>6, <2>2 DEF Versions
  <2>. QED BY <2>1, <2>2 DEF ReadHead
<1>8. TypeOK' BY <1>1, <1>7 DEF Go, IInv, TypeOK, Steps
<1>9. \A v \in Writers : v # w =>
        pc'[v] = pc[v] /\ head'[v] = head[v] /\ version'[v] = version[v]
  BY DEF ReadHead, Go, IInv, TypeOK
<1>10. Roles' /\ Prepared' /\ LockHolder'
  BY <1>1
  DEF Go, IInv, TypeOK, Control, Roles, Prepared, LockHolder, Holding
<1>11. CaughtUp' BY <1>1, <1>2 DEF CaughtUp
<1>12. Numbered' BY <1>7, <1>9 DEF IInv, Control, Numbered
<1>13. Commits' = Commits BY <1>1 DEF Commits, CommitsIn
<1>14. NextInChain'
  BY <1>1, <1>7, <1>9, <1>13 DEF IInv, NextInChain
<1>15. Chain' BY <1>1, <1>13 DEF IInv, Chain
<1>. QED BY <1>8, <1>10, <1>11, <1>12, <1>14, <1>15 DEF IInv, Control

\* A flush by anyone else, and the death of the process.
LEMMA EnvironmentStep ==
  ASSUME IInv, Reconcile \/ Crash
  PROVE  IInv'
<1>1. UNCHANGED <<journal, head, version, line, base, written>>
  BY DEF Reconcile, Crash, readVars
<1>2. \A v \in Writers : pc'[v] = "append" => pc[v] = "append"
  BY DEF Reconcile, Crash, IInv, TypeOK
<1>3. NextInChain' /\ Chain' BY <1>1, <1>2, QuietStep
<1>4. CASE Reconcile
  <2>1. TypeOK' BY <1>4 DEF Reconcile, IInv, TypeOK, readVars
  <2>2. Roles' /\ Prepared' /\ LockHolder' /\ Numbered'
    BY <1>1, <1>4 DEF Reconcile, IInv, Control, Roles, Prepared, LockHolder, Numbered
  <2>3. CaughtUp' BY <1>4 DEF Reconcile, IInv, TypeOK, Control, CaughtUp
  <2>. QED BY <1>3, <2>1, <2>2, <2>3 DEF IInv, Control
<1>5. CASE Crash
  <2>1. TypeOK'
    <3>1. pc' \in [Writers -> Steps] BY <1>5 DEF Crash, IInv, TypeOK, Steps
    <3>2. faults' \in 0 .. MaxFaults BY <1>5, CountsAssumption DEF Crash, Fault, IInv, TypeOK
    <3>. QED BY <1>1, <1>5, <3>1, <3>2 DEF Crash, IInv, TypeOK, Ids
  <2>2. \A v \in Writers : pc'[v] \in {"idle", "done", "failed"}
    BY <1>5 DEF Crash, IInv, TypeOK
  <2>3. Control'
    BY <1>5, <2>2, WritersAssumption
    DEF Crash, Control, Roles, Prepared, LockHolder, CaughtUp, Numbered, Holding, Writers
  <2>. QED BY <1>3, <2>1, <2>3 DEF IInv
<1>. QED BY <1>4, <1>5

-----------------------------------------------------------------------------
\* No request has started and nothing is written.
LEMMA InitIInv == Init => IInv
<1>. SUFFICES ASSUME Init PROVE IInv OBVIOUS
<1>1. TypeOK
  BY CountsAssumption DEF Init, TypeOK, Ids, Steps, Blank
<1>2. Control
  BY WritersAssumption
  DEF Init, Control, Roles, Prepared, LockHolder, CaughtUp, Numbered, Holding, Writers
<1>3. Commits = {} BY DEF Init, Commits, CommitsIn
<1>. QED BY <1>1, <1>2, <1>3 DEF Init, IInv, NextInChain, Chain

\* Every step of every writer, the reconciler and a crash keep the invariant.
LEMMA NextIInv == IInv /\ [Next]_vars => IInv'
<1>. SUFFICES ASSUME IInv, [Next]_vars PROVE IInv' OBVIOUS
<1>1. CASE \E w \in Writers : EditLock(w) \/ EditReadHead(w) \/ EditDerive(w)
  BY <1>1, EditStep
<1>2. CASE \E w \in Writers : RerenderReadHead(w) \/ RerenderReadLine(w)
  BY <1>2, RerenderStep
<1>3. CASE \E w \in Writers : RunStart(w) \/ RenderFails(w) \/ PersistLock(w) \/ ReadFails(w)
  BY <1>3, RenderStep
<1>4. CASE \E w \in Writers : FlushFirst(w) \/ FlushLast(w)
  BY <1>4, FlushStep
<1>5. CASE \E w \in Writers : ReadHead(w)
  BY <1>5, ReadHeadStep
<1>6. CASE \E w \in Writers : AppendCommit(w) \/ WriteRow(w)
  BY <1>6, RowStep
<1>7. CASE Reconcile \/ Crash
  BY <1>7, EnvironmentStep
<1>8. CASE UNCHANGED vars
  <2>1. TypeOK' BY <1>8 DEF IInv, TypeOK, vars, readVars
  <2>2. Control'
    BY <1>8 DEF vars, readVars, IInv, Control, Roles, Prepared, LockHolder, CaughtUp, Numbered
  <2>3. NextInChain' /\ Chain' BY <1>8, QuietStep DEF vars, readVars
  <2>. QED BY <2>1, <2>2, <2>3 DEF IInv
<1>. QED BY <1>1, <1>2, <1>3, <1>4, <1>5, <1>6, <1>7, <1>8 DEF Next, WriterStep

\* The inductive invariant holds in every reachable state of any number of
\* requests (mutations.go, rerender.go, run.go, main.go persist, RecordEdit).
THEOREM Invariance == Spec => []IInv
BY InitIInv, NextIInv, PTL DEF Spec

\* The rows, the lock and every handler's variables keep their types; in
\* particular version_seq is never 0 (commits.go validateCommit).
THEOREM TypeCorrect == Spec => []TypeOK
<1>1. IInv => TypeOK BY DEF IInv
<1>. QED BY <1>1, Invariance, PTL

\* The commit DAG of a dub stays a chain, whatever fails, crashes or arrives
\* late (mutations.go commitLocks, main.go persist, RecordEdit).
THEOREM CommitsFormAChain == Spec => []Chain
<1>1. IInv => Chain BY DEF IInv
<1>. QED BY <1>1, Invariance, PTL
-----------------------------------------------------------------------------
(***************************************************************************)
(* What a writer that reports success has stored. While it writes, its     *)
(* commit and the rows written so far are in the journal; its last flush   *)
(* delivers them all.                                                      *)
(***************************************************************************)
Holds(w, n, m) ==
  /\ \E i \in CommitsIn(n) : journal[i].id = w
  /\ \A k \in 1 .. m : \E i \in 1 .. n : journal[i] = RowsOf(w)[k]

Recorded ==
  \A w \in Writers :
    /\ pc[w] \notin {"rows", "done", "failed"} => written[w] = 0
    /\ pc[w] = "rows" => Holds(w, Len(journal), written[w])
    /\ pc[w] = "done" => Holds(w, delivered, Len(RowsOf(w)))

\* The journal only grows, and so does the part of it ClickHouse has.
LEMMA JournalGrows ==
  ASSUME IInv, [Next]_vars
  PROVE  /\ Len(journal) <= Len(journal')
         /\ delivered <= delivered'
         /\ \A i \in 1 .. Len(journal) : journal'[i] = journal[i]
<1>. DEFINE Grown == /\ Len(journal) <= Len(journal')
                     /\ delivered <= delivered'
                     /\ \A i \in 1 .. Len(journal) : journal'[i] = journal[i]
<1>. SUFFICES Grown OBVIOUS
<1>0. delivered \in 0 .. Len(journal) /\ Len(journal) \in Nat /\ journal \in Seq(Row)
  BY DEF IInv, TypeOK
<1>1. CASE UNCHANGED <<journal, delivered>> BY <1>0, <1>1
<1>2. ASSUME NEW row, journal' = Append(journal, row), delivered' \in delivered .. Len(journal) + 1
      PROVE  Grown
  BY <1>0, <1>2
<1>3. CASE journal' = journal /\ delivered' \in delivered .. Len(journal)
  BY <1>0, <1>3
<1>. HIDE DEF Grown
<1>4. ASSUME NEW w \in Writers, NEW row, Write(w, row, "rows") PROVE Grown
  BY <1>0, <1>1, <1>2, <1>4 DEF Write, Flushed, FlushStopped
<1>5. ASSUME NEW w \in Writers, AppendCommit(w) \/ WriteRow(w) PROVE Grown
  BY <1>1, <1>4, <1>5 DEF AppendCommit, WriteRow
<1>6. ASSUME NEW w \in Writers, FlushFirst(w) \/ FlushLast(w) PROVE Grown
  BY <1>0, <1>3, <1>6 DEF FlushFirst, FlushLast, Flushed, FlushStopped
<1>7. ASSUME NEW w \in Writers,
             \/ EditLock(w) \/ EditReadHead(w) \/ EditDerive(w) \/ RerenderReadHead(w)
             \/ RerenderReadLine(w) \/ RunStart(w) \/ RenderFails(w) \/ PersistLock(w)
             \/ ReadFails(w) \/ ReadHead(w)
      PROVE  Grown
  BY <1>1, <1>7
  DEF EditLock, EditReadHead, EditDerive, RerenderReadHead, RerenderReadLine, RunStart,
      RenderFails, PersistLock, ReadFails, ReadHead
<1>8. CASE Reconcile BY <1>0, <1>3, <1>8 DEF Reconcile
<1>9. CASE Crash \/ UNCHANGED vars BY <1>1, <1>9 DEF Crash, vars
<1>. QED BY <1>5, <1>6, <1>7, <1>8, <1>9 DEF Next, WriterStep

\* What a prefix of the journal holds of a writer it still holds when the
\* journal has grown and the writer has the same rows.
LEMMA HoldsStays ==
  ASSUME IInv, [Next]_vars, NEW w \in Writers, RowsOf(w)' = RowsOf(w),
         NEW n \in 0 .. Len(journal), NEW q \in Nat, n <= q, NEW m, Holds(w, n, m)
  PROVE  Holds(w, q, m)'
<1>1. \A i \in 1 .. n : i \in 1 .. Len(journal) /\ i \in 1 .. q /\ journal'[i] = journal[i]
  BY JournalGrows DEF IInv, TypeOK
<1>2. \E i \in CommitsIn(q)' : journal'[i].id = w
  BY <1>1 DEF Holds, CommitsIn
<1>3. \A k \in 1 .. m : \E i \in 1 .. q : journal'[i] = RowsOf(w)[k]
  BY <1>1 DEF Holds
<1>. QED BY <1>2, <1>3 DEF Holds

\* A step of others, and a step of its own that fails.
LEMMA RecordedStays ==
  ASSUME IInv, IInv', Recorded, [Next]_vars, NEW w \in Writers,
         \/ pc'[w] = "failed"
         \/ /\ pc'[w] \notin {"rows", "done"}
            /\ pc[w] \notin {"rows", "done", "failed"} /\ written'[w] = written[w]
         \/ /\ pc'[w] = pc[w] /\ written'[w] = written[w]
            /\ version'[w] = version[w] /\ line'[w] = line[w] /\ base'[w] = base[w]
  PROVE  /\ pc'[w] \notin {"rows", "done", "failed"} => written'[w] = 0
         /\ pc'[w] = "rows" => Holds(w, Len(journal), written[w])'
         /\ pc'[w] = "done" => Holds(w, delivered, Len(RowsOf(w)))'
<1>1. CASE pc'[w] \notin {"rows", "done"}
  BY <1>1 DEF Recorded
<1>2. CASE /\ pc'[w] \in {"rows", "done"}
           /\ pc'[w] = pc[w] /\ written'[w] = written[w]
           /\ version'[w] = version[w] /\ line'[w] = line[w] /\ base'[w] = base[w]
  <2>1. RowsOf(w)' = RowsOf(w)
    BY <1>2 DEF RowsOf, Action, TakeRow, State
  <2>2. /\ Len(journal) \in 0 .. Len(journal) /\ delivered \in 0 .. Len(journal)
        /\ Len(journal') \in Nat /\ delivered' \in Nat
    BY DEF IInv, TypeOK
  <2>3. Len(journal) <= Len(journal') /\ delivered <= delivered' BY JournalGrows
  <2>4. CASE pc[w] = "rows"
    <3>1. Holds(w, Len(journal), written[w]) BY <2>4 DEF Recorded
    <3>2. \A q \in Nat : Len(journal) <= q => Holds(w, q, written[w])'
      BY <1>2, <2>1, <2>2, <3>1, HoldsStays
    <3>. QED BY <1>2, <2>2, <2>3, <2>4, <3>2
  <2>5. CASE pc[w] = "done"
    <3>1. Holds(w, delivered, Len(RowsOf(w))) BY <2>5 DEF Recorded
    <3>. QED BY <1>2, <2>1, <2>2, <2>3, <2>5, <3>1, HoldsStays
  <2>. QED BY <1>2, <2>4, <2>5
<1>. QED BY <1>1, <1>2

\* The append of the commit row, and of each row after it.
LEMMA RecordedByRowStep ==
  ASSUME IInv, IInv', Recorded, [Next]_vars, NEW w \in Writers, AppendCommit(w) \/ WriteRow(w)
  PROVE  Recorded'
<1>1. UNCHANGED <<version, line, base>> BY DEF AppendCommit, WriteRow, readVars
<1>2. RowsOf(w)' = RowsOf(w) BY <1>1 DEF RowsOf, Action, TakeRow, State
<1>3. ASSUME NEW v \in Writers, v # w
      PROVE  pc'[v] = pc[v] /\ written'[v] = written[v]
  BY <1>3 DEF AppendCommit, WriteRow, Write, Fail, Go, IInv, TypeOK
<1>4. CASE pc'[w] = "failed"
  <2>1. \A v \in Writers : \/ pc'[v] = "failed"
                           \/ /\ pc'[v] = pc[v] /\ written'[v] = written[v]
                              /\ version'[v] = version[v] /\ line'[v] = line[v] /\ base'[v] = base[v]
    BY <1>1, <1>3, <1>4
  <2>. QED BY <2>1, RecordedStays DEF Recorded
<1>5. CASE pc'[w] # "failed"
  <2>1. ASSUME NEW row, Write(w, row, "rows")
        PROVE  /\ journal' = Append(journal, row) /\ delivered' = Len(journal) + 1
               /\ pc'[w] = "rows"
    BY <1>5, <2>1 DEF Write, Fail, Go, Flushed, IInv, TypeOK
  <2>2. Len(journal) \in Nat /\ journal \in Seq(Row) /\ written[w] \in Nat
    BY DEF IInv, TypeOK
  <2>3. pc'[w] = "rows" /\ Holds(w, Len(journal), written[w])'
    <3>1. CASE AppendCommit(w)
      <4>. DEFINE row == [kind |-> "commit", id |-> w, parent |-> head[w], version |-> version[w]]
      <4>1. Write(w, row, "rows") /\ pc[w] = "append" /\ written' = written
        BY <1>5, <3>1 DEF AppendCommit, Fail, Go, IInv, TypeOK
      <4>2. pc'[w] = "rows" /\ journal' = Append(journal, row)
        <5>. HIDE DEF row
        <5>. QED BY <2>1, <4>1
      <4>3. written'[w] = 0 BY <4>1 DEF Recorded
      <4>4. /\ Len(journal') = Len(journal) + 1
            /\ journal'[Len(journal) + 1] = row
        BY <2>2, <4>2
      <4>5. Len(journal') \in CommitsIn(Len(journal))' /\ journal'[Len(journal')].id = w
        BY <2>2, <4>4 DEF CommitsIn
      <4>. QED BY <4>2, <4>3, <4>5 DEF Holds
    <3>2. CASE WriteRow(w)
      <4>. DEFINE row == RowsOf(w)[written[w] + 1]
      <4>1. Write(w, row, "rows") /\ pc[w] = "rows" /\ written'[w] = written[w] + 1
        BY <3>2 DEF WriteRow, IInv, TypeOK
      <4>2. pc'[w] = "rows" /\ journal' = Append(journal, row)
        <5>. HIDE DEF row
        <5>. QED BY <2>1, <4>1
      <4>3. Holds(w, Len(journal), written[w]) BY <4>1 DEF Recorded
      <4>4. /\ Len(journal') = Len(journal) + 1
            /\ journal'[Len(journal) + 1] = row
            /\ \A i \in 1 .. Len(journal) : journal'[i] = journal[i]
        <5>. HIDE DEF row
        <5>. QED BY <2>2, <4>2
      <4>5. \E i \in CommitsIn(Len(journal))' : journal'[i].id = w
        BY <2>2, <4>3, <4>4 DEF Holds, CommitsIn
      <4>6. \A k \in 1 .. written[w] + 1 : \E i \in 1 .. Len(journal') : journal'[i] = RowsOf(w)[k]
        <5>1. TAKE k \in 1 .. written[w] + 1
        <5>2. CASE k = written[w] + 1
          <6>1. Len(journal) + 1 \in 1 .. Len(journal') BY <2>2, <4>4
          <6>. QED BY <4>4, <5>2, <6>1
        <5>3. CASE k \in 1 .. written[w] BY <2>2, <4>3, <4>4, <5>3 DEF Holds
        <5>. QED BY <2>2, <5>2, <5>3
      <4>. QED BY <1>2, <4>1, <4>2, <4>5, <4>6 DEF Holds
    <3>. QED BY <3>1, <3>2
  <2>4. ASSUME NEW v \in Writers, v # w
        PROVE  /\ pc'[v] = pc[v] /\ written'[v] = written[v]
               /\ version'[v] = version[v] /\ line'[v] = line[v] /\ base'[v] = base[v]
    BY <1>1, <1>3, <2>4
  <2>5. \A v \in Writers :
          /\ pc'[v] \notin {"rows", "done", "failed"} => written'[v] = 0
          /\ pc'[v] = "rows" => Holds(v, Len(journal), written[v])'
          /\ pc'[v] = "done" => Holds(v, delivered, Len(RowsOf(v)))'
    <3>1. TAKE v \in Writers
    <3>2. CASE v = w BY <2>3, <3>2
    <3>3. CASE v # w BY <2>4, <3>3, RecordedStays
    <3>. QED BY <3>2, <3>3
  <2>. QED BY <2>5 DEF Recorded
<1>. QED BY <1>4, <1>5

\* The last flush delivers the journal, and with it what the writer wrote.
LEMMA RecordedByFlushLast ==
  ASSUME IInv, IInv', Recorded, [Next]_vars, NEW w \in Writers, FlushLast(w)
  PROVE  Recorded'
<1>1. UNCHANGED <<journal, version, line, base, written>> /\ pc[w] = "rows"
      /\ written[w] = Len(RowsOf(w))
  BY DEF FlushLast, readVars
<1>2. RowsOf(w)' = RowsOf(w) BY <1>1 DEF RowsOf, Action, TakeRow, State
<1>3. ASSUME NEW v \in Writers, v # w PROVE pc'[v] = pc[v]
  BY <1>3 DEF FlushLast, Fail, Go, IInv, TypeOK
<1>4. CASE pc'[w] = "failed"
  <2>1. \A v \in Writers : \/ pc'[v] = "failed"
                           \/ /\ pc'[v] = pc[v] /\ written'[v] = written[v]
                              /\ version'[v] = version[v] /\ line'[v] = line[v] /\ base'[v] = base[v]
    BY <1>1, <1>3, <1>4
  <2>. QED BY <2>1, RecordedStays DEF Recorded
<1>5. CASE pc'[w] # "failed"
  <2>1. pc'[w] = "done" /\ delivered' = Len(journal)
    BY <1>5 DEF FlushLast, Fail, Go, Flushed, IInv, TypeOK
  <2>2. Holds(w, Len(journal), Len(RowsOf(w))) BY <1>1 DEF Recorded
  <2>3. Holds(w, delivered, Len(RowsOf(w)))'
    BY <1>1, <1>2, <2>1, <2>2 DEF Holds, CommitsIn
  <2>4. \A v \in Writers :
          /\ pc'[v] \notin {"rows", "done", "failed"} => written'[v] = 0
          /\ pc'[v] = "rows" => Holds(v, Len(journal), written[v])'
          /\ pc'[v] = "done" => Holds(v, delivered, Len(RowsOf(v)))'
    <3>1. TAKE v \in Writers
    <3>2. CASE v = w BY <2>1, <2>3, <3>2
    <3>3. CASE v # w BY <1>1, <1>3, <3>3, RecordedStays
    <3>. QED BY <3>2, <3>3
  <2>. QED BY <2>4 DEF Recorded
<1>. QED BY <1>4, <1>5

\* Every step keeps what writers have recorded.
LEMMA NextRecorded == IInv /\ IInv' /\ Recorded /\ [Next]_vars => Recorded'
<1>. SUFFICES ASSUME IInv, IInv', Recorded, [Next]_vars PROVE Recorded' OBVIOUS
<1>. DEFINE Quiet(v) ==
       \/ pc'[v] = "failed"
       \/ /\ pc'[v] \notin {"rows", "done"}
          /\ pc[v] \notin {"rows", "done", "failed"} /\ written'[v] = written[v]
       \/ /\ pc'[v] = pc[v] /\ written'[v] = written[v]
          /\ version'[v] = version[v] /\ line'[v] = line[v] /\ base'[v] = base[v]
<1>1. ASSUME \A v \in Writers : Quiet(v) PROVE Recorded'
  BY <1>1, RecordedStays DEF Recorded
<1>2. ASSUME NEW w \in Writers, EditLock(w) \/ RunStart(w) \/ PersistLock(w) PROVE Recorded'
  <2>1. \A v \in Writers : Quiet(v)
    BY <1>2 DEF EditLock, RunStart, PersistLock, Go, readVars, IInv, TypeOK
  <2>. QED BY <1>1, <2>1
<1>3. ASSUME NEW w \in Writers, EditReadHead(w) \/ EditDerive(w) PROVE Recorded'
  <2>1. \A v \in Writers : Quiet(v)
    BY <1>3 DEF EditReadHead, EditDerive, ReadLine, Go, Fail, IInv, TypeOK
  <2>. QED BY <1>1, <2>1
<1>4. ASSUME NEW w \in Writers, RerenderReadHead(w) \/ RerenderReadLine(w) PROVE Recorded'
  <2>1. \A v \in Writers : Quiet(v)
    BY <1>4 DEF RerenderReadHead, RerenderReadLine, ReadLine, Go, IInv, TypeOK
  <2>. QED BY <1>1, <2>1
<1>5. ASSUME NEW w \in Writers, RenderFails(w) \/ ReadFails(w) PROVE Recorded'
  <2>1. \A v \in Writers : Quiet(v)
    BY <1>5 DEF RenderFails, ReadFails, Fail, Go, readVars, IInv, TypeOK
  <2>. QED BY <1>1, <2>1
<1>6. ASSUME NEW w \in Writers, FlushFirst(w) PROVE Recorded'
  <2>1. \A v \in Writers : Quiet(v)
    BY <1>6 DEF FlushFirst, Fail, Go, readVars, IInv, TypeOK
  <2>. QED BY <1>1, <2>1
<1>7. ASSUME NEW w \in Writers, ReadHead(w) PROVE Recorded'
  <2>1. \A v \in Writers : Quiet(v)
    BY <1>7 DEF ReadHead, Go, IInv, TypeOK
  <2>. QED BY <1>1, <2>1
<1>8. CASE Reconcile \/ Crash \/ UNCHANGED vars
  <2>1. \A v \in Writers : Quiet(v)
    BY <1>8 DEF Reconcile, Crash, vars, readVars, IInv, TypeOK
  <2>. QED BY <1>1, <2>1
<1>. QED
  BY <1>2, <1>3, <1>4, <1>5, <1>6, <1>7, <1>8, RecordedByRowStep, RecordedByFlushLast
  DEF Next, WriterStep

\* A request that answers success has its commit and every row of it in
\* ClickHouse, for any lines, requests and faults (main.go persist,
\* RecordEdit: the last flush comes before the answer).
THEOREM SuccessesAreStored == Spec => []SuccessIsStored
<1>1. Init => Recorded BY DEF Init, Recorded
<1>2. IInv /\ Recorded => SuccessIsStored
  BY DEF Recorded, Holds, SuccessIsStored
<1>. QED BY <1>1, <1>2, Invariance, NextRecorded, PTL DEF Spec
-----------------------------------------------------------------------------
(***************************************************************************)
(* What edits and runs do to each other's work. Each part of a line is     *)
(* copied forward from snapshot to snapshot, so the newest snapshot has    *)
(* the part the last writer that set it gave, as long as every edit copies *)
(* from the newest snapshot: the lock keeps what it read the newest until  *)
(* its own snapshot is written.                                            *)
(***************************************************************************)
Rows == 1 .. Len(journal)

IsState(i, l) == i \in Rows /\ journal[i].kind = "state" /\ journal[i].line = l

\* Where a writer's snapshot of a line stands among its rows.
Position(w, l) ==
  IF w \in Edits THEN 2 ELSE IF w \in Rerenders THEN 3 ELSE 1 + LineCount + l

\* A snapshot is one its writer has written, at the version of its commit.
Authored ==
  \A l \in Lines, i \in Rows : IsState(i, l) =>
    /\ Position(journal[i].id, l) <= written[journal[i].id]
    /\ \E c \in Commits : journal[c].id = journal[i].id /\ journal[c].version = journal[i].version

\* A writer that writes its rows has its commit and the newest version.
Committed ==
  \A w \in Writers : pc[w] = "rows" =>
    /\ \E c \in Commits : journal[c].id = w /\ journal[c].version = version[w]
    /\ \A l \in Lines, i \in Rows :
         IsState(i, l) => journal[i].id = w \/ journal[i].version < version[w]

\* The snapshots of a line stand in the order of their versions.
Ordered ==
  \A l \in Lines, i, j \in Rows :
    IsState(i, l) /\ IsState(j, l) /\ i < j => journal[i].version < journal[j].version

\* Until something fails, ClickHouse has every row.
Prompt == faults = 0 => delivered = Len(journal)

\* The head an edit has read is still the newest commit.
NewestCommit(c) == c \in Commits /\ \A d \in Commits : journal[d].version <= journal[c].version

HeadHeld ==
  faults = 0 =>
    \A w \in Writers : pc[w] = "editTimeline" =>
      \E c \in Rows : NewestCommit(c) /\ journal[c].id = head[w]

\* The snapshot an edit has read is still the last one of its line.
LastState(i, l) == IsState(i, l) /\ \A j \in Rows : IsState(j, l) => j <= i

Copying(w) ==
  \/ pc[w] \in {"flush", "head", "append"}
  \/ pc[w] = "rows" /\ written[w] <= 1

Fresh ==
  faults = 0 =>
    \A w \in Edits : Copying(w) =>
      \E i \in Rows : LastState(i, line[w]) /\ journal[i].take = base[w].take

\* Each part of a snapshot is the one the last writer that set it gave.
SetsSlot(j, l) == IsState(j, l) /\ journal[j].slot = journal[j].id
SetsTake(j, l) == IsState(j, l) /\ journal[j].take = journal[j].id

SlotFrom(i, l) ==
  \E j \in Rows : /\ j <= i /\ SetsSlot(j, l) /\ journal[j].id = journal[i].slot
                  /\ \A k \in Rows : SetsSlot(k, l) /\ k <= i => k <= j
TakeFrom(i, l) ==
  \E j \in Rows : /\ j <= i /\ SetsTake(j, l) /\ journal[j].id = journal[i].take
                  /\ \A k \in Rows : SetsTake(k, l) /\ k <= i => k <= j

Undisturbed == faults = 0 /\ \A w \in Rerenders : pc[w] # "done" /\ written[w] = 0

Copied ==
  Undisturbed => \A l \in Lines, i \in Rows : IsState(i, l) => SlotFrom(i, l) /\ TakeFrom(i, l)

Snapshots == Authored /\ Committed /\ Ordered /\ Prompt
Copies == HeadHeld /\ Fresh /\ Copied
HInv == Snapshots /\ Copies

-----------------------------------------------------------------------------
\* A step that writes no row keeps all of it, if no writer comes to rely on
\* something new and ClickHouse loses sight of nothing.
LEMMA QuietSnapshots ==
  ASSUME IInv, IInv', HInv, UNCHANGED journal, faults <= faults',
         \A w \in Writers : written[w] <= written'[w],
         faults' = 0 => delivered' \in {delivered, Len(journal)},
         \A w \in Writers : pc[w] = "done" => pc'[w] = "done",
         \A w \in Writers : pc'[w] = "rows" => pc[w] = "rows" /\ version'[w] = version[w]
  PROVE  Snapshots' /\ Copied' /\ (faults' = 0 => faults = 0)
<1>1. Rows' = Rows /\ Commits' = Commits BY DEF Rows, Commits, CommitsIn
<1>2. \A l \in Lines, i \in Rows : IsState(i, l)' <=> IsState(i, l) BY <1>1 DEF IsState
<1>3. faults' = 0 => faults = 0 BY DEF IInv, TypeOK
<1>4. Authored'
  <2>1. ASSUME NEW l \in Lines, NEW i \in Rows, IsState(i, l)
        PROVE  Position(journal[i].id, l) <= written'[journal[i].id]
    <3>1. Position(journal[i].id, l) <= written[journal[i].id]
      BY <2>1 DEF HInv, Snapshots, Authored
    <3>2. journal[i].id \in Writers
      BY <2>1 DEF IsState, Rows, IInv, TypeOK, Row, CommitRow, StateRow, OtherRow
    <3>3. Position(journal[i].id, l) \in Nat BY CountsAssumption DEF Position, Lines
    <3>4. written[journal[i].id] \in Nat /\ written'[journal[i].id] \in Nat
      BY <3>2 DEF IInv, TypeOK
    <3>. QED BY <3>1, <3>2, <3>3, <3>4
  <2>. QED BY <1>1, <1>2, <2>1 DEF HInv, Snapshots, Authored
<1>5. Committed' BY <1>1, <1>2 DEF HInv, Snapshots, Committed
<1>6. Ordered' BY <1>1, <1>2 DEF HInv, Snapshots, Ordered
<1>7. Prompt' BY <1>3 DEF HInv, Snapshots, Prompt
<1>8. Copied'
  <2>1. Undisturbed' => Undisturbed
    <3>1. \A w \in Writers : written'[w] = 0 => written[w] = 0 BY DEF IInv, TypeOK
    <3>. QED BY <1>3, <3>1 DEF Undisturbed, Writers
  <2>2. \A l \in Lines, i \in Rows : (SetsSlot(i, l)' <=> SetsSlot(i, l)) /\ (SetsTake(i, l)' <=> SetsTake(i, l))
    BY <1>1, <1>2 DEF SetsSlot, SetsTake
  <2>3. \A l \in Lines, i \in Rows : (SlotFrom(i, l)' <=> SlotFrom(i, l)) /\ (TakeFrom(i, l)' <=> TakeFrom(i, l))
    BY <1>1, <2>2 DEF SlotFrom, TakeFrom
  <2>. QED BY <1>1, <1>2, <2>1, <2>3 DEF HInv, Copies, Copied
<1>. QED BY <1>3, <1>4, <1>5, <1>6, <1>7, <1>8 DEF Snapshots

\* The same for what edits have read, if nobody reads the head or derives.
LEMMA QuietHistory ==
  ASSUME IInv, IInv', HInv, UNCHANGED <<journal, line>>, faults <= faults',
         \A w \in Writers : written[w] <= written'[w],
         faults' = 0 => delivered' \in {delivered, Len(journal)},
         \A w \in Writers : pc[w] = "done" => pc'[w] = "done",
         \A w \in Writers : pc'[w] = "rows" => pc[w] = "rows" /\ version'[w] = version[w],
         faults' = 0 => \A w \in Writers : pc'[w] = "editTimeline" =>
           pc[w] = "editTimeline" /\ head'[w] = head[w],
         faults' = 0 => \A w \in Edits :
           Copying(w)' => Copying(w) /\ base'[w] = base[w]
  PROVE  HInv'
<1>1. Rows' = Rows /\ Commits' = Commits BY DEF Rows, Commits, CommitsIn
<1>2. \A l \in Lines, i \in Rows : IsState(i, l)' <=> IsState(i, l) BY <1>1 DEF IsState
<1>3. Snapshots' /\ Copied' /\ (faults' = 0 => faults = 0) BY QuietSnapshots
<1>4. HeadHeld'
  <2>1. \A c \in Rows : NewestCommit(c)' <=> NewestCommit(c) BY <1>1 DEF NewestCommit
  <2>. QED BY <1>1, <1>3, <2>1 DEF HInv, Copies, HeadHeld
<1>5. Fresh'
  <2>1. \A l \in Lines, i \in Rows : LastState(i, l)' <=> LastState(i, l)
    BY <1>1, <1>2 DEF LastState
  <2>2. ASSUME faults' = 0, NEW w \in Edits, Copying(w)'
        PROVE  \E i \in Rows : LastState(i, line[w])' /\ journal[i].take = base'[w].take
    <3>1. Copying(w) /\ base'[w] = base[w] BY <2>2
    <3>2. line[w] \in Lines BY DEF IInv, TypeOK, Writers
    <3>. QED BY <1>3, <2>1, <2>2, <3>1, <3>2 DEF HInv, Copies, Fresh
  <2>. QED BY <1>1, <2>2 DEF Fresh
<1>. QED BY <1>3, <1>4, <1>5 DEF HInv, Copies

\* The steps that write no row and read nothing an edit builds on.
LEMMA QuietSteps ==
  ASSUME IInv, IInv', HInv,
         \/ Reconcile \/ Crash \/ UNCHANGED vars
         \/ \E w \in Writers :
              \/ EditLock(w) \/ RerenderReadHead(w) \/ RerenderReadLine(w) \/ RunStart(w)
              \/ RenderFails(w) \/ PersistLock(w) \/ ReadFails(w)
              \/ FlushFirst(w) \/ ReadHead(w) \/ FlushLast(w)
  PROVE  HInv'
<1>0. /\ faults \in Nat /\ Len(journal) \in Nat /\ delivered \in 0 .. Len(journal)
      /\ \A w \in Writers : written[w] \in Nat /\ written[w] <= written[w]
      /\ faults = 0 => delivered = Len(journal)
  BY DEF IInv, TypeOK, HInv, Snapshots, Prompt
<1>1. CASE Reconcile
  <2>1. UNCHANGED <<journal, pc, head, version, line, base, written, faults>>
        /\ delivered' \in delivered + 1 .. Len(journal)
    BY <1>1 DEF Reconcile, readVars
  <2>2. \A w \in Edits : Copying(w)' <=> Copying(w) BY <2>1 DEF Copying
  <2>3. faults' = 0 => delivered' \in {delivered, Len(journal)} BY <1>0, <2>1
  <2>. QED BY <1>0, <2>1, <2>2, <2>3, QuietHistory
<1>2. CASE Crash
  <2>1. UNCHANGED <<journal, head, version, line, base, written>> /\ faults' = faults + 1
        /\ pc' = [w \in Writers |-> IF pc[w] \in {"idle", "done"} THEN pc[w] ELSE "failed"]
    BY <1>2 DEF Crash, Fault, readVars
  <2>2. faults <= faults' /\ faults' # 0 BY <1>0, <2>1
  <2>3. \A v \in Writers : written[v] <= written'[v] BY <1>0, <2>1
  <2>4. \A v \in Writers : /\ pc[v] = "done" => pc'[v] = "done"
                           /\ pc'[v] # "rows"
    BY <2>1
  <2>. QED BY <2>1, <2>2, <2>3, <2>4, QuietHistory
<1>3. CASE UNCHANGED vars
  <2>1. UNCHANGED <<journal, delivered, pc, head, version, line, base, written, faults>>
    BY <1>3 DEF vars, readVars
  <2>2. \A w \in Edits : Copying(w)' <=> Copying(w) BY <2>1 DEF Copying
  <2>. QED BY <1>0, <2>1, <2>2, QuietHistory
<1>4. ASSUME NEW w \in Writers,
             \/ EditLock(w) \/ RerenderReadHead(w) \/ RerenderReadLine(w) \/ RunStart(w)
             \/ RenderFails(w) \/ PersistLock(w) \/ ReadFails(w)
             \/ FlushFirst(w) \/ ReadHead(w) \/ FlushLast(w)
      PROVE  HInv'
  <2>1. UNCHANGED <<journal, written, line>>
    BY <1>4
    DEF EditLock, RerenderReadHead, RerenderReadLine, RunStart, RenderFails, PersistLock,
        ReadFails, FlushFirst, ReadHead, FlushLast, readVars
  <2>2. faults <= faults'
    BY <1>0, <1>4
    DEF EditLock, RerenderReadHead, RerenderReadLine, RunStart, RenderFails, PersistLock,
        ReadFails, FlushFirst, ReadHead, FlushLast, Fault, FlushStopped
  <2>3. faults' = 0 => delivered' \in {delivered, Len(journal)}
    BY <1>0, <1>4
    DEF EditLock, RerenderReadHead, RerenderReadLine, RunStart, RenderFails, PersistLock,
        ReadFails, FlushFirst, ReadHead, FlushLast, Fault, FlushStopped, Flushed
  <2>4. \A v \in Writers : pc[v] = "done" => pc'[v] = "done"
    BY <1>4, SMTT(20)
    DEF EditLock, RerenderReadHead, RerenderReadLine, RunStart, RenderFails, PersistLock,
        ReadFails, FlushFirst, ReadHead, FlushLast, Go, Fail, IInv, TypeOK
  <2>5. \A v \in Writers : pc'[v] = "rows" => pc[v] = "rows" /\ version'[v] = version[v]
    <3>1. \A v \in Writers : v # w => pc'[v] = pc[v] /\ version'[v] = version[v]
      BY <1>4, SMTT(20)
      DEF EditLock, RerenderReadHead, RerenderReadLine, RunStart, RenderFails, PersistLock,
          ReadFails, FlushFirst, ReadHead, FlushLast, Go, Fail, IInv, TypeOK, readVars
    <3>2. pc'[w] # "rows"
      BY <1>4, SMTT(20)
      DEF EditLock, RerenderReadHead, RerenderReadLine, RunStart, RenderFails, PersistLock,
          ReadFails, FlushFirst, ReadHead, FlushLast, Go, Fail, IInv, TypeOK
    <3>. QED BY <3>1, <3>2
  <2>6. \A v \in Writers : pc'[v] = "editTimeline" => pc[v] = "editTimeline" /\ head'[v] = head[v]
    <3>1. CASE RerenderReadHead(w) \/ ReadHead(w)
      <4>1. pc'[w] # "editTimeline" /\ \A v \in Writers : v # w => pc'[v] = pc[v] /\ head'[v] = head[v]
        BY <3>1 DEF RerenderReadHead, ReadHead, Go, IInv, TypeOK
      <4>. QED BY <4>1
    <3>2. CASE ~ (RerenderReadHead(w) \/ ReadHead(w))
      BY <1>4, <3>2
      DEF EditLock, RerenderReadLine, RunStart, RenderFails, PersistLock, ReadFails, FlushFirst,
          FlushLast, Go, Fail, IInv, TypeOK, readVars
    <3>. QED BY <3>1, <3>2
  <2>7. \A v \in Edits : Copying(v)' => Copying(v) /\ base'[v] = base[v]
    <3>1. CASE RerenderReadHead(w) \/ RerenderReadLine(w) \/ PersistLock(w)
      <4>1. w \notin Edits
        BY <3>1, WritersAssumption
        DEF RerenderReadHead, RerenderReadLine, PersistLock, IInv, Control, Roles
      <4>2. \A v \in Edits : pc'[v] = pc[v] /\ base'[v] = base[v]
        BY <3>1, <4>1
        DEF RerenderReadHead, RerenderReadLine, PersistLock, ReadLine, Go, IInv, TypeOK, Writers, readVars
      <4>. QED BY <2>1, <4>2 DEF Copying
    <3>2. CASE \/ EditLock(w) \/ RunStart(w) \/ RenderFails(w) \/ ReadFails(w)
               \/ FlushFirst(w) \/ ReadHead(w) \/ FlushLast(w)
      <4>1. base' = base
        BY <3>2
        DEF EditLock, RunStart, RenderFails, ReadFails, FlushFirst, ReadHead, FlushLast, readVars
      <4>2. \A v \in Edits :
              \/ pc'[v] = pc[v]
              \/ pc'[v] \in {"editHead", "rendering", "failed", "done"}
              \/ pc[v] \in {"flush", "head"} /\ pc'[v] \in {"head", "append"}
        BY <3>2
        DEF EditLock, RunStart, RenderFails, ReadFails, FlushFirst, ReadHead, FlushLast,
            Go, Fail, IInv, TypeOK, Writers
      <4>. QED BY <2>1, <4>1, <4>2 DEF Copying
    <3>. QED BY <1>4, <3>1, <3>2
  <2>8. \A v \in Writers : written[v] <= written'[v] BY <1>0, <2>1
  <2>. QED BY <2>1, <2>2, <2>3, <2>4, <2>5, <2>6, <2>7, <2>8, QuietHistory
<1>. QED BY <1>1, <1>2, <1>3, <1>4

\* An edit that reads the head of a ClickHouse that has every row.
LEMMA EditReadHeadCopies ==
  ASSUME IInv, IInv', HInv, NEW w \in Writers, EditReadHead(w)
  PROVE  HInv'
<1>1. UNCHANGED <<journal, delivered, version, line, base, written, faults>>
      /\ pc[w] = "editHead"
  BY DEF EditReadHead
<1>2. /\ pc'[w] \in {"editTimeline", "failed"}
      /\ \A v \in Writers : v # w => pc'[v] = pc[v] /\ head'[v] = head[v]
  BY DEF EditReadHead, Go, Fail, IInv, TypeOK
<1>3. Snapshots' /\ Copied'
  <2>1. faults <= faults' /\ \A v \in Writers : written[v] <= written'[v] BY <1>1 DEF IInv, TypeOK
  <2>2. \A v \in Writers : pc[v] = "done" => pc'[v] = "done" BY <1>1, <1>2
  <2>3. \A v \in Writers : pc'[v] = "rows" => pc[v] = "rows" /\ version'[v] = version[v]
    BY <1>1, <1>2
  <2>. QED BY <1>1, <2>1, <2>2, <2>3, QuietSnapshots
<1>4. Rows' = Rows /\ Commits' = Commits BY <1>1 DEF Rows, Commits, CommitsIn
<1>5. HeadHeld'
  <2>1. \A c \in Rows : NewestCommit(c)' <=> NewestCommit(c) BY <1>1, <1>4 DEF NewestCommit
  <2>2. ASSUME faults' = 0, NEW v \in Writers, pc'[v] = "editTimeline"
        PROVE  \E c \in Rows : NewestCommit(c) /\ journal[c].id = head'[v]
    <3>1. CASE v # w BY <1>1, <1>2, <2>2, <3>1 DEF HInv, Copies, HeadHeld
    <3>2. CASE v = w
      <4>1. PICK i \in CommitsIn(delivered) :
              IsHead(i) /\ head' = [head EXCEPT ![w] = journal[i].id]
        BY <2>2, <3>2 DEF EditReadHead, Fail, Go, IInv, TypeOK
      <4>2. CommitsIn(delivered) = Commits
        BY <1>1, <2>2 DEF HInv, Snapshots, Prompt, Commits
      <4>3. NewestCommit(i) BY <4>1, <4>2 DEF IsHead, NewestCommit
      <4>4. i \in Rows BY <4>1, <4>2 DEF Commits, CommitsIn, Rows
      <4>5. head'[w] = journal[i].id BY <4>1 DEF IInv, TypeOK
      <4>. QED BY <3>2, <4>3, <4>4, <4>5
    <3>. QED BY <3>1, <3>2
  <2>. QED BY <1>1, <1>4, <2>1, <2>2 DEF HeadHeld
<1>6. Fresh'
  <2>1. \A l \in Lines, i \in Rows : LastState(i, l)' <=> LastState(i, l)
    BY <1>1, <1>4 DEF LastState, IsState
  <2>2. \A v \in Edits : Copying(v)' => Copying(v)
    BY <1>1, <1>2 DEF Copying, Writers
  <2>3. \A v \in Edits : line[v] \in Lines BY DEF IInv, TypeOK, Writers
  <2>. QED BY <1>1, <1>4, <2>1, <2>2, <2>3 DEF HInv, Copies, Fresh
<1>. QED BY <1>3, <1>5, <1>6 DEF HInv, Copies
-----------------------------------------------------------------------------
\* A set of numbers that has a member has a least one.
LEMMA LeastOf ==
  ASSUME NEW S, S \subseteq Nat, S # {}
  PROVE  \E x \in S : \A y \in S : x <= y
<1>1. PICK x \in S : \A y \in S : ~ (<<y, x>> \in OpToRel(<, Nat))
  BY NatLessThanWellFounded, WFMin
<1>2. ASSUME NEW y \in S PROVE x <= y
  <2>1. ~ (y < x) BY <1>1 DEF OpToRel
  <2>. QED BY <2>1
<1>. QED BY <1>2

\* The types of a commit row and of a snapshot.
LEMMA CommitFields ==
  ASSUME TypeOK, NEW i \in Commits
  PROVE  /\ i \in Rows /\ i \in Nat
         /\ journal[i].id \in Writers /\ journal[i].version \in Nat /\ journal[i].version >= 1
<1>1. i \in 1 .. Len(journal) /\ journal[i].kind = "commit" BY DEF Commits, CommitsIn
<1>2. journal[i] \in Row BY <1>1 DEF TypeOK
<1>3. journal[i] \in CommitRow BY <1>1, <1>2 DEF Row, StateRow, OtherRow
<1>4. journal[i].id \in Writers /\ journal[i].version \in Versions BY <1>3 DEF CommitRow
<1>. QED BY <1>1, <1>4 DEF Rows, Versions

LEMMA StateFields ==
  ASSUME TypeOK, NEW l, NEW i, IsState(i, l)
  PROVE  /\ i \in Rows /\ i \in Nat /\ journal[i] \in StateRow
         /\ journal[i].id \in Writers /\ journal[i].version \in Nat /\ l \in Lines
         /\ journal[i].slot \in Writers /\ journal[i].take \in Writers
<1>1. i \in 1 .. Len(journal) /\ journal[i].kind = "state" /\ journal[i].line = l
  BY DEF IsState, Rows
<1>2. journal[i] \in Row BY <1>1 DEF TypeOK
<1>3. journal[i] \in StateRow BY <1>1, <1>2 DEF Row, CommitRow, OtherRow
<1>. QED BY <1>1, <1>3 DEF StateRow, Versions, Rows

\* The commits being a chain, the newest one descends from every other: the
\* recursive query from it finds them all.
LEMMA NewestReachesAll ==
  ASSUME IInv, NEW c \in Rows, NewestCommit(c), NEW d \in Commits
  PROVE  journal[d].id \in Ancestry(journal[c].id, Len(journal))
<1>. DEFINE Stored == {journal[i].id : i \in Commits}
            Follows(S) == \A i \in Commits :
              journal[i].id \in S /\ journal[i].parent \in Stored => journal[i].parent \in S
<1>0. TypeOK BY DEF IInv
<1>1. ASSUME NEW S \in SUBSET Stored, journal[c].id \in S, Follows(S)
      PROVE  \A i \in Commits : journal[i].id \in S
  <2>. DEFINE N == Len(journal)
              Missed == {k \in Nat : \E i \in Commits : k = N - i /\ journal[i].id \notin S}
  <2>1. SUFFICES ASSUME NEW m \in Commits, journal[m].id \notin S PROVE FALSE
    OBVIOUS
  <2>2. \A i \in Commits : i \in Nat /\ N - i \in Nat BY <1>0, CommitFields DEF Rows, IInv, TypeOK
  <2>3. N - m \in Missed /\ Missed \subseteq Nat BY <2>1, <2>2
  <2>4. PICK k \in Missed : \A y \in Missed : k <= y
    <3>. HIDE DEF Missed
    <3>. QED BY <2>3, LeastOf
  <2>5. PICK b \in Commits : k = N - b /\ journal[b].id \notin S BY <2>4
  <2>6. ASSUME NEW i \in Commits, b < i PROVE journal[i].id \in S
    <3>1. CASE journal[i].id \notin S
      <4>1. N - i \in Missed BY <2>2, <3>1
      <4>2. N - b <= N - i BY <2>4, <2>5, <4>1
      <4>3. N \in Nat /\ i \in Nat /\ b \in Nat BY <2>2 DEF IInv, TypeOK
      <4>. HIDE DEF N
      <4>. QED BY <2>6, <4>2, <4>3
    <3>. QED BY <3>1
  <2>7. c \in Commits /\ b \in Nat /\ c \in Nat /\ b < c
    <3>1. c \in Commits /\ journal[b].version <= journal[c].version BY DEF NewestCommit
    <3>2. b # c BY <1>1, <2>5
    <3>3. c < b => journal[c].version < journal[b].version BY <3>1 DEF IInv, Chain
    <3>4. /\ journal[b].version \in Nat /\ journal[c].version \in Nat
          /\ b \in Nat /\ c \in Nat
      BY <1>0, <3>1, CommitFields
    <3>. QED BY <3>1, <3>2, <3>3, <3>4
  <2>. DEFINE After == {i \in Commits : b < i}
  <2>8. After \subseteq Nat /\ c \in After BY <2>2, <2>7
  <2>9. PICK e \in After : \A i \in After : e <= i
    <3>. HIDE DEF After
    <3>. QED BY <2>8, LeastOf
  <2>10. e \in Commits /\ b < e /\ journal[e].id \in S BY <2>6, <2>9
  <2>11. journal[b].version < journal[e].version BY <2>10 DEF IInv, Chain
  <2>12. /\ journal[b].version \in Nat /\ journal[b].version >= 1 /\ journal[e].version \in Nat
         /\ b \in Nat /\ e \in Nat
    BY <1>0, <2>10, CommitFields
  <2>13. PICK j \in Commits : /\ j < e /\ journal[j].id = journal[e].parent
                              /\ journal[j].version + 1 = journal[e].version
    <3>1. journal[e].version # 1 BY <2>11, <2>12
    <3>. QED BY <2>10, <3>1 DEF IInv, Chain
  <2>14. j = b
    <3>1. j \in Nat /\ journal[j].version \in Nat BY <1>0, CommitFields
    <3>2. ~ (b < j)
      <4>1. b < j => e <= j BY <2>9
      <4>. QED BY <2>12, <2>13, <3>1, <4>1
    <3>3. ~ (j < b)
      <4>1. j < b => journal[j].version < journal[b].version BY DEF IInv, Chain
      <4>. QED BY <2>11, <2>12, <2>13, <3>1, <4>1
    <3>. QED BY <2>12, <3>1, <3>2, <3>3
  <2>15. journal[e].parent \in S BY <1>1, <2>10, <2>13
  <2>. QED BY <2>5, <2>13, <2>14, <2>15
<1>2. c \in Commits BY DEF NewestCommit
<1>3. journal[d].id \in Stored OBVIOUS
<1>4. Commits = CommitsIn(Len(journal)) BY DEF Commits
<1>5. \A S \in SUBSET Stored :
        (journal[c].id \in Stored => journal[c].id \in S) /\ Follows(S) => journal[d].id \in S
  BY <1>1, <1>2
<1>. QED BY <1>3, <1>4, <1>5 DEF Ancestry

\* An edit that derives its row from the head: the snapshot it reads is the
\* last one of the line.
LEMMA EditDeriveCopies ==
  ASSUME IInv, IInv', HInv, NEW w \in Writers, EditDerive(w)
  PROVE  HInv'
<1>1. UNCHANGED <<journal, delivered, head, version, line, written, faults>>
      /\ pc[w] = "editTimeline"
  BY DEF EditDerive
<1>2. /\ pc'[w] \in {"flush", "failed"}
      /\ \A v \in Writers : v # w => pc'[v] = pc[v] /\ base'[v] = base[v]
  BY DEF EditDerive, ReadLine, Go, Fail, IInv, TypeOK
<1>3. Snapshots' /\ Copied'
  <2>1. faults <= faults' /\ \A v \in Writers : written[v] <= written'[v] BY <1>1 DEF IInv, TypeOK
  <2>2. \A v \in Writers : pc[v] = "done" => pc'[v] = "done" BY <1>1, <1>2
  <2>3. \A v \in Writers : pc'[v] = "rows" => pc[v] = "rows" /\ version'[v] = version[v]
    BY <1>1, <1>2
  <2>. QED BY <1>1, <2>1, <2>2, <2>3, QuietSnapshots
<1>4. Rows' = Rows /\ Commits' = Commits BY <1>1 DEF Rows, Commits, CommitsIn
<1>5. HeadHeld'
  <2>1. \A c \in Rows : NewestCommit(c)' <=> NewestCommit(c) BY <1>1, <1>4 DEF NewestCommit
  <2>2. \A v \in Writers : pc'[v] = "editTimeline" => pc[v] = "editTimeline"
    BY <1>2
  <2>. QED BY <1>1, <1>4, <2>1, <2>2 DEF HInv, Copies, HeadHeld
<1>6. Fresh'
  <2>1. \A l \in Lines, i \in Rows : LastState(i, l)' <=> LastState(i, l)
    BY <1>1, <1>4 DEF LastState, IsState
  <2>2. ASSUME faults' = 0, NEW v \in Edits, Copying(v)'
        PROVE  \E i \in Rows : LastState(i, line[v]) /\ journal[i].take = base'[v].take
    <3>1. CASE v # w
      <4>1. pc'[v] = pc[v] /\ base'[v] = base[v] BY <1>2, <3>1 DEF Writers
      <4>2. Copying(v) BY <1>1, <2>2, <4>1 DEF Copying
      <4>. QED BY <1>1, <2>2, <4>1, <4>2 DEF HInv, Copies, Fresh
    <3>2. CASE v = w
      <4>1. pc'[w] = "flush" BY <1>2, <2>2, <3>2 DEF Copying
      <4>2. ReadLine(w) BY <4>1 DEF EditDerive, Fail, Go, IInv, TypeOK
      <4>3. PICK i \in 1 .. delivered :
              /\ IsTimelineRow(i, head[w], line[w], delivered)
              /\ base' = [base EXCEPT ![w] = [slot |-> journal[i].slot, take |-> journal[i].take]]
        BY <4>2 DEF ReadLine
      <4>4. delivered = Len(journal) BY <1>1, <2>2 DEF HInv, Snapshots, Prompt
      <4>5. PICK c \in Rows : NewestCommit(c) /\ journal[c].id = head[w]
        BY <1>1, <2>2 DEF HInv, Copies, HeadHeld
      <4>6. IsState(i, line[w]) BY <4>3, <4>4 DEF IsTimelineRow, IsState, Rows
      <4>7. ASSUME NEW j \in Rows, IsState(j, line[w]) PROVE j <= i
        <5>1. journal[j].id \in Ancestry(head[w], delivered)
          <6>1. line[w] \in Lines BY DEF IInv, TypeOK
          <6>2. PICK d \in Commits : journal[d].id = journal[j].id
            BY <4>7, <6>1 DEF HInv, Snapshots, Authored
          <6>. QED BY <4>4, <4>5, <6>2, NewestReachesAll
        <5>2. journal[j].version <= journal[i].version
          BY <4>3, <4>4, <4>7, <5>1 DEF IsTimelineRow, IsState, Rows
        <5>3. /\ i \in Rows /\ i \in Nat /\ j \in Nat
              /\ journal[i].version \in Nat /\ journal[j].version \in Nat /\ line[w] \in Lines
          BY <4>6, <4>7, StateFields DEF IInv
        <5>4. i < j => journal[i].version < journal[j].version
          BY <4>6, <4>7, <5>3 DEF HInv, Snapshots, Ordered
        <5>. QED BY <5>2, <5>3, <5>4
      <4>8. LastState(i, line[w]) /\ i \in Rows BY <4>6, <4>7 DEF LastState, IsState
      <4>9. base'[w].take = journal[i].take BY <4>3 DEF IInv, TypeOK
      <4>. QED BY <3>2, <4>8, <4>9
    <3>. QED BY <3>1, <3>2
  <2>3. \A v \in Edits : line[v] \in Lines BY DEF IInv, TypeOK, Writers
  <2>. QED BY <1>1, <1>4, <2>1, <2>2, <2>3 DEF Fresh
<1>. QED BY <1>3, <1>5, <1>6 DEF HInv, Copies
-----------------------------------------------------------------------------
\* A row at the end of the journal leaves what is before it as it was.
LEMMA Grown ==
  ASSUME TypeOK, NEW row, journal' = Append(journal, row), NEW n, n = Len(journal) + 1
  PROVE  /\ n \in Nat /\ n \in Rows' /\ Rows' = Rows \union {n} /\ journal'[n] = row
         /\ \A i \in Rows : i \in Nat /\ i < n /\ journal'[i] = journal[i]
         /\ \A l \in Lines, i \in Rows :
              (IsState(i, l)' <=> IsState(i, l))
              /\ (SlotFrom(i, l)' <=> SlotFrom(i, l)) /\ (TakeFrom(i, l)' <=> TakeFrom(i, l))
<1>1. /\ n \in Nat /\ n \in Rows' /\ Rows' = Rows \union {n} /\ journal'[n] = row
      /\ \A i \in Rows : i \in Nat /\ i < n /\ journal'[i] = journal[i]
  BY DEF TypeOK, Rows
<1>2. ASSUME NEW l \in Lines, NEW i \in Rows
      PROVE  /\ IsState(i, l)' <=> IsState(i, l)
             /\ SetsSlot(i, l)' <=> SetsSlot(i, l)
             /\ SetsTake(i, l)' <=> SetsTake(i, l)
  BY <1>1 DEF IsState, SetsSlot, SetsTake
<1>3. ASSUME NEW l \in Lines, NEW i \in Rows
      PROVE  (SlotFrom(i, l)' <=> SlotFrom(i, l)) /\ (TakeFrom(i, l)' <=> TakeFrom(i, l))
  <2>1. /\ n \in Nat /\ i \in Nat /\ i < n BY <1>1
  <2>2. ~ (n <= i) BY <2>1
  <2>. QED BY <1>1, <1>2, <2>2 DEF SlotFrom, TakeFrom
<1>. QED BY <1>1, <1>2, <1>3

\* The lock's holder writes: nobody else is at a step that relies on the end
\* of the journal.
LEMMA OnlyTheHolder ==
  ASSUME IInv, NEW w \in Writers, pc[w] \in {"append", "rows"}, NEW v \in Writers, v # w
  PROVE  pc[v] \notin {"editTimeline", "flush", "head", "append", "rows"}
BY DEF IInv, Control, LockHolder, Holding

\* A row that is no snapshot keeps what the snapshots say.
LEMMA PlainAppend ==
  ASSUME IInv, IInv', HInv, NEW w \in Writers, pc[w] \in {"append", "rows"},
         NEW row, row.kind # "state", journal' = Append(journal, row),
         UNCHANGED <<head, version, line, base>>, faults <= faults',
         faults' = 0 => delivered' = Len(journal'),
         pc'[w] \in {"rows", "failed"}, \A v \in Writers : v # w => pc'[v] = pc[v],
         \A v \in Writers : written[v] <= written'[v],
         (faults' = 0 /\ Copying(w)') => Copying(w),
         \/ pc[w] = "rows"
         \/ row.kind = "commit" /\ row.id = w /\ row.version = version[w]
  PROVE  HInv'
<1>0. PICK n : n = Len(journal) + 1 OBVIOUS
<1>1. /\ n \in Nat /\ n \in Rows' /\ Rows' = Rows \union {n} /\ journal'[n] = row
      /\ \A i \in Rows : i \in Nat /\ i < n /\ journal'[i] = journal[i]
      /\ \A l \in Lines, i \in Rows :
           (IsState(i, l)' <=> IsState(i, l))
           /\ (SlotFrom(i, l)' <=> SlotFrom(i, l)) /\ (TakeFrom(i, l)' <=> TakeFrom(i, l))
  BY <1>0, Grown DEF IInv
<1>2. \A l \in Lines : ~ IsState(n, l)' BY <1>1 DEF IsState
<1>3. \A l \in Lines, i \in Rows' :
         IsState(i, l)' => i \in Rows /\ IsState(i, l) /\ journal'[i] = journal[i]
  BY <1>1, <1>2
<1>4. \A c \in Commits : c \in Commits' /\ c \in Rows BY <1>1 DEF Commits, CommitsIn, Rows
<1>5. faults' = 0 => faults = 0 BY DEF IInv, TypeOK
<1>6. Authored'
  <2>1. ASSUME NEW l \in Lines, NEW i \in Rows, IsState(i, l)
        PROVE  Position(journal[i].id, l) <= written'[journal[i].id]
    <3>1. Position(journal[i].id, l) <= written[journal[i].id]
      BY <2>1 DEF HInv, Snapshots, Authored
    <3>2. journal[i].id \in Writers BY <2>1, StateFields DEF IInv
    <3>3. Position(journal[i].id, l) \in Nat BY CountsAssumption DEF Position, Lines
    <3>4. written[journal[i].id] \in Nat /\ written'[journal[i].id] \in Nat
      BY <3>2 DEF IInv, TypeOK
    <3>. QED BY <3>1, <3>2, <3>3, <3>4
  <2>2. ASSUME NEW l \in Lines, NEW i \in Rows, IsState(i, l)
        PROVE  \E c \in Commits' : journal'[c].id = journal[i].id /\ journal'[c].version = journal[i].version
    <3>1. PICK c \in Commits : journal[c].id = journal[i].id /\ journal[c].version = journal[i].version
      BY <2>2 DEF HInv, Snapshots, Authored
    <3>. QED BY <1>1, <1>4, <3>1
  <2>3. ASSUME NEW l \in Lines, NEW i \in Rows', IsState(i, l)'
        PROVE  /\ Position(journal'[i].id, l) <= written'[journal'[i].id]
               /\ \E c \in Commits' :
                    journal'[c].id = journal'[i].id /\ journal'[c].version = journal'[i].version
    <3>1. i \in Rows /\ IsState(i, l) /\ journal'[i] = journal[i] BY <1>3, <2>3
    <3>. QED BY <2>1, <2>2, <3>1
  <2>. QED BY <2>3 DEF Authored, Position
<1>7. Committed'
  <2>1. ASSUME NEW v \in Writers, pc'[v] = "rows" PROVE v = w
    BY <2>1, OnlyTheHolder
  <2>2. \E c \in Commits' : journal'[c].id = w /\ journal'[c].version = version[w]
    <3>1. CASE pc[w] = "rows"
      <4>1. PICK c \in Commits : journal[c].id = w /\ journal[c].version = version[w]
        BY <3>1 DEF HInv, Snapshots, Committed
      <4>. QED BY <1>1, <1>4, <4>1
    <3>2. CASE row.kind = "commit" /\ row.id = w /\ row.version = version[w]
      <4>1. n \in Commits' BY <1>1, <3>2 DEF Commits, CommitsIn, Rows
      <4>. QED BY <1>1, <3>2, <4>1
    <3>. QED BY <3>1, <3>2
  <2>3. ASSUME NEW l \in Lines, NEW i \in Rows, IsState(i, l)
        PROVE  journal[i].id = w \/ journal[i].version < version[w]
    <3>1. CASE pc[w] = "rows" BY <2>3, <3>1 DEF HInv, Snapshots, Committed
    <3>2. CASE pc[w] = "append"
      <4>1. PICK c \in Commits : journal[c].version = journal[i].version
        BY <2>3 DEF HInv, Snapshots, Authored
      <4>. QED BY <3>2, <4>1 DEF IInv, NextInChain
    <3>. QED BY <3>1, <3>2
  <2>. QED BY <1>3, <2>1, <2>2, <2>3 DEF Committed
<1>8. Ordered' BY <1>3 DEF HInv, Snapshots, Ordered
<1>9. Prompt' BY DEF Prompt
<1>10. HeadHeld'
  <2>1. \A v \in Writers : pc'[v] # "editTimeline" BY OnlyTheHolder
  <2>. QED BY <2>1 DEF HeadHeld
<1>11. Fresh'
  <2>1. ASSUME faults' = 0, NEW v \in Edits, Copying(v)'
        PROVE  \E i \in Rows' : LastState(i, line[v])' /\ journal'[i].take = base[v].take
    <3>1. v = w BY <2>1, OnlyTheHolder DEF Copying, Writers
    <3>2. PICK i \in Rows : LastState(i, line[v]) /\ journal[i].take = base[v].take
      BY <1>5, <2>1, <3>1 DEF HInv, Copies, Fresh
    <3>3. line[v] \in Lines BY DEF IInv, TypeOK, Writers
    <3>4. LastState(i, line[v])' BY <1>1, <1>2, <3>2, <3>3 DEF LastState
    <3>. QED BY <1>1, <3>2, <3>4
  <2>. QED BY <2>1 DEF Fresh
<1>12. Copied'
  <2>1. Undisturbed' => Undisturbed
    <3>1. \A v \in Writers : written'[v] = 0 => written[v] = 0 BY DEF IInv, TypeOK
    <3>2. \A v \in Writers : pc'[v] # "done" => pc[v] # "done" OBVIOUS
    <3>. QED BY <1>5, <3>1, <3>2 DEF Undisturbed, Writers
  <2>. QED BY <1>1, <1>2, <2>1 DEF HInv, Copies, Copied
<1>. QED BY <1>6, <1>7, <1>8, <1>9, <1>10, <1>11, <1>12 DEF HInv, Snapshots, Copies
-----------------------------------------------------------------------------
\* The snapshots among a writer's rows: one of each line it is about, in its
\* place, with the parts the writer sets and the parts it copies.
LEMMA SnapshotRow ==
  ASSUME TypeOK, NEW w \in Writers, NEW k \in 1 .. Len(RowsOf(w)), RowsOf(w)[k].kind = "state",
         NEW row, row = RowsOf(w)[k]
  PROVE  /\ row.line \in Lines /\ k = Position(w, row.line)
         /\ row.id = w /\ row.version = version[w]
         /\ w \notin Rerenders => row.slot = w
         /\ w \in Edits => row.line = line[w] /\ row.take = base[w].take
         /\ w \notin Edits => row.take = w
<1>. DEFINE Takes == [l \in Lines |-> TakeRow(w)]
            States == [l \in Lines |-> State(w, l, w, w)]
<1>1. Action(w).kind = "action" /\ TakeRow(w).kind = "take" BY DEF Action, TakeRow
<1>2. CASE w \in Edits
  <2>1. RowsOf(w) = <<Action(w), State(w, line[w], w, base[w].take)>> BY <1>2 DEF RowsOf
  <2>2. k \in {1, 2} BY <2>1
  <2>3. k = 2 /\ row = State(w, line[w], w, base[w].take) BY <1>1, <2>1, <2>2
  <2>4. line[w] \in Lines /\ w \notin Rerenders BY <1>2, WritersAssumption DEF TypeOK
  <2>. QED BY <1>2, <2>3, <2>4 DEF State, Position
<1>3. CASE w \in Rerenders
  <2>1. w \notin Edits BY <1>3, WritersAssumption
  <2>2. RowsOf(w) = <<Action(w), TakeRow(w), State(w, line[w], base[w].slot, w)>>
    BY <1>3, <2>1 DEF RowsOf
  <2>3. k \in {1, 2, 3} BY <2>2
  <2>4. k = 3 /\ row = State(w, line[w], base[w].slot, w) BY <1>1, <2>2, <2>3
  <2>5. line[w] \in Lines BY DEF TypeOK
  <2>. QED BY <1>3, <2>1, <2>4, <2>5 DEF State, Position
<1>4. CASE w \notin Edits /\ w \notin Rerenders
  <2>1. RowsOf(w) = <<Action(w)>> \o Takes \o States BY <1>4 DEF RowsOf
  <2>2. /\ <<Action(w)>> \in Seq({Action(w)}) /\ Len(<<Action(w)>>) = 1 /\ LineCount \in Nat
        /\ Takes \in Seq({TakeRow(w)}) /\ Len(Takes) = LineCount
        /\ States \in Seq({State(w, l, w, w) : l \in Lines}) /\ Len(States) = LineCount
    BY CountsAssumption DEF Lines
  <2>3. \A l \in Lines : Takes[l] = TakeRow(w) /\ States[l] = State(w, l, w, w) OBVIOUS
  <2>. HIDE DEF Takes, States
  <2>4. DEFINE front == <<Action(w)>> \o Takes
  <2>5. /\ front \in Seq({Action(w), TakeRow(w)}) /\ Len(front) = 1 + LineCount
        /\ \A i \in 1 .. 1 + LineCount : front[i] \in {Action(w), TakeRow(w)}
    <3>1. <<Action(w)>> \in Seq({Action(w), TakeRow(w)}) /\ Takes \in Seq({Action(w), TakeRow(w)})
      BY <2>2
    <3>2. front \in Seq({Action(w), TakeRow(w)}) /\ Len(front) = 1 + LineCount
      BY <2>2, <3>1, ConcatProperties
    <3>. HIDE DEF front
    <3>. QED BY <3>2
  <2>. HIDE DEF front
  <2>6. RowsOf(w) = front \o States BY <2>1 DEF front
  <2>7. /\ Len(RowsOf(w)) = 1 + LineCount + LineCount
        /\ k \in 1 .. 1 + LineCount => row = front[k]
        /\ ~ (k \in 1 .. 1 + LineCount) => row = States[k - (1 + LineCount)]
    <3>1. /\ States \in Seq({State(w, l, w, w) : l \in Lines}) /\ Len(States) = LineCount
          /\ front \in Seq({Action(w), TakeRow(w)}) /\ Len(front) = 1 + LineCount
          /\ LineCount \in Nat
      BY <2>2, <2>5
    <3>2. Len(front \o States) = 1 + LineCount + LineCount BY <3>1
    <3>3. /\ k \in Nat /\ k \in 1 .. 1 + LineCount + LineCount
          /\ k \in 1 .. Len(front) + Len(States)
      BY <2>6, <3>1, <3>2
    <3>4. (front \o States)[k]
             = IF k <= Len(front) THEN front[k] ELSE States[k - Len(front)]
      BY <3>1, <3>3, ConcatProperties
    <3>. QED BY <2>6, <3>1, <3>2, <3>3, <3>4
  <2>8. ~ (k \in 1 .. 1 + LineCount) BY <1>1, <2>5, <2>7
  <2>9. k \in Nat /\ k >= 1 /\ k <= 1 + LineCount + LineCount BY <2>2, <2>7
  <2>10. k - (1 + LineCount) \in Lines /\ k = 1 + LineCount + (k - (1 + LineCount))
    BY <2>2, <2>8, <2>9 DEF Lines
  <2>11. row = State(w, k - (1 + LineCount), w, w) BY <2>3, <2>7, <2>8, <2>10
  <2>12. /\ row.line = k - (1 + LineCount) /\ row.id = w /\ row.version = version[w]
         /\ row.slot = w /\ row.take = w
    BY <2>11 DEF State
  <2>. QED BY <1>4, <2>10, <2>12 DEF Position
<1>. QED BY <1>2, <1>3, <1>4
-----------------------------------------------------------------------------
\* A snapshot at the end of the journal: it is the newest one of its line,
\* and what it copies is what the one before it had.
LEMMA StateAppend ==
  ASSUME IInv, IInv', HInv, NEW w \in Writers, pc[w] = "rows", written[w] < Len(RowsOf(w)),
         NEW row, row = RowsOf(w)[written[w] + 1], row.kind = "state",
         journal' = Append(journal, row),
         UNCHANGED <<head, version, line, base>>, faults <= faults',
         faults' = 0 => delivered' = Len(journal'),
         pc'[w] \in {"rows", "failed"}, \A v \in Writers : v # w => pc'[v] = pc[v],
         written' = [written EXCEPT ![w] = @ + 1]
  PROVE  HInv'
<1>0. PICK n : n = Len(journal) + 1 OBVIOUS
<1>1. /\ n \in Nat /\ n \in Rows' /\ Rows' = Rows \union {n} /\ journal'[n] = row
      /\ \A i \in Rows : i \in Nat /\ i < n /\ journal'[i] = journal[i]
      /\ \A l \in Lines, i \in Rows :
           (IsState(i, l)' <=> IsState(i, l))
           /\ (SlotFrom(i, l)' <=> SlotFrom(i, l)) /\ (TakeFrom(i, l)' <=> TakeFrom(i, l))
  <2>1. TypeOK BY DEF IInv
  <2>2. journal' = Append(journal, row) OBVIOUS
  <2>. QED BY ONLY <1>0, <2>1, <2>2, Grown
<1>2. /\ written[w] \in Nat /\ written'[w] = written[w] + 1
      /\ \A v \in Writers : v # w => written'[v] = written[v]
      /\ \A v \in Writers : written[v] \in Nat /\ written[v] <= written'[v]
  BY DEF IInv, TypeOK
<1>3. /\ row.line \in Lines /\ Position(w, row.line) = written[w] + 1
      /\ row.id = w /\ row.version = version[w]
      /\ w \notin Rerenders => row.slot = w
      /\ w \in Edits => row.line = line[w] /\ row.take = base[w].take
      /\ w \notin Edits => row.take = w
  <2>1. TypeOK /\ RowsOf(w) \in Seq(PlainRow) BY RowsArePlain DEF IInv, Control
  <2>2. Len(RowsOf(w)) \in Nat BY <2>1
  <2>3. written[w] + 1 \in 1 .. Len(RowsOf(w)) BY <1>2, <2>2
  <2>. QED BY <2>1, <2>3, SnapshotRow
<1>4. PICK l \in Lines : l = row.line BY <1>3
<1>5. IsState(n, l)' /\ \A m \in Lines : IsState(n, m)' => m = l
  BY <1>1, <1>4 DEF IsState
<1>6. \A m \in Lines, i \in Rows' :
        IsState(i, m)' => \/ i \in Rows /\ IsState(i, m) /\ journal'[i] = journal[i]
                          \/ i = n /\ m = l
  BY <1>1, <1>5
<1>7. \A c \in Commits : c \in Commits' /\ journal'[c] = journal[c]
  BY <1>1 DEF Commits, CommitsIn, Rows
<1>8. faults' = 0 => faults = 0 BY DEF IInv, TypeOK
<1>9. PICK c \in Commits : journal[c].id = w /\ journal[c].version = version[w]
  BY DEF HInv, Snapshots, Committed
<1>10. \A i \in Rows : IsState(i, l) => journal[i].id # w
  <2>1. SUFFICES ASSUME NEW i \in Rows, IsState(i, l), journal[i].id = w PROVE FALSE
    OBVIOUS
  <2>2. Position(w, l) <= written[w] BY <2>1 DEF HInv, Snapshots, Authored
  <2>. QED BY <1>2, <1>3, <1>4, <2>2
<1>11. Authored'
  <2>1. ASSUME NEW m \in Lines, NEW i \in Rows', IsState(i, m)'
        PROVE  /\ Position(journal'[i].id, m) <= written'[journal'[i].id]
               /\ \E d \in Commits' :
                    journal'[d].id = journal'[i].id /\ journal'[d].version = journal'[i].version
    <3>1. CASE i \in Rows /\ IsState(i, m) /\ journal'[i] = journal[i]
      <4>1. Position(journal[i].id, m) <= written[journal[i].id]
        BY <3>1 DEF HInv, Snapshots, Authored
      <4>2. PICK d \in Commits : journal[d].id = journal[i].id /\ journal[d].version = journal[i].version
        BY <3>1 DEF HInv, Snapshots, Authored
      <4>3. journal[i].id \in Writers BY <3>1, StateFields DEF IInv
      <4>4. Position(journal[i].id, m) \in Nat
        BY CountsAssumption DEF Position, Lines
      <4>5. written[journal[i].id] <= written'[journal[i].id]
            /\ written[journal[i].id] \in Nat /\ written'[journal[i].id] \in Nat
        BY <1>2, <4>3 DEF IInv, TypeOK
      <4>6. Position(journal[i].id, m) <= written'[journal[i].id] BY <4>1, <4>4, <4>5
      <4>. QED BY <1>7, <3>1, <4>2, <4>6
    <3>2. CASE i = n /\ m = l
      <4>1. written[w] + 1 <= written'[w] BY <1>2
      <4>2. journal'[i].id = w /\ journal'[i].version = version[w] BY <1>1, <1>3, <3>2
      <4>3. Position(w, m) <= written'[w] BY <1>3, <1>4, <3>2, <4>1
      <4>. QED BY <1>7, <1>9, <4>2, <4>3
    <3>. QED BY <1>6, <2>1, <3>1, <3>2
  <2>. QED BY <2>1 DEF Authored, Position
<1>12. Committed'
  <2>1. ASSUME NEW v \in Writers, pc'[v] = "rows" PROVE v = w
    BY <2>1, OnlyTheHolder
  <2>2. ASSUME NEW m \in Lines, NEW i \in Rows', IsState(i, m)'
        PROVE  journal'[i].id = w \/ journal'[i].version < version[w]
    <3>1. CASE i \in Rows /\ IsState(i, m) /\ journal'[i] = journal[i]
      BY <3>1 DEF HInv, Snapshots, Committed
    <3>2. CASE i = n BY <1>1, <1>3, <3>2
    <3>. QED BY <1>6, <2>2, <3>1, <3>2
  <2>3. \E d \in Commits' : journal'[d].id = w /\ journal'[d].version = version'[w]
    BY <1>7, <1>9
  <2>. QED BY <2>1, <2>2, <2>3 DEF Committed
<1>13. Ordered'
  <2>1. ASSUME NEW m \in Lines, NEW i \in Rows', NEW j \in Rows', IsState(i, m)', IsState(j, m)', i < j
        PROVE  journal'[i].version < journal'[j].version
    <3>1. i # n
      <4>1. j \in Nat /\ (j < n \/ j = n) BY <1>1
      <4>. QED BY <1>1, <2>1, <4>1
    <3>2. i \in Rows /\ IsState(i, m) /\ journal'[i] = journal[i] BY <1>6, <2>1, <3>1
    <3>3. CASE j \in Rows /\ IsState(j, m) /\ journal'[j] = journal[j]
      BY <2>1, <3>2, <3>3 DEF HInv, Snapshots, Ordered
    <3>4. CASE j = n /\ m = l
      <4>1. journal[i].id # w BY <1>10, <3>2, <3>4
      <4>2. journal[i].version < version[w]
        BY <3>2, <4>1 DEF HInv, Snapshots, Committed
      <4>. QED BY <1>1, <1>3, <3>2, <3>4, <4>2
    <3>. QED BY <1>6, <2>1, <3>3, <3>4
  <2>. QED BY <2>1 DEF Ordered
<1>14. Prompt' BY DEF Prompt
<1>15. HeadHeld'
  <2>1. \A v \in Writers : pc'[v] # "editTimeline" BY OnlyTheHolder
  <2>. QED BY <2>1 DEF HeadHeld
<1>16. Fresh'
  <2>1. ASSUME NEW v \in Edits, Copying(v)' PROVE FALSE
    <3>1. v = w BY <2>1, OnlyTheHolder DEF Copying, Writers
    <3>2. Position(w, row.line) = 2 BY <3>1 DEF Position
    <3>3. written'[w] = 2 BY <1>2, <1>3, <3>2
    <3>. QED BY <2>1, <3>1, <3>3 DEF Copying
  <2>. QED BY <2>1 DEF Fresh
<1>17. Copied'
  <2>1. SUFFICES ASSUME Undisturbed', NEW m \in Lines, NEW i \in Rows', IsState(i, m)'
                 PROVE  SlotFrom(i, m)' /\ TakeFrom(i, m)'
    BY DEF Copied
  <2>2. w \notin Rerenders BY <1>2, <2>1 DEF Undisturbed
  <2>3. Undisturbed
    <3>1. \A v \in Writers : written'[v] = 0 => written[v] = 0 BY <1>2
    <3>2. \A v \in Writers : pc'[v] # "done" => pc[v] # "done" OBVIOUS
    <3>. QED BY <1>8, <2>1, <3>1, <3>2 DEF Undisturbed, Writers
  <2>4. CASE i \in Rows /\ IsState(i, m)
    BY <1>1, <2>3, <2>4 DEF HInv, Copies, Copied
  <2>5. CASE i = n /\ m = l
    <3>1. n <= n /\ \A k \in Rows' : k <= n
      <4>1. \A k \in Rows : k <= n BY <1>1
      <4>2. n <= n BY <1>1
      <4>. QED BY <1>1, <4>1, <4>2
    <3>2. SetsSlot(n, l)' BY <1>1, <1>3, <1>5, <2>2 DEF SetsSlot
    <3>3. SlotFrom(n, l)'
      <4>1. journal'[n].id = journal'[n].slot BY <1>1, <1>3, <2>2
      <4>. QED BY <1>1, <3>1, <3>2, <4>1 DEF SlotFrom
    <3>4. CASE w \notin Edits
      <4>1. SetsTake(n, l)' BY <1>1, <1>3, <1>5, <3>4 DEF SetsTake
      <4>2. journal'[n].id = journal'[n].take BY <1>1, <1>3, <3>4
      <4>3. TakeFrom(n, l)' BY <1>1, <3>1, <4>1, <4>2 DEF TakeFrom
      <4>. QED BY <2>5, <3>3, <4>3
    <3>5. CASE w \in Edits
      <4>1. Position(w, row.line) = 2 BY <3>5 DEF Position
      <4>2. written[w] = 1 BY <1>2, <1>3, <4>1
      <4>3. Copying(w) BY <4>2 DEF Copying
      <4>4. PICK b \in Rows : LastState(b, l) /\ journal[b].take = row.take
        BY <1>3, <1>4, <2>3, <3>5, <4>3 DEF Undisturbed, HInv, Copies, Fresh
      <4>5. PICK j \in Rows : /\ j <= b /\ SetsTake(j, l) /\ journal[j].id = journal[b].take
                              /\ \A k \in Rows : SetsTake(k, l) /\ k <= b => k <= j
        BY <2>3, <4>4 DEF HInv, Copies, Copied, TakeFrom, LastState
      <4>6. journal[j].id # w BY <1>10, <4>5 DEF SetsTake
      <4>7. ~ SetsTake(n, l)' BY <1>1, <1>3, <4>4, <4>5, <4>6 DEF SetsTake
      <4>8. SetsTake(j, l)' /\ journal'[j].id = row.take /\ j <= n
        <5>1. j \in Nat /\ j < n /\ journal'[j] = journal[j] /\ (IsState(j, l)' <=> IsState(j, l))
          BY <1>1
        <5>2. SetsTake(j, l)' BY <4>5, <5>1 DEF SetsTake
        <5>. QED BY <1>1, <4>4, <4>5, <5>1, <5>2
      <4>9. ASSUME NEW k \in Rows', SetsTake(k, l)' PROVE k <= j
        <5>1. k \in Rows /\ IsState(k, l) /\ SetsTake(k, l)
          BY <1>1, <4>7, <4>9 DEF SetsTake
        <5>2. k <= b BY <4>4, <5>1 DEF LastState
        <5>. QED BY <4>5, <5>1, <5>2
      <4>10. j \in Rows' BY <1>1
      <4>11. TakeFrom(n, l)'
        <5>1. journal'[j].id = journal'[n].take BY <1>1, <4>8
        <5>. QED BY <4>8, <4>9, <4>10, <5>1 DEF TakeFrom
      <4>. QED BY <2>5, <3>3, <4>11
    <3>. QED BY <3>4, <3>5
  <2>. QED BY <1>6, <2>1, <2>4, <2>5
<1>. QED BY <1>11, <1>12, <1>13, <1>14, <1>15, <1>16, <1>17 DEF HInv, Snapshots, Copies
-----------------------------------------------------------------------------
\* An early return before anything is written, or an error of EnqueueJSON
\* that leaves the row out of the queue.
LEMMA NothingAppended ==
  ASSUME IInv, IInv', HInv, NEW w \in Writers, pc[w] \in {"append", "rows"},
         UNCHANGED <<journal, delivered, head, version, line, base>>, faults <= faults',
         pc'[w] = "failed", \A v \in Writers : v # w => pc'[v] = pc[v] /\ written'[v] = written[v],
         written[w] <= written'[w]
  PROVE  HInv'
<1>1. \A v \in Writers : written[v] <= written'[v]
  <2>1. TAKE v \in Writers
  <2>2. written[v] \in Nat BY DEF IInv, TypeOK
  <2>. QED BY <2>2
<1>2. \A v \in Writers : /\ pc[v] = "done" => pc'[v] = "done"
                         /\ pc'[v] = "rows" => pc[v] = "rows"
                         /\ pc'[v] = "editTimeline" => pc[v] = "editTimeline"
  OBVIOUS
<1>3. \A v \in Edits : Copying(v)' => Copying(v)
  BY <1>2 DEF Copying, Writers
<1>. QED BY <1>1, <1>2, <1>3, QuietHistory

\* The commit row of persist and RecordEdit.
LEMMA AppendCommitCopies ==
  ASSUME IInv, IInv', HInv, NEW w \in Writers, AppendCommit(w)
  PROVE  HInv'
<1>. DEFINE row == [kind |-> "commit", id |-> w, parent |-> head[w], version |-> version[w]]
<1>1. pc[w] = "append" /\ UNCHANGED <<head, version, line, base, written>>
  BY DEF AppendCommit, readVars
<1>2. row.kind = "commit" /\ row.id = w /\ row.version = version[w] OBVIOUS
<1>3. \/ Write(w, row, "rows")
      \/ Fail(w) /\ UNCHANGED <<journal, delivered, faults>>
  BY DEF AppendCommit
<1>4. \A v \in Writers : written[v] \in Nat /\ written[v] <= written'[v]
  BY <1>1 DEF IInv, TypeOK
<1>. HIDE DEF row
<1>5. /\ pc'[w] \in {"rows", "failed"}
      /\ \A v \in Writers : v # w => pc'[v] = pc[v]
      /\ faults <= faults'
  BY <1>3 DEF Write, Fail, Go, Fault, FlushStopped, IInv, TypeOK
<1>6. CASE journal' = Append(journal, row)
  <2>1. faults' = 0 => delivered' = Len(journal')
    <3>1. Len(Append(journal, row)) = Len(journal) + 1 BY DEF IInv, TypeOK
    <3>2. Append(journal, row) # journal BY <3>1 DEF IInv, TypeOK
    <3>3. Flushed(Len(journal) + 1) \/ Fault BY <1>3, <1>6, <3>2 DEF Write, FlushStopped
    <3>. QED BY <1>6, <3>1, <3>3 DEF Flushed, Fault, IInv, TypeOK
  <2>2. Copying(w) BY <1>1 DEF Copying
  <2>. QED BY <1>1, <1>2, <1>4, <1>5, <1>6, <2>1, <2>2, PlainAppend
<1>7. CASE journal' # Append(journal, row)
  <2>1. pc'[w] = "failed" /\ UNCHANGED <<journal, delivered>>
    BY <1>3, <1>7 DEF Write, Fail, Go, IInv, TypeOK
  <2>. QED BY <1>1, <1>4, <1>5, <2>1, NothingAppended
<1>. QED BY <1>6, <1>7

\* Each row after it.
LEMMA WriteRowCopies ==
  ASSUME IInv, IInv', HInv, NEW w \in Writers, WriteRow(w)
  PROVE  HInv'
<1>0. PICK row : row = RowsOf(w)[written[w] + 1] OBVIOUS
<1>1. /\ pc[w] = "rows" /\ UNCHANGED <<head, version, line, base>>
      /\ written[w] < Len(RowsOf(w)) /\ written' = [written EXCEPT ![w] = @ + 1]
      /\ Write(w, row, "rows")
  BY <1>0 DEF WriteRow, readVars
<1>2. /\ written[w] \in Nat /\ written'[w] = written[w] + 1
      /\ \A v \in Writers : v # w => written'[v] = written[v]
      /\ \A v \in Writers : written[v] \in Nat /\ written[v] <= written'[v]
  BY <1>1 DEF IInv, TypeOK
<1>3. /\ pc'[w] \in {"rows", "failed"}
      /\ \A v \in Writers : v # w => pc'[v] = pc[v]
      /\ faults <= faults'
  BY <1>1 DEF Write, Fail, Go, Fault, FlushStopped, IInv, TypeOK
<1>4. CASE journal' = Append(journal, row)
  <2>1. faults' = 0 => delivered' = Len(journal')
    <3>1. Len(Append(journal, row)) = Len(journal) + 1 BY DEF IInv, TypeOK
    <3>2. Append(journal, row) # journal BY <3>1 DEF IInv, TypeOK
    <3>3. Flushed(Len(journal) + 1) \/ Fault BY <1>1, <1>4, <3>2 DEF Write, FlushStopped
    <3>. QED BY <1>4, <3>1, <3>3 DEF Flushed, Fault, IInv, TypeOK
  <2>2. CASE row.kind = "state"
    BY <1>0, <1>1, <1>3, <1>4, <2>1, <2>2, StateAppend
  <2>3. CASE row.kind # "state"
    <3>1. Copying(w)' => Copying(w) BY <1>1, <1>2, <1>3 DEF Copying
    <3>. QED BY <1>1, <1>2, <1>3, <1>4, <2>1, <2>3, <3>1, PlainAppend
  <2>. QED BY <2>2, <2>3
<1>5. CASE journal' # Append(journal, row)
  <2>1. pc'[w] = "failed" /\ UNCHANGED <<journal, delivered>>
    BY <1>1, <1>5 DEF Write, Fail, Go, IInv, TypeOK
  <2>. QED BY <1>1, <1>2, <1>3, <2>1, NothingAppended
<1>. QED BY <1>4, <1>5

\* Every step keeps it, and it holds of an empty journal.
LEMMA NextHInv == IInv /\ IInv' /\ HInv /\ [Next]_vars => HInv'
<1>. SUFFICES ASSUME IInv, IInv', HInv, [Next]_vars PROVE HInv' OBVIOUS
<1>. QED
  BY QuietSteps, EditReadHeadCopies, EditDeriveCopies, AppendCommitCopies, WriteRowCopies
  DEF Next, WriterStep

LEMMA InitHInv == Init => HInv
<1>. SUFFICES ASSUME Init PROVE HInv OBVIOUS
<1>1. Rows = {} /\ Commits = {} BY DEF Init, Rows, Commits, CommitsIn
<1>2. Snapshots
  BY <1>1 DEF Init, Snapshots, Authored, Committed, Ordered, Prompt
<1>3. Copies
  BY <1>1 DEF Init, Copies, HeadHeld, Fresh, Copied, Copying, Writers
<1>. QED BY <1>2, <1>3 DEF HInv

\* The snapshot of the highest version among some of a line is the last one.
LEMMA NewestIsLast ==
  ASSUME IInv, HInv, NEW l \in Lines, NEW S, \A i \in S : IsState(i, l),
         NEW j \in S, \A i \in S : i <= j
  PROVE  Newest(S) = j
<1>1. \A i \in S : i \in Rows /\ i \in Nat /\ journal[i].version \in Nat
  BY StateFields DEF IInv
<1>2. \A i \in S : i # j => journal[i].version < journal[j].version
  <2>1. TAKE i \in S
  <2>2. i # j => i < j BY <1>1
  <2>. QED BY <1>1, <2>2 DEF HInv, Snapshots, Ordered
<1>3. \A i \in S : journal[i].version <= journal[j].version BY <1>1, <1>2
<1>4. ASSUME NEW k \in S, \A i \in S : journal[i].version <= journal[k].version
      PROVE  k = j
  BY <1>1, <1>2, <1>4
<1>. QED BY <1>3, <1>4 DEF Newest

\* A line that has a snapshot has a last one.
LEMMA LastStateExists ==
  ASSUME IInv, NEW l \in Lines, NEW m, IsState(m, l)
  PROVE  \E i \in Rows : LastState(i, l)
<1>. DEFINE N == Len(journal)
            Left == {k \in Nat : \E i \in Rows : k = N - i /\ IsState(i, l)}
<1>1. \A i \in Rows : i \in Nat /\ N - i \in Nat BY DEF Rows, IInv, TypeOK
<1>2. N - m \in Left BY <1>1 DEF IsState
<1>3. PICK k \in Left : \A y \in Left : k <= y
  <2>1. Left \subseteq Nat OBVIOUS
  <2>. HIDE DEF Left
  <2>. QED BY <1>2, <2>1, LeastOf
<1>4. PICK i \in Rows : k = N - i /\ IsState(i, l) BY <1>3
<1>5. ASSUME NEW j \in Rows, IsState(j, l) PROVE j <= i
  <2>1. N - i <= N - j BY <1>1, <1>3, <1>4, <1>5
  <2>2. N \in Nat /\ i \in Nat /\ j \in Nat BY <1>1 DEF IInv, TypeOK
  <2>. HIDE DEF N
  <2>. QED BY <2>1, <2>2
<1>. QED BY <1>4, <1>5 DEF LastState

\* So the newest snapshot of a line has what was last set.
LEMMA HeadKeeps == IInv /\ HInv => EditsKeepEveryCommit
<1>. SUFFICES ASSUME IInv, HInv, Undisturbed PROVE HeadKeepsEveryCommit
  BY DEF EditsKeepEveryCommit, Undisturbed
<1>1. SUFFICES ASSUME NEW l \in Lines, NEW m \in 1 .. Len(journal),
                      journal[m].kind = "state" /\ journal[m].line = l
               PROVE  LET States == {i \in 1 .. Len(journal) :
                                       journal[i].kind = "state" /\ journal[i].line = l}
                          SlotSetters == {i \in States : journal[i].slot = journal[i].id}
                          TakeSetters == {i \in States : journal[i].take = journal[i].id}
                      IN  /\ journal[Newest(States)].slot = journal[Newest(SlotSetters)].id
                          /\ journal[Newest(States)].take = journal[Newest(TakeSetters)].id
  BY DEF HeadKeepsEveryCommit
<1>. DEFINE States == {i \in 1 .. Len(journal) : journal[i].kind = "state" /\ journal[i].line = l}
            SlotSetters == {i \in States : journal[i].slot = journal[i].id}
            TakeSetters == {i \in States : journal[i].take = journal[i].id}
<1>2. \A i : /\ i \in States <=> IsState(i, l)
             /\ i \in SlotSetters <=> SetsSlot(i, l)
             /\ i \in TakeSetters <=> SetsTake(i, l)
  BY DEF IsState, SetsSlot, SetsTake, Rows
<1>3. PICK i \in Rows : LastState(i, l)
  BY <1>1, LastStateExists DEF IsState, Rows
<1>4. SlotFrom(i, l) /\ TakeFrom(i, l)
  BY <1>3 DEF HInv, Copies, Copied, LastState
<1>5. PICK s \in Rows : /\ s <= i /\ SetsSlot(s, l) /\ journal[s].id = journal[i].slot
                        /\ \A k \in Rows : SetsSlot(k, l) /\ k <= i => k <= s
  BY <1>4 DEF SlotFrom
<1>6. PICK t \in Rows : /\ t <= i /\ SetsTake(t, l) /\ journal[t].id = journal[i].take
                        /\ \A k \in Rows : SetsTake(k, l) /\ k <= i => k <= t
  BY <1>4 DEF TakeFrom
<1>7. \A k \in States : k \in Rows /\ k <= i /\ IsState(k, l)
  BY <1>2, <1>3 DEF LastState, IsState
<1>8. i \in States BY <1>2, <1>3 DEF LastState
<1>9. s \in SlotSetters /\ \A k \in SlotSetters : k \in States /\ k <= s
  BY <1>2, <1>5, <1>7
<1>10. t \in TakeSetters /\ \A k \in TakeSetters : k \in States /\ k <= t
  BY <1>2, <1>6, <1>7
<1>. HIDE DEF States, SlotSetters, TakeSetters
<1>11. Newest(States) = i BY <1>7, <1>8, NewestIsLast
<1>12. Newest(SlotSetters) = s BY <1>7, <1>9, NewestIsLast
<1>13. Newest(TakeSetters) = t BY <1>7, <1>10, NewestIsLast
<1>14. /\ journal[Newest(States)].slot = journal[Newest(SlotSetters)].id
       /\ journal[Newest(States)].take = journal[Newest(TakeSetters)].id
  BY <1>5, <1>6, <1>11, <1>12, <1>13
<1>. QED BY <1>14 DEF States, SlotSetters, TakeSetters

\* Edits and runs undo nothing of each other, for any number of them and of
\* lines, as long as no call failed and no re-render wrote: the head an edit
\* is derived from under the dub lock is the head its commit follows
\* (mutations.go EditsHandler, main.go RecordEdit).
THEOREM EditsKeepTheHistory == Spec => []EditsKeepEveryCommit
<1>. QED BY InitHInv, NextHInv, HeadKeeps, Invariance, PTL DEF Spec
=============================================================================
