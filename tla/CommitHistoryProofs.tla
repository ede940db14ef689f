------------------------ MODULE CommitHistoryProofs ------------------------
(***************************************************************************)
(* Proofs about CommitHistory, for any number of callers, identities,      *)
(* appends and snapshots and any number of faults: the state is well       *)
(* typed, a commit that ClickHouse shows is never replaced, and the view   *)
(* and the replay have the same timeline at every commit.                  *)
(*                                                                         *)
(* The argument for the second: of the callers who append one identity at  *)
(* most one is past the gate, so what it found in the queue and in         *)
(* ClickHouse stays true until it enqueues its row. An identity is thus    *)
(* enqueued once. For the third: the parent a caller found stays, so the   *)
(* history is acyclic with versions that grow from parent to child, and on *)
(* such a history the two recursions go through the same commits.          *)
(***************************************************************************)
EXTENDS CommitHistory, SequenceTheorems, FiniteSetTheorems, WellFoundedInduction, TLAPS

\* Who uses a lock object is counted in it and finds it in the registry; who
\* holds it is its owner.
Gate ==
  \A c \in Callers :
    /\ pc[c] \in Using => /\ want[c] \in Appends
                          /\ c \in refs[lock[c]]
                          /\ registry[want[c].id] = lock[c]
    /\ pc[c] \in Holding => owner[lock[c]] = c

\* A queued snapshot is one that was recorded.
QueuedSnapshots ==
  \A i \in 1 .. Len(queue) : queue[i].kind = "state" => Snapshot(queue[i]) \in Snapshots

\* An identity is queued once, and if ClickHouse shows it already, as the row
\* that is queued.
QueuedCommits ==
  \A i \in 1 .. Len(queue) : queue[i].kind = "commit" =>
    /\ \A j \in 1 .. Len(queue) :
         queue[j].kind = "commit" /\ queue[j].id = queue[i].id => i = j
    /\ \A row \in commits : row.id = queue[i].id => row = queue[i]

\* What the caller past the gate has looked up is still so.
Checked ==
  \A c \in Callers :
    /\ pc[c] \in {"stored", "parent", "enqueue"} => ~ Queued(want[c].id)
    /\ pc[c] \in {"parent", "enqueue"} => ~ Stored(want[c].id)

IInv == TypeOK /\ Gate /\ QueuedSnapshots /\ QueuedCommits /\ Checked

-----------------------------------------------------------------------------
(***************************************************************************)
(* Of the callers of one identity at most one is past the gate.            *)
(***************************************************************************)
LEMMA OneHolder ==
  ASSUME IInv, NEW c \in Callers, NEW d \in Callers,
         pc[c] \in Holding, pc[d] \in Holding, want[c].id = want[d].id
  PROVE  c = d
BY DEF IInv, Gate, Using

LEMMA Types ==
  /\ \A row \in CommitRow : row.kind = "commit" /\ row.id \in Identities
  /\ \A row \in StateRow : row.kind = "state" /\ row.id \in Identities
  /\ \A a \in Appends : a.id \in Identities
BY AppendsAssumption DEF CommitRow, StateRow

\* The rows only depend on the ledger.
LEMMA LedgerUnchanged ==
  ASSUME IInv, UNCHANGED ledgerVars
  PROVE  QueuedSnapshots' /\ QueuedCommits'
BY DEF IInv, QueuedSnapshots, QueuedCommits, Snapshot, ledgerVars

\* A caller that goes from one step past the gate to another.
LEMMA StepPastGate ==
  ASSUME IInv, NEW c \in Callers, pc[c] \in Holding, NEW s \in Holding, Go(c, s),
         UNCHANGED <<gateVars, want, lock>>
  PROVE  Gate' /\ pc' \in [Callers -> Steps]
<1>1. UNCHANGED <<registry, refs, owner, want, lock>> BY DEF gateVars
<1>2. pc' = [pc EXCEPT ![c] = s] /\ pc \in [Callers -> Steps] /\ s \in Steps /\ s \in Using
  BY DEF Go, IInv, TypeOK, Holding, Using, Steps
<1>3. Gate'
  <2>1. pc[c] \in Using BY DEF Using
  <2>. QED BY <1>1, <1>2, <2>1 DEF IInv, Gate
<1>. QED BY <1>2, <1>3

-----------------------------------------------------------------------------
(***************************************************************************)
(* The gate.                                                               *)
(***************************************************************************)
LEMMA RefuseStep == ASSUME IInv, NEW c \in Callers, Refuse(c) PROVE IInv'
<1>1. /\ UNCHANGED <<registry, refs, owner, want, lock, queue, commits, states, recorded, faults>>
      /\ pc' = [pc EXCEPT ![c] = "done"]
  BY DEF Refuse, Go, gateVars, ledgerVars
<1>2. TypeOK' BY <1>1 DEF IInv, TypeOK, Steps
<1>3. Gate' BY <1>1 DEF IInv, TypeOK, Gate, Using, Holding
<1>4. QueuedSnapshots' /\ QueuedCommits' BY <1>1, LedgerUnchanged DEF ledgerVars
<1>5. Checked' BY <1>1 DEF IInv, TypeOK, Checked, Queued, Stored
<1>. QED BY <1>2, <1>3, <1>4, <1>5 DEF IInv

\* The first caller registers a lock object nobody finds before it does, the
\* next ones find that object.
LEMMA JoinStep ==
  ASSUME IInv, NEW c \in Callers, NEW a \in Appends, Join(c, a) PROVE IInv'
<1>. DEFINE object == IF registry[a.id] = None THEN c ELSE registry[a.id]
<1>1. /\ want' = [want EXCEPT ![c] = a]
      /\ registry' = [registry EXCEPT ![a.id] = object]
      /\ refs' = [refs EXCEPT ![object] = @ \union {c}]
      /\ lock' = [lock EXCEPT ![c] = object]
      /\ pc' = [pc EXCEPT ![c] = "waiting"]
      /\ pc[c] = "idle"
      /\ UNCHANGED <<owner, queue, commits, states, recorded, faults>>
  BY DEF Join, Go, ledgerVars
<1>2. a.id \in Identities BY Types
<1>3. object \in Callers BY <1>2 DEF IInv, TypeOK
<1>4. registry[a.id] # None => object = registry[a.id] OBVIOUS
<1>. HIDE DEF object
<1>5. TypeOK' BY <1>1, <1>2, <1>3 DEF IInv, TypeOK, Steps
<1>6. Gate'
  <2>1. SUFFICES ASSUME NEW d \in Callers
                 PROVE  /\ pc'[d] \in Using => /\ want'[d] \in Appends
                                               /\ d \in refs'[lock'[d]]
                                               /\ registry'[want'[d].id] = lock'[d]
                        /\ pc'[d] \in Holding => owner[lock'[d]] = d
    BY <1>1 DEF Gate
  <2>2. CASE d = c
    <3>1. want'[d] = a /\ lock'[d] = object /\ pc'[d] = "waiting"
          /\ registry'[a.id] = object /\ c \in refs'[object]
      BY <1>1, <1>2, <1>3, <2>2 DEF IInv, TypeOK
    <3>. QED BY <2>2, <3>1 DEF Holding
  <2>3. CASE d # c
    <3>1. want'[d] = want[d] /\ lock'[d] = lock[d] /\ pc'[d] = pc[d] /\ lock[d] \in Callers
      BY <1>1, <2>3 DEF IInv, TypeOK
    <3>2. refs[lock[d]] \subseteq refs'[lock[d]] BY <1>1, <3>1 DEF IInv, TypeOK
    <3>3. ASSUME pc[d] \in Using PROVE registry'[want[d].id] = lock[d]
      <4>1. want[d] \in Appends /\ registry[want[d].id] = lock[d] BY <3>3 DEF IInv, Gate
      <4>2. want[d].id \in Identities BY <4>1, Types
      <4>3. lock[d] # None BY <3>1, NoneAssumption
      <4>. QED BY <1>1, <1>2, <1>4, <4>1, <4>2, <4>3 DEF IInv, TypeOK
    <3>. QED BY <3>1, <3>2, <3>3 DEF IInv, Gate
  <2>. QED BY <2>2, <2>3
<1>7. QueuedSnapshots' /\ QueuedCommits' BY <1>1, LedgerUnchanged DEF ledgerVars
<1>8. Checked' BY <1>1 DEF IInv, TypeOK, Checked, Queued, Stored
<1>. QED BY <1>5, <1>6, <1>7, <1>8 DEF IInv

LEMMA AcquireStep == ASSUME IInv, NEW c \in Callers, Acquire(c) PROVE IInv'
<1>1. /\ owner' = [owner EXCEPT ![lock[c]] = c]
      /\ pc' = [pc EXCEPT ![c] = "queue"]
      /\ pc[c] = "waiting" /\ owner[lock[c]] = None
      /\ UNCHANGED <<registry, refs, want, lock, queue, commits, states, recorded, faults>>
  BY DEF Acquire, Go, ledgerVars
<1>2. TypeOK' BY <1>1 DEF IInv, TypeOK, Steps
<1>3. Gate'
  <2>1. \A d \in Callers : pc[d] \in Holding => lock[d] # lock[c]
    BY <1>1, NoneAssumption DEF IInv, Gate
  <2>. QED BY <1>1, <2>1 DEF IInv, TypeOK, Gate, Using, Holding
<1>4. QueuedSnapshots' /\ QueuedCommits' BY <1>1, LedgerUnchanged DEF ledgerVars
<1>5. Checked' BY <1>1 DEF IInv, TypeOK, Checked, Queued, Stored
<1>. QED BY <1>2, <1>3, <1>4, <1>5 DEF IInv

LEMMA UnlockStep == ASSUME IInv, NEW c \in Callers, Unlock(c) PROVE IInv'
<1>1. /\ owner' = [owner EXCEPT ![lock[c]] = None]
      /\ pc' = [pc EXCEPT ![c] = "leave"]
      /\ pc[c] = "unlock"
      /\ UNCHANGED <<registry, refs, want, lock, queue, commits, states, recorded, faults>>
  BY DEF Unlock, Go, ledgerVars
<1>2. TypeOK' BY <1>1 DEF IInv, TypeOK, Steps
<1>3. Gate'
  <2>1. \A d \in Callers : d # c /\ pc[d] \in Holding => lock[d] # lock[c]
    BY <1>1 DEF IInv, Gate, Holding
  <2>. QED BY <1>1, <2>1 DEF IInv, TypeOK, Gate, Using, Holding
<1>4. QueuedSnapshots' /\ QueuedCommits' BY <1>1, LedgerUnchanged DEF ledgerVars
<1>5. Checked' BY <1>1 DEF IInv, TypeOK, Checked, Queued, Stored
<1>. QED BY <1>2, <1>3, <1>4, <1>5 DEF IInv

\* The lock object of an identity is deleted only when nobody else uses it.
LEMMA LeaveStep == ASSUME IInv, NEW c \in Callers, Leave(c) PROVE IInv'
<1>1. /\ refs' = [refs EXCEPT ![lock[c]] = @ \ {c}]
      /\ registry' = IF refs[lock[c]] = {c} THEN [registry EXCEPT ![want[c].id] = None]
                     ELSE registry
      /\ pc' = [pc EXCEPT ![c] = "done"]
      /\ pc[c] = "leave"
      /\ UNCHANGED <<owner, want, lock, queue, commits, states, recorded, faults>>
  BY DEF Leave, Go, ledgerVars
<1>2. TypeOK' BY <1>1 DEF IInv, TypeOK, Steps
<1>3. Gate'
  <2>1. SUFFICES ASSUME NEW d \in Callers, d # c, pc[d] \in Using
                 PROVE  d \in refs'[lock[d]] /\ registry'[want[d].id] = lock[d]
    BY <1>1 DEF IInv, TypeOK, Gate, Using, Holding
  <2>2. want[d] \in Appends /\ d \in refs[lock[d]] /\ registry[want[d].id] = lock[d]
        /\ lock[d] \in Callers
    BY <2>1 DEF IInv, TypeOK, Gate
  <2>3. d \in refs'[lock[d]] BY <1>1, <2>1, <2>2 DEF IInv, TypeOK
  <2>4. want[c].id = want[d].id => refs[lock[c]] # {c}
    <3>1. pc[c] \in Using BY <1>1 DEF Using
    <3>2. registry[want[c].id] = lock[c] BY <3>1 DEF IInv, Gate
    <3>. QED BY <2>1, <2>2, <3>2
  <2>5. registry'[want[d].id] = lock[d] BY <1>1, <2>2, <2>4, Types DEF IInv, TypeOK
  <2>. QED BY <2>3, <2>5
<1>4. QueuedSnapshots' /\ QueuedCommits' BY <1>1, LedgerUnchanged DEF ledgerVars
<1>5. Checked' BY <1>1 DEF IInv, TypeOK, Checked, Queued, Stored
<1>. QED BY <1>2, <1>3, <1>4, <1>5 DEF IInv

-----------------------------------------------------------------------------
(***************************************************************************)
(* AppendCommit.                                                           *)
(***************************************************************************)
\* The checks, and the ends of a call.
LEMMA CheckStep ==
  ASSUME IInv, NEW c \in Callers,
         CheckQueue(c) \/ CheckStored(c) \/ CheckParent(c) \/ AppendFails(c) \/ FlushEnds(c)
  PROVE  IInv'
<1>1. PICK s \in {"stored", "parent", "enqueue", "unlock"} :
        /\ Go(c, s)
        /\ s = "stored" => ~ Queued(want[c].id)
        /\ s = "parent" => pc[c] = "stored" /\ ~ Stored(want[c].id)
        /\ s = "enqueue" => pc[c] = "parent"
  BY DEF CheckQueue, CheckStored, CheckParent, AppendFails, FlushEnds
<1>2. /\ UNCHANGED <<gateVars, want, lock>> /\ UNCHANGED ledgerVars
      /\ pc[c] \in Holding /\ s \in Holding
      /\ faults' \in 0 .. MaxFaults
  BY FaultsAssumption DEF CheckQueue, CheckStored, CheckParent, AppendFails, FlushEnds, Fault,
                          Holding, IInv, TypeOK
<1>3. Gate' /\ pc' \in [Callers -> Steps] BY <1>1, <1>2, StepPastGate
<1>4. TypeOK' BY <1>2, <1>3 DEF IInv, TypeOK, gateVars, ledgerVars
<1>5. QueuedSnapshots' /\ QueuedCommits' BY <1>2, LedgerUnchanged
<1>6. Checked'
  <2>1. pc' = [pc EXCEPT ![c] = s] /\ pc \in [Callers -> Steps] /\ want' = want
    BY <1>1, <1>2 DEF Go, IInv, TypeOK
  <2>2. queue' = queue /\ commits' = commits BY <1>2 DEF ledgerVars
  <2>. QED BY <1>1, <2>1, <2>2 DEF IInv, Checked, Queued, Stored
<1>. QED BY <1>3, <1>4, <1>5, <1>6 DEF IInv

\* The row is new: its identity is neither queued nor stored, and no other
\* caller of that identity is past the gate.
LEMMA EnqueueStep == ASSUME IInv, NEW c \in Callers, Enqueue(c) PROVE IInv'
<1>. DEFINE row == RowOf(c)
            n == Len(queue)
<1>1. /\ queue' = Append(queue, row) /\ Go(c, "flush") /\ pc[c] = "enqueue"
      /\ UNCHANGED <<gateVars, want, lock>>
      /\ UNCHANGED <<registry, refs, owner, commits, states, recorded, faults>>
  BY DEF Enqueue, gateVars
<1>2. pc[c] \in Holding /\ pc[c] \in Using /\ "flush" \in Holding BY <1>1 DEF Holding, Using
<1>3. want[c] \in Appends BY <1>2 DEF IInv, Gate
<1>4. row \in CommitRow /\ row.id = want[c].id /\ row.kind = "commit"
  BY <1>3, AppendsAssumption DEF RowOf, CommitRow
<1>5. ~ Queued(row.id) /\ ~ Stored(row.id) BY <1>1, <1>4 DEF IInv, Checked
<1>6. queue \in Seq(CommitRow \union StateRow) /\ n \in Nat BY DEF IInv, TypeOK
<1>. HIDE DEF row
<1>7. queue' \in Seq(CommitRow \union StateRow) /\ Len(queue') = n + 1 /\ queue'[n + 1] = row
      /\ \A i \in 1 .. n : queue'[i] = queue[i]
  BY <1>1, <1>4, <1>6
<1>. HIDE DEF n
<1>8. Gate' /\ pc' \in [Callers -> Steps] BY <1>1, <1>2, StepPastGate
<1>9. TypeOK' BY <1>1, <1>7, <1>8 DEF IInv, TypeOK
<1>10. \A i \in 1 .. Len(queue') : i \in 1 .. n \/ i = n + 1 BY <1>6, <1>7
<1>11. QueuedSnapshots' BY <1>4, <1>7, <1>10 DEF IInv, QueuedSnapshots, Snapshot, n
<1>12. QueuedCommits'
  <2>1. \A i \in 1 .. n : queue[i].kind = "commit" => queue[i].id # row.id
    BY <1>5 DEF Queued, n
  <2>2. \A other \in commits : other.id # row.id BY <1>5 DEF Stored
  <2>. QED BY <1>1, <1>7, <1>10, <2>1, <2>2 DEF IInv, QueuedCommits, n
<1>13. Checked'
  <2>1. SUFFICES ASSUME NEW d \in Callers, pc'[d] \in {"stored", "parent", "enqueue"}
                 PROVE  /\ ~ Queued(want[d].id)'
                        /\ pc[d] \in {"parent", "enqueue"} => ~ Stored(want[d].id)'
                        /\ pc'[d] = pc[d]
    BY <1>1 DEF Checked
  <2>2. pc' = [pc EXCEPT ![c] = "flush"] /\ pc \in [Callers -> Steps]
    BY <1>1 DEF Go, IInv, TypeOK
  <2>3. d # c /\ pc'[d] = pc[d] BY <2>1, <2>2
  <2>4. pc[d] \in Holding BY <2>1, <2>3 DEF Holding
  <2>5. want[d].id # row.id BY <1>2, <1>4, <2>3, <2>4, OneHolder
  <2>6. ~ Queued(want[d].id) /\ (pc[d] \in {"parent", "enqueue"} => ~ Stored(want[d].id))
    BY <2>1, <2>3 DEF IInv, Checked
  <2>7. ~ Queued(want[d].id)' BY <1>1, <1>7, <1>10, <2>5, <2>6 DEF Queued, n
  <2>. QED BY <1>1, <2>3, <2>6, <2>7 DEF Stored
<1>. QED BY <1>8, <1>9, <1>11, <1>12, <1>13 DEF IInv

-----------------------------------------------------------------------------
(***************************************************************************)
(* Snapshots, delivery and the crash.                                      *)
(***************************************************************************)
LEMMA RecordStep ==
  ASSUME IInv, NEW s \in Snapshots, RecordSegmentState(s) PROVE IInv'
<1>. DEFINE row == [kind |-> "state", id |-> s.id, version |-> s.version]
            n == Len(queue)
<1>1. /\ queue' = Append(queue, row) /\ recorded' = recorded \union {s}
      /\ UNCHANGED <<registry, refs, owner, pc, want, lock, commits, states, faults>>
  BY DEF RecordSegmentState, gateVars
<1>2. row \in StateRow /\ row.kind = "state" /\ Snapshot(row) = s
  BY SnapshotsAssumption DEF StateRow, Snapshot
<1>3. queue \in Seq(CommitRow \union StateRow) /\ n \in Nat BY DEF IInv, TypeOK
<1>. HIDE DEF row
<1>4. queue' \in Seq(CommitRow \union StateRow) /\ Len(queue') = n + 1 /\ queue'[n + 1] = row
      /\ \A i \in 1 .. n : queue'[i] = queue[i]
  BY <1>1, <1>2, <1>3
<1>. HIDE DEF n
<1>5. \A i \in 1 .. Len(queue') : i \in 1 .. n \/ i = n + 1 BY <1>3, <1>4
<1>6. TypeOK' BY <1>1, <1>4 DEF IInv, TypeOK
<1>7. Gate' BY <1>1 DEF IInv, Gate
<1>8. QueuedSnapshots' BY <1>2, <1>4, <1>5 DEF IInv, QueuedSnapshots, Snapshot, n
<1>9. QueuedCommits' BY <1>1, <1>2, <1>4, <1>5 DEF IInv, QueuedCommits, n
<1>10. Checked' BY <1>1, <1>2, <1>4, <1>5 DEF IInv, Checked, Queued, Stored, n
<1>. QED BY <1>6, <1>7, <1>8, <1>9, <1>10 DEF IInv

\* The row at the head of the queue replaces no other row.
LEMMA ApplyStep == ASSUME IInv, Apply PROVE IInv' /\ commits \subseteq commits'
<1>. DEFINE row == Head(queue)
<1>1. /\ queue # <<>>
      /\ \/ /\ row.kind = "commit"
            /\ commits' = {other \in commits : other.id # row.id} \union {row}
            /\ UNCHANGED states
         \/ /\ row.kind # "commit"
            /\ states' = Append(states, Snapshot(row)) /\ UNCHANGED commits
      /\ UNCHANGED <<registry, refs, owner, pc, want, lock, queue, recorded, faults>>
  BY DEF Apply, gateVars
<1>2. queue \in Seq(CommitRow \union StateRow) /\ states \in Seq(Snapshots)
  BY DEF IInv, TypeOK
<1>3. 1 \in 1 .. Len(queue) /\ row = queue[1] /\ row \in CommitRow \union StateRow
  BY <1>1, <1>2
<1>. HIDE DEF row
<1>4. CASE row.kind = "commit"
  <2>1. row \in CommitRow BY <1>3, <1>4, Types
  <2>2. \A other \in commits : other.id = row.id => other = row
    BY <1>3, <1>4 DEF IInv, QueuedCommits
  <2>3. commits' = commits \union {row} BY <1>1, <1>4, <2>2
  <2>4. TypeOK' BY <1>1, <1>4, <2>1, <2>3 DEF IInv, TypeOK
  <2>5. Gate' /\ QueuedSnapshots' BY <1>1 DEF IInv, Gate, QueuedSnapshots, Snapshot
  <2>6. QueuedCommits'
    <3>1. SUFFICES ASSUME NEW i \in 1 .. Len(queue), queue[i].kind = "commit",
                          row.id = queue[i].id
                   PROVE  row = queue[i]
      BY <1>1, <2>3 DEF IInv, QueuedCommits
    <3>. QED BY <1>3, <1>4, <3>1 DEF IInv, QueuedCommits
  <2>7. Checked'
    <3>1. Queued(row.id) BY <1>3, <1>4 DEF Queued
    <3>. QED BY <1>1, <2>3, <3>1 DEF IInv, Checked, Queued, Stored
  <2>. QED BY <2>3, <2>4, <2>5, <2>6, <2>7 DEF IInv
<1>5. CASE row.kind # "commit"
  <2>1. Snapshot(row) \in Snapshots
    <3>1. row.kind = "state" BY <1>3, <1>5, Types
    <3>. QED BY <1>3, <3>1 DEF IInv, QueuedSnapshots
  <2>2. states' \in Seq(Snapshots) BY <1>1, <1>2, <1>5, <2>1
  <2>3. TypeOK' BY <1>1, <1>5, <2>2 DEF IInv, TypeOK
  <2>4. Gate' BY <1>1 DEF IInv, Gate
  <2>5. QueuedSnapshots' /\ QueuedCommits' /\ Checked'
    BY <1>1, <1>5 DEF IInv, QueuedSnapshots, Snapshot, QueuedCommits, Checked, Queued, Stored
  <2>. QED BY <1>1, <1>5, <2>3, <2>4, <2>5 DEF IInv
<1>. QED BY <1>4, <1>5

LEMMA RemoveStep == ASSUME IInv, Remove PROVE IInv'
<1>1. /\ queue # <<>> /\ queue' = Tail(queue)
      /\ UNCHANGED <<registry, refs, owner, pc, want, lock, commits, states, recorded, faults>>
  BY DEF Remove, gateVars
<1>2. queue \in Seq(CommitRow \union StateRow) BY DEF IInv, TypeOK
<1>3. queue' \in Seq(CommitRow \union StateRow) /\ Len(queue') = Len(queue) - 1
      /\ \A i \in 1 .. Len(queue') : queue'[i] = queue[i + 1]
  BY <1>1, <1>2
<1>4. \A i \in 1 .. Len(queue') : i + 1 \in 1 .. Len(queue)
  <2>1. Len(queue) \in Nat BY <1>2
  <2>. QED BY <1>3, <2>1
<1>5. TypeOK' BY <1>1, <1>3 DEF IInv, TypeOK
<1>6. Gate' BY <1>1 DEF IInv, Gate
<1>7. QueuedSnapshots' BY <1>3, <1>4 DEF IInv, QueuedSnapshots, Snapshot
<1>8. QueuedCommits'
  <2>1. SUFFICES ASSUME NEW i \in 1 .. Len(queue'), queue'[i].kind = "commit"
                 PROVE  /\ \A j \in 1 .. Len(queue') :
                             queue'[j].kind = "commit" /\ queue'[j].id = queue'[i].id => i = j
                        /\ \A row \in commits : row.id = queue'[i].id => row = queue'[i]
    BY <1>1 DEF QueuedCommits
  <2>2. ASSUME NEW j \in 1 .. Len(queue'), queue'[j].kind = "commit", queue'[j].id = queue'[i].id
        PROVE  i = j
    <3>1. /\ i + 1 \in 1 .. Len(queue) /\ queue[i + 1].kind = "commit"
          /\ j + 1 \in 1 .. Len(queue) /\ queue[j + 1].kind = "commit"
          /\ queue[j + 1].id = queue[i + 1].id
      BY <1>3, <1>4, <2>1, <2>2
    <3>2. i + 1 = j + 1 BY <3>1 DEF IInv, QueuedCommits
    <3>. QED BY <3>2
  <2>3. \A row \in commits : row.id = queue'[i].id => row = queue'[i]
    BY <1>3, <1>4, <2>1 DEF IInv, QueuedCommits
  <2>. QED BY <2>2, <2>3
<1>9. Checked' BY <1>1, <1>3, <1>4 DEF IInv, Checked, Queued, Stored
<1>. QED BY <1>5, <1>6, <1>7, <1>8, <1>9 DEF IInv

\* Nobody is past the gate after a crash, and the queue and ClickHouse are as
\* they were.
LEMMA CrashStep == ASSUME IInv, Crash PROVE IInv'
<1>1. /\ registry' = [id \in Identities |-> None]
      /\ refs' = [c \in Callers |-> {}]
      /\ owner' = [c \in Callers |-> None]
      /\ pc' = [c \in Callers |-> IF pc[c] \in Using THEN "gone" ELSE pc[c]]
      /\ UNCHANGED <<want, lock, queue, commits, states, recorded>>
      /\ faults' \in 0 .. MaxFaults
  BY FaultsAssumption DEF Crash, Fault, ledgerVars, IInv, TypeOK
<1>2. TypeOK' BY <1>1 DEF IInv, TypeOK, Steps
<1>3. Gate' BY <1>1 DEF Gate, Using, Holding
<1>4. QueuedSnapshots' /\ QueuedCommits' BY <1>1, LedgerUnchanged DEF ledgerVars
<1>5. Checked' BY <1>1 DEF Checked, Using, Holding
<1>. QED BY <1>2, <1>3, <1>4, <1>5 DEF IInv

-----------------------------------------------------------------------------
LEMMA InitInv == Init => IInv
<1>. SUFFICES ASSUME Init PROVE IInv OBVIOUS
<1>1. TypeOK BY FaultsAssumption DEF Init, TypeOK, Steps
<1>2. Gate /\ Checked BY DEF Init, Gate, Using, Holding, Checked
<1>3. QueuedSnapshots /\ QueuedCommits BY DEF Init, QueuedSnapshots, QueuedCommits
<1>. QED BY <1>1, <1>2, <1>3 DEF IInv

\* Every step keeps the invariant, and only delivery adds to what is shown.
LEMMA NextInv == IInv /\ [Next]_vars => IInv' /\ commits \subseteq commits'
<1>. SUFFICES ASSUME IInv, [Next]_vars PROVE IInv' /\ commits \subseteq commits' OBVIOUS
<1>1. ASSUME NEW c \in Callers,
             \/ Refuse(c) \/ (\E a \in Appends : Join(c, a)) \/ Acquire(c) \/ Unlock(c) \/ Leave(c)
             \/ CheckQueue(c) \/ CheckStored(c) \/ CheckParent(c) \/ AppendFails(c)
             \/ Enqueue(c) \/ FlushEnds(c)
      PROVE  IInv' /\ commits \subseteq commits'
  <2>1. IInv'
    BY <1>1, RefuseStep, JoinStep, AcquireStep, UnlockStep, LeaveStep, CheckStep, EnqueueStep
  <2>2. UNCHANGED commits
    BY <1>1 DEF Refuse, Join, Acquire, Unlock, Leave, CheckQueue, CheckStored, CheckParent,
                AppendFails, Enqueue, FlushEnds, ledgerVars
  <2>. QED BY <2>1, <2>2
<1>2. CASE \E s \in Snapshots : RecordSegmentState(s)
  BY <1>2, RecordStep DEF RecordSegmentState
<1>3. CASE Apply BY <1>3, ApplyStep
<1>4. CASE Remove BY <1>4, RemoveStep DEF Remove
<1>5. CASE Crash BY <1>5, CrashStep DEF Crash, ledgerVars
<1>6. CASE UNCHANGED vars
  <2>1. UNCHANGED <<registry, refs, owner, pc, want, lock, queue, commits, states, recorded, faults>>
    BY <1>6 DEF vars, gateVars, ledgerVars
  <2>2. TypeOK' /\ Gate' BY <2>1 DEF IInv, TypeOK, Gate
  <2>3. QueuedSnapshots' /\ QueuedCommits' BY <2>1, LedgerUnchanged DEF ledgerVars
  <2>4. Checked' BY <2>1 DEF IInv, Checked, Queued, Stored
  <2>. QED BY <2>1, <2>2, <2>3, <2>4 DEF IInv
<1>. QED BY <1>1, <1>2, <1>3, <1>4, <1>5, <1>6 DEF Next

\* The gate, the callers, the queue and what ClickHouse holds stay in the
\* states the code has for them.
THEOREM TypeCorrect == Spec => []TypeOK
<1>1. IInv => TypeOK BY DEF IInv
<1>. QED BY <1>1, InitInv, NextInv, PTL DEF Spec

\* However many callers append one identity at the same time, and whatever
\* fails or crashes, a commit a reader has seen stays as it is (AppendCommit
\* and its gate, commits.go).
THEOREM HistoryIsAppendOnly == Spec => AppendOnly
<1>1. IInv /\ [Next]_vars => [commits \subseteq commits']_vars BY NextInv
<1>. QED BY <1>1, InitInv, NextInv, PTL DEF Spec, AppendOnly

\* Of the callers of one identity at most one looks it up and enqueues it
\* (lockCommitIdentity in commits.go).
THEOREM OneCallerPastTheGate ==
  Spec => [](\A c, d \in Callers :
               pc[c] \in Holding /\ pc[d] \in Holding /\ want[c].id = want[d].id => c = d)
<1>1. IInv => \A c, d \in Callers :
                pc[c] \in Holding /\ pc[d] \in Holding /\ want[c].id = want[d].id => c = d
  BY OneHolder
<1>. QED BY <1>1, InitInv, NextInv, PTL DEF Spec

-----------------------------------------------------------------------------
(***************************************************************************)
(* Recursive functions on an interval: a set that has 0 and the successor  *)
(* of each of its numbers has them all, so a value that is given step by   *)
(* step is given everywhere.                                               *)
(***************************************************************************)
\* The induction, from the least number that is missing.
LEMMA UpTo ==
  ASSUME NEW n \in Nat, NEW S, 0 \in S, \A k \in 1 .. n : k - 1 \in S => k \in S
  PROVE  0 .. n \subseteq S
<1>. DEFINE Missing == {k \in 0 .. n : k \notin S}
<1>1. SUFFICES ASSUME Missing # {} PROVE FALSE OBVIOUS
<1>2. PICK x \in Missing : \A y \in Missing : ~ (<<y, x>> \in OpToRel(<, Nat))
  <2>1. Missing \subseteq Nat OBVIOUS
  <2>. HIDE DEF Missing
  <2>. QED BY <1>1, <2>1, NatLessThanWellFounded, WFMin
<1>3. x \in 1 .. n /\ x \notin S /\ x - 1 \in 0 .. n /\ x - 1 < x /\ x - 1 \in Nat /\ x \in Nat
  <2>1. x \in 0 .. n /\ x # 0 /\ x \notin S OBVIOUS
  <2>. QED BY <2>1
<1>4. x - 1 \notin Missing
  <2>1. <<x - 1, x>> \in OpToRel(<, Nat) BY <1>3 DEF OpToRel
  <2>. QED BY <1>2, <2>1
<1>. QED BY <1>3, <1>4

\* A step for each number, within X; and the values it gives from a on.
Maps(step, n, X) == \A k \in 1 .. n : \A x \in X : step[k][x] \in X

Unfolds(f, step, n, X, a) ==
  /\ f \in [0 .. n -> X]
  /\ f[0] = a
  /\ \A k \in 1 .. n : f[k] = step[k][f[k - 1]]

\* A function that is defined step by step exists.
LEMMA Recursion ==
  ASSUME NEW n \in Nat, NEW X, NEW a \in X,
         NEW step, Maps(step, n, X)
  PROVE  \E f : Unfolds(f, step, n, X, a)
<1>. DEFINE Follows(f, m) == f[0] = a /\ \A k \in 1 .. m : f[k] = step[k][f[k - 1]]
            S == {m \in 0 .. n : \E f \in [0 .. m -> X] : Follows(f, m)}
<1>1. 0 \in S
  <2>. DEFINE f == [k \in 0 .. 0 |-> a]
  <2>1. f \in [0 .. 0 -> X] OBVIOUS
  <2>2. Follows(f, 0) OBVIOUS
  <2>3. 0 \in 0 .. n OBVIOUS
  <2>. HIDE DEF f, Follows
  <2>. QED BY <2>1, <2>2, <2>3
<1>2. ASSUME NEW m \in 1 .. n, m - 1 \in S PROVE m \in S
  <2>1. PICK g \in [0 .. m - 1 -> X] : Follows(g, m - 1) BY <1>2
  <2>. DEFINE f == [k \in 0 .. m |-> IF k = m THEN step[m][g[m - 1]] ELSE g[k]]
  <2>2. m - 1 \in 0 .. m - 1 /\ g[m - 1] \in X OBVIOUS
  <2>3. f \in [0 .. m -> X]
    <3>1. step[m][g[m - 1]] \in X BY <2>2 DEF Maps
    <3>2. \A k \in 0 .. m : k # m => g[k] \in X OBVIOUS
    <3>. QED BY <3>1, <3>2
  <2>4. \A k \in 0 .. m - 1 : f[k] = g[k] OBVIOUS
  <2>5. f[m] = step[m][g[m - 1]] OBVIOUS
  <2>6. Follows(f, m)
    <3>1. f[0] = a
      <4>1. 0 \in 0 .. m - 1 OBVIOUS
      <4>. QED BY <2>1, <2>4, <4>1
    <3>2. ASSUME NEW k \in 1 .. m PROVE f[k] = step[k][f[k - 1]]
      <4>1. k - 1 \in 0 .. m - 1 /\ f[k - 1] = g[k - 1] BY <2>4
      <4>2. CASE k = m BY <2>5, <4>1, <4>2
      <4>3. CASE k # m
        <5>1. k \in 1 .. m - 1 /\ k \in 0 .. m - 1 BY <4>3
        <5>2. f[k] = g[k] BY <2>4, <5>1
        <5>3. g[k] = step[k][g[k - 1]] BY <2>1, <5>1
        <5>. QED BY <4>1, <5>2, <5>3
      <4>. QED BY <4>2, <4>3
    <3>. HIDE DEF f
    <3>. QED BY <3>1, <3>2
  <2>. HIDE DEF f, Follows
  <2>7. m \in 0 .. n OBVIOUS
  <2>. QED BY <2>3, <2>6, <2>7
<1>3. n \in S
  <2>. HIDE DEF S
  <2>1. 0 .. n \subseteq S BY <1>1, <1>2, UpTo
  <2>. QED BY <2>1
<1>4. PICK f \in [0 .. n -> X] : Follows(f, n) BY <1>3
<1>. QED BY <1>4 DEF Unfolds

-----------------------------------------------------------------------------
\* The levels of the recursive query.
LEMMA LevelSteps ==
  ASSUME TypeOK, IsFiniteSet(commits), NEW id
  PROVE  /\ Levels \in Nat
         /\ ViewLevel(id) \in [0 .. Levels -> SUBSET commits]
         /\ ViewLevel(id)[0] = {row \in commits : row.id = id}
         /\ \A k \in 1 .. Levels :
              ViewLevel(id)[k] =
                {row \in commits : \E child \in ViewLevel(id)[k - 1] : row.id = child.parent}
<1>1. Levels \in Nat
  <2>1. Cardinality(commits) \in Nat BY FS_CardinalityType
  <2>. QED BY <2>1 DEF Levels
<1>. DEFINE n == Levels
            a == {row \in commits : row.id = id}
            Up(T) == {row \in commits : \E child \in T : row.id = child.parent}
            step == [k \in 1 .. n |-> [T \in SUBSET commits |-> Up(T)]]
<1>2. PICK X : X = SUBSET commits OBVIOUS
<1>3. PICK f \in [0 .. n -> X] : f[0] = a /\ \A k \in 1 .. n : f[k] = step[k][f[k - 1]]
  <2>1. n \in Nat /\ a \in X /\ Maps(step, n, X) BY <1>1, <1>2 DEF Maps
  <2>. HIDE DEF step, n, a
  <2>2. PICK f : Unfolds(f, step, n, X, a) BY <2>1, Recursion
  <2>. QED BY <2>2 DEF Unfolds
<1>. HIDE DEF a
<1>4. \A k \in 1 .. n : f[k] = Up(f[k - 1])
  <2>1. TAKE k \in 1 .. n
  <2>2. f[k - 1] \in SUBSET commits BY <1>1, <1>2, <1>3
  <2>3. step[k][f[k - 1]] = Up(f[k - 1]) BY <2>2
  <2>. QED BY <1>3, <2>3
<1>5. f = [k \in 0 .. Levels |->
             IF k = 0 THEN {row \in commits : row.id = id}
             ELSE {row \in commits : \E child \in f[k - 1] : row.id = child.parent}]
  <2>1. f = [k \in 0 .. n |-> f[k]] OBVIOUS
  <2>2. \A k \in 0 .. n : f[k] = IF k = 0 THEN a ELSE Up(f[k - 1])
    <3>1. \A k \in 0 .. n : k = 0 \/ k \in 1 .. n BY <1>1
    <3>. QED BY <1>3, <1>4, <3>1
  <2>. QED BY <2>1, <2>2 DEF a
<1>6. ViewLevel(id) = [k \in 0 .. Levels |->
             IF k = 0 THEN {row \in commits : row.id = id}
             ELSE {row \in commits : \E child \in ViewLevel(id)[k - 1] : row.id = child.parent}]
  BY <1>5, Zenon DEF ViewLevel
<1>7. PICK level : level = ViewLevel(id) OBVIOUS
<1>8. level = [k \in 0 .. Levels |->
                 IF k = 0 THEN {row \in commits : row.id = id}
                 ELSE {row \in commits : \E child \in level[k - 1] : row.id = child.parent}]
  BY <1>6, <1>7, Zenon
<1>9. /\ level \in [0 .. Levels -> SUBSET commits]
      /\ level[0] = {row \in commits : row.id = id}
      /\ \A k \in 1 .. Levels :
           level[k] = {row \in commits : \E child \in level[k - 1] : row.id = child.parent}
  <2>. DEFINE body(k) == IF k = 0 THEN {row \in commits : row.id = id}
                         ELSE {row \in commits : \E child \in level[k - 1] : row.id = child.parent}
  <2>1. \A k \in 0 .. Levels : body(k) \in SUBSET commits /\ level[k] = body(k)
    BY <1>8
  <2>2. level = [k \in 0 .. Levels |-> body(k)] BY <1>8
  <2>3. body(0) = {row \in commits : row.id = id} OBVIOUS
  <2>4. \A k \in 1 .. Levels :
          /\ body(k) = {row \in commits : \E child \in level[k - 1] : row.id = child.parent}
          /\ k \in 0 .. Levels
    BY <1>1
  <2>5. 0 \in 0 .. Levels BY <1>1
  <2>. HIDE DEF body
  <2>6. level \in [0 .. Levels -> SUBSET commits] BY <2>1, <2>2
  <2>7. level[0] = {row \in commits : row.id = id} BY <2>1, <2>3, <2>5
  <2>. QED BY <2>1, <2>4, <2>6, <2>7
<1>. QED BY <1>1, <1>7, <1>9

-----------------------------------------------------------------------------
(***************************************************************************)
(* The two ways through the parents, on a history that has no cycle.       *)
(***************************************************************************)
\* The walk of commitAncestry, parent by parent.
Walk(id) ==
  LET walk[k \in 0 .. Levels] ==
        IF k = 0 THEN [at |-> id, seen |-> {}]
        ELSE LET before == walk[k - 1]
                 found == {row \in commits : row.id = before.at}
             IN  IF before.at \in before.seen \/ found = {} THEN before
                 ELSE [at |-> (CHOOSE row \in found : TRUE).parent,
                       seen |-> before.seen \union {before.at}]
  IN  walk

\* One stride of it: to the parent of the commit it is at, or nowhere.
Stride(before) ==
  LET found == {row \in commits : row.id = before.at}
  IN  IF before.at \in before.seen \/ found = {} THEN before
      ELSE [at |-> (CHOOSE row \in found : TRUE).parent,
            seen |-> before.seen \union {before.at}]

Names == Identities \union {Root}
Places == [at : Names, seen : SUBSET Names]

LEMMA StrideType ==
  ASSUME TypeOK, NEW p \in Places
  PROVE  Stride(p) \in Places
<1>. DEFINE found == {row \in commits : row.id = p.at}
<1>1. CASE p.at \in p.seen \/ found = {} BY <1>1 DEF Stride
<1>2. CASE ~ (p.at \in p.seen \/ found = {})
  <2>1. (CHOOSE row \in found : TRUE) \in found BY <1>2
  <2>2. (CHOOSE row \in found : TRUE).parent \in Names
    BY <2>1 DEF TypeOK, CommitRow, Names
  <2>3. p.at \in Names /\ p.seen \in SUBSET Names BY DEF Places
  <2>4. Stride(p) = [at |-> (CHOOSE row \in found : TRUE).parent, seen |-> p.seen \union {p.at}]
    BY <1>2 DEF Stride
  <2>. HIDE DEF found
  <2>. QED BY <2>2, <2>3, <2>4 DEF Places
<1>. QED BY <1>1, <1>2

\* The walk is defined, and goes stride by stride.
LEMMA WalkSteps ==
  ASSUME TypeOK, Levels \in Nat, NEW id \in Identities
  PROVE  /\ Walk(id) \in [0 .. Levels -> Places]
         /\ Walk(id)[0] = [at |-> id, seen |-> {}]
         /\ \A k \in 1 .. Levels : Walk(id)[k] = Stride(Walk(id)[k - 1])
<1>. DEFINE n == Levels
            a == [at |-> id, seen |-> {}]
            step == [k \in 1 .. n |-> [p \in Places |-> Stride(p)]]
<1>1. a \in Places BY DEF Places, Names
<1>2. Maps(step, n, Places) BY StrideType DEF Maps
<1>3. PICK f : Unfolds(f, step, n, Places, a)
  <2>1. n \in Nat OBVIOUS
  <2>. HIDE DEF step, n, a
  <2>. QED BY <1>1, <1>2, <2>1, Recursion
<1>4. \A k \in 1 .. n : f[k] = Stride(f[k - 1])
  <2>1. TAKE k \in 1 .. n
  <2>2. f[k - 1] \in Places BY <1>3 DEF Unfolds
  <2>3. step[k][f[k - 1]] = Stride(f[k - 1]) BY <2>2
  <2>. QED BY <1>3, <2>3 DEF Unfolds
<1>5. f = [k \in 0 .. Levels |-> IF k = 0 THEN a ELSE Stride(f[k - 1])]
  <2>. HIDE DEF a
  <2>1. f = [k \in 0 .. n |-> f[k]] BY <1>3 DEF Unfolds
  <2>2. \A k \in 0 .. n : f[k] = IF k = 0 THEN a ELSE Stride(f[k - 1])
    <3>1. \A k \in 0 .. n : k = 0 \/ k \in 1 .. n OBVIOUS
    <3>. QED BY <1>3, <1>4, <3>1 DEF Unfolds
  <2>. QED BY <2>1, <2>2
<1>6. Walk(id) = [k \in 0 .. Levels |-> IF k = 0 THEN a ELSE Stride(Walk(id)[k - 1])]
  BY <1>5, Zenon DEF Walk, Stride
<1>7. PICK walk : walk = Walk(id) OBVIOUS
<1>8. walk = [k \in 0 .. Levels |-> IF k = 0 THEN a ELSE Stride(walk[k - 1])]
  BY <1>6, <1>7, Zenon
<1>9. walk[0] = a /\ \A k \in 1 .. Levels : walk[k] = Stride(walk[k - 1])
  <2>. HIDE DEF a
  <2>1. \A k \in 0 .. Levels : walk[k] = IF k = 0 THEN a ELSE Stride(walk[k - 1])
    BY <1>8
  <2>2. 0 \in 0 .. Levels /\ \A k \in 1 .. Levels : k # 0 /\ k \in 0 .. Levels OBVIOUS
  <2>. QED BY <2>1, <2>2
<1>10. 0 .. n \subseteq {k \in 0 .. n : walk[k] \in Places}
  <2>. DEFINE S == {k \in 0 .. n : walk[k] \in Places}
  <2>1. 0 \in S BY <1>1, <1>9
  <2>2. ASSUME NEW k \in 1 .. n, k - 1 \in S PROVE k \in S
    BY <1>9, <2>2, StrideType
  <2>3. n \in Nat OBVIOUS
  <2>. HIDE DEF S, n
  <2>4. 0 .. n \subseteq S BY <2>1, <2>2, <2>3, UpTo
  <2>. QED BY <2>4 DEF S
<1>11. walk \in [0 .. Levels -> Places]
  <2>1. walk = [k \in 0 .. Levels |-> walk[k]] BY <1>8
  <2>. QED BY <1>10, <2>1
<1>. QED BY <1>7, <1>9, <1>11

-----------------------------------------------------------------------------
(***************************************************************************)
(* The state of the history the two ways to ask for it agree in: no two    *)
(* commits have one identity, and a commit is of a higher version than its *)
(* parent.                                                                 *)
(***************************************************************************)
Acyclic ==
  /\ IsFiniteSet(commits)
  /\ \A r, s \in commits : r.id = s.id => r = s
  /\ \A r \in commits : r.parent # Root =>
       \E p \in commits : p.id = r.parent /\ p.version < r.version

\* A parent is an earlier commit.
LEMMA ParentVersion ==
  ASSUME TypeOK, Acyclic, NEW r \in commits, NEW s \in commits, s.id = r.parent
  PROVE  s.version < r.version
<1>1. r.parent # Root
  BY IdentitiesAssumption DEF TypeOK, CommitRow, Root
<1>2. PICK p \in commits : p.id = r.parent /\ p.version < r.version BY <1>1 DEF Acyclic
<1>3. p = s BY <1>2 DEF Acyclic
<1>. QED BY <1>2, <1>3

\* The rows of a level lie below as many commits as it has levels before it,
\* so the levels end.
LEMMA TheViewEnds ==
  ASSUME TypeOK, Acyclic, NEW id
  PROVE  ViewEnds(id)
<1>. DEFINE level == ViewLevel(id)
            Above(r) == {s \in commits : r.version < s.version}
            S == {k \in 0 .. Levels : \A r \in level[k] : k <= Cardinality(Above(r))}
<1>1. /\ Levels \in Nat /\ level \in [0 .. Levels -> SUBSET commits]
      /\ \A k \in 1 .. Levels :
           level[k] = {row \in commits : \E child \in level[k - 1] : row.id = child.parent}
  BY LevelSteps DEF Acyclic
<1>. HIDE DEF level
<1>2. ASSUME NEW r
      PROVE  IsFiniteSet(Above(r)) /\ Cardinality(Above(r)) \in Nat
             /\ Cardinality(Above(r)) <= Cardinality(commits)
  <2>1. IsFiniteSet(commits) /\ Above(r) \subseteq commits BY DEF Acyclic
  <2>. HIDE DEF Above
  <2>. QED BY <2>1, FS_Subset, FS_CardinalityType
<1>3. 0 \in S BY <1>1, <1>2
<1>4. ASSUME NEW k \in 1 .. Levels, k - 1 \in S PROVE k \in S
  <2>1. SUFFICES ASSUME NEW r \in level[k] PROVE k <= Cardinality(Above(r))
    BY <1>1
  <2>2. PICK c \in level[k - 1] : r.id = c.parent BY <1>1
  <2>3. r \in commits /\ c \in commits
    <3>1. k - 1 \in 0 .. Levels BY <1>1
    <3>. QED BY <1>1, <3>1
  <2>4. r.version < c.version BY <2>2, <2>3, ParentVersion
  <2>5. \A s \in commits : s.version \in Nat BY DEF TypeOK, CommitRow
  <2>6. Above(c) \union {c} \subseteq Above(r) /\ c \notin Above(c) BY <2>3, <2>4, <2>5
  <2>7. k - 1 <= Cardinality(Above(c)) BY <1>4, <2>2
  <2>8. IsFiniteSet(Above(c)) /\ IsFiniteSet(Above(r))
        /\ Cardinality(Above(c)) \in Nat /\ Cardinality(Above(r)) \in Nat
    BY <1>2
  <2>. HIDE DEF Above
  <2>9. Cardinality(Above(c) \union {c}) = Cardinality(Above(c)) + 1
    BY <2>6, <2>8, FS_AddElement
  <2>10. Cardinality(Above(c) \union {c}) <= Cardinality(Above(r))
    BY <2>6, <2>8, FS_Subset
  <2>. QED BY <2>7, <2>8, <2>9, <2>10
<1>5. Levels \in S
  <2>. HIDE DEF S
  <2>1. 0 .. Levels \subseteq S BY <1>1, <1>3, <1>4, UpTo
  <2>. QED BY <1>1, <2>1
<1>6. level[Levels] = {}
  <2>1. SUFFICES ASSUME NEW r \in level[Levels] PROVE FALSE OBVIOUS
  <2>2. Levels <= Cardinality(Above(r)) BY <1>5, <2>1
  <2>3. Cardinality(Above(r)) <= Cardinality(commits) /\ Cardinality(Above(r)) \in Nat BY <1>2
  <2>4. Levels = Cardinality(commits) + 1 /\ Cardinality(commits) \in Nat
    BY FS_CardinalityType DEF Levels, Acyclic
  <2>. HIDE DEF Above
  <2>. QED BY <2>2, <2>3, <2>4
<1>. QED BY <1>6 DEF ViewEnds, level

\* The walk and the query go from child to parent in step: what the walk has
\* seen is what the levels before have.
LEMMA WalkFollowsLevels ==
  ASSUME TypeOK, Acyclic, NEW id \in Identities, NEW n \in 0 .. Levels
  PROVE  /\ ViewLevel(id)[n] = {row \in commits : row.id = Walk(id)[n].at}
         /\ \A x : x \in Walk(id)[n].seen
                     <=> \E j \in 0 .. n - 1 : \E row \in ViewLevel(id)[j] : row.id = x
<1>1. PICK level : level = ViewLevel(id) OBVIOUS
<1>2. PICK walk : walk = Walk(id) OBVIOUS
<1>3. /\ Levels \in Nat /\ level \in [0 .. Levels -> SUBSET commits]
      /\ level[0] = {row \in commits : row.id = id}
      /\ \A k \in 1 .. Levels :
           level[k] = {row \in commits : \E child \in level[k - 1] : row.id = child.parent}
  BY <1>1, LevelSteps DEF Acyclic
<1>4. /\ walk \in [0 .. Levels -> Places]
      /\ walk[0] = [at |-> id, seen |-> {}]
      /\ \A k \in 1 .. Levels : walk[k] = Stride(walk[k - 1])
  BY <1>2, <1>3, WalkSteps
<1>. DEFINE Same(k) == level[k] = {row \in commits : row.id = walk[k].at}
            Seen(k) == \A x : x \in walk[k].seen
                                <=> \E j \in 0 .. k - 1 : \E row \in level[j] : row.id = x
            Lower(k) == \A r \in level[k] : \A j \in 0 .. k - 1 :
                          \A s \in level[j] : r.version < s.version
            S == {k \in 0 .. Levels : Same(k) /\ Seen(k) /\ Lower(k)}
<1>5. 0 \in S
  <2>1. walk[0].at = id /\ walk[0].seen = {} BY <1>4
  <2>. QED BY <1>3, <2>1
<1>6. ASSUME NEW k \in 1 .. Levels, k - 1 \in S PROVE k \in S
  <2>1. k - 1 \in 0 .. Levels /\ k \in 0 .. Levels /\ walk[k] = Stride(walk[k - 1])
        /\ level[k] = {row \in commits : \E child \in level[k - 1] : row.id = child.parent}
        /\ level[k - 1] \subseteq commits
    <3>1. k - 1 \in 0 .. Levels /\ k \in 0 .. Levels BY <1>3
    <3>. QED BY <1>3, <1>4, <3>1
  <2>2. Same(k - 1) /\ Seen(k - 1) /\ Lower(k - 1) BY <1>6
  <2>3. \A j : j \in 0 .. k - 1 <=> j \in 0 .. (k - 1) - 1 \/ j = k - 1 BY <1>3
  <2>4. CASE level[k - 1] = {}
    <3>1. level[k] = {} BY <2>1, <2>4
    <3>2. {row \in commits : row.id = walk[k - 1].at} = {} BY <2>2, <2>4
    <3>3. walk[k] = walk[k - 1] BY <2>1, <3>2 DEF Stride
    <3>4. Same(k) BY <3>1, <3>2, <3>3
    <3>5. Seen(k) BY <2>2, <2>3, <2>4, <3>3
    <3>6. Lower(k) BY <3>1
    <3>. QED BY <2>1, <3>4, <3>5, <3>6
  <2>5. CASE level[k - 1] # {}
    <3>1. PICK r \in commits : r \in level[k - 1] BY <2>1, <2>5
    <3>2. level[k - 1] = {r} /\ r.id = walk[k - 1].at
      <4>1. r.id = walk[k - 1].at BY <2>2, <3>1
      <4>2. \A s \in level[k - 1] : s = r BY <2>1, <2>2, <3>1, <4>1 DEF Acyclic
      <4>. QED BY <3>1, <4>1, <4>2
    <3>3. \A s \in commits : s.version \in Nat BY DEF TypeOK, CommitRow
    <3>4. walk[k - 1].at \notin walk[k - 1].seen
      <4>1. SUFFICES ASSUME NEW j \in 0 .. (k - 1) - 1, NEW s \in level[j], s.id = r.id PROVE FALSE
        BY <2>2, <3>2
      <4>2. r.version < s.version BY <2>2, <3>1
      <4>3. s \in commits
        <5>1. j \in 0 .. Levels BY <1>3
        <5>. QED BY <1>3, <5>1
      <4>4. s = r BY <4>1, <4>3 DEF Acyclic
      <4>. QED BY <3>3, <4>2, <4>4
    <3>5. {row \in commits : row.id = walk[k - 1].at} = {r} BY <2>2, <3>2
    <3>6. walk[k] = [at |-> r.parent, seen |-> walk[k - 1].seen \union {r.id}]
      <4>1. (CHOOSE row \in {r} : TRUE) = r OBVIOUS
      <4>. QED BY <2>1, <3>2, <3>4, <3>5, <4>1 DEF Stride
    <3>7. walk[k].at = r.parent /\ walk[k].seen = walk[k - 1].seen \union {r.id} BY <3>6
    <3>8. Same(k) BY <2>1, <3>2, <3>7
    <3>9. Seen(k) BY <2>2, <2>3, <3>2, <3>7
    <3>10. Lower(k)
      <4>1. SUFFICES ASSUME NEW q \in level[k], NEW j \in 0 .. k - 1, NEW s \in level[j]
                     PROVE  q.version < s.version
        OBVIOUS
      <4>2. q \in commits /\ q.id = r.parent BY <2>1, <3>2
      <4>3. q.version < r.version BY <4>2, ParentVersion
      <4>4. s \in commits
        <5>1. j \in 0 .. Levels BY <1>3
        <5>. QED BY <1>3, <5>1
      <4>5. CASE j = k - 1 BY <3>2, <4>3, <4>5
      <4>6. CASE j \in 0 .. (k - 1) - 1
        <5>1. r.version < s.version BY <2>2, <3>1, <4>6
        <5>. QED BY <3>3, <4>2, <4>3, <4>4, <5>1
      <4>. QED BY <2>3, <4>5, <4>6
    <3>. QED BY <2>1, <3>8, <3>9, <3>10
  <2>. QED BY <2>4, <2>5
<1>7. Same(n) /\ Seen(n)
  <2>. HIDE DEF S
  <2>1. 0 .. Levels \subseteq S BY <1>3, <1>5, <1>6, UpTo
  <2>2. n \in S BY <2>1
  <2>. QED BY <2>2 DEF S
<1>. QED BY <1>1, <1>2, <1>7

\* Both find the same ancestors, and the levels end.
LEMMA AncestryAgrees ==
  ASSUME TypeOK, Acyclic, NEW id \in Identities
  PROVE  ReplayAncestry(id) = ViewAncestry(id)
<1>1. Levels \in Nat /\ ViewLevel(id) \in [0 .. Levels -> SUBSET commits]
  BY LevelSteps DEF Acyclic
<1>2. ReplayAncestry(id) = Walk(id)[Levels].seen BY Zenon DEF ReplayAncestry, Walk
<1>3. \A x : x \in Walk(id)[Levels].seen
               <=> \E j \in 0 .. Levels - 1 : \E row \in ViewLevel(id)[j] : row.id = x
  <2>1. Levels \in 0 .. Levels BY <1>1
  <2>. QED BY <2>1, WalkFollowsLevels
<1>4. ViewLevel(id)[Levels] = {} BY TheViewEnds DEF ViewEnds
<1>5. \A j : j \in 0 .. Levels <=> j \in 0 .. Levels - 1 \/ j = Levels BY <1>1
<1>6. \A x : x \in ViewAncestry(id)
               <=> \E j \in 0 .. Levels : \E row \in ViewLevel(id)[j] : row.id = x
  BY DEF ViewAncestry
<1>7. \A x : x \in ReplayAncestry(id) <=> x \in ViewAncestry(id)
  BY <1>2, <1>3, <1>4, <1>5, <1>6
<1>8. \A x \in ReplayAncestry(id) : x \in ViewAncestry(id) BY <1>7
<1>. QED BY <1>7

-----------------------------------------------------------------------------
(***************************************************************************)
(* The newest snapshot: going through the list and keeping the better one  *)
(* finds the one that outranks all others.                                 *)
(***************************************************************************)
Best(id) ==
  LET best[k \in 0 .. Len(states)] ==
        IF k = 0 THEN {}
        ELSE LET snap == states[k]
                 prev == best[k - 1]
             IN  IF /\ snap.id \in ReplayAncestry(id)
                    /\ \A t \in prev : newerSnapshot(snap, t)
                 THEN {snap} ELSE prev
  IN  best

Better(snap, prev, inside) ==
  IF snap.id \in inside /\ \A t \in prev : newerSnapshot(snap, t) THEN {snap} ELSE prev

\* The best so far is defined, and changes snapshot by snapshot.
LEMMA BestSteps ==
  ASSUME TypeOK, NEW id
  PROVE  /\ Len(states) \in Nat
         /\ Best(id)[0] = {}
         /\ \A k \in 1 .. Len(states) :
              Best(id)[k] = Better(states[k], Best(id)[k - 1], ReplayAncestry(id))
<1>. DEFINE n == Len(states)
            a == {}
            inside == ReplayAncestry(id)
            step == [k \in 1 .. n |-> [T \in SUBSET Snapshots |-> Better(states[k], T, inside)]]
<1>1. n \in Nat /\ \A k \in 1 .. n : states[k] \in Snapshots BY DEF TypeOK
<1>2. PICK X : X = SUBSET Snapshots OBVIOUS
<1>3. PICK f : Unfolds(f, step, n, X, a)
  <2>1. a \in X BY <1>2
  <2>2. Maps(step, n, X)
    <3>1. ASSUME NEW k \in 1 .. n, NEW T \in SUBSET Snapshots
          PROVE  step[k][T] \in SUBSET Snapshots
      <4>1. Better(states[k], T, inside) \in SUBSET Snapshots BY <1>1 DEF Better
      <4>2. step[k][T] = Better(states[k], T, inside) OBVIOUS
      <4>. QED BY <4>1, <4>2
    <3>. HIDE DEF step
    <3>. QED BY <1>2, <3>1 DEF Maps
  <2>. HIDE DEF step, n, a
  <2>. QED BY <1>1, <2>1, <2>2, Recursion
<1>4. ASSUME NEW k \in 1 .. n PROVE f[k] = Better(states[k], f[k - 1], inside)
  <2>1. f[k - 1] \in X /\ f[k] = step[k][f[k - 1]]
    <3>1. k - 1 \in 0 .. n BY <1>1
    <3>. HIDE DEF step, n
    <3>. QED BY <1>3, <3>1 DEF Unfolds
  <2>. QED BY <1>2, <2>1
<1>5. f = [k \in 0 .. n |-> IF k = 0 THEN {} ELSE Better(states[k], f[k - 1], inside)]
  <2>1. f = [k \in 0 .. n |-> f[k]] /\ f[0] = {} BY <1>3 DEF Unfolds
  <2>2. \A k \in 0 .. n : f[k] = IF k = 0 THEN {} ELSE Better(states[k], f[k - 1], inside)
    <3>1. \A k \in 0 .. n : k = 0 \/ k \in 1 .. n BY <1>1
    <3>. QED BY <1>4, <2>1, <3>1
  <2>. HIDE DEF n, inside
  <2>. QED BY <2>1, <2>2
<1>6. Best(id) = [k \in 0 .. Len(states) |->
                    IF k = 0 THEN {}
                    ELSE Better(states[k], Best(id)[k - 1], ReplayAncestry(id))]
  BY <1>5, Zenon DEF Best, Better
<1>7. PICK best : best = Best(id) OBVIOUS
<1>8. best = [k \in 0 .. n |-> IF k = 0 THEN {} ELSE Better(states[k], best[k - 1], inside)]
  BY <1>6, <1>7, Zenon
<1>. HIDE DEF inside
<1>9. \A k \in 0 .. n : best[k] = IF k = 0 THEN {} ELSE Better(states[k], best[k - 1], inside)
  BY <1>8
<1>10. 0 \in 0 .. n /\ \A k \in 1 .. n : k # 0 /\ k \in 0 .. n BY <1>1
<1>11. best[0] = {} /\ \A k \in 1 .. n : best[k] = Better(states[k], best[k - 1], inside)
  BY <1>9, <1>10
<1>. QED BY <1>1, <1>7, <1>11 DEF inside

\* Versions and identities rank the snapshots of distinct commits.
LEMMA Ranking ==
  \A s, t, u \in Snapshots :
    /\ newerSnapshot(s, t) <=> Outranks(s, t)
    /\ s = t \/ Outranks(s, t) \/ Outranks(t, s)
    /\ ~ (Outranks(s, t) /\ Outranks(t, s))
    /\ Outranks(s, t) /\ Outranks(t, u) => Outranks(s, u)
<1>1. \A s \in Snapshots : s.id \in Nat /\ s.version \in Nat
  BY SnapshotsAssumption, IdentitiesAssumption
<1>2. \A s, t \in Snapshots : s.id = t.id => s = t BY SnapshotsAssumption
<1>. QED BY <1>1, <1>2 DEF newerSnapshot, Outranks

\* ReplayAt keeps a snapshot inside the ancestry that none inside outranks.
LEMMA ReplayKeepsTheNewest ==
  ASSUME TypeOK, NEW id
  PROVE  /\ \A s \in ReplayAt(id) :
              /\ \E i \in 1 .. Len(states) : states[i] = s /\ s.id \in ReplayAncestry(id)
              /\ \A i \in 1 .. Len(states) :
                   states[i].id \in ReplayAncestry(id) => states[i] = s \/ Outranks(s, states[i])
         /\ (\E i \in 1 .. Len(states) : states[i].id \in ReplayAncestry(id)) => ReplayAt(id) # {}
<1>. DEFINE n == Len(states)
<1>1. PICK best : best = Best(id) OBVIOUS
<1>2. PICK inside : inside = ReplayAncestry(id) OBVIOUS
<1>3. /\ n \in Nat /\ best[0] = {}
      /\ \A k \in 1 .. n : best[k] = Better(states[k], best[k - 1], inside)
  BY <1>1, <1>2, BestSteps
<1>4. \A k \in 1 .. n : states[k] \in Snapshots BY DEF TypeOK
<1>. DEFINE Tops(s, k) == /\ \E i \in 1 .. k : states[i] = s /\ s.id \in inside
                          /\ \A i \in 1 .. k : states[i].id \in inside =>
                               states[i] = s \/ Outranks(s, states[i])
            Some(k) == \E i \in 1 .. k : states[i].id \in inside
            S == {k \in 0 .. n : (\A s \in best[k] : Tops(s, k)) /\ (Some(k) => best[k] # {})}
<1>5. 0 \in S BY <1>3
<1>6. ASSUME NEW k \in 1 .. n, k - 1 \in S PROVE k \in S
  <2>1. /\ best[k] = Better(states[k], best[k - 1], inside) /\ states[k] \in Snapshots
        /\ k \in 0 .. n
        /\ \A i : i \in 1 .. k <=> i \in 1 .. k - 1 \/ i = k
        /\ \A i \in 1 .. k : states[i] \in Snapshots
    <3>1. \A i \in 1 .. k : i \in 1 .. n BY <1>3
    <3>. QED BY <1>3, <1>4, <3>1
  <2>2. (\A s \in best[k - 1] : Tops(s, k - 1)) /\ (Some(k - 1) => best[k - 1] # {})
    BY <1>6
  <2>3. \A s \in best[k - 1] : s \in Snapshots BY <2>1, <2>2
  <2>4. CASE states[k].id \in inside /\ \A t \in best[k - 1] : newerSnapshot(states[k], t)
    <3>1. best[k] = {states[k]} BY <2>1, <2>4 DEF Better
    <3>2. ASSUME NEW i \in 1 .. k, states[i].id \in inside
          PROVE  states[i] = states[k] \/ Outranks(states[k], states[i])
      <4>1. CASE i = k BY <4>1
      <4>2. CASE i \in 1 .. k - 1
        <5>1. PICK t \in best[k - 1] : Tops(t, k - 1) BY <2>2, <3>2, <4>2
        <5>2. Outranks(states[k], t) BY <2>1, <2>3, <2>4, Ranking
        <5>3. states[i] = t \/ Outranks(t, states[i]) BY <3>2, <4>2, <5>1
        <5>. QED BY <2>1, <2>3, <5>2, <5>3, Ranking
      <4>. QED BY <2>1, <4>1, <4>2
    <3>3. Tops(states[k], k) BY <2>1, <2>4, <3>2
    <3>. QED BY <2>1, <3>1, <3>3
  <2>5. CASE ~ (states[k].id \in inside /\ \A t \in best[k - 1] : newerSnapshot(states[k], t))
    <3>1. best[k] = best[k - 1] BY <2>1, <2>5 DEF Better
    <3>2. ASSUME NEW s \in best[k - 1] PROVE Tops(s, k)
      <4>1. Tops(s, k - 1) BY <2>2
      <4>2. ASSUME states[k].id \in inside
            PROVE  states[k] = s \/ Outranks(s, states[k])
        <5>1. PICK t \in best[k - 1] : ~ newerSnapshot(states[k], t) BY <2>5, <4>2
        <5>2. Tops(t, k - 1) BY <2>2
        <5>3. (s = t \/ Outranks(s, t)) /\ (t = s \/ Outranks(t, s)) BY <4>1, <5>2
        <5>4. s = t BY <2>3, <5>3, Ranking
        <5>. QED BY <2>1, <2>3, <5>1, <5>4, Ranking
      <4>. QED BY <2>1, <4>1, <4>2
    <3>3. Some(k) => best[k - 1] # {} BY <2>1, <2>2, <2>5
    <3>. QED BY <2>1, <3>1, <3>2, <3>3
  <2>. QED BY <2>4, <2>5
<1>7. (\A s \in best[n] : Tops(s, n)) /\ (Some(n) => best[n] # {})
  <2>. HIDE DEF S, n
  <2>1. 0 .. n \subseteq S BY <1>3, <1>5, <1>6, UpTo
  <2>2. n \in S BY <1>3, <2>1
  <2>. QED BY <2>2 DEF S
<1>8. ReplayAt(id) = best[n] BY <1>1, Zenon DEF ReplayAt, Best
<1>. QED BY <1>2, <1>7, <1>8

\* So the replay of an acyclic history has what the view has.
LEMMA AgreeOnAcyclic ==
  ASSUME TypeOK, Acyclic
  PROVE  ReplayIsTheView
<1>1. SUFFICES ASSUME NEW id \in Identities PROVE ReplayAt(id) = ViewAt(id)
  BY TheViewEnds DEF ReplayIsTheView
<1>2. PICK inside : inside = ReplayAncestry(id) /\ inside = ViewAncestry(id)
  BY AncestryAgrees
<1>3. \A i \in 1 .. Len(states) : states[i] \in Snapshots BY DEF TypeOK
<1>4. \A s : s \in ViewAt(id) <=>
        /\ s \in Snapshots
        /\ \E i \in 1 .. Len(states) : states[i].id \in inside /\ states[i] = s
        /\ \A i \in 1 .. Len(states) :
             states[i].id \in inside => states[i] = s \/ Outranks(s, states[i])
  BY <1>2 DEF ViewAt
<1>5. /\ \A s \in ReplayAt(id) :
           /\ \E i \in 1 .. Len(states) : states[i] = s /\ s.id \in inside
           /\ \A i \in 1 .. Len(states) :
                states[i].id \in inside => states[i] = s \/ Outranks(s, states[i])
      /\ (\E i \in 1 .. Len(states) : states[i].id \in inside) => ReplayAt(id) # {}
  BY <1>2, ReplayKeepsTheNewest
<1>6. ASSUME NEW s \in ReplayAt(id) PROVE s \in ViewAt(id)
  BY <1>3, <1>4, <1>5
<1>7. ASSUME NEW s \in ViewAt(id) PROVE s \in ReplayAt(id)
  <2>1. PICK t \in ReplayAt(id) : TRUE BY <1>4, <1>5
  <2>2. t \in ViewAt(id) BY <1>6
  <2>3. /\ s \in Snapshots /\ t \in Snapshots
        /\ s = t \/ Outranks(s, t)
        /\ t = s \/ Outranks(t, s)
    BY <1>4, <2>2
  <2>4. s = t BY <2>3, Ranking
  <2>. QED BY <2>4
<1>. QED BY <1>6, <1>7

-----------------------------------------------------------------------------
(***************************************************************************)
(* The history has no cycle, whatever part of it has arrived.              *)
(***************************************************************************)
\* The parent a caller found, and the one of a row that waits, is a commit
\* ClickHouse shows.
CheckedParent ==
  \A c \in Callers :
    pc[c] = "enqueue" => want[c].parent = Root \/ ParentEarlier(want[c])

QueuedParents ==
  \A i \in 1 .. Len(queue) : queue[i].kind = "commit" =>
    queue[i].parent = Root \/ ParentEarlier(queue[i])

Lineage == Acyclic /\ CheckedParent /\ QueuedParents

\* A step that neither shows a commit nor queues a row, and takes no caller
\* past the look-up of its parent.
LEMMA QuietLineage ==
  ASSUME Lineage, UNCHANGED <<want, commits, queue>>,
         \A c \in Callers : pc'[c] = "enqueue" => pc[c] = "enqueue"
  PROVE  Lineage'
<1>1. Acyclic' BY DEF Lineage, Acyclic
<1>2. CheckedParent' BY DEF Lineage, CheckedParent, ParentEarlier
<1>3. QueuedParents' BY DEF Lineage, QueuedParents, ParentEarlier
<1>. QED BY <1>1, <1>2, <1>3 DEF Lineage

LEMMA CheckParentLineage ==
  ASSUME IInv, Lineage, NEW c \in Callers, CheckParent(c)
  PROVE  Lineage'
<1>1. PICK s \in {"enqueue", "unlock"} :
        /\ pc' = [pc EXCEPT ![c] = s]
        /\ s = "enqueue" => want[c].parent = Root \/ ParentEarlier(want[c])
  BY DEF CheckParent, Go
<1>2. UNCHANGED <<want, commits, queue>> /\ pc \in [Callers -> Steps]
  BY DEF CheckParent, ledgerVars, IInv, TypeOK
<1>3. Acyclic' BY <1>2 DEF Lineage, Acyclic
<1>4. QueuedParents' BY <1>2 DEF Lineage, QueuedParents, ParentEarlier
<1>5. CheckedParent' BY <1>1, <1>2 DEF Lineage, CheckedParent, ParentEarlier
<1>. QED BY <1>3, <1>4, <1>5 DEF Lineage

LEMMA EnqueueLineage ==
  ASSUME IInv, Lineage, NEW c \in Callers, Enqueue(c)
  PROVE  Lineage'
<1>. DEFINE row == RowOf(c)
            n == Len(queue)
<1>1. /\ queue' = Append(queue, row) /\ pc[c] = "enqueue"
      /\ pc' = [pc EXCEPT ![c] = "flush"] /\ pc \in [Callers -> Steps]
      /\ UNCHANGED <<want, commits>>
  BY DEF Enqueue, Go, IInv, TypeOK
<1>2. row.parent = want[c].parent /\ row.version = want[c].version BY DEF RowOf
<1>3. row.parent = Root \/ \E p \in commits : p.id = row.parent /\ p.version < row.version
  BY <1>1, <1>2 DEF Lineage, CheckedParent, ParentEarlier
<1>4. row \in CommitRow
  <2>1. want[c] \in Appends BY <1>1 DEF IInv, Gate, Using, Holding
  <2>. QED BY <2>1, AppendsAssumption DEF RowOf, CommitRow
<1>5. queue \in Seq(CommitRow \union StateRow) BY DEF IInv, TypeOK
<1>. HIDE DEF row
<1>6. /\ Len(queue') = n + 1 /\ queue'[n + 1] = row /\ n \in Nat
      /\ \A i \in 1 .. n : queue'[i] = queue[i]
  BY <1>1, <1>4, <1>5
<1>. HIDE DEF n
<1>7. \A i \in 1 .. Len(queue') : i \in 1 .. n \/ i = n + 1 BY <1>6
<1>8. Acyclic' BY <1>1 DEF Lineage, Acyclic
<1>9. CheckedParent' BY <1>1 DEF Lineage, CheckedParent, ParentEarlier
<1>10. QueuedParents'
  BY <1>1, <1>3, <1>6, <1>7 DEF Lineage, QueuedParents, ParentEarlier, n
<1>. QED BY <1>8, <1>9, <1>10 DEF Lineage

LEMMA RecordLineage ==
  ASSUME IInv, Lineage, NEW s \in Snapshots, RecordSegmentState(s)
  PROVE  Lineage'
<1>. DEFINE row == [kind |-> "state", id |-> s.id, version |-> s.version]
            n == Len(queue)
<1>1. queue' = Append(queue, row) /\ UNCHANGED <<pc, want, commits>>
  BY DEF RecordSegmentState
<1>2. row \in StateRow /\ row.kind = "state" BY SnapshotsAssumption DEF StateRow
<1>3. queue \in Seq(CommitRow \union StateRow) BY DEF IInv, TypeOK
<1>. HIDE DEF row
<1>4. /\ Len(queue') = n + 1 /\ queue'[n + 1] = row /\ n \in Nat
      /\ \A i \in 1 .. n : queue'[i] = queue[i]
  BY <1>1, <1>2, <1>3
<1>. HIDE DEF n
<1>5. \A i \in 1 .. Len(queue') : i \in 1 .. n \/ i = n + 1 BY <1>4
<1>6. Acyclic' BY <1>1 DEF Lineage, Acyclic
<1>7. CheckedParent' BY <1>1 DEF Lineage, CheckedParent, ParentEarlier
<1>8. QueuedParents' BY <1>1, <1>2, <1>4, <1>5 DEF Lineage, QueuedParents, ParentEarlier, n
<1>. QED BY <1>6, <1>7, <1>8 DEF Lineage

\* The commit that arrives is the only one of its identity, and its parent,
\* which the caller found, is among the commits shown.
LEMMA ApplyLineage ==
  ASSUME IInv, Lineage, Apply
  PROVE  Lineage'
<1>. DEFINE row == Head(queue)
<1>1. /\ queue # <<>> /\ UNCHANGED <<pc, want, queue>>
      /\ \/ /\ row.kind = "commit"
            /\ commits' = {other \in commits : other.id # row.id} \union {row}
         \/ row.kind # "commit" /\ UNCHANGED commits
  BY DEF Apply
<1>2. queue \in Seq(CommitRow \union StateRow) BY DEF IInv, TypeOK
<1>3. 1 \in 1 .. Len(queue) /\ row = queue[1] BY <1>1, <1>2
<1>. HIDE DEF row
<1>4. commits \subseteq commits' BY ApplyStep
<1>5. CheckedParent' BY <1>1, <1>4 DEF Lineage, CheckedParent, ParentEarlier
<1>6. QueuedParents' BY <1>1, <1>4 DEF Lineage, QueuedParents, ParentEarlier
<1>7. CASE row.kind = "commit"
  <2>1. commits' = {other \in commits : other.id # row.id} \union {row} BY <1>1, <1>7
  <2>2. IsFiniteSet(commits')
    <3>1. IsFiniteSet({other \in commits : other.id # row.id})
      BY FS_Subset DEF Lineage, Acyclic
    <3>. QED BY <2>1, <3>1, FS_AddElement
  <2>3. \A r, s \in commits' : r.id = s.id => r = s
    BY <2>1 DEF Lineage, Acyclic
  <2>4. row.parent = Root \/ \E p \in commits : p.id = row.parent /\ p.version < row.version
    BY <1>3, <1>7 DEF Lineage, QueuedParents, ParentEarlier
  <2>5. \A r \in commits' : r.parent # Root =>
          \E p \in commits' : p.id = r.parent /\ p.version < r.version
    BY <1>4, <2>1, <2>4 DEF Lineage, Acyclic
  <2>6. Acyclic' BY <2>2, <2>3, <2>5 DEF Acyclic
  <2>. QED BY <1>5, <1>6, <2>6 DEF Lineage
<1>8. CASE row.kind # "commit"
  <2>1. Acyclic' BY <1>1, <1>8 DEF Lineage, Acyclic
  <2>. QED BY <1>5, <1>6, <2>1 DEF Lineage
<1>. QED BY <1>7, <1>8

LEMMA RemoveLineage ==
  ASSUME IInv, Lineage, Remove
  PROVE  Lineage'
<1>1. queue # <<>> /\ queue' = Tail(queue) /\ UNCHANGED <<pc, want, commits>>
  BY DEF Remove
<1>2. queue \in Seq(CommitRow \union StateRow) BY DEF IInv, TypeOK
<1>3. Len(queue') = Len(queue) - 1 /\ Len(queue) \in Nat
      /\ \A i \in 1 .. Len(queue') : queue'[i] = queue[i + 1]
  BY <1>1, <1>2
<1>4. \A i \in 1 .. Len(queue') : i + 1 \in 1 .. Len(queue) BY <1>3
<1>5. Acyclic' BY <1>1 DEF Lineage, Acyclic
<1>6. CheckedParent' BY <1>1 DEF Lineage, CheckedParent, ParentEarlier
<1>7. QueuedParents' BY <1>1, <1>3, <1>4 DEF Lineage, QueuedParents, ParentEarlier
<1>. QED BY <1>5, <1>6, <1>7 DEF Lineage

LEMMA NextLineage ==
  ASSUME IInv, Lineage, [Next]_vars
  PROVE  Lineage'
<1>1. ASSUME NEW c \in Callers,
             \/ Refuse(c) \/ Acquire(c) \/ Unlock(c) \/ Leave(c)
             \/ CheckQueue(c) \/ CheckStored(c) \/ AppendFails(c) \/ FlushEnds(c)
      PROVE  Lineage'
  <2>1. UNCHANGED <<want, commits, queue>> /\ pc \in [Callers -> Steps]
    BY <1>1 DEF Refuse, Acquire, Unlock, Leave, CheckQueue, CheckStored, AppendFails, FlushEnds,
                ledgerVars, IInv, TypeOK
  <2>2. PICK s : s # "enqueue" /\ pc' = [pc EXCEPT ![c] = s]
    BY <1>1 DEF Refuse, Acquire, Unlock, Leave, CheckQueue, CheckStored, AppendFails, FlushEnds, Go
  <2>. QED BY <2>1, <2>2, QuietLineage
<1>2. ASSUME NEW c \in Callers, NEW a \in Appends, Join(c, a) PROVE Lineage'
  <2>1. /\ want' = [want EXCEPT ![c] = a] /\ pc' = [pc EXCEPT ![c] = "waiting"]
        /\ UNCHANGED <<commits, queue>> /\ pc \in [Callers -> Steps]
        /\ want \in [Callers -> Appends \union {None}]
    BY <1>2 DEF Join, Go, ledgerVars, IInv, TypeOK
  <2>2. Acyclic' BY <2>1 DEF Lineage, Acyclic
  <2>3. QueuedParents' BY <2>1 DEF Lineage, QueuedParents, ParentEarlier
  <2>4. CheckedParent' BY <2>1 DEF Lineage, CheckedParent, ParentEarlier
  <2>. QED BY <2>2, <2>3, <2>4 DEF Lineage
<1>3. ASSUME NEW c \in Callers, CheckParent(c) PROVE Lineage' BY <1>3, CheckParentLineage
<1>4. ASSUME NEW c \in Callers, Enqueue(c) PROVE Lineage' BY <1>4, EnqueueLineage
<1>5. ASSUME NEW s \in Snapshots, RecordSegmentState(s) PROVE Lineage'
  BY <1>5, RecordLineage
<1>6. CASE Apply BY <1>6, ApplyLineage
<1>7. CASE Remove BY <1>7, RemoveLineage
<1>8. CASE Crash
  <2>1. /\ UNCHANGED <<want, commits, queue>>
        /\ pc' = [c \in Callers |-> IF pc[c] \in Using THEN "gone" ELSE pc[c]]
    BY <1>8 DEF Crash, ledgerVars
  <2>. QED BY <2>1, QuietLineage
<1>9. CASE UNCHANGED vars
  BY <1>9, QuietLineage DEF vars, gateVars, ledgerVars
<1>. QED BY <1>1, <1>2, <1>3, <1>4, <1>5, <1>6, <1>7, <1>8, <1>9 DEF Next

LEMMA InitLineage == Init => Lineage
<1>. SUFFICES ASSUME Init PROVE Lineage OBVIOUS
<1>1. Acyclic BY FS_EmptySet DEF Init, Acyclic
<1>2. CheckedParent /\ QueuedParents BY DEF Init, CheckedParent, QueuedParents
<1>. QED BY <1>1, <1>2 DEF Lineage

\* A commit enters the history once, with a parent that is there and older, so
\* whatever part of the history and of the snapshots has arrived, in whatever
\* order and after whatever faults, the recursive query of timeline_at_commit
\* ends, and the replay of ReplayAt has the row the view has.
THEOREM ReplayMatchesTheView == Spec => []ReplayIsTheView
<1>1. IInv /\ Lineage => ReplayIsTheView BY AgreeOnAcyclic DEF IInv, Lineage
<1>2. IInv /\ Lineage /\ [Next]_vars => IInv' /\ Lineage' BY NextInv, NextLineage
<1>3. Init => IInv /\ Lineage BY InitInv, InitLineage
<1>. QED BY <1>1, <1>2, <1>3, PTL DEF Spec
=============================================================================
