--------------------------- MODULE CommitHistory ---------------------------
(***************************************************************************)
(* The append-only commit history of one dub, as the ledger client offers  *)
(* it to any number of concurrent callers: AppendCommit with its gate per  *)
(* commit identity (internal/ledger/commits.go), RecordSegmentState, and   *)
(* the two ways to ask for the timeline at a commit, the view              *)
(* timeline_at_commit (sql/schema.sql) and ReplayAt                        *)
(* (internal/ledger/history.go). CommitWriters has the callers of this     *)
(* program, which all use fresh identities.                                *)
(*                                                                         *)
(* Rows wait in the durable queue and reach ClickHouse in order            *)
(* (LedgerDelivery); a row may be applied several times before its entry   *)
(* is removed. The timeline is that of one segment index of one language.  *)
(* The ceiling of the view's recursive query (maxRecursiveCTEDepth, 5000   *)
(* commits, past which it answers an error where ReplayAt does not) is     *)
(* left out.                                                               *)
(***************************************************************************)
EXTENDS Naturals, Sequences, FiniteSets

CONSTANTS Callers,      \* one append each; also its payload and its lock object
          Identities,   \* commit identifiers, ordered as their bytes are
          Appends,      \* what a caller may append: identity, parent, version
          Snapshots,    \* the snapshots recorded: commit and version
          None,         \* no caller, no lock
          MaxFaults     \* bound on failed calls and crashes

Root == 0               \* the empty parent

ASSUME NoneAssumption == None \notin Callers
ASSUME IdentitiesAssumption == Identities \subseteq Nat \ {0}
ASSUME AppendsAssumption ==
  Appends \subseteq [id : Identities, parent : Identities \union {Root}, version : Nat]
ASSUME SnapshotsAssumption ==
  /\ IsFiniteSet(Snapshots)
  /\ Snapshots \subseteq [id : Identities, version : Nat \ {0}]
  /\ \A s, t \in Snapshots : s.id = t.id => s = t
ASSUME FaultsAssumption == MaxFaults \in Nat

VARIABLES registry,   \* the lock object of each identity, or None
          refs,       \* how many callers use each lock object
          owner,      \* who holds each lock object, or None
          pc,         \* the step each caller is at
          want,       \* what each caller appends, or None
          lock,       \* the lock object each caller uses
          queue,      \* the durable queue
          commits,    \* the commit rows ClickHouse shows
          states,     \* the snapshots ClickHouse holds, in order of arrival
          recorded,   \* the snapshots recorded so far
          faults      \* faults so far, at most MaxFaults

gateVars == <<registry, refs, owner>>
ledgerVars == <<queue, commits, states, recorded>>
vars == <<gateVars, pc, want, lock, ledgerVars, faults>>

CommitRow == [kind : {"commit"}, id : Identities, parent : Identities \union {Root},
              version : Nat, payload : Callers]
StateRow == [kind : {"state"}, id : Identities, version : Nat]
Steps == {"idle", "waiting", "queue", "stored", "parent", "enqueue", "flush", "unlock",
          "leave", "done", "gone"}

\* Steps that hold a lock object, and those that use one.
Holding == {"queue", "stored", "parent", "enqueue", "flush", "unlock"}
Using == Holding \union {"waiting", "leave"}

TypeOK ==
  /\ registry \in [Identities -> Callers \union {None}]
  /\ refs \in [Callers -> SUBSET Callers]
  /\ owner \in [Callers -> Callers \union {None}]
  /\ pc \in [Callers -> Steps]
  /\ want \in [Callers -> Appends \union {None}]
  /\ lock \in [Callers -> Callers]
  /\ queue \in Seq(CommitRow \union StateRow)
  /\ commits \subseteq CommitRow
  /\ states \in Seq(Snapshots)
  /\ recorded \subseteq Snapshots
  /\ faults \in 0 .. MaxFaults

-----------------------------------------------------------------------------
RowOf(c) == [kind |-> "commit", id |-> want[c].id, parent |-> want[c].parent,
             version |-> want[c].version, payload |-> c]

Queued(id) == \E i \in 1 .. Len(queue) : queue[i].kind = "commit" /\ queue[i].id = id
Stored(id) == \E row \in commits : row.id = id

\* validateCommit.
Valid(a) ==
  /\ a.version # 0
  /\ (a.parent = Root) = (a.version = 1)
  /\ a.id # a.parent

Go(c, step) == pc' = [pc EXCEPT ![c] = step]

Fault ==
  /\ faults < MaxFaults
  /\ faults' = faults + 1

ParentEarlier(a) == \E row \in commits : row.id = a.parent /\ row.version < a.version

-----------------------------------------------------------------------------
Init ==
  /\ registry = [id \in Identities |-> None]
  /\ refs = [c \in Callers |-> {}]
  /\ owner = [c \in Callers |-> None]
  /\ pc = [c \in Callers |-> "idle"]
  /\ want = [c \in Callers |-> None]
  /\ lock = [c \in Callers |-> c]
  /\ queue = <<>> /\ commits = {} /\ states = <<>> /\ recorded = {}
  /\ faults = 0

(***************************************************************************)
(* The gate: a registry of lock objects by identity, created by the first  *)
(* caller that asks and deleted by the last one that leaves.               *)
(***************************************************************************)
Refuse(c) ==
  /\ pc[c] = "idle"
  /\ \E a \in Appends : ~ Valid(a)
  /\ Go(c, "done")
  /\ UNCHANGED <<gateVars, want, lock, ledgerVars, faults>>

Join(c, a) ==
  LET object == IF registry[a.id] = None THEN c ELSE registry[a.id]
  IN  /\ pc[c] = "idle" /\ Valid(a)
      /\ want' = [want EXCEPT ![c] = a]
      /\ registry' = [registry EXCEPT ![a.id] = object]
      /\ refs' = [refs EXCEPT ![object] = @ \union {c}]
      /\ lock' = [lock EXCEPT ![c] = object]
      /\ Go(c, "waiting")
      /\ UNCHANGED <<owner, ledgerVars, faults>>

Acquire(c) ==
  /\ pc[c] = "waiting" /\ owner[lock[c]] = None
  /\ owner' = [owner EXCEPT ![lock[c]] = c]
  /\ Go(c, "queue")
  /\ UNCHANGED <<registry, refs, want, lock, ledgerVars, faults>>

Unlock(c) ==
  /\ pc[c] = "unlock"
  /\ owner' = [owner EXCEPT ![lock[c]] = None]
  /\ Go(c, "leave")
  /\ UNCHANGED <<registry, refs, want, lock, ledgerVars, faults>>

\* Faulty: whoever leaves deletes the lock of the identity.
LeaveDeleting(c) ==
  /\ pc[c] = "leave"
  /\ refs' = [refs EXCEPT ![lock[c]] = @ \ {c}]
  /\ registry' = [registry EXCEPT ![want[c].id] = None]
  /\ Go(c, "done")
  /\ UNCHANGED <<owner, want, lock, ledgerVars, faults>>

Leave(c) ==
  /\ pc[c] = "leave"
  /\ refs' = [refs EXCEPT ![lock[c]] = @ \ {c}]
  /\ registry' = IF refs[lock[c]] = {c} THEN [registry EXCEPT ![want[c].id] = None]
                 ELSE registry
  /\ Go(c, "done")
  /\ UNCHANGED <<owner, want, lock, ledgerVars, faults>>

(***************************************************************************)
(* AppendCommit under the gate: the queue, ClickHouse, the parent, and     *)
(* then the row. Rows move from the queue to ClickHouse meanwhile.         *)
(***************************************************************************)
CheckQueue(c) ==
  /\ pc[c] = "queue"
  /\ Go(c, IF Queued(want[c].id) THEN "unlock" ELSE "stored")
  /\ UNCHANGED <<gateVars, want, lock, ledgerVars, faults>>

CheckStored(c) ==
  /\ pc[c] = "stored"
  /\ Go(c, IF Stored(want[c].id) THEN "unlock" ELSE "parent")
  /\ UNCHANGED <<gateVars, want, lock, ledgerVars, faults>>

CheckParent(c) ==
  /\ pc[c] = "parent"
  /\ Go(c, IF want[c].parent = Root \/ ParentEarlier(want[c]) THEN "enqueue" ELSE "unlock")
  /\ UNCHANGED <<gateVars, want, lock, ledgerVars, faults>>

\* The queue directory or ClickHouse cannot be read, or the row not written.
AppendFails(c) ==
  /\ pc[c] \in {"queue", "stored", "parent", "enqueue"}
  /\ Fault
  /\ Go(c, "unlock")
  /\ UNCHANGED <<gateVars, want, lock, ledgerVars>>

Enqueue(c) ==
  /\ pc[c] = "enqueue"
  /\ queue' = Append(queue, RowOf(c))
  /\ Go(c, "flush")
  /\ UNCHANGED <<gateVars, want, lock, commits, states, recorded, faults>>

\* The flush delivered every row, or the caller is told its row is pending.
FlushEnds(c) ==
  /\ pc[c] = "flush"
  /\ Go(c, "unlock")
  /\ UNCHANGED <<gateVars, want, lock, ledgerVars, faults>>

\* RecordSegmentState has no gate and asks for no commit.
RecordSegmentState(s) ==
  /\ s \notin recorded
  /\ recorded' = recorded \union {s}
  /\ queue' = Append(queue, [kind |-> "state", id |-> s.id, version |-> s.version])
  /\ UNCHANGED <<gateVars, pc, want, lock, commits, states, faults>>

(***************************************************************************)
(* Delivery, by whichever flush: ClickHouse applies the first row, shown   *)
(* by its key, and later its entry is removed.                             *)
(***************************************************************************)
Snapshot(row) == [id |-> row.id, version |-> row.version]

Applied(row) ==
  IF row.kind = "commit" THEN row \in commits
  ELSE \E i \in 1 .. Len(states) : states[i] = Snapshot(row)

Apply ==
  /\ queue # <<>> /\ ~ Applied(Head(queue))
  /\ LET row == Head(queue)
     IN  IF row.kind = "commit"
         THEN /\ commits' = {other \in commits : other.id # row.id} \union {row}
              /\ UNCHANGED states
         ELSE states' = Append(states, Snapshot(row)) /\ UNCHANGED commits
  /\ UNCHANGED <<gateVars, pc, want, lock, queue, recorded, faults>>

Remove ==
  /\ queue # <<>> /\ Applied(Head(queue))
  /\ queue' = Tail(queue)
  /\ UNCHANGED <<gateVars, pc, want, lock, commits, states, recorded, faults>>

\* The process dies: the gate and every call are gone, the queue is not.
Crash ==
  /\ Fault
  /\ registry' = [id \in Identities |-> None]
  /\ refs' = [c \in Callers |-> {}]
  /\ owner' = [c \in Callers |-> None]
  /\ pc' = [c \in Callers |-> IF pc[c] \in Using THEN "gone" ELSE pc[c]]
  /\ UNCHANGED <<want, lock, ledgerVars>>

Next ==
  \/ \E c \in Callers :
       \/ Refuse(c) \/ (\E a \in Appends : Join(c, a)) \/ Acquire(c) \/ Unlock(c) \/ Leave(c)
       \/ CheckQueue(c) \/ CheckStored(c) \/ CheckParent(c) \/ AppendFails(c)
       \/ Enqueue(c) \/ FlushEnds(c)
  \/ \E s \in Snapshots : RecordSegmentState(s)
  \/ Apply \/ Remove \/ Crash

Spec == Init /\ [][Next]_vars

-----------------------------------------------------------------------------
(***************************************************************************)
(* The timeline at a commit, by the view.                                  *)
(***************************************************************************)
\* The recursive CTE joins level by level; past this many it never ends (and
\* meets the ceiling that is left out).
Levels == Cardinality(commits) + 1

ViewLevel(id) ==
  LET level[k \in 0 .. Levels] ==
        IF k = 0 THEN {row \in commits : row.id = id}
        ELSE {row \in commits : \E child \in level[k - 1] : row.id = child.parent}
  IN  level

ViewEnds(id) == ViewLevel(id)[Levels] = {}
ViewAncestry(id) == {row.id : row \in UNION {ViewLevel(id)[k] : k \in 0 .. Levels}}

Outranks(s, t) ==
  \/ s.version > t.version
  \/ s.version = t.version /\ s.id > t.id

\* argMax over (version_seq, commit_id).
ViewAt(id) ==
  {s \in Snapshots :
     LET inside == {i \in 1 .. Len(states) : states[i].id \in ViewAncestry(id)}
     IN  /\ \E i \in inside : states[i] = s
         /\ \A i \in inside : states[i] = s \/ Outranks(s, states[i])}

(***************************************************************************)
(* The timeline at a commit, by ReplayAt: walk the parents, then keep the  *)
(* newest snapshot met while going through the list.                       *)
(***************************************************************************)
ReplayAncestry(id) ==
  LET walk[k \in 0 .. Levels] ==
        IF k = 0 THEN [at |-> id, seen |-> {}]
        ELSE LET before == walk[k - 1]
                 found == {row \in commits : row.id = before.at}
             IN  IF before.at \in before.seen \/ found = {} THEN before
                 ELSE [at |-> (CHOOSE row \in found : TRUE).parent,
                       seen |-> before.seen \union {before.at}]
  IN  walk[Levels].seen

\* Faulty: the commit does not break a tie, so the order of the list does.
NewerByVersion(s, t) == s.version > t.version

newerSnapshot(s, t) == IF s.version # t.version THEN s.version > t.version ELSE s.id > t.id

ReplayAt(id) ==
  LET best[k \in 0 .. Len(states)] ==
        IF k = 0 THEN {}
        ELSE LET snap == states[k]
                 prev == best[k - 1]
             IN  IF /\ snap.id \in ReplayAncestry(id)
                    /\ \A t \in prev : newerSnapshot(snap, t)
                 THEN {snap} ELSE prev
  IN  best[Len(states)]

-----------------------------------------------------------------------------
(***************************************************************************)
(* Properties.                                                             *)
(***************************************************************************)

\* A commit a reader has seen stays as it is, whoever appends the same identity
\* at the same time and whatever fails (commits.go:93-95, "A second insert with
\* the same identity could otherwise replace the visible commit").
AppendOnly == [][commits \subseteq commits']_vars

\* Whatever part of the history has arrived, in whatever order, the view ends
\* at every commit and has the row that the replay has (history.go:139-141,
\* "return the same rows on an acyclic ancestry").
ReplayIsTheView == \A id \in Identities : ViewEnds(id) /\ ReplayAt(id) = ViewAt(id)
=============================================================================
