---------------------------- MODULE LedgerQueue ----------------------------
(***************************************************************************)
(* The durable ledger queue (internal/ledger/queue.go) and the client that *)
(* drains it into ClickHouse (internal/ledger/client.go).                  *)
(*                                                                         *)
(* A row is a file in one directory, named by a sequence number. Enqueue   *)
(* writes a file and syncs the directory; Flush sends the files in name    *)
(* order, in batches of one table, and removes a batch once ClickHouse     *)
(* answered 2xx. One mutex, q.mu, covers each whole call, network waits    *)
(* included, so at most one call is in progress: phase says which step of  *)
(* which call. Any goroutine may call either (EnqueueJSON does both, the   *)
(* reconciler calls Flush every second), so no caller identity is kept.    *)
(*                                                                         *)
(* The directory is modelled twice: files is what the process sees, images *)
(* is what a power failure may leave. A name changed since the last        *)
(* directory sync can show any of the contents it had since then.          *)
(***************************************************************************)
EXTENDS Naturals, Sequences, FiniteSets

CONSTANTS Tables,        \* INSERT statements of the rows
          Refused,       \* the tables whose INSERT ClickHouse refuses
          BatchSize,     \* rows per request
          MaxSequence,   \* largest file number (2^64 - 1 in the code)
          MaxRows,       \* bound on the rows written in one behaviour
          MaxFaults      \* bound on crashes, power failures and disk errors

ASSUME RefusedAssumption == Refused \subseteq Tables
ASSUME BatchAssumption == BatchSize \in Nat \ {0}
ASSUME BoundsAssumption ==
  MaxSequence \in Nat \ {0} /\ MaxRows \in Nat /\ MaxFaults \in Nat

VARIABLES log,       \* the table of each row, in the order the rows were written
          promised,  \* rows whose Enqueue returned nil
          stored,    \* rows ClickHouse holds
          files,     \* file number -> the row in that file, or NoFile
          images,    \* file number -> the contents a power failure may leave
          phase,     \* the step the holder of q.mu is at
          todo,      \* entries of the running Flush not yet acknowledged
          batch,     \* files of the step in progress
          answered,  \* ClickHouse answered 2xx to the request in progress
          wire,      \* requests sent that ClickHouse may still apply
          faults     \* faults so far, at most MaxFaults

callVars == <<phase, todo, batch, answered>>
vars == <<log, promised, stored, files, images, callVars, wire, faults>>

NoFile == 0
Sequences64 == 1 .. MaxSequence
Rows == 1 .. Len(log)
Phases == {"unlocked", "renamed", "sending", "waiting", "removing", "syncing"}

TypeOK ==
  /\ log \in Seq(Tables)
  /\ promised \subseteq Rows
  /\ stored \subseteq Rows
  /\ files \in [Sequences64 -> Rows \union {NoFile}]
  /\ images \in [Sequences64 -> SUBSET (Rows \union {NoFile})]
  /\ phase \in Phases
  /\ todo \subseteq Sequences64
  /\ batch \subseteq Sequences64
  /\ answered \in BOOLEAN
  /\ wire \subseteq SUBSET Rows
  /\ faults \in 0 .. MaxFaults

-----------------------------------------------------------------------------
(***************************************************************************)
(* The directory.                                                          *)
(***************************************************************************)
Entries == {s \in Sequences64 : files[s] # NoFile}

\* Faulty: the number of files, not the highest number, plus one.
SequenceFromCount(s) == s = Cardinality(Entries) + 1

\* Faulty: the lowest free number.
SequenceFromGap(s) == s \notin Entries /\ 1 .. s - 1 \subseteq Entries

IsNextSequence(s) ==
  /\ \A u \in Entries : u < s
  /\ s = 1 \/ s - 1 \in Entries

PutFile(s, row) ==
  /\ files' = [files EXCEPT ![s] = row]
  /\ images' = [images EXCEPT ![s] = @ \union {row}]

SyncDirectory == images' = [s \in Sequences64 |-> {files[s]}]

Lowest(S) == CHOOSE s \in S : \A u \in S : s <= u

\* Faulty: gathers the table's entries across those of other tables.
BatchAcrossTables(S) == {s \in S : log[files[s]] = log[files[Lowest(S)]]}

(***************************************************************************)
(* The first batch of the entries S: a run of at most BatchSize entries    *)
(* of one table, in name order.                                            *)
(***************************************************************************)
FirstBatch(S) ==
  {s \in S : /\ \A u \in S : u <= s => log[files[u]] = log[files[Lowest(S)]]
             /\ Cardinality({u \in S : u < s}) < BatchSize}

Request(S) == {files[s] : s \in S}

Return ==
  /\ phase' = "unlocked"
  /\ todo' = {}
  /\ batch' = {}
  /\ answered' = FALSE

Fault ==
  /\ faults < MaxFaults
  /\ faults' = faults + 1

-----------------------------------------------------------------------------
Init ==
  /\ log = <<>>
  /\ promised = {}
  /\ stored = {}
  /\ files = [s \in Sequences64 |-> NoFile]
  /\ images = [s \in Sequences64 |-> {NoFile}]
  /\ phase = "unlocked"
  /\ todo = {}
  /\ batch = {}
  /\ answered = FALSE
  /\ wire = {}
  /\ faults = 0

(***************************************************************************)
(* Enqueue takes the next sequence number, renames the synced temporary    *)
(* file into place and syncs the directory. A failed directory sync        *)
(* returns an error although the file is there.                            *)
(***************************************************************************)
Enqueue(t) ==
  /\ phase = "unlocked"
  /\ Len(log) < MaxRows
  /\ \E s \in Sequences64 :
       /\ IsNextSequence(s)
       /\ PutFile(s, Len(log) + 1)
       /\ batch' = {s}
  /\ log' = Append(log, t)
  /\ phase' = "renamed"
  /\ UNCHANGED <<promised, stored, todo, answered, wire, faults>>

\* Faulty: promises the row before the directory is synced.
EnqueueWithoutSync ==
  /\ phase = "renamed"
  /\ promised' = promised \union {Len(log)}
  /\ Return
  /\ UNCHANGED <<log, stored, files, images, wire, faults>>

\* Faulty: promises one row too many.
EnqueueSyncOffByOne ==
  /\ phase = "renamed"
  /\ SyncDirectory
  /\ promised' = promised \union {Len(log), Len(log) + 1}
  /\ Return
  /\ UNCHANGED <<log, stored, files, wire, faults>>

EnqueueSync ==
  /\ phase = "renamed"
  /\ SyncDirectory
  /\ promised' = promised \union {Len(log)}
  /\ Return
  /\ UNCHANGED <<log, stored, files, wire, faults>>

EnqueueSyncFails ==
  /\ phase = "renamed"
  /\ Fault
  /\ Return
  /\ UNCHANGED <<log, promised, stored, files, images, wire>>

(***************************************************************************)
(* Flush reads every entry, then loops: send a batch, wait, remove its     *)
(* files one by one, sync the directory. Every error returns at once.      *)
(***************************************************************************)
FlushStart ==
  /\ phase = "unlocked"
  /\ Entries # {}
  /\ phase' = "sending"
  /\ todo' = Entries
  /\ UNCHANGED <<log, promised, stored, files, images, batch, answered, wire, faults>>

FlushCancelled ==
  /\ phase = "sending"
  /\ Return
  /\ UNCHANGED <<log, promised, stored, files, images, wire, faults>>

FlushSend ==
  /\ phase = "sending"
  /\ phase' = "waiting"
  /\ batch' = FirstBatch(todo)
  /\ wire' = wire \union {Request(FirstBatch(todo))}
  /\ UNCHANGED <<log, promised, stored, files, images, todo, answered, faults>>

\* Faulty: no timeout, so a lost request is waited for.
FlushWaitsForever == phase = "waiting" /\ answered /\ UNCHANGED vars

\* The sender failed: an error status, a lost answer, the 30 s timeout, a
\* cancelled context. The request may still be on the wire.
FlushGivesUp ==
  /\ phase = "waiting"
  /\ Return
  /\ UNCHANGED <<log, promised, stored, files, images, wire, faults>>

\* Faulty: goes on without an answer.
FlushIgnoresAnswer ==
  /\ phase = "waiting"
  /\ phase' = "removing"
  /\ answered' = FALSE
  /\ UNCHANGED <<log, promised, stored, files, images, todo, batch, wire, faults>>

FlushAcknowledged ==
  /\ phase = "waiting"
  /\ answered
  /\ phase' = "removing"
  /\ answered' = FALSE
  /\ UNCHANGED <<log, promised, stored, files, images, todo, batch, wire, faults>>

FlushRemove ==
  /\ phase = "removing"
  /\ \E s \in batch :
       /\ s = Lowest(batch)
       /\ PutFile(s, NoFile)
       /\ batch' = batch \ {s}
       /\ todo' = todo \ {s}
       /\ phase' = IF batch = {s} THEN "syncing" ELSE "removing"
  /\ UNCHANGED <<log, promised, stored, answered, wire, faults>>

FlushSync ==
  /\ phase = "syncing"
  /\ SyncDirectory
  /\ IF todo = {}
     THEN Return
     ELSE phase' = "sending" /\ UNCHANGED <<todo, batch, answered>>
  /\ UNCHANGED <<log, promised, stored, files, wire, faults>>

FlushDiskError ==
  /\ phase \in {"removing", "syncing"}
  /\ Fault
  /\ Return
  /\ UNCHANGED <<log, promised, stored, files, images, wire>>

(***************************************************************************)
(* ClickHouse and the network. An INSERT is applied whole. A request can   *)
(* be applied long after its sender gave up, or never.                     *)
(***************************************************************************)
Apply(request) ==
  /\ request \in wire
  /\ \A r \in request : log[r] \notin Refused
  /\ stored' = stored \union request
  /\ wire' = wire \ {request}
  /\ answered' = (answered \/ (phase = "waiting" /\ request = Request(batch)))
  /\ UNCHANGED <<log, promised, files, images, phase, todo, batch, faults>>

Drop(request) ==
  /\ request \in wire
  /\ wire' = wire \ {request}
  /\ UNCHANGED <<log, promised, stored, files, images, callVars, faults>>

(***************************************************************************)
(* The process dies and starts again: OpenQueue and NewClient only open    *)
(* the directory. After a power failure every unsynced name shows one of   *)
(* its possible contents.                                                  *)
(***************************************************************************)
Crash ==
  /\ Fault
  /\ Return
  /\ UNCHANGED <<log, promised, stored, files, images, wire>>

PowerFailure ==
  /\ Fault
  /\ files' \in [Sequences64 -> UNION {images[s] : s \in Sequences64}]
  /\ \A s \in Sequences64 : files'[s] \in images[s]
  /\ images' = [s \in Sequences64 |-> {files'[s]}]
  /\ Return
  /\ UNCHANGED <<log, promised, stored, wire>>

-----------------------------------------------------------------------------
Next ==
  \/ \E t \in Tables : Enqueue(t)
  \/ EnqueueSync
  \/ EnqueueSyncFails
  \/ FlushStart
  \/ FlushCancelled
  \/ FlushSend
  \/ FlushGivesUp
  \/ FlushAcknowledged
  \/ FlushRemove
  \/ FlushSync
  \/ FlushDiskError
  \/ \E request \in wire : Apply(request) \/ Drop(request)
  \/ Crash
  \/ PowerFailure

Spec == Init /\ [][Next]_vars

(***************************************************************************)
(* Fairness. The reconciler calls Flush every second and a call in         *)
(* progress takes its next step; the HTTP client gives up after 30 s.      *)
(* ClickHouse is not down forever: a request sent again and again is       *)
(* applied again and again, and its answer read again and again.           *)
(***************************************************************************)
Fairness ==
  /\ WF_vars(EnqueueSync)
  /\ SF_vars(FlushStart)
  /\ SF_vars(FlushSend)
  /\ SF_vars(phase = "waiting" /\ Apply(Request(batch)))
  /\ WF_vars(FlushGivesUp)
  /\ SF_vars(FlushAcknowledged)
  /\ WF_vars(FlushRemove)
  /\ WF_vars(FlushSync)

FairSpec == Spec /\ Fairness

-----------------------------------------------------------------------------
(***************************************************************************)
(* Properties.                                                             *)
(***************************************************************************)
Delivery == INSTANCE LedgerDelivery WITH
  Tables <- Tables, Refused <- Refused,
  log <- log, promised <- promised, stored <- stored

\* The queue implements the delivery contract: rows reach ClickHouse in the
\* order of Enqueue, across crashes, resends and late requests (queue.go:34,
\* "a reconnect replays the same event sequence").
ImplementsDelivery == Delivery!Spec

\* The name holds this row whatever a power failure does to the directory.
Settled(s, row) == images[s] = {row}

\* A row whose Enqueue returned nil is in ClickHouse, or in a file that no
\* power failure can take away (queue.go Enqueue, Flush).
NoPromisedRowLost ==
  \A r \in promised : r \in stored \/ \E s \in Sequences64 : Settled(s, r)

\* ClickHouse never holds a row without every earlier promised row, whatever
\* was lost, resent or delivered late (queue.go Flush, client.go send).
NoOvertaking ==
  \A r \in stored, p \in promised : p < r => p \in stored

\* An unstored promised row sits below every name that may hold a later row,
\* so the file order stays the enqueue order although numbers restart at 1
\* when the directory is empty (queue.go nextSequence, entries).
FileOrder ==
  \A s \in Sequences64 : \A r \in images[s] \ {NoFile}, p \in promised \ stored :
    p < r => \E u \in 1 .. s - 1 : Settled(u, p)

\* A request that may still be applied carries, or follows, every earlier
\* promised row (client.go send, when its caller has given up on it).
WireOrder ==
  \A request \in wire : \A r \in request, p \in promised :
    p < r => p \in stored \union request

\* Every promised row reaches ClickHouse, unless a row of a refused table
\* stands before it: the head of the queue blocks the rest.
EveryPromisedRowArrives ==
  \A r \in 1 .. MaxRows :
    (r \in promised /\ Delivery!Deliverable(r)) ~> r \in stored
=============================================================================
