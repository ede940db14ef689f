------------------------- MODULE LedgerQueueProofs -------------------------
(***************************************************************************)
(* Proofs about the ledger queue, for every number of tables, rows, files, *)
(* faults and every batch size.                                            *)
(*                                                                         *)
(* NoOvertaking is not inductive: that ClickHouse never holds a row before *)
(* an earlier promised one depends on the order of the files, on what a    *)
(* power failure can bring back, and on the requests still on the wire.    *)
(***************************************************************************)
EXTENDS LedgerQueue, FiniteSetTheorems, TLAPS

\* The visible content of a name is one of the contents it may have.
VisibleImages == \A s \in Sequences64 : files[s] \in images[s]

\* What the step in progress knows about the directory.
CallInv ==
  /\ phase = "renamed" =>
       log # <<>> /\ \E s \in Sequences64 : batch = {s} /\ files[s] = Len(log)
  /\ phase \in {"sending", "waiting", "removing", "syncing"} => todo = Entries
  /\ phase \in {"waiting", "removing"} => batch \subseteq todo
  /\ answered => phase = "waiting"
  /\ answered \/ phase = "removing" => Request(batch) \subseteq stored

IInv ==
  /\ TypeOK
  /\ VisibleImages
  /\ CallInv
  /\ NoPromisedRowLost
  /\ NoOvertaking
  /\ FileOrder
  /\ WireOrder

-----------------------------------------------------------------------------
(***************************************************************************)
(* A batch is closed downwards: an entry below a member of the batch is a  *)
(* member (queue.go Flush, the inner loop).                                *)
(***************************************************************************)
LEMMA FirstBatchClosed ==
  ASSUME NEW S \in SUBSET Sequences64, NEW s \in FirstBatch(S),
         NEW u \in S, u < s
  PROVE  u \in FirstBatch(S)
<1> DEFINE Below(v) == {w \in S : w < v}
<1>1. S \subseteq Nat /\ s \in S
  BY BoundsAssumption DEF Sequences64, FirstBatch
<1>2. IsFiniteSet(S)
  <2>1. IsFiniteSet(1 .. MaxSequence)
    BY FS_Interval, BoundsAssumption
  <2>2. QED
    BY <2>1, FS_Subset DEF Sequences64
<1>3. IsFiniteSet(Below(s)) /\ Below(u) \subseteq Below(s)
  <2>1. Below(u) \subseteq Below(s)
    <3>1. u \in Nat /\ s \in Nat
      BY <1>1
    <3>2. \A w \in Nat : w < u => w < s
      BY <3>1
    <3>3. QED
      BY <1>1, <3>2
  <2>2. Below(s) \in SUBSET S
    OBVIOUS
  <2> HIDE DEF Below
  <2>3. IsFiniteSet(Below(s))
    BY <2>2, <1>2, FS_Subset
  <2>4. QED
    BY <2>1, <2>3
<1>4. Cardinality(Below(u)) <= Cardinality(Below(s))
  BY <1>3, FS_Subset
<1>5. Cardinality(Below(s)) < BatchSize
  BY DEF FirstBatch
<1>6. Cardinality(Below(u)) < BatchSize
  <2>1. Cardinality(Below(u)) \in Nat /\ Cardinality(Below(s)) \in Nat
    BY <1>3, FS_Subset, FS_CardinalityType
  <2> HIDE DEF Below
  <2>2. QED
    BY <2>1, <1>4, <1>5, BatchAssumption
<1>7. \A v \in S : v <= u => log[files[v]] = log[files[Lowest(S)]]
  BY <1>1 DEF FirstBatch
<1>8. QED
  BY <1>6, <1>7 DEF FirstBatch

-----------------------------------------------------------------------------
(***************************************************************************)
(* Steps that return from a call without touching rows or files.           *)
(***************************************************************************)
LEMMA ReturnStep ==
  ASSUME IInv, Return, faults' \in 0 .. MaxFaults,
         UNCHANGED <<log, promised, stored, files, images, wire>>
  PROVE  IInv'
<1>1. TypeOK' /\ VisibleImages'
  BY DEF IInv, TypeOK, VisibleImages, Return, Phases, Rows
<1>2. CallInv'
  BY DEF CallInv, Return
<1>3. NoPromisedRowLost' /\ NoOvertaking' /\ FileOrder' /\ WireOrder'
  BY DEF IInv, NoPromisedRowLost, NoOvertaking, FileOrder, WireOrder, Settled
<1>4. QED
  BY <1>1, <1>2, <1>3 DEF IInv

\* A fault stays within the bound on faults.
LEMMA FaultType == TypeOK /\ Fault => faults' \in 0 .. MaxFaults
  BY BoundsAssumption DEF TypeOK, Fault

(***************************************************************************)
(* Enqueue: every settled row is visible, so the new number is above all   *)
(* of them.                                                                *)
(***************************************************************************)
LEMMA EnqueueStep ==
  ASSUME IInv, NEW t \in Tables, Enqueue(t)
  PROVE  IInv'
<1> DEFINE new == Len(log) + 1
<1>1. PICK n \in Sequences64 :
        IsNextSequence(n) /\ PutFile(n, new) /\ batch' = {n}
  BY DEF Enqueue
<1>2. /\ log' = Append(log, t) /\ Len(log') = new /\ log \in Seq(Tables)
      /\ new \in Nat /\ new # NoFile /\ new \notin Rows
      /\ Rows' = Rows \union {new}
  BY DEF Enqueue, IInv, TypeOK, NoFile, Rows
<1>3. files[n] = NoFile
  BY <1>1, BoundsAssumption DEF IsNextSequence, Entries, Sequences64
<1>4. TypeOK'
  <2>1. log' \in Seq(Tables)
    BY <1>2
  <2>2. /\ files' \in [Sequences64 -> Rows' \union {NoFile}]
        /\ images' \in [Sequences64 -> SUBSET (Rows' \union {NoFile})]
    BY <1>1, <1>2 DEF IInv, TypeOK, PutFile
  <2>3. QED
    BY <1>1, <1>2, <2>1, <2>2 DEF IInv, TypeOK, Enqueue, Phases
<1>5. VisibleImages'
  BY <1>1 DEF IInv, TypeOK, VisibleImages, PutFile
<1>6. CallInv'
  BY <1>1, <1>2 DEF IInv, TypeOK, CallInv, PutFile, Enqueue
<1>7. \A s \in Sequences64, p \in promised : Settled(s, p) => s < n /\ Settled(s, p)'
  <2> SUFFICES ASSUME NEW s \in Sequences64, NEW p \in promised, Settled(s, p)
               PROVE  s < n /\ Settled(s, p)'
    OBVIOUS
  <2>1. files[s] = p /\ p # NoFile
    BY DEF IInv, TypeOK, VisibleImages, Settled, NoFile, Rows
  <2>2. s < n
    BY <1>1, <2>1 DEF IsNextSequence, Entries
  <2>3. QED
    BY <1>1, <2>2, BoundsAssumption DEF Settled, PutFile, Sequences64, IInv, TypeOK
<1>8. NoPromisedRowLost' /\ NoOvertaking' /\ WireOrder'
  BY <1>7 DEF IInv, NoPromisedRowLost, NoOvertaking, WireOrder, Enqueue
<1>9. FileOrder'
  <2> SUFFICES ASSUME NEW s \in Sequences64, NEW r \in images'[s] \ {NoFile},
                      NEW p \in promised \ stored, p < r
               PROVE  \E u \in 1 .. s - 1 : Settled(u, p)'
    BY DEF FileOrder, Enqueue
  <2>1. CASE r \in images[s]
    BY <2>1, <1>7, BoundsAssumption DEF IInv, FileOrder, Sequences64
  <2>2. CASE s = n
    <3>1. PICK u \in Sequences64 : Settled(u, p)
      BY DEF IInv, NoPromisedRowLost
    <3>2. QED
      BY <1>7, <2>2, <3>1, BoundsAssumption DEF Sequences64
  <2>3. QED
    BY <1>1, <2>1, <2>2 DEF PutFile, IInv, TypeOK
<1>10. QED
  BY <1>4, <1>5, <1>6, <1>8, <1>9 DEF IInv

(***************************************************************************)
(* A directory sync keeps every settled row where it is.                   *)
(***************************************************************************)
LEMMA SyncKeepsSettled ==
  ASSUME TypeOK, VisibleImages, SyncDirectory, files' = files,
         NEW s \in Sequences64, NEW r
  PROVE  /\ Settled(s, r) => Settled(s, r)'
         /\ images'[s] = {files[s]} /\ images'[s] \subseteq images[s]
BY DEF TypeOK, VisibleImages, SyncDirectory, Settled

(***************************************************************************)
(* EnqueueSync promises the last row, whose file is settled by the sync.   *)
(***************************************************************************)
LEMMA EnqueueSyncStep ==
  ASSUME IInv, EnqueueSync
  PROVE  IInv'
<1> DEFINE last == Len(log)
<1>1. PICK n \in Sequences64 : batch = {n} /\ files[n] = last
  BY DEF IInv, CallInv, EnqueueSync
<1>2. log # <<>> /\ last \in Rows /\ Rows' = Rows
  BY DEF IInv, CallInv, EnqueueSync, TypeOK, Rows
<1>3. promised' = promised \union {last} /\ SyncDirectory /\ files' = files
      /\ stored' = stored /\ wire' = wire /\ log' = log /\ Return /\ faults' = faults
  BY DEF EnqueueSync
<1>4. TypeOK'
  <2>1. images' \in [Sequences64 -> SUBSET (Rows \union {NoFile})]
    BY <1>3 DEF IInv, TypeOK, SyncDirectory
  <2>2. promised' \subseteq Rows
    BY <1>2, <1>3 DEF IInv, TypeOK
  <2>3. QED
    BY <1>2, <1>3, <2>1, <2>2 DEF IInv, TypeOK, Return, Phases
<1>5. VisibleImages' /\ CallInv'
  BY <1>3 DEF VisibleImages, SyncDirectory, CallInv, Return
<1>6. NoPromisedRowLost'
  BY <1>1, <1>3, SyncKeepsSettled DEF IInv, NoPromisedRowLost, Settled, SyncDirectory
<1>7. \A r \in Rows : ~ last < r
  BY <1>2 DEF Rows
<1>8. FileOrder'
  <2> SUFFICES ASSUME NEW s \in Sequences64, NEW r \in images'[s] \ {NoFile},
                      NEW p \in promised' \ stored, p < r
               PROVE  \E u \in 1 .. s - 1 : Settled(u, p)'
    BY <1>3 DEF FileOrder
  <2>1. r \in images[s]
    BY <1>3, SyncKeepsSettled DEF IInv
  <2>2. r \in Rows
    BY <2>1 DEF IInv, TypeOK
  <2>3. p \in promised
    BY <1>3, <1>7, <2>2
  <2>4. PICK u \in 1 .. s - 1 : Settled(u, p)
    BY <2>1, <2>3 DEF IInv, FileOrder
  <2>5. u \in Sequences64
    BY BoundsAssumption DEF Sequences64
  <2>6. QED
    BY <1>3, <2>4, <2>5, SyncKeepsSettled DEF IInv
<1>9. NoOvertaking' /\ WireOrder'
  <2>1. \A request \in wire : request \subseteq Rows
    BY DEF IInv, TypeOK
  <2>2. QED
    BY <1>3, <1>7, <2>1 DEF IInv, TypeOK, NoOvertaking, WireOrder
<1>10. QED
  BY <1>4, <1>5, <1>6, <1>8, <1>9 DEF IInv

(***************************************************************************)
(* Flush before the answer: the directory does not change.                 *)
(***************************************************************************)
LEMMA FlushStartStep ==
  ASSUME IInv, FlushStart
  PROVE  IInv'
<1>1. TypeOK' /\ VisibleImages'
  BY DEF IInv, TypeOK, VisibleImages, FlushStart, Phases, Entries, Rows
<1>2. CallInv'
  BY DEF IInv, CallInv, FlushStart, Entries
<1>3. NoPromisedRowLost' /\ NoOvertaking' /\ FileOrder' /\ WireOrder'
  BY DEF IInv, NoPromisedRowLost, NoOvertaking, FileOrder, WireOrder, Settled, FlushStart
<1>4. QED
  BY <1>1, <1>2, <1>3 DEF IInv

\* Flush sends the first batch of what is left: the request carries every
\* earlier promised row that is not stored (queue.go Flush, client.go send).
LEMMA FlushSendStep ==
  ASSUME IInv, FlushSend
  PROVE  IInv'
<1> DEFINE first == FirstBatch(todo)
           request == Request(first)
<1>1. todo = Entries /\ todo \subseteq Sequences64 /\ first \subseteq todo
  BY DEF IInv, CallInv, TypeOK, FlushSend, FirstBatch
<1>2. request \subseteq Rows
  <2> SUFFICES ASSUME NEW s \in first PROVE files[s] \in Rows
    BY DEF Request
  <2>1. s \in Sequences64 /\ files[s] # NoFile
    BY <1>1 DEF Entries
  <2>2. QED
    BY <2>1 DEF IInv, TypeOK
<1>3. TypeOK' /\ VisibleImages'
  <2>1. /\ batch' = first /\ wire' = wire \union {request} /\ phase' \in Phases
        /\ UNCHANGED <<log, promised, stored, files, images, todo, answered, faults>>
    BY DEF FlushSend, Phases
  <2>2. Rows' = Rows
    BY <2>1 DEF Rows
  <2> HIDE DEF first, request
  <2>3. QED
    BY <1>1, <1>2, <2>1, <2>2 DEF IInv, TypeOK, VisibleImages
<1>4. CallInv'
  BY <1>1 DEF IInv, CallInv, FlushSend, Entries
<1>5. NoPromisedRowLost' /\ NoOvertaking' /\ FileOrder'
  BY DEF IInv, NoPromisedRowLost, NoOvertaking, FileOrder, Settled, FlushSend
<1>6. \A r \in request, p \in promised : p < r => p \in stored \union request
  <2> SUFFICES ASSUME NEW r \in request, NEW p \in promised, p < r, p \notin stored
               PROVE  p \in request
    OBVIOUS
  <2>1. PICK s \in first : files[s] = r
    BY DEF Request
  <2>2. s \in Sequences64 /\ r \in images[s] /\ r # NoFile
    BY <1>1, <2>1 DEF IInv, VisibleImages, Entries
  <2>3. PICK u \in 1 .. s - 1 : Settled(u, p)
    BY <2>2 DEF IInv, FileOrder
  <2>4. u \in Sequences64 /\ u < s
    BY <2>2, BoundsAssumption DEF Sequences64
  <2>5. files[u] = p /\ p # NoFile
    BY <2>3, <2>4 DEF IInv, VisibleImages, Settled, TypeOK, Rows, NoFile
  <2>6. u \in todo
    BY <1>1, <2>4, <2>5 DEF Entries
  <2>7. u \in first
    BY <1>1, <2>4, <2>6, FirstBatchClosed
  <2>8. QED
    BY <2>5, <2>7 DEF Request
<1>7. WireOrder'
  BY <1>6 DEF IInv, WireOrder, FlushSend
<1>8. QED
  BY <1>3, <1>4, <1>5, <1>7 DEF IInv

\* Flush goes on only after a 2xx answer: the rows of the batch are stored
\* (client.go send).
LEMMA FlushAcknowledgedStep ==
  ASSUME IInv, FlushAcknowledged
  PROVE  IInv'
<1>1. TypeOK' /\ VisibleImages'
  BY DEF IInv, TypeOK, VisibleImages, FlushAcknowledged, Phases, Rows
<1>2. CallInv'
  BY DEF IInv, CallInv, FlushAcknowledged, Entries, Request
<1>3. NoPromisedRowLost' /\ NoOvertaking' /\ FileOrder' /\ WireOrder'
  BY DEF IInv, NoPromisedRowLost, NoOvertaking, FileOrder, WireOrder, Settled, FlushAcknowledged
<1>4. QED
  BY <1>1, <1>2, <1>3 DEF IInv

(***************************************************************************)
(* Flush after the answer: only files of stored rows are removed, so every *)
(* settled row that is not stored stays settled.                           *)
(***************************************************************************)
LEMMA FlushRemoveStep ==
  ASSUME IInv, FlushRemove
  PROVE  IInv'
<1>1. PICK n \in batch :
        /\ PutFile(n, NoFile) /\ batch' = batch \ {n} /\ todo' = todo \ {n}
        /\ phase' \in {"syncing", "removing"}
  BY DEF FlushRemove
<1>2. /\ n \in Sequences64 /\ files[n] \in stored /\ ~ answered
      /\ todo = Entries /\ batch \subseteq todo /\ Request(batch) \subseteq stored
  BY DEF IInv, TypeOK, CallInv, FlushRemove, Request
<1>3. UNCHANGED <<log, promised, stored, answered, wire, faults>> /\ Rows' = Rows
  BY DEF FlushRemove, Rows
<1>4. TypeOK'
  <2>1. files' \in [Sequences64 -> Rows \union {NoFile}]
        /\ images' \in [Sequences64 -> SUBSET (Rows \union {NoFile})]
    BY <1>1, <1>2 DEF IInv, TypeOK, PutFile
  <2>2. phase' \in Phases /\ todo' \subseteq Sequences64 /\ batch' \subseteq Sequences64
    BY <1>1 DEF IInv, TypeOK, Phases
  <2>3. QED
    BY <1>3, <2>1, <2>2 DEF IInv, TypeOK
<1>5. VisibleImages'
  BY <1>1, <1>2 DEF IInv, TypeOK, VisibleImages, PutFile
<1>6. CallInv'
  <2>1. todo' = Entries'
    BY <1>1, <1>2 DEF Entries, PutFile, IInv, TypeOK, NoFile
  <2>2. batch' \subseteq todo'
    BY <1>1, <1>2
  <2>3. Request(batch)' \subseteq stored'
    BY <1>1, <1>2, <1>3 DEF Request, PutFile, IInv, TypeOK
  <2>4. QED
    BY <1>1, <1>2, <1>3, <2>1, <2>2, <2>3 DEF CallInv
<1>7. \A s \in Sequences64, p \in promised \ stored : Settled(s, p) => Settled(s, p)'
  BY <1>1, <1>2 DEF Settled, PutFile, IInv, TypeOK, VisibleImages
<1>8. NoPromisedRowLost' /\ NoOvertaking' /\ WireOrder'
  BY <1>3, <1>7 DEF IInv, NoPromisedRowLost, NoOvertaking, WireOrder
<1>9. FileOrder'
  <2> SUFFICES ASSUME NEW s \in Sequences64, NEW r \in images'[s] \ {NoFile},
                      NEW p \in promised \ stored, p < r
               PROVE  \E u \in 1 .. s - 1 : Settled(u, p)'
    BY <1>3 DEF FileOrder
  <2>1. r \in images[s]
    BY <1>1 DEF PutFile, IInv, TypeOK
  <2>2. PICK u \in 1 .. s - 1 : Settled(u, p)
    BY <2>1 DEF IInv, FileOrder
  <2>3. u \in Sequences64
    BY BoundsAssumption DEF Sequences64
  <2>4. QED
    BY <1>7, <2>2, <2>3
<1>10. QED
  BY <1>4, <1>5, <1>6, <1>8, <1>9 DEF IInv

(***************************************************************************)
(* A step that leaves the rows alone, shows only contents each name might  *)
(* already have, and settles every name on one of them: a directory sync   *)
(* or a power failure.                                                     *)
(***************************************************************************)
LEMMA SettlingStep ==
  ASSUME IInv, UNCHANGED <<log, promised, stored, wire>>,
         files' \in [Sequences64 -> Rows \union {NoFile}],
         \A s \in Sequences64 : files'[s] \in images[s],
         images' = [s \in Sequences64 |-> {files'[s]}]
  PROVE  /\ VisibleImages' /\ NoPromisedRowLost' /\ NoOvertaking'
         /\ FileOrder' /\ WireOrder'
         /\ images' \in [Sequences64 -> SUBSET (Rows \union {NoFile})]
<1>1. \A s \in Sequences64, p \in promised : Settled(s, p) => Settled(s, p)'
  BY DEF Settled
<1>2. VisibleImages' /\ NoPromisedRowLost' /\ NoOvertaking' /\ WireOrder'
  BY <1>1 DEF IInv, VisibleImages, NoPromisedRowLost, NoOvertaking, WireOrder
<1>3. FileOrder'
  <2> SUFFICES ASSUME NEW s \in Sequences64, NEW r \in images'[s] \ {NoFile},
                      NEW p \in promised \ stored, p < r
               PROVE  \E u \in 1 .. s - 1 : Settled(u, p)'
    BY DEF FileOrder
  <2>1. r \in images[s]
    OBVIOUS
  <2>2. PICK u \in 1 .. s - 1 : Settled(u, p)
    BY <2>1 DEF IInv, FileOrder
  <2>3. u \in Sequences64
    BY BoundsAssumption DEF Sequences64
  <2>4. QED
    BY <1>1, <2>2, <2>3
<1>4. QED
  BY <1>2, <1>3

\* The directory sync after a removed batch (queue.go Flush).
LEMMA FlushSyncStep ==
  ASSUME IInv, FlushSync
  PROVE  IInv'
<1>1. VisibleImages' /\ NoPromisedRowLost' /\ NoOvertaking' /\ FileOrder' /\ WireOrder'
      /\ images' \in [Sequences64 -> SUBSET (Rows \union {NoFile})]
  BY SettlingStep DEF FlushSync, SyncDirectory, IInv, TypeOK, VisibleImages
<1>2. TypeOK'
  BY <1>1 DEF IInv, TypeOK, FlushSync, Return, Phases, Rows
<1>3. CallInv'
  BY DEF IInv, CallInv, FlushSync, Return, Entries
<1>4. QED
  BY <1>1, <1>2, <1>3 DEF IInv

\* A power failure picks one of the contents each name may have; what was
\* synced stays (queue.go syncDirectory).
LEMMA PowerFailureStep ==
  ASSUME IInv, PowerFailure
  PROVE  IInv'
<1>1. files' \in [Sequences64 -> Rows \union {NoFile}]
  BY DEF PowerFailure, IInv, TypeOK
<1>2. VisibleImages' /\ NoPromisedRowLost' /\ NoOvertaking' /\ FileOrder' /\ WireOrder'
      /\ images' \in [Sequences64 -> SUBSET (Rows \union {NoFile})]
  BY <1>1, SettlingStep DEF PowerFailure
<1>3. faults' \in 0 .. MaxFaults
  BY FaultType DEF PowerFailure, IInv
<1>4. TypeOK' /\ CallInv'
  BY <1>1, <1>2, <1>3 DEF IInv, TypeOK, CallInv, PowerFailure, Return, Phases, Rows
<1>5. QED
  BY <1>2, <1>4 DEF IInv

(***************************************************************************)
(* The wire: whatever is applied brings every earlier promised row.        *)
(***************************************************************************)
LEMMA ApplyStep ==
  ASSUME IInv, NEW request \in wire, Apply(request)
  PROVE  IInv'
<1>1. /\ stored' = stored \union request /\ wire' = wire \ {request}
      /\ UNCHANGED <<log, promised, files, images, phase, todo, batch, faults>>
      /\ answered' \in BOOLEAN
      /\ answered' => phase = "waiting" /\ (answered \/ request = Request(batch))
  BY DEF Apply, IInv, TypeOK, CallInv
<1>2. request \subseteq Rows /\ Rows' = Rows
  BY <1>1 DEF IInv, TypeOK, Rows
<1>3. TypeOK' /\ VisibleImages'
  BY <1>1, <1>2 DEF IInv, TypeOK, VisibleImages
<1>4. CallInv'
  BY <1>1 DEF IInv, CallInv, Entries, Request
<1>5. NoPromisedRowLost' /\ NoOvertaking' /\ WireOrder'
  BY <1>1 DEF IInv, NoPromisedRowLost, NoOvertaking, WireOrder, Settled
<1>6. FileOrder'
  BY <1>1 DEF IInv, FileOrder, Settled
<1>7. QED
  BY <1>3, <1>4, <1>5, <1>6 DEF IInv

\* A request lost on the way changes nothing the queue relies on.
LEMMA DropStep ==
  ASSUME IInv, NEW request \in wire, Drop(request)
  PROVE  IInv'
<1>1. TypeOK' /\ VisibleImages' /\ CallInv'
  BY DEF IInv, TypeOK, VisibleImages, CallInv, Drop, callVars, Entries, Request, Rows
<1>2. NoPromisedRowLost' /\ NoOvertaking' /\ FileOrder' /\ WireOrder'
  BY DEF IInv, NoPromisedRowLost, NoOvertaking, FileOrder, WireOrder, Settled, Drop
<1>3. QED
  BY <1>1, <1>2 DEF IInv

-----------------------------------------------------------------------------
\* An empty directory and no rows (queue.go OpenQueue).
LEMMA InitIInv == Init => IInv
<1> SUFFICES ASSUME Init PROVE IInv
  OBVIOUS
<1>1. TypeOK
  <2>1. log \in Seq(Tables) /\ faults \in 0 .. MaxFaults
    BY BoundsAssumption DEF Init
  <2>2. /\ files \in [Sequences64 -> Rows \union {NoFile}]
        /\ images \in [Sequences64 -> SUBSET (Rows \union {NoFile})]
    BY DEF Init
  <2>3. QED
    BY <2>1, <2>2 DEF Init, TypeOK, Phases
<1>2. VisibleImages /\ CallInv
  BY DEF Init, VisibleImages, CallInv
<1>3. NoPromisedRowLost /\ NoOvertaking /\ FileOrder /\ WireOrder
  BY DEF Init, NoPromisedRowLost, NoOvertaking, FileOrder, WireOrder
<1>4. QED
  BY <1>1, <1>2, <1>3 DEF IInv

\* Every step of Enqueue, Flush, ClickHouse and a restart keeps the invariant.
LEMMA NextIInv == IInv /\ [Next]_vars => IInv'
<1> SUFFICES ASSUME IInv, [Next]_vars PROVE IInv'
  OBVIOUS
<1>1. ASSUME NEW t \in Tables, Enqueue(t) PROVE IInv'
  BY <1>1, EnqueueStep
<1>2. CASE EnqueueSync
  BY <1>2, EnqueueSyncStep
<1>3. CASE EnqueueSyncFails \/ FlushDiskError \/ Crash
  BY <1>3, ReturnStep, FaultType
     DEF EnqueueSyncFails, FlushDiskError, Crash, IInv
<1>4. CASE FlushStart
  BY <1>4, FlushStartStep
<1>5. CASE FlushCancelled \/ FlushGivesUp
  BY <1>5, ReturnStep DEF FlushCancelled, FlushGivesUp, IInv, TypeOK
<1>6. CASE FlushSend
  BY <1>6, FlushSendStep
<1>7. CASE FlushAcknowledged
  BY <1>7, FlushAcknowledgedStep
<1>8. CASE FlushRemove
  BY <1>8, FlushRemoveStep
<1>9. CASE FlushSync
  BY <1>9, FlushSyncStep
<1>10. ASSUME NEW request \in wire, Apply(request) \/ Drop(request) PROVE IInv'
  BY <1>10, ApplyStep, DropStep
<1>11. CASE PowerFailure
  BY <1>11, PowerFailureStep
<1>12. CASE UNCHANGED vars
  <2> USE <1>12 DEF vars, callVars
  <2>1. TypeOK' /\ VisibleImages' /\ CallInv'
    BY DEF IInv, TypeOK, VisibleImages, CallInv, Entries, Request, Rows
  <2>2. NoPromisedRowLost' /\ NoOvertaking' /\ FileOrder' /\ WireOrder'
    BY DEF IInv, NoPromisedRowLost, NoOvertaking, FileOrder, WireOrder, Settled
  <2>3. QED
    BY <2>1, <2>2 DEF IInv
<1>13. QED
  BY <1>1, <1>2, <1>3, <1>4, <1>5, <1>6, <1>7, <1>8, <1>9, <1>10, <1>11, <1>12 DEF Next

(***************************************************************************)
(* The inductive invariant holds in every reachable state.                 *)
(***************************************************************************)
THEOREM Invariance == Spec => []IInv
  BY InitIInv, NextIInv, PTL DEF Spec

(***************************************************************************)
(* Every variable of the queue keeps its type.                             *)
(***************************************************************************)
THEOREM TypeCorrect == Spec => []TypeOK
<1>1. IInv => TypeOK
  BY DEF IInv
<1>2. QED
  BY <1>1, Invariance, PTL

(***************************************************************************)
(* A row whose Enqueue returned nil survives every crash, power failure,   *)
(* disk error and lost answer until ClickHouse holds it (queue.go Enqueue  *)
(* and Flush).                                                             *)
(***************************************************************************)
THEOREM PromisedRowsSurvive == Spec => []NoPromisedRowLost
<1>1. IInv => NoPromisedRowLost
  BY DEF IInv
<1>2. QED
  BY <1>1, Invariance, PTL

(***************************************************************************)
(* ClickHouse never holds a row without every earlier promised row         *)
(* (queue.go Flush, "a reconnect replays the same event sequence").        *)
(***************************************************************************)
THEOREM StoredInOrder == Spec => []NoOvertaking
<1>1. IInv => NoOvertaking
  BY DEF IInv
<1>2. QED
  BY <1>1, Invariance, PTL

(***************************************************************************)
(* The files hold promised rows in the order of their promises, although   *)
(* the numbering restarts and removed files may come back (queue.go        *)
(* nextSequence).                                                          *)
(***************************************************************************)
THEOREM FilesInOrder == Spec => []FileOrder
<1>1. IInv => FileOrder
  BY DEF IInv
<1>2. QED
  BY <1>1, Invariance, PTL

(***************************************************************************)
(* A late request never holds a row that an earlier promised row has not   *)
(* preceded (client.go send).                                              *)
(***************************************************************************)
THEOREM RequestsInOrder == Spec => []WireOrder
<1>1. IInv => WireOrder
  BY DEF IInv
<1>2. QED
  BY <1>1, Invariance, PTL

-----------------------------------------------------------------------------
(***************************************************************************)
(* Every step of the queue is a step of LedgerDelivery or leaves its       *)
(* variables alone.                                                        *)
(***************************************************************************)
LEMMA NextDelivers == IInv /\ [Next]_vars => [Delivery!Next]_(Delivery!vars)
<1> SUFFICES ASSUME IInv, [Next]_vars PROVE [Delivery!Next]_(Delivery!vars)
  OBVIOUS
<1> USE DEF Delivery!Next, Delivery!vars
<1>1. ASSUME NEW t \in Tables, Enqueue(t) PROVE Delivery!Write(t)
  BY <1>1 DEF Enqueue, Delivery!Write
<1>2. CASE EnqueueSync
  BY <1>2 DEF EnqueueSync, Delivery!Promise, IInv, CallInv
<1>3. ASSUME NEW request \in wire, Apply(request)
      PROVE  \E b \in SUBSET Delivery!Rows : Delivery!Deliver(b)
  <2>1. request \in SUBSET Delivery!Rows
    BY DEF IInv, TypeOK, Rows, Delivery!Rows
  <2>2. Delivery!Deliver(request)
    BY <1>3 DEF Apply, Delivery!Deliver, IInv, WireOrder
  <2>3. QED
    BY <2>1, <2>2
<1>4. CASE \/ EnqueueSyncFails \/ FlushStart \/ FlushCancelled \/ FlushSend
           \/ FlushGivesUp \/ FlushAcknowledged \/ FlushRemove \/ FlushSync
           \/ FlushDiskError \/ Crash \/ PowerFailure
           \/ \E request \in wire : Drop(request)
  BY <1>4 DEF EnqueueSyncFails, FlushStart, FlushCancelled, FlushSend, FlushGivesUp,
     FlushAcknowledged, FlushRemove, FlushSync, FlushDiskError, Crash, PowerFailure, Drop
<1>5. CASE UNCHANGED vars
  BY <1>5 DEF vars
<1>6. QED
  BY <1>1, <1>2, <1>3, <1>4, <1>5 DEF Next

\* The queue refines the delivery contract, so its callers may rely on the
\* contract alone (queue.go:34, "a reconnect replays the same event sequence").
THEOREM QueueImplementsDelivery == Spec => ImplementsDelivery
<1>1. Init => Delivery!Init
  BY DEF Init, Delivery!Init
<1>2. QED
  BY <1>1, NextDelivers, Invariance, PTL DEF Spec, ImplementsDelivery, Delivery!Spec
=============================================================================
