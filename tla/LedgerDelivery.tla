--------------------------- MODULE LedgerDelivery ---------------------------
(***************************************************************************)
(* What the durable ledger queue promises its callers, and nothing about   *)
(* how: rows are written in one order, some of them are promised durable   *)
(* to the caller, and ClickHouse receives rows so that a row never         *)
(* overtakes an earlier promised one.                                      *)
(*                                                                         *)
(* LedgerQueue implements this specification.                              *)
(***************************************************************************)
EXTENDS Naturals, Sequences

CONSTANTS Tables,     \* the INSERT statements (target tables) of the rows
          Refused     \* tables whose INSERT ClickHouse refuses

VARIABLES log,        \* the table of every row written, in the order written
          promised,   \* rows whose Enqueue returned nil
          stored      \* rows ClickHouse holds

vars == <<log, promised, stored>>

Rows == 1 .. Len(log)

Init ==
  /\ log = <<>>
  /\ promised = {}
  /\ stored = {}

\* A row becomes visible in the local directory.
Write(t) ==
  /\ log' = Append(log, t)
  /\ UNCHANGED <<promised, stored>>

\* The caller is told that the last row written is durable.
Promise ==
  /\ log # <<>>
  /\ promised' = promised \union {Len(log)}
  /\ UNCHANGED <<log, stored>>

\* Rows reach ClickHouse together with every earlier promised row.
Deliver(batch) ==
  /\ \A r \in batch, p \in promised : p < r => p \in stored \union batch
  /\ stored' = stored \union batch
  /\ UNCHANGED <<log, promised>>

Next ==
  \/ \E t \in Tables : Write(t)
  \/ Promise
  \/ \E batch \in SUBSET Rows : Deliver(batch)

Spec == Init /\ [][Next]_vars

(***************************************************************************)
(* A promised row that no row of a refused table precedes.                 *)
(***************************************************************************)
Deliverable(r) ==
  /\ r \in promised
  /\ \A q \in 1 .. r : log[q] \notin Refused
=============================================================================
