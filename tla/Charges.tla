------------------------------ MODULE Charges ------------------------------
(***************************************************************************)
(* From a billed model call to a charge row: pipeline runs, line           *)
(* re-renders and editor agent turns of one dub (internal/fit/loop.go,     *)
(* rewrite.go; internal/agent/agent.go; internal/ledger/takes.go,          *)
(* charges.go; cmd/ajilamu/main.go; the key of charges_raw in              *)
(* sql/schema.sql).                                                        *)
(*                                                                         *)
(* A client bills when the answer is good, so a busy service that is       *)
(* called again bills nothing. Calls of one kind cost the same here: that  *)
(* is when only the other columns of the key keep their rows apart. The    *)
(* token rows of a Gemini call stand and fall together and are one row.    *)
(***************************************************************************)
EXTENDS Naturals, Sequences, FiniteSets

CONSTANTS Runs, Rerenders, Turns,  \* the requests of each kind
          LineCount,               \* lines of the film
          MaxAttempts,             \* attempts of one repair (3 in the code)
          MaxTurnCalls,            \* bound on the calls of one agent turn
          NoRequest                \* nobody

ASSUME RequestsAssumption ==
  /\ Runs \intersect Rerenders = {} /\ Runs \intersect Turns = {}
  /\ Rerenders \intersect Turns = {}
  /\ NoRequest \notin Runs \union Rerenders \union Turns
ASSUME CountsAssumption ==
  LineCount \in Nat \ {0} /\ MaxAttempts \in Nat \ {0} /\ MaxTurnCalls \in Nat

VARIABLES calls,   \* request -> the calls it was billed for
          rows,    \* the keys of charges_raw: equal rows are one row
          record,  \* line -> the attempts its resume record names
          job,     \* request -> what it is doing
          runner,  \* the request that holds the runner mutex, or NoRequest
          turn     \* the agent turn in progress, or NoRequest

vars == <<calls, rows, record, job, runner, turn>>

Requests == Runs \union Rerenders \union Turns
Lines == 1 .. LineCount
WholeFilm == 0                      \* TakeID of the segmentation
Kinds == {"segment", "translate", "synthesize", "agent"}
Call == [kind : Kinds, line : 0 .. LineCount, attempt : 0 .. MaxAttempts,
         index : 0 .. MaxTurnCalls]
Key == [commit : Requests, call : Call]
Take == [line : Lines, attempt : 1 .. MaxAttempts]
Steps == {"idle", "segmenting", "opening", "translating", "synthesizing",
          "judging", "asking", "recording", "done", "failed"}

\* spoken: the text is the creator's, so no attempt translates.
\* takes: what the result holds so far; busy: a line was given up.
Idle == [at |-> "idle", line |-> 1, attempt |-> 1, spoken |-> FALSE,
         takes |-> <<>>, busy |-> FALSE]

TypeOK ==
  /\ calls \in [Requests -> SUBSET Call]
  /\ rows \subseteq Key
  /\ record \in [Lines -> 0 .. MaxAttempts]
  /\ \A r \in Requests :
       /\ job[r].at \in Steps
       /\ job[r].line \in 1 .. LineCount + 1 /\ job[r].attempt \in 1 .. MaxAttempts
       /\ job[r].takes \in Seq(Take)
  /\ runner \in Runs \union Rerenders \union {NoRequest}
  /\ turn \in Turns \union {NoRequest}

-----------------------------------------------------------------------------
\* Earlier runs may have left records of lines.
Init ==
  /\ calls = [r \in Requests |-> {}]
  /\ rows = {}
  /\ record \in [Lines -> 0 .. MaxAttempts]
  /\ job = [r \in Requests |-> Idle]
  /\ runner = NoRequest
  /\ turn = NoRequest

Go(r, at) == job' = [job EXCEPT ![r].at = at]
Active(r) == job[r].at \notin {"idle", "done", "failed"}

Bill(r, call) == calls' = [calls EXCEPT ![r] = @ \union {call}]

\* SetChargeAttempt: a call belongs to the attempt that makes it. Attempts are
\* numbered from 1 here, from the first free file name in the code.
LineCall(r, kind) ==
  [kind |-> kind, line |-> job[r].line, attempt |-> job[r].attempt, index |-> 0]

\* The request ends without a result, and lets the next one render.
Fail(r) == Go(r, "failed") /\ runner' = IF runner = r THEN NoRequest ELSE runner

(***************************************************************************)
(* A run segments the film and renders its lines in order. A re-render     *)
(* renders one line.                                                       *)
(***************************************************************************)
RunStart(r) ==
  /\ job[r].at = "idle"
  /\ ~ \E q \in Runs : Active(q)
  /\ runner = NoRequest /\ runner' = r
  /\ Go(r, "segmenting")
  /\ UNCHANGED <<calls, rows, record, turn>>

Segment(r) ==
  /\ job[r].at = "segmenting"
  /\ Bill(r, [kind |-> "segment", line |-> WholeFilm, attempt |-> 0, index |-> 0])
  /\ Go(r, "opening")
  /\ UNCHANGED <<rows, record, runner, turn>>

RerenderStart(r, l, authoritative) ==
  /\ job[r].at = "idle"
  /\ ~ \E q \in Runs : Active(q)
  /\ runner = NoRequest /\ runner' = r
  /\ job' = [job EXCEPT ![r] = [Idle EXCEPT !.line = l, !.spoken = authoritative,
                !.at = IF authoritative THEN "synthesizing" ELSE "translating"]]
  /\ UNCHANGED <<calls, rows, record, turn>>

NextLine(r, takes) ==
  job' = [job EXCEPT ![r].at = "opening", ![r].line = @ + 1, ![r].attempt = 1,
                     ![r].takes = @ \o takes]

TakesOf(l, n) == [k \in 1 .. n |-> [line |-> l, attempt |-> k]]

\* A line outside the film has no takes, a recorded one has those of its
\* record, another is rendered.
OpenLine(r) ==
  LET l == job[r].line
  IN  /\ job[r].at = "opening"
      /\ \/ l > LineCount /\ Go(r, "recording") /\ runner' = NoRequest
         \/ /\ l <= LineCount
            /\ \/ NextLine(r, <<>>)
               \/ record[l] > 0 /\ NextLine(r, TakesOf(l, record[l]))
               \/ record[l] = 0 /\ Go(r, "translating")
            /\ UNCHANGED runner
      /\ UNCHANGED <<calls, rows, record, turn>>

Translate(r) ==
  /\ job[r].at = "translating"
  /\ Bill(r, LineCall(r, "translate"))
  /\ Go(r, "synthesizing")
  /\ UNCHANGED <<rows, record, runner, turn>>

Synthesize(r) ==
  /\ job[r].at = "synthesizing"
  /\ Bill(r, LineCall(r, "synthesize"))
  /\ Go(r, "judging")
  /\ UNCHANGED <<rows, record, runner, turn>>

\* The line is finished: a run records it and goes on, a re-render keeps the
\* chosen take alone, whose number the route reads from its file: earlier
\* renders of the line decide it.
Finish(r) ==
  LET n == job[r].attempt
  IN  IF r \in Runs
      THEN /\ record' = [record EXCEPT ![job[r].line] = n]
           /\ NextLine(r, TakesOf(job[r].line, n))
           /\ UNCHANGED runner
      ELSE /\ \E k \in 1 .. MaxAttempts :
                job' = [job EXCEPT ![r].at = "recording",
                                   ![r].takes = <<[line |-> job[r].line, attempt |-> k]>>]
           /\ runner' = NoRequest
           /\ UNCHANGED record

\* Faulty: one attempt too many.
AttemptsLeftOffByOne(r) == job[r].attempt <= MaxAttempts

AttemptsLeft(r) == job[r].attempt < MaxAttempts

Judge(r) ==
  /\ job[r].at = "judging"
  /\ \/ Finish(r)
     \/ /\ AttemptsLeft(r)
        /\ job' = [job EXCEPT ![r].attempt = @ + 1,
                     ![r].at = IF job[r].spoken THEN "synthesizing" ELSE "translating"]
        /\ UNCHANGED <<record, runner>>
  /\ UNCHANGED <<calls, rows, turn>>

\* The service stayed busy after every retry: a run goes on without the line
\* and its attempts, a re-render ends.
StayBusy(r) ==
  /\ job[r].at \in {"translating", "synthesizing"}
  /\ IF r \in Runs
     THEN /\ job' = [job EXCEPT ![r].at = "opening", ![r].line = @ + 1,
                                ![r].attempt = 1, ![r].busy = TRUE]
          /\ UNCHANGED runner
     ELSE Fail(r)
  /\ UNCHANGED <<calls, rows, record, turn>>

\* A cancel, an error of a call or of the disk, the end of the process.
RenderFails(r) ==
  /\ job[r].at \in {"segmenting", "opening", "translating", "synthesizing", "judging"}
  /\ Fail(r)
  /\ UNCHANGED <<calls, rows, record, turn>>

-----------------------------------------------------------------------------
(***************************************************************************)
(* The charge rows of a result. A take of a run has the calls of its own   *)
(* attempt, and the first take the whole-film calls too. The only take of  *)
(* a re-render has all its calls, under its own attempt.                   *)
(***************************************************************************)
\* Faulty: the calls of a line go to the attempt that won.
ChargesForChosen(r, take) ==
  {c \in calls[r] : c.line = take.line /\ c.attempt = take.attempt
                    /\ \A d \in calls[r] : d.line = c.line => d.attempt <= c.attempt}

ChargesForAttempt(r, take) ==
  {c \in calls[r] : c.line = take.line /\ c.attempt = take.attempt}

WholePass(r) == {c \in calls[r] : c.attempt = 0}

\* Faulty: every take pays for the segmentation.
ChargesOnEveryTake(r, k) ==
  LET take == job[r].takes[k]
  IN  ChargesForAttempt(r, take) \union {[c EXCEPT !.line = take.line] : c \in WholePass(r)}

TakeCharges(r, k) ==
  LET take == job[r].takes[k]
  IN  IF r \in Runs
      THEN ChargesForAttempt(r, take) \union
           IF k = 1 THEN {[c EXCEPT !.line = take.line] : c \in WholePass(r)} ELSE {}
      ELSE {[c EXCEPT !.attempt = take.attempt] : c \in calls[r]}

\* The identity of a row: the dub, the commit, the line, the attempt, the
\* turn, the call index and the kind.
RowsOfTake(r, k) == {[commit |-> r, call |-> c] : c \in TakeCharges(r, k)}

\* persist writes take after take. An error ends it: what is in the queue
\* arrives later, the rest never does.
Record(r) ==
  /\ job[r].at = "recording"
  /\ \/ /\ rows' = rows \union UNION {RowsOfTake(r, k) : k \in 1 .. Len(job[r].takes)}
        /\ Go(r, "done")
     \/ \E n \in 0 .. Len(job[r].takes) :
          /\ rows' = rows \union UNION {RowsOfTake(r, k) : k \in 1 .. n}
          /\ Go(r, "failed")
  /\ UNCHANGED <<calls, record, runner, turn>>

(***************************************************************************)
(* An agent turn: the calls of one question, recorded once it is answered. *)
(***************************************************************************)
Ask(r) ==
  /\ job[r].at = "idle"
  /\ turn = NoRequest /\ turn' = r
  /\ Go(r, "asking")
  /\ UNCHANGED <<calls, rows, record, runner>>

AgentCall(r) ==
  LET n == Cardinality(calls[r])
  IN  /\ job[r].at = "asking"
      /\ n < MaxTurnCalls
      /\ Bill(r, [kind |-> "agent", line |-> WholeFilm, attempt |-> 0, index |-> n])
      /\ UNCHANGED <<rows, record, job, runner, turn>>

Answer(r) ==
  /\ job[r].at = "asking"
  /\ Go(r, "recording") /\ turn' = NoRequest
  /\ UNCHANGED <<calls, rows, record, runner>>

TurnFails(r) ==
  /\ job[r].at = "asking"
  /\ Go(r, "failed") /\ turn' = NoRequest
  /\ UNCHANGED <<calls, rows, record, runner>>

\* Faulty: the rows of a turn carry no call index.
TurnRowsUnnumbered(r) == {[commit |-> r, call |-> [c EXCEPT !.index = 0]] : c \in calls[r]}

TurnRows(r) == {[commit |-> r, call |-> c] : c \in calls[r]}

RecordAgentTurn(r) ==
  /\ job[r].at = "recording"
  /\ \/ rows' = rows \union TurnRows(r) /\ Go(r, "done")
     \/ \E n \in 0 .. MaxTurnCalls :
          /\ rows' = rows \union {k \in TurnRows(r) : k.call.index < n}
          /\ Go(r, "failed")
  /\ UNCHANGED <<calls, record, runner, turn>>

-----------------------------------------------------------------------------
RenderStep(r) ==
  \/ Translate(r) \/ Synthesize(r) \/ Judge(r) \/ StayBusy(r) \/ RenderFails(r) \/ Record(r)

Next ==
  \/ \E r \in Runs : RunStart(r) \/ Segment(r) \/ OpenLine(r) \/ RenderStep(r)
  \/ \E r \in Rerenders :
       \/ \E l \in Lines, authoritative \in BOOLEAN : RerenderStart(r, l, authoritative)
       \/ RenderStep(r)
  \/ \E r \in Turns :
       Ask(r) \/ AgentCall(r) \/ Answer(r) \/ TurnFails(r) \/ RecordAgentTurn(r)

Spec == Init /\ [][Next]_vars

-----------------------------------------------------------------------------
(***************************************************************************)
(* Properties.                                                             *)
(***************************************************************************)
RowsOf(r) == {k \in rows : k.commit = r}
AttemptCalls(r) == {c \in calls[r] : c.attempt > 0}

\* No call is paid for by two rows, whatever failed and however the requests
\* interleave: the running total never exceeds what was billed (workspace.go
\* RunningTotal sums every row).
NothingCountsTwice ==
  \A r \in Requests : Cardinality(RowsOf(r)) <= Cardinality(calls[r])

\* A run that reports success has a row for every call it was billed for, with
\* the attempt that made the call, if it gave no line up and has a take to
\* carry the segmentation: resumed lines before or after a rendered one and
\* lines outside the film change nothing (main.go pipelineRunResult, persist).
RunCountsEveryCall ==
  \A r \in Runs : job[r].at = "done" /\ ~ job[r].busy /\ job[r].takes # <<>> =>
    /\ Cardinality(RowsOf(r)) = Cardinality(calls[r])
    /\ \A c \in AttemptCalls(r) : [commit |-> r, call |-> c] \in rows

\* An answered agent turn has a row for each of its model calls, equal as they
\* may be (charges.go AgentTurn).
AnsweredTurnCounts ==
  \A r \in Turns : job[r].at = "done" => Cardinality(RowsOf(r)) = Cardinality(calls[r])

\* "A call from a discarded attempt keeps its own attempt, so it never shares a
\* ledger event_key with another attempt's call" (takes.go:36-37).
DiscardedAttemptsKeepCharges ==
  \A r \in Requests : job[r].at = "done" =>
    \A c \in AttemptCalls(r) : [commit |-> r, call |-> c] \in rows
=============================================================================
