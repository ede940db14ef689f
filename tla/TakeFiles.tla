----------------------------- MODULE TakeFiles -----------------------------
(***************************************************************************)
(* The take files of one dialogue line in a project's work directory, the  *)
(* resume record beside them, and the ledger rows that name them           *)
(* (internal/fit/loop.go, rewrite.go, stretch.go; internal/api/rerender.go;*)
(* cmd/ajilamu/main.go).                                                   *)
(*                                                                         *)
(* A pipeline run resumes the line from its record or clears old takes and *)
(* renders afresh; a re-render adds takes and writes no record. The runner *)
(* mutex keeps their rendering apart; choosing a take number and writing   *)
(* ledger rows happen outside it. Both can end at any step.                *)
(*                                                                         *)
(* A take is known by an identity, new for every file written, and by what *)
(* measuring it against the slot says.                                     *)
(***************************************************************************)
EXTENDS Naturals, Sequences, FiniteSets

CONSTANTS Slots,        \* the line as the segmenter may return it
          MaxAttempts,  \* attempts of one repair (3 in the code)
          MaxNumber,    \* bound on take numbers
          MaxTakes,     \* bound on files written
          MaxDamage     \* bound on files a power failure damages

ASSUME AttemptsAssumption ==
  MaxAttempts \in Nat \ {0} /\ MaxNumber \in Nat /\ MaxAttempts <= MaxNumber
ASSUME BoundsAssumption == MaxTakes \in Nat /\ MaxDamage \in Nat

VARIABLES files,    \* path -> the take there, or NoTake
          made,     \* files written so far
          record,   \* the line's resume record, or NoRecord
          ledger,   \* rows: [path, take]
          job,      \* worker -> what it is doing
          mutex,    \* the worker that holds the runner mutex, or "free"
          damage    \* files damaged so far

vars == <<files, made, record, ledger, job, mutex, damage>>

Workers == {"run", "rerender"}
Numbers == 1 .. MaxNumber
\* seg_N_tryK.wav, seg_N_tryK_stretched.wav and seg_N_stretched.wav.
Paths == (Numbers \X {"raw", "stretched"}) \union {<<1, "plain">>}
Verdicts == {"fits", "stretches", "misses"}
Take == [id : 1 .. MaxTakes, verdict : Verdicts]
NoTake == [id |-> 0, verdict |-> "absent"]
Damaged == [id |-> 0, verdict |-> "damaged"]
Row == [path : Paths, take : Take]
NoRow == [path |-> <<1, "plain">>, take |-> NoTake]
NoSlot == "none"

\* A resume record: the line it is for, every attempt, and the chosen one.
NoRecord == [slot |-> NoSlot, tries |-> <<>>, chosen |-> NoRow, flagged |-> FALSE]

Steps == {"idle", "waiting", "discarding", "rendering", "judging", "landing",
          "recording", "returning", "persisting", "collided"}
Idle == [at |-> "idle", slot |-> NoSlot, first |-> 1, attempt |-> 1,
         tries |-> <<>>, chosen |-> NoRow, flagged |-> FALSE, doomed |-> {}]

\* The part a record and a worker share.
ResultOK(r) ==
  /\ r.slot \in Slots \union {NoSlot}
  /\ r.tries \in Seq(Row) /\ Len(r.tries) <= MaxAttempts
  /\ r.chosen \in Row \union {NoRow} /\ r.flagged \in BOOLEAN

TypeOK ==
  /\ files \in [Paths -> Take \union {NoTake, Damaged}]
  /\ made \in 0 .. MaxTakes
  /\ ResultOK(record)
  /\ ledger \subseteq Row
  /\ \A w \in Workers :
       /\ job[w].at \in Steps /\ ResultOK(job[w])
       /\ job[w].first \in Numbers /\ job[w].attempt \in Numbers
       /\ job[w].doomed \subseteq Paths
  /\ mutex \in Workers \union {"free"}
  /\ damage \in 0 .. MaxDamage

-----------------------------------------------------------------------------
(***************************************************************************)
(* Paths.                                                                  *)
(***************************************************************************)
\* PipelineTakeName and rerenderTakePath.
RawPath(n) == <<n, "raw">>
StretchedPath(w, n) == IF w = "run" /\ n = 1 THEN <<1, "plain">> ELSE <<n, "stretched">>

Exists(p) == files[p] # NoTake
Usable(p) == files[p] \notin {NoTake, Damaged}

\* Every path the attempts first .. first + MaxAttempts - 1 of a run claim.
Window(first) ==
  {RawPath(n) : n \in first .. first + MaxAttempts - 1} \union
  {StretchedPath("run", n) : n \in first .. first + MaxAttempts - 1}

\* Faulty: looks at the first attempt of the window alone.
FirstFreeNumber(first) ==
  /\ first + MaxAttempts - 1 <= MaxNumber
  /\ ~ Exists(RawPath(first))
  /\ \A n \in 1 .. first - 1 : Exists(RawPath(n))

FirstFreeAttempt(first) ==
  /\ first + MaxAttempts - 1 <= MaxNumber
  /\ \A p \in Window(first) : ~ Exists(p)
  /\ \A n \in 1 .. first - 1 : \E p \in Window(n) : Exists(p)

\* The numbers a glob for seg_N_try*.wav finds.
TakeNumbers == {n \in Numbers : Exists(RawPath(n)) \/ Exists(<<n, "stretched">>)}

NextTakeNumber(n) ==
  /\ \A m \in TakeNumbers : m < n
  /\ n = 1 \/ n - 1 \in TakeNumbers

-----------------------------------------------------------------------------
Init ==
  /\ files = [p \in Paths |-> NoTake]
  /\ made = 0
  /\ record = NoRecord
  /\ ledger = {}
  /\ job = [w \in Workers |-> Idle]
  /\ mutex = "free"
  /\ damage = 0

Go(w, at) == job' = [job EXCEPT ![w].at = at]
Release(w) == mutex' = IF mutex = w THEN "free" ELSE mutex

WriteTake(p) ==
  /\ made < MaxTakes
  /\ made' = made + 1
  /\ \E v \in Verdicts : files' = [files EXCEPT ![p] = [id |-> made + 1, verdict |-> v]]

\* The attempt in hand is recorded with the file it ended with.
Try(w, p) == Append(job[w].tries, [path |-> p, take |-> files[p]])

-----------------------------------------------------------------------------
(***************************************************************************)
(* A run of the pipeline reaches the line (repairSegment).                 *)
(***************************************************************************)
RunStart(s) ==
  /\ job["run"].at = "idle"
  /\ job' = [job EXCEPT !["run"] = [Idle EXCEPT !.at = "waiting", !.slot = s]]
  /\ UNCHANGED <<files, made, record, ledger, mutex, damage>>

Resumable(s) ==
  /\ record # NoRecord
  /\ record.slot = s
  /\ Usable(record.chosen.path)

\* reusableTake: an unflagged, unstretched first attempt is measured again.
Reusable == ~ record.flagged /\ record.chosen.path = RawPath(1)

\* Faulty: a record that does not match owns nothing.
DoomedTakesAll == {p \in Window(1) : Exists(p)}

\* readSegmentRecord: what a fresh render removes. A record of another
\* segmentation still owns its chosen take; a record of this one did not
\* resume because its take is unusable, and that take goes too.
DoomedTakes ==
  LET Owned == IF record = NoRecord THEN {} ELSE {record.chosen.path}
      Doomed == IF record.slot = job["run"].slot
                THEN Window(1) \union Owned ELSE Window(1) \ Owned
  IN  {p \in Doomed : Exists(p)}

RunOpen ==
  LET s == job["run"].slot
  IN  /\ job["run"].at = "waiting"
      /\ mutex = "free"
      /\ mutex' = "run"
      /\ \/ /\ Resumable(s) /\ ~ Reusable
            /\ job' = [job EXCEPT !["run"].at = "returning",
                                  !["run"].tries = record.tries,
                                  !["run"].chosen = record.chosen,
                                  !["run"].flagged = record.flagged]
         \/ Resumable(s) /\ Reusable /\ Go("run", "judging")
         \/ /\ ~ Resumable(s)
            /\ job' = [job EXCEPT !["run"].at = "discarding", !["run"].doomed = DoomedTakes]
  /\ UNCHANGED <<files, made, record, ledger, damage>>

RunDiscard ==
  /\ job["run"].at = "discarding"
  /\ \E p \in job["run"].doomed :
       /\ files' = [files EXCEPT ![p] = NoTake]
       /\ job' = [job EXCEPT !["run"].doomed = @ \ {p}]
  /\ UNCHANGED <<made, record, ledger, mutex, damage>>

RunRender ==
  /\ job["run"].at = "discarding"
  /\ job["run"].doomed = {}
  /\ \E n \in Numbers :
       /\ FirstFreeAttempt(n)
       /\ job' = [job EXCEPT !["run"].at = "rendering",
                             !["run"].first = n, !["run"].attempt = n]
  /\ UNCHANGED <<files, made, record, ledger, mutex, damage>>

(***************************************************************************)
(* A re-render: one at a time, refused while a run of the dub is active.   *)
(* It picks its take number before it waits for the runner.                *)
(***************************************************************************)
RerenderStart ==
  /\ job["rerender"].at = "idle"
  /\ job["run"].at \in {"idle", "collided"}
  /\ ledger # {}
  /\ \E n \in Numbers :
       /\ NextTakeNumber(n)
       /\ n + MaxAttempts - 1 <= MaxNumber
       /\ job' = [job EXCEPT !["rerender"] =
                    [Idle EXCEPT !.at = "waiting", !.first = n, !.attempt = n]]
  /\ UNCHANGED <<files, made, record, ledger, mutex, damage>>

RerenderOpen ==
  /\ job["rerender"].at = "waiting"
  /\ mutex = "free"
  /\ mutex' = "rerender"
  /\ Go("rerender", "rendering")
  /\ UNCHANGED <<files, made, record, ledger, damage>>

-----------------------------------------------------------------------------
(***************************************************************************)
(* RepairLine. Neither the synthesizer nor the stretch ever overwrites.    *)
(***************************************************************************)
Collide(w) == Go(w, "collided") /\ Release(w)

Synthesize(w) ==
  LET p == RawPath(job[w].attempt)
  IN  /\ job[w].at = "rendering"
      /\ IF Exists(p)
         THEN Collide(w) /\ UNCHANGED <<files, made>>
         ELSE WriteTake(p) /\ Go(w, "judging") /\ UNCHANGED mutex
  /\ UNCHANGED <<record, ledger, damage>>

Finished(w) == IF w = "run" THEN "recording" ELSE "returning"

Choose(w, tries, chosen, flagged) ==
  job' = [job EXCEPT ![w].at = Finished(w), ![w].tries = tries,
                     ![w].chosen = chosen, ![w].flagged = flagged]

\* Faulty: counts one attempt too many.
MissedOffByOne(w, p) ==
  IF job[w].attempt < job[w].first + MaxAttempts
  THEN job' = [job EXCEPT ![w].at = "rendering", ![w].attempt = @ + 1, ![w].tries = Try(w, p)]
  ELSE \E i \in 1 .. Len(Try(w, p)) : Choose(w, Try(w, p), Try(w, p)[i], TRUE)

\* The attempt missed: another one, or the closest of them all, flagged.
Missed(w, p) ==
  IF job[w].attempt < job[w].first + MaxAttempts - 1
  THEN job' = [job EXCEPT ![w].at = "rendering", ![w].attempt = @ + 1, ![w].tries = Try(w, p)]
  ELSE \E i \in 1 .. Len(Try(w, p)) : Choose(w, Try(w, p), Try(w, p)[i], TRUE)

Judge(w) ==
  LET p == RawPath(job[w].attempt)
      out == StretchedPath(w, job[w].attempt)
  IN  /\ job[w].at = "judging"
      /\ Usable(p)
      /\ \/ /\ files[p].verdict = "fits"
            /\ Choose(w, Try(w, p), [path |-> p, take |-> files[p]], FALSE)
            /\ UNCHANGED <<files, made, mutex>>
         \/ /\ files[p].verdict = "misses"
            /\ Missed(w, p)
            /\ UNCHANGED <<files, made, mutex>>
         \/ /\ files[p].verdict = "stretches" /\ ~ Exists(out)
            /\ WriteTake(out) /\ Go(w, "landing")
            /\ UNCHANGED mutex
         \/ /\ files[p].verdict = "stretches" /\ Exists(out)
            /\ Collide(w)
            /\ UNCHANGED <<files, made>>
  /\ UNCHANGED <<record, ledger, damage>>

\* applyStretch keeps an output that landed in the slot and removes any other.
Land(w) ==
  LET p == StretchedPath(w, job[w].attempt)
  IN  /\ job[w].at = "landing"
      /\ Usable(p)
      /\ \/ /\ files[p].verdict = "fits"
            /\ Choose(w, Try(w, p), [path |-> p, take |-> files[p]], FALSE)
            /\ UNCHANGED files
         \/ /\ files[p].verdict # "fits"
            /\ files' = [files EXCEPT ![p] = NoTake]
            /\ Missed(w, RawPath(job[w].attempt))
  /\ UNCHANGED <<made, record, ledger, mutex, damage>>

-----------------------------------------------------------------------------
(***************************************************************************)
(* What follows the repair.                                                *)
(***************************************************************************)
\* writeSegmentRecord renames a whole record into place.
RunRecord ==
  /\ job["run"].at = "recording"
  /\ record' = [slot |-> job["run"].slot, tries |-> job["run"].tries,
                chosen |-> job["run"].chosen, flagged |-> job["run"].flagged]
  /\ Go("run", "returning")
  /\ UNCHANGED <<files, made, ledger, mutex, damage>>

\* The model service stayed busy: the line is flagged and has no takes.
RunBusy ==
  /\ job["run"].at = "rendering"
  /\ job' = [job EXCEPT !["run"].at = "returning", !["run"].tries = <<>>]
  /\ UNCHANGED <<files, made, record, ledger, mutex, damage>>

\* The takes that become ledger rows: every attempt of a run
\* (pipelineRunResult), the chosen take of a re-render (rerenderResult).
Rows(w) ==
  IF w = "run" THEN {job[w].tries[i] : i \in 1 .. Len(job[w].tries)} ELSE {job[w].chosen}

\* Faulty: does not open the files.
ReturnUnchecked(w) ==
  /\ job[w].at = "returning"
  /\ Release(w)
  /\ Go(w, "persisting")
  /\ UNCHANGED <<files, made, record, ledger, damage>>

\* Their waveforms are drawn from the files, and then the mutex is released.
Return(w) ==
  /\ job[w].at = "returning"
  /\ \A row \in Rows(w) : Usable(row.path)
  /\ Release(w)
  /\ Go(w, "persisting")
  /\ UNCHANGED <<files, made, record, ledger, damage>>

Persist(w) ==
  /\ job[w].at = "persisting"
  /\ ledger' = ledger \union Rows(w)
  /\ job' = [job EXCEPT ![w] = Idle]
  /\ UNCHANGED <<files, made, record, mutex, damage>>

-----------------------------------------------------------------------------
\* An error, a cancel, a busy service, a disconnected client.
Stop(w) ==
  /\ job[w].at # "idle"
  /\ job' = [job EXCEPT ![w] = Idle]
  /\ Release(w)
  /\ UNCHANGED <<files, made, record, ledger, damage>>

Crash ==
  /\ job' = [w \in Workers |-> Idle]
  /\ mutex' = "free"
  /\ UNCHANGED <<files, made, record, ledger, damage>>

\* Takes are never synced, so a power failure may leave one empty, and one
\* that was being written too.
PowerFailure(p) ==
  /\ damage < MaxDamage
  /\ damage' = damage + 1
  /\ \/ Usable(p)
     \/ /\ p \in {RawPath(job[w].attempt) : w \in {v \in Workers : job[v].at = "rendering"}}
        /\ ~ Exists(p)
  /\ files' = [files EXCEPT ![p] = Damaged]
  /\ job' = [w \in Workers |-> Idle]
  /\ mutex' = "free"
  /\ UNCHANGED <<made, record, ledger>>

Next ==
  \/ \E s \in Slots : RunStart(s)
  \/ RunOpen \/ RunDiscard \/ RunRender \/ RunRecord \/ RunBusy
  \/ RerenderStart \/ RerenderOpen
  \/ \E w \in Workers : Synthesize(w) \/ Judge(w) \/ Land(w) \/ Return(w) \/ Persist(w) \/ Stop(w)
  \/ Crash
  \/ \E p \in Paths : PowerFailure(p)

Spec == Init /\ [][Next]_vars

-----------------------------------------------------------------------------
(***************************************************************************)
(* Properties.                                                             *)
(***************************************************************************)
\* As long as no take was damaged, the chosen take of the record has the bytes
\* it had when the line was finished, whatever later runs and re-renders were
\* started, interrupted or resegmented (loop.go:285, "It keeps any take that a
\* readable record at the line names").
RecordedTakeIntact ==
  damage = 0 /\ record # NoRecord => files[record.chosen.path] = record.chosen.take

\* As long as no take was damaged, a run never finds a file on a path it
\* renders to, whatever earlier runs left behind (loop.go firstFreeAttempt).
SoundTakesNeverBlock == damage = 0 => job["run"].at # "collided"

\* Whatever was damaged or cleared before, and although a run has released the
\* runner by then, every take it writes a row for is there to be played
\* (main.go persist, after pipelineRunResult).
RunRowsArePlayable ==
  [][\A row \in ledger' \ ledger :
       job["run"].at = "persisting" /\ job'["run"].at = "idle" => Usable(row.path)]_vars

\* "A take a ledger row references must keep its bytes" (loop.go:1180-1182).
LedgerTakesKeepBytes == \A row \in ledger : files[row.path] = row.take
=============================================================================
