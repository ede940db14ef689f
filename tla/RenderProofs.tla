---------------------------- MODULE RenderProofs ----------------------------
(***************************************************************************)
(* Proofs about what a run renders, in two parts that share no state.      *)
(*                                                                         *)
(* TakeFiles, for any number of segmentations, attempts, numbers and       *)
(* files: as long as no file was damaged, the take of the resume record    *)
(* keeps its bytes and no run collides with leftovers; and damaged or not, *)
(* the rows a run writes name takes that are there.                        *)
(*                                                                         *)
(* DubTrack, for any number of lines and attempts and takes of any length: *)
(* an unflagged line is heard to its end, a missing line is flagged,       *)
(* voices meet in crossfades alone, and only lines that start together     *)
(* stop the mix.                                                           *)
(***************************************************************************)
EXTENDS TakeFiles, DubTrack, WellFoundedInduction, TLAPS

Job == [at : Steps, slot : Slots \union {NoSlot}, first : Numbers, attempt : Numbers,
        tries : Seq(Row), chosen : Row \union {NoRow}, flagged : BOOLEAN,
        doomed : SUBSET Paths]
Record == [slot : Slots \union {NoSlot}, tries : Seq(Row), chosen : Row \union {NoRow},
           flagged : BOOLEAN]

\* Bounded: no result has more tries than a repair has attempts.
Types ==
  /\ files \in [Paths -> Take \union {NoTake, Damaged}]
  /\ made \in 0 .. MaxTakes
  /\ record \in Record /\ Len(record.tries) <= MaxAttempts
  /\ ledger \subseteq Row
  /\ job \in [Workers -> Job]
  /\ \A w \in Workers : Len(job[w].tries) <= MaxAttempts
  /\ mutex \in Workers \union {"free"}
  /\ damage \in 0 .. MaxDamage

\* Between opening a line and returning it a worker holds the runner.
Working == {"discarding", "rendering", "judging", "landing", "recording", "returning"}
Locked == \A w \in Workers : job[w].at \in Working => mutex = w

Repairing == {"rendering", "judging", "landing"}

\* Attempts are tried in order, from the first to the last of the window.
Counted ==
  \A w \in Workers :
    /\ job[w].at \in Repairing =>
         /\ Len(job[w].tries) = job[w].attempt - job[w].first
         /\ job[w].attempt <= job[w].first + MaxAttempts - 1
         /\ job[w].first + MaxAttempts - 1 <= MaxNumber
    /\ job[w].at \in {"waiting", "discarding"} => job[w].tries = <<>>
    /\ job[w].at = "waiting" =>
         /\ job[w].attempt = job[w].first
         /\ job[w].first + MaxAttempts - 1 <= MaxNumber
         /\ w = "run" => job[w].first = 1
    /\ job[w].at = "landing" => Usable(RawPath(job[w].attempt))
    /\ w = "rerender" /\ job[w].at \in {"returning", "persisting"} => job[w].chosen \in Row

\* A row whose file has the bytes it was recorded with.
Sound(row) == row \in Row /\ files[row.path] = row.take
Settled(r) == Sound(r.chosen) /\ (r.flagged \/ r.chosen.take.verdict = "fits")

SoundRecord == record # NoRecord => Settled(record)

\* What is about to be removed is not the take of the record.
Spared ==
  record # NoRecord =>
    /\ job["run"].at = "discarding" => record.chosen.path \notin job["run"].doomed
    /\ \A w \in Workers :
         job[w].at = "landing" => record.chosen.path # StretchedPath(w, job[w].attempt)

SoundTries ==
  job["run"].at \in Repairing =>
    \A i \in 1 .. Len(job["run"].tries) :
      /\ Sound(job["run"].tries[i])
      /\ \E n \in Numbers : job["run"].tries[i].path = RawPath(n)

SoundResult == job["run"].at = "recording" => Settled(job["run"])

\* No file on the paths of the run's attempts from n on.
FreeFrom(n) ==
  \A m \in n .. job["run"].first + MaxAttempts - 1 :
    ~ Exists(RawPath(m)) /\ ~ Exists(StretchedPath("run", m))

Free ==
  LET n == job["run"].attempt
  IN  /\ job["run"].at = "rendering" => FreeFrom(n)
      /\ job["run"].at = "judging" =>
           \/ files[RawPath(n)].verdict = "fits"
           \/ ~ Exists(StretchedPath("run", n)) /\ FreeFrom(n + 1)
      /\ job["run"].at = "landing" => FreeFrom(n + 1)
      /\ job["run"].at # "collided"

Undamaged ==
  damage = 0 => SoundRecord /\ Spared /\ SoundTries /\ SoundResult /\ Free

\* The takes a run is about to record are there, and no re-render removes one.
Playable ==
  job["run"].at = "persisting" =>
    \A row \in Rows("run") :
      /\ Usable(row.path)
      /\ job["rerender"].at = "landing" =>
           row.path # StretchedPath("rerender", job["rerender"].attempt)

IInv == Types /\ Locked /\ Counted /\ Undamaged /\ Playable


-----------------------------------------------------------------------------
(***************************************************************************)
(* Facts about takes and paths.                                            *)
(***************************************************************************)
LEMMA Verdict ==
  /\ NoTake \notin Take /\ Damaged \notin Take /\ NoTake # Damaged
  /\ NoTake.verdict # "fits" /\ Damaged.verdict # "fits"
BY BoundsAssumption DEF NoTake, Damaged, Take

\* No two attempts, and no take and its stretched form, share a path.
LEMMA PathFacts ==
  /\ \A n \in Numbers : RawPath(n) \in Paths
  /\ \A w \in Workers, n \in Numbers : StretchedPath(w, n) \in Paths
  /\ \A w \in Workers, m \in Nat, n \in Nat : RawPath(m) # StretchedPath(w, n)
  /\ \A m \in Nat, n \in Nat : RawPath(m) = RawPath(n) => m = n
  /\ \A m \in Nat, n \in Nat : StretchedPath("run", m) = StretchedPath("run", n) => m = n
<1>1. \A n \in Numbers : RawPath(n) \in Paths
  BY DEF RawPath, Paths
<1>2. \A w \in Workers, n \in Numbers : StretchedPath(w, n) \in Paths
  BY DEF StretchedPath, Paths
<1>3. \A w \in Workers, m \in Nat, n \in Nat : RawPath(m) # StretchedPath(w, n)
  BY DEF RawPath, StretchedPath
<1>4. \A m \in Nat, n \in Nat : RawPath(m) = RawPath(n) => m = n
  BY DEF RawPath
<1>5. \A m \in Nat, n \in Nat : StretchedPath("run", m) = StretchedPath("run", n) => m = n
  BY DEF StretchedPath
<1>. QED BY <1>1, <1>2, <1>3, <1>4, <1>5

\* A file that is there and sound, or not.
LEMMA FileCases ==
  ASSUME Types, NEW p \in Paths
  PROVE  /\ Usable(p) <=> files[p] \in Take
         /\ Exists(p) <=> files[p] \in Take \union {Damaged}
BY Verdict DEF Types, Usable, Exists

\* The numbers of a worker's attempt and window are in range.
LEMMA Attempt ==
  ASSUME Types, Counted, NEW w \in Workers
  PROVE  /\ job[w].attempt \in Numbers /\ job[w].first \in Numbers
         /\ job[w].at \in Repairing =>
              job[w].first + MaxAttempts - 1 \in Numbers /\ job[w].first <= job[w].attempt
<1>1. job[w] \in Job BY DEF Types
<1>2. job[w].attempt \in Numbers /\ job[w].first \in Numbers BY <1>1 DEF Job
<1>3. CASE job[w].at \in Repairing
  <2>1. Len(job[w].tries) \in Nat BY <1>1 DEF Job
  <2>. QED BY <1>2, <1>3, <2>1, AttemptsAssumption DEF Counted, Numbers
<1>. QED BY <1>2, <1>3

\* The step of one worker changes what it is at and nothing else of it.
LEMMA Gone ==
  ASSUME Types, NEW w \in Workers, NEW at \in Steps, Go(w, at)
  PROVE  /\ job' \in [Workers -> Job]
         /\ job'[w].at = at
         /\ job'[w].tries = job[w].tries /\ job'[w].first = job[w].first
         /\ job'[w].attempt = job[w].attempt /\ job'[w].chosen = job[w].chosen
         /\ job'[w].flagged = job[w].flagged /\ job'[w].doomed = job[w].doomed
         /\ job'[w].slot = job[w].slot
         /\ \A v \in Workers : v # w => job'[v] = job[v]
<1>1. job[w] \in Job BY DEF Types
<1>. QED BY <1>1 DEF Types, Go, Job

LEMMA IdleJob == Idle \in Job /\ Idle.at = "idle" /\ Idle.tries = <<>> /\ Len(<<>>) = 0
BY AttemptsAssumption DEF Idle, Job, Steps, Numbers, NoRow

\* A job that ended counts for nothing, neither while it lasts nor after it.
LEMMA EndedJobs ==
  ASSUME IInv, UNCHANGED <<files, made, record, damage>>,
         ledger' \subseteq Row, mutex' \in Workers \union {"free"},
         \A v \in Workers : job'[v] = Idle \/ (job'[v] = job[v] /\ (mutex = v => mutex' = v)),
         job' \in [Workers -> Job]
  PROVE  IInv'
<1>1. Types'
  <2>1. \A v \in Workers : Len(job'[v].tries) <= MaxAttempts
    BY IdleJob, AttemptsAssumption DEF IInv, Types
  <2>. QED BY <2>1 DEF IInv, Types
<1>2. Locked' BY IdleJob DEF IInv, Locked, Working
<1>3. Counted' BY IdleJob DEF IInv, Counted, Repairing, Usable
<1>4. Undamaged'
  <2>1. SUFFICES ASSUME damage = 0
                 PROVE  (SoundRecord /\ Spared /\ SoundTries /\ SoundResult /\ Free)'
    BY DEF Undamaged
  <2>2. SoundRecord /\ Spared /\ SoundTries /\ SoundResult /\ Free
    BY <2>1 DEF IInv, Undamaged
  <2>3. SoundRecord' BY <2>2 DEF SoundRecord, Settled, Sound
  <2>4. Spared' BY <2>2, IdleJob DEF Spared, Workers
  <2>5. SoundTries' BY <2>2, IdleJob DEF SoundTries, Sound, Repairing, Workers
  <2>6. SoundResult' BY <2>2, IdleJob DEF SoundResult, Settled, Sound, Workers
  <2>7. Free' BY <2>2, IdleJob DEF Free, FreeFrom, Exists, Workers
  <2>. QED BY <2>3, <2>4, <2>5, <2>6, <2>7
<1>5. Playable' BY IdleJob DEF IInv, Playable, Rows, Usable, Workers
<1>. QED BY <1>1, <1>2, <1>3, <1>4, <1>5 DEF IInv

-----------------------------------------------------------------------------
(***************************************************************************)
(* Steps that leave the files alone.                                       *)
(***************************************************************************)
LEMMA RunWaiting ==
  ASSUME NEW s \in Slots, NEW new, new = [Idle EXCEPT !.at = "waiting", !.slot = s]
  PROVE  /\ new \in Job /\ new.at = "waiting" /\ new.tries = <<>>
         /\ new.first = 1 /\ new.attempt = 1
<1>1. Idle \in Job /\ Idle.tries = <<>> /\ Idle.first = 1 /\ Idle.attempt = 1
  BY IdleJob DEF Idle
<1>2. "waiting" \in Steps BY DEF Steps
<1>3. ASSUME NEW i \in Job, NEW at \in Steps, new = [i EXCEPT !.at = at, !.slot = s]
      PROVE  new \in Job /\ new.at = at /\ new.tries = i.tries
             /\ new.first = i.first /\ new.attempt = i.attempt
  BY <1>3 DEF Job
<1>. QED BY <1>1, <1>2, <1>3

LEMMA RerenderWaiting ==
  ASSUME NEW n \in Numbers, NEW new,
         new = [Idle EXCEPT !.at = "waiting", !.first = n, !.attempt = n]
  PROVE  /\ new \in Job /\ new.at = "waiting" /\ new.tries = <<>>
         /\ new.first = n /\ new.attempt = n
<1>1. Idle \in Job /\ Idle.tries = <<>>
  BY IdleJob
<1>2. "waiting" \in Steps BY DEF Steps
<1>3. ASSUME NEW i \in Job, NEW at \in Steps,
             new = [i EXCEPT !.at = at, !.first = n, !.attempt = n]
      PROVE  new \in Job /\ new.at = at /\ new.tries = i.tries
             /\ new.first = n /\ new.attempt = n
  BY <1>3 DEF Job
<1>. QED BY <1>1, <1>2, <1>3

\* A request begins.
LEMMA StartStep ==
  ASSUME IInv, RerenderStart \/ \E s \in Slots : RunStart(s)
  PROVE  IInv'
<1>1. UNCHANGED <<files, made, record, ledger, mutex, damage>>
  BY DEF RerenderStart, RunStart
<1>2. PICK w \in Workers, new \in Job :
        /\ new.at = "waiting" /\ new.tries = <<>> /\ new.attempt = new.first
        /\ new.first + MaxAttempts - 1 <= MaxNumber
        /\ w = "run" => new.first = 1
        /\ job' = [job EXCEPT ![w] = new]
  <2>1. CASE RerenderStart
    <3>1. PICK n \in Numbers :
            /\ n + MaxAttempts - 1 <= MaxNumber
            /\ job' = [job EXCEPT !["rerender"] =
                         [Idle EXCEPT !.at = "waiting", !.first = n, !.attempt = n]]
      BY <2>1 DEF RerenderStart
    <3>. DEFINE new == [Idle EXCEPT !.at = "waiting", !.first = n, !.attempt = n]
    <3>2. new \in Job /\ new.at = "waiting" /\ new.tries = <<>> /\ new.first = n /\ new.attempt = n
      BY RerenderWaiting
    <3>3. "rerender" \in Workers BY DEF Workers
    <3>. HIDE DEF new
    <3>. QED BY <3>1, <3>2, <3>3 DEF new
  <2>2. CASE \E s \in Slots : RunStart(s)
    <3>1. PICK s \in Slots :
            job' = [job EXCEPT !["run"] = [Idle EXCEPT !.at = "waiting", !.slot = s]]
      BY <2>2 DEF RunStart
    <3>. DEFINE new == [Idle EXCEPT !.at = "waiting", !.slot = s]
    <3>2. 1 + MaxAttempts - 1 <= MaxNumber BY AttemptsAssumption
    <3>3. new = [Idle EXCEPT !.at = "waiting", !.slot = s]
      OBVIOUS
    <3>4. "run" \in Workers BY DEF Workers
    <3>. HIDE DEF new
    <3>5. new \in Job /\ new.at = "waiting" /\ new.tries = <<>> /\ new.first = 1 /\ new.attempt = 1
      BY <3>3, RunWaiting
    <3>. QED BY <3>1, <3>2, <3>4, <3>5 DEF new
  <2>. QED BY <2>1, <2>2
<1>3. new.at = "waiting" /\ new.tries = <<>> /\ new.attempt = new.first /\ Len(new.tries) = 0
  BY <1>2
<1>4. job'[w] = new /\ job' \in [Workers -> Job] /\ \A v \in Workers : v # w => job'[v] = job[v]
  BY <1>2 DEF IInv, Types
<1>5. Types'
  <2>1. \A v \in Workers : Len(job'[v].tries) <= MaxAttempts
    BY <1>3, <1>4, AttemptsAssumption DEF IInv, Types
  <2>. QED BY <1>1, <1>4, <2>1 DEF IInv, Types
<1>6. Locked' BY <1>1, <1>3, <1>4 DEF IInv, Locked, Working
<1>7. Counted' BY <1>1, <1>2, <1>3, <1>4 DEF IInv, Counted, Repairing, Usable
<1>8. Undamaged'
  <2>1. SUFFICES ASSUME damage = 0
                 PROVE  (SoundRecord /\ Spared /\ SoundTries /\ SoundResult /\ Free)'
    BY <1>1 DEF Undamaged
  <2>2. SoundRecord /\ Spared /\ SoundTries /\ SoundResult /\ Free
    BY <2>1 DEF IInv, Undamaged
  <2>3. SoundRecord' BY <1>1, <2>2 DEF SoundRecord, Settled, Sound
  <2>4. Spared' BY <1>1, <1>3, <1>4, <2>2 DEF Spared, Workers
  <2>5. SoundTries' BY <1>1, <1>3, <1>4, <2>2 DEF SoundTries, Sound, Repairing, Workers
  <2>6. SoundResult' BY <1>1, <1>3, <1>4, <2>2 DEF SoundResult, Settled, Sound, Workers
  <2>7. Free' BY <1>1, <1>3, <1>4, <2>2 DEF Free, FreeFrom, Exists, Workers
  <2>. QED BY <2>3, <2>4, <2>5, <2>6, <2>7
<1>9. Playable' BY <1>1, <1>3, <1>4 DEF IInv, Playable, Rows, Usable, Workers
<1>. QED BY <1>5, <1>6, <1>7, <1>8, <1>9 DEF IInv

\* The run takes the mutex: it resumes, measures its reusable take again, or
\* chooses what to remove. With sound files that is never the take of the
\* record.
LEMMA OpenStep ==
  ASSUME IInv, RunOpen
  PROVE  IInv'
<1>1. UNCHANGED <<files, made, record, ledger, damage>> /\ mutex = "free" /\ mutex' = "run"
      /\ job["run"].at = "waiting"
  BY DEF RunOpen
<1>2. Types /\ Counted /\ "run" \in Workers /\ "rerender" \in Workers BY DEF IInv, Workers
<1>3. /\ job["run"].tries = <<>> /\ job["run"].first = 1 /\ job["run"].attempt = 1
      /\ MaxAttempts <= MaxNumber
  BY <1>1, <1>2, AttemptsAssumption DEF Counted
<1>4. job["rerender"].at \notin Working
  BY <1>1, <1>2 DEF IInv, Locked, Workers
<1>5. record \in Record /\ job["run"] \in Job BY <1>2 DEF Types
<1>6. record.chosen.path \in Paths
  <2>1. record.chosen \in Row \union {NoRow} BY <1>5 DEF Record
  <2>. QED BY <2>1 DEF Row, NoRow, Paths
<1>7. DoomedTakes \in SUBSET Paths
  <2>1. Window(1) \subseteq Paths
    <3>1. \A n \in 1 .. 1 + MaxAttempts - 1 : n \in Numbers
      BY AttemptsAssumption DEF Numbers
    <3>. QED BY <1>2, <3>1, PathFacts DEF Window
  <2>. QED BY <1>6, <2>1 DEF DoomedTakes
<1>8. damage = 0 => SoundRecord /\ Spared
  BY DEF IInv, Undamaged
<1>9. CASE Resumable(job["run"].slot) /\ ~ Reusable
           /\ job' = [job EXCEPT !["run"].at = "returning", !["run"].tries = record.tries,
                                 !["run"].chosen = record.chosen,
                                 !["run"].flagged = record.flagged]
  <2>1. /\ job' \in [Workers -> Job] /\ job'["run"].at = "returning"
        /\ job'["run"].tries = record.tries /\ job'["rerender"] = job["rerender"]
    BY <1>2, <1>5, <1>9 DEF Types, Job, Record, Steps, Workers
  <2>2. Types' BY <1>1, <1>2, <2>1 DEF Types, Workers
  <2>3. Locked' BY <1>1, <1>4, <2>1 DEF Locked, Workers
  <2>4. Counted' BY <1>1, <1>2, <2>1 DEF Counted, Repairing, Usable, Workers
  <2>5. Undamaged'
    BY <1>1, <1>4, <1>8, <2>1
    DEF Undamaged, SoundRecord, Spared, SoundTries, SoundResult, Free, Settled, Sound,
        Repairing, Working, Workers
  <2>6. Playable' BY <2>1 DEF Playable
  <2>. QED BY <2>2, <2>3, <2>4, <2>5, <2>6 DEF IInv
<1>10. CASE Resumable(job["run"].slot) /\ Reusable /\ Go("run", "judging")
  <2>1. /\ job' \in [Workers -> Job] /\ job'["run"].at = "judging"
        /\ job'["run"].tries = <<>> /\ job'["run"].first = 1 /\ job'["run"].attempt = 1
        /\ job'["rerender"] = job["rerender"]
    BY <1>2, <1>3, <1>10, Gone DEF Steps, Workers
  <2>2. Types' BY <1>1, <1>2, <1>3, <2>1 DEF Types, Workers
  <2>3. Locked' BY <1>1, <1>4, <2>1 DEF Locked, Workers
  <2>4. Counted'
    BY <1>1, <1>2, <1>3, <2>1, AttemptsAssumption DEF Counted, Repairing, Usable, Workers
  <2>5. Undamaged'
    <3>1. SUFFICES ASSUME damage = 0
                   PROVE  (SoundRecord /\ Spared /\ SoundTries /\ SoundResult /\ Free)'
      BY <1>1 DEF Undamaged
    <3>2. SoundRecord' BY <1>1, <1>8, <3>1 DEF SoundRecord, Settled, Sound
    <3>3. Spared' BY <1>1, <1>4, <2>1 DEF Spared, Working, Workers
    <3>4. SoundTries' /\ SoundResult' BY <2>1 DEF SoundTries, SoundResult
    <3>5. files[RawPath(1)].verdict = "fits"
      BY <1>8, <1>10, <3>1 DEF SoundRecord, Settled, Sound, Resumable, Reusable
    <3>6. Free' BY <1>1, <2>1, <3>5 DEF Free
    <3>. QED BY <3>2, <3>3, <3>4, <3>6
  <2>6. Playable' BY <2>1 DEF Playable
  <2>. QED BY <2>2, <2>3, <2>4, <2>5, <2>6 DEF IInv
<1>11. CASE ~ Resumable(job["run"].slot)
            /\ job' = [job EXCEPT !["run"].at = "discarding", !["run"].doomed = DoomedTakes]
  <2>1. /\ job' \in [Workers -> Job] /\ job'["run"].at = "discarding"
        /\ job'["run"].tries = <<>> /\ job'["run"].doomed = DoomedTakes
        /\ job'["rerender"] = job["rerender"]
    <3>. HIDE DEF DoomedTakes
    <3>. QED BY <1>2, <1>3, <1>5, <1>7, <1>11 DEF Types, Job, Steps, Workers
  <2>2. Types' BY <1>1, <1>2, <1>3, <2>1 DEF Types, Workers
  <2>3. Locked' BY <1>1, <1>4, <2>1 DEF Locked, Workers
  <2>4. Counted' BY <1>1, <1>2, <2>1 DEF Counted, Repairing, Usable, Workers
  <2>5. Undamaged'
    <3>1. SUFFICES ASSUME damage = 0
                   PROVE  (SoundRecord /\ Spared /\ SoundTries /\ SoundResult /\ Free)'
      BY <1>1 DEF Undamaged
    <3>2. SoundRecord' BY <1>1, <1>8, <3>1 DEF SoundRecord, Settled, Sound
    <3>3. record # NoRecord => record.chosen.path \notin DoomedTakes
      <4>1. SUFFICES ASSUME record # NoRecord PROVE record.chosen.path \notin DoomedTakes
        OBVIOUS
      <4>2. Usable(record.chosen.path)
        BY <1>2, <1>6, <1>8, <3>1, <4>1, FileCases DEF SoundRecord, Settled, Sound, Row
      <4>3. record.slot # job["run"].slot BY <1>11, <4>1, <4>2 DEF Resumable
      <4>. QED BY <4>1, <4>3 DEF DoomedTakes
    <3>4. Spared' BY <1>1, <1>4, <2>1, <3>3 DEF Spared, Working, Workers
    <3>5. SoundTries' /\ SoundResult' /\ Free'
      BY <2>1 DEF SoundTries, SoundResult, Free, Repairing
    <3>. QED BY <3>2, <3>4, <3>5
  <2>6. Playable' BY <2>1 DEF Playable
  <2>. QED BY <2>2, <2>3, <2>4, <2>5, <2>6 DEF IInv
<1>. QED BY <1>9, <1>10, <1>11 DEF RunOpen

\* The run removes a leftover, or begins to render in a free window.
LEMMA DiscardStep ==
  ASSUME IInv, RunDiscard
  PROVE  IInv'
<1>1. PICK p \in job["run"].doomed :
        /\ files' = [files EXCEPT ![p] = NoTake]
        /\ job' = [job EXCEPT !["run"].doomed = @ \ {p}]
  BY DEF RunDiscard
<1>2. UNCHANGED <<made, record, ledger, mutex, damage>> /\ job["run"].at = "discarding"
  BY DEF RunDiscard
<1>3. Types /\ Counted /\ "run" \in Workers /\ "rerender" \in Workers BY DEF IInv, Workers
<1>4. p \in Paths BY <1>3 DEF Types, Job
<1>5. /\ job' \in [Workers -> Job] /\ job'["run"].at = "discarding"
      /\ job'["run"].tries = job["run"].tries
      /\ job'["run"].doomed = job["run"].doomed \ {p}
      /\ job'["rerender"] = job["rerender"]
  BY <1>1, <1>2, <1>3 DEF Types, Job, Workers
<1>6. job["rerender"].at \notin Working
  BY <1>2, <1>3 DEF IInv, Locked, Working, Workers
<1>7. /\ files' \in [Paths -> Take \union {NoTake, Damaged}] /\ files'[p] = NoTake
      /\ \A q \in Paths : q # p => files'[q] = files[q]
  BY <1>1, <1>3, <1>4 DEF Types
<1>8. Types' BY <1>2, <1>3, <1>5, <1>7 DEF Types, Workers
<1>9. Locked' BY <1>2, <1>5 DEF IInv, Locked, Workers
<1>10. Counted' BY <1>2, <1>3, <1>5, <1>6 DEF Counted, Repairing, Working, Workers
<1>11. Undamaged'
  <2>1. SUFFICES ASSUME damage = 0
                 PROVE  (SoundRecord /\ Spared /\ SoundTries /\ SoundResult /\ Free)'
    BY <1>2 DEF Undamaged
  <2>2. SoundRecord /\ Spared BY <2>1 DEF IInv, Undamaged
  <2>3. record # NoRecord => record.chosen.path # p
    BY <1>2, <2>2 DEF Spared
  <2>4. SoundRecord'
    BY <1>2, <1>7, <2>2, <2>3 DEF SoundRecord, Settled, Sound, Row
  <2>5. Spared' BY <1>2, <1>5, <1>6, <2>2 DEF Spared, Working, Workers
  <2>6. SoundTries' /\ SoundResult' /\ Free'
    BY <1>5 DEF SoundTries, SoundResult, Free, Repairing
  <2>. QED BY <2>4, <2>5, <2>6
<1>12. Playable' BY <1>5 DEF Playable
<1>. QED BY <1>8, <1>9, <1>10, <1>11, <1>12 DEF IInv

LEMMA RenderStep ==
  ASSUME IInv, RunRender
  PROVE  IInv'
<1>1. PICK n \in Numbers :
        /\ FirstFreeAttempt(n)
        /\ job' = [job EXCEPT !["run"].at = "rendering",
                              !["run"].first = n, !["run"].attempt = n]
  BY DEF RunRender
<1>2. UNCHANGED <<files, made, record, ledger, mutex, damage>> /\ job["run"].at = "discarding"
  BY DEF RunRender
<1>3. Types /\ Counted /\ "run" \in Workers /\ "rerender" \in Workers BY DEF IInv, Workers
<1>4. /\ job' \in [Workers -> Job] /\ job'["run"].at = "rendering"
      /\ job'["run"].tries = job["run"].tries
      /\ job'["run"].first = n /\ job'["run"].attempt = n
      /\ job'["rerender"] = job["rerender"]
  <2>1. PICK new : new = [job["run"] EXCEPT !.at = "rendering", !.first = n, !.attempt = n]
    OBVIOUS
  <2>2. ASSUME NEW i \in Job, NEW at \in Steps,
               new = [i EXCEPT !.at = at, !.first = n, !.attempt = n]
        PROVE  new \in Job /\ new.at = at /\ new.tries = i.tries
               /\ new.first = n /\ new.attempt = n
    BY <2>2 DEF Job
  <2>3. job["run"] \in Job /\ "rendering" \in Steps BY <1>3 DEF Types, Steps
  <2>4. new \in Job /\ new.at = "rendering" /\ new.tries = job["run"].tries
        /\ new.first = n /\ new.attempt = n
    BY <2>1, <2>2, <2>3
  <2>5. job' = [job EXCEPT !["run"] = new] BY <1>1, <2>1
  <2>. QED BY <1>3, <2>4, <2>5 DEF Types, Workers
<1>5. job["run"].tries = <<>> /\ n + MaxAttempts - 1 <= MaxNumber
  BY <1>1, <1>2, <1>3 DEF Counted, FirstFreeAttempt
<1>6. Types' BY <1>2, <1>3, <1>4 DEF Types, Workers
<1>7. Locked' BY <1>2, <1>4 DEF IInv, Locked, Working, Workers
<1>8. Counted'
  BY <1>2, <1>3, <1>4, <1>5, AttemptsAssumption
  DEF Counted, Repairing, Usable, Numbers, Workers
<1>9. Undamaged'
  <2>1. SUFFICES ASSUME damage = 0
                 PROVE  (SoundRecord /\ Spared /\ SoundTries /\ SoundResult /\ Free)'
    BY <1>2 DEF Undamaged
  <2>2. SoundRecord /\ Spared BY <2>1 DEF IInv, Undamaged
  <2>3. SoundRecord' BY <1>2, <2>2 DEF SoundRecord, Settled, Sound
  <2>4. Spared' BY <1>2, <1>4, <2>2 DEF Spared, Workers
  <2>5. SoundTries' /\ SoundResult' BY <1>4, <1>5 DEF SoundTries, SoundResult
  <2>6. \A m \in n .. n + MaxAttempts - 1 :
          ~ Exists(RawPath(m)) /\ ~ Exists(StretchedPath("run", m))
    BY <1>1 DEF FirstFreeAttempt, Window
  <2>7. Free' BY <1>2, <1>4, <2>6 DEF Free, FreeFrom, Exists
  <2>. QED BY <2>3, <2>4, <2>5, <2>7
<1>10. Playable' BY <1>4 DEF Playable
<1>. QED BY <1>6, <1>7, <1>8, <1>9, <1>10 DEF IInv

\* A re-render gets the runner.
LEMMA RerenderOpenStep ==
  ASSUME IInv, RerenderOpen
  PROVE  IInv'
<1>1. /\ UNCHANGED <<files, made, record, ledger, damage>> /\ mutex = "free"
      /\ mutex' = "rerender" /\ job["rerender"].at = "waiting" /\ Go("rerender", "rendering")
  BY DEF RerenderOpen
<1>2. Types /\ Counted /\ "run" \in Workers /\ "rerender" \in Workers BY DEF IInv, Workers
<1>3. /\ job' \in [Workers -> Job] /\ job'["rerender"].at = "rendering"
      /\ job'["rerender"].tries = job["rerender"].tries
      /\ job'["rerender"].first = job["rerender"].first
      /\ job'["rerender"].attempt = job["rerender"].attempt
      /\ job'["run"] = job["run"]
  BY <1>1, <1>2, Gone DEF Steps, Workers
<1>4. job["run"].at \notin Working
  BY <1>1, <1>2 DEF IInv, Locked, Workers
<1>5. Types' BY <1>1, <1>2, <1>3 DEF Types, Workers
<1>6. Locked' BY <1>1, <1>3, <1>4 DEF Locked, Workers
<1>7. Counted'
  <2>1. job["rerender"].attempt \in Nat /\ job["rerender"].first \in Nat
    BY <1>2, Attempt DEF Numbers
  <2>2. job["rerender"].tries = <<>> /\ Len(<<>>) = 0
        /\ job["rerender"].attempt = job["rerender"].first
        /\ job["rerender"].first + MaxAttempts - 1 <= MaxNumber
    BY <1>1, <1>2 DEF Counted
  <2>3. \A v \in Workers : v # "rerender" => job'[v] = job[v]
    BY <1>3 DEF Workers
  <2>. QED
    BY <1>1, <1>2, <1>3, <2>1, <2>2, <2>3, AttemptsAssumption DEF Counted, Repairing, Usable
<1>8. Undamaged'
  <2>1. SUFFICES ASSUME damage = 0
                 PROVE  (SoundRecord /\ Spared /\ SoundTries /\ SoundResult /\ Free)'
    BY <1>1 DEF Undamaged
  <2>2. SoundRecord /\ Spared /\ Free BY <2>1 DEF IInv, Undamaged
  <2>3. SoundRecord' BY <1>1, <2>2 DEF SoundRecord, Settled, Sound
  <2>4. Spared' BY <1>1, <1>3, <2>2 DEF Spared, Workers
  <2>5. SoundTries' /\ SoundResult' /\ Free'
    BY <1>3, <1>4, <2>2 DEF SoundTries, SoundResult, Free, Repairing, Working
  <2>. QED BY <2>3, <2>4, <2>5
<1>9. Playable' BY <1>1, <1>3 DEF IInv, Playable, Rows, Usable
<1>. QED BY <1>5, <1>6, <1>7, <1>8, <1>9 DEF IInv

\* The finished line is recorded, with a sound result.
LEMMA RecordStep ==
  ASSUME IInv, RunRecord
  PROVE  IInv'
<1>1. /\ UNCHANGED <<files, made, ledger, mutex, damage>> /\ job["run"].at = "recording"
      /\ Go("run", "returning")
      /\ record' = [slot |-> job["run"].slot, tries |-> job["run"].tries,
                    chosen |-> job["run"].chosen, flagged |-> job["run"].flagged]
  BY DEF RunRecord
<1>2. Types /\ Counted /\ "run" \in Workers /\ "rerender" \in Workers BY DEF IInv, Workers
<1>3. /\ job' \in [Workers -> Job] /\ job'["run"].at = "returning"
      /\ job'["run"].tries = job["run"].tries /\ job'["rerender"] = job["rerender"]
  BY <1>1, <1>2, Gone DEF Steps, Workers
<1>4. job["rerender"].at \notin Working
  BY <1>1, <1>2 DEF IInv, Locked, Working, Workers
<1>5. record' \in Record /\ Len(record'.tries) <= MaxAttempts
      /\ record'.chosen = job["run"].chosen /\ record'.flagged = job["run"].flagged
  BY <1>1, <1>2 DEF Types, Job, Record
<1>6. Types' BY <1>1, <1>2, <1>3, <1>5 DEF Types, Workers
<1>7. Locked' BY <1>1, <1>3 DEF IInv, Locked, Working, Workers
<1>8. Counted' BY <1>1, <1>2, <1>3 DEF Counted, Repairing, Usable, Workers
<1>9. Undamaged'
  <2>1. SUFFICES ASSUME damage = 0
                 PROVE  (SoundRecord /\ Spared /\ SoundTries /\ SoundResult /\ Free)'
    BY <1>1 DEF Undamaged
  <2>2. Settled(job["run"]) BY <1>1, <2>1 DEF IInv, Undamaged, SoundResult
  <2>3. SoundRecord' BY <1>1, <1>5, <2>2 DEF SoundRecord, Settled, Sound
  <2>4. Spared' BY <1>3, <1>4 DEF Spared, Working, Workers
  <2>5. SoundTries' /\ SoundResult' /\ Free'
    BY <1>3 DEF SoundTries, SoundResult, Free, Repairing
  <2>. QED BY <2>3, <2>4, <2>5
<1>10. Playable' BY <1>3 DEF Playable
<1>. QED BY <1>6, <1>7, <1>8, <1>9, <1>10 DEF IInv

\* A line is given up, or its takes have been looked at.
LEMMA ReturnStep ==
  ASSUME IInv, RunBusy \/ \E w \in Workers : Return(w)
  PROVE  IInv'
<1>1. UNCHANGED <<files, made, record, ledger, damage>> BY DEF RunBusy, Return
<1>2. Types /\ Counted /\ "run" \in Workers /\ "rerender" \in Workers BY DEF IInv, Workers
<1>3. damage = 0 => SoundRecord /\ Spared /\ SoundTries /\ SoundResult /\ Free
  BY DEF IInv, Undamaged
<1>4. damage = 0 => SoundRecord'
  BY <1>1, <1>3 DEF SoundRecord, Settled, Sound
<1>5. CASE RunBusy
  <2>1. /\ job["run"].at = "rendering" /\ mutex' = mutex
        /\ job' = [job EXCEPT !["run"].at = "returning", !["run"].tries = <<>>]
    BY <1>5 DEF RunBusy
  <2>2. /\ job' \in [Workers -> Job] /\ job'["run"].at = "returning"
        /\ job'["run"].tries = <<>> /\ job'["rerender"] = job["rerender"]
    <3>1. PICK left : left = [job["run"] EXCEPT !.at = "returning", !.tries = <<>>]
      OBVIOUS
    <3>2. job \in [Workers -> Job] /\ job["run"] \in Job BY <1>2 DEF Types
    <3>3. left \in Job /\ left.at = "returning" /\ left.tries = <<>>
      <4>1. <<>> \in Seq(Row) OBVIOUS
      <4>. HIDE DEF Row
      <4>. QED BY <3>1, <3>2, <4>1 DEF Job, Steps
    <3>4. job' = [job EXCEPT !["run"] = left] BY <2>1, <3>1, <3>2
    <3>. HIDE DEF Job
    <3>. QED BY <1>2, <3>2, <3>3, <3>4
  <2>3. Types' BY <1>1, <1>2, <2>1, <2>2, AttemptsAssumption DEF Types, Workers
  <2>4. Locked' BY <2>1, <2>2 DEF IInv, Locked, Working, Workers
  <2>5. Counted' BY <1>1, <1>2, <2>2 DEF Counted, Repairing, Usable, Workers
  <2>6. Undamaged'
    BY <1>1, <1>3, <1>4, <2>2
    DEF Undamaged, Spared, SoundTries, SoundResult, Free, Repairing, Workers
  <2>7. Playable' BY <2>2 DEF Playable
  <2>. QED BY <2>3, <2>4, <2>5, <2>6, <2>7 DEF IInv
<1>6. ASSUME NEW w \in Workers, Return(w) PROVE IInv'
  <2>1. /\ job["run"].at = "returning" \/ w # "run"
        /\ job[w].at = "returning" /\ Release(w) /\ Go(w, "persisting")
        /\ \A row \in Rows(w) : Usable(row.path)
    BY <1>6 DEF Return
  <2>2. /\ job' \in [Workers -> Job] /\ job'[w].at = "persisting"
        /\ job'[w].tries = job[w].tries /\ job'[w].chosen = job[w].chosen
        /\ \A v \in Workers : v # w => job'[v] = job[v]
    BY <1>2, <2>1, Gone DEF Steps
  <2>3. mutex = w /\ mutex' = "free" /\ \A v \in Workers : v # w => job[v].at \notin Working
    BY <2>1 DEF IInv, Locked, Working, Release
  <2>4. Types' BY <1>1, <1>2, <2>2, <2>3 DEF Types
  <2>5. Locked' BY <2>2, <2>3 DEF Locked, Working
  <2>6. Counted' BY <1>1, <1>2, <2>1, <2>2 DEF Counted, Repairing, Usable
  <2>7. Undamaged'
    <3>1. SUFFICES ASSUME damage = 0
                   PROVE  (Spared /\ SoundTries /\ SoundResult /\ Free)'
      BY <1>1, <1>4 DEF Undamaged
    <3>2. Spared' BY <2>2, <2>3 DEF Spared, Working, Workers
    <3>3. SoundTries' /\ SoundResult'
      BY <2>2, <2>3 DEF SoundTries, SoundResult, Repairing, Working, Workers
    <3>4. Free' BY <1>3, <2>2, <2>3, <3>1 DEF Free, Working, Workers
    <3>. QED BY <3>2, <3>3, <3>4
  <2>8. Playable'
    <3>1. CASE w = "run"
      <4>1. job'["rerender"].at # "landing" /\ Rows("run")' = Rows("run")
        BY <2>2, <2>3, <3>1 DEF Rows, Working, Workers
      <4>. QED BY <1>1, <2>1, <3>1, <4>1 DEF Playable, Usable
    <3>2. CASE w = "rerender"
      <4>1. job'["run"] = job["run"] /\ job'["rerender"].at = "persisting"
        BY <1>2, <2>2, <3>2
      <4>. QED BY <1>1, <4>1 DEF IInv, Playable, Rows, Usable
    <3>. QED BY <3>1, <3>2 DEF Workers
  <2>. QED BY <2>4, <2>5, <2>6, <2>7, <2>8 DEF IInv
<1>. QED BY <1>5, <1>6

-----------------------------------------------------------------------------
(***************************************************************************)
(* The repair.                                                             *)
(***************************************************************************)
\* A take is written where no file is, so that no file that is there changes.
LEMMA Written ==
  ASSUME Types, NEW p \in Paths, ~ Exists(p), WriteTake(p)
  PROVE  /\ files' \in [Paths -> Take \union {NoTake, Damaged}]
         /\ made' \in 0 .. MaxTakes
         /\ files'[p] \in Take
         /\ \A q \in Paths : q # p => files'[q] = files[q]
         /\ \A q \in Paths : Usable(q) => files'[q] = files[q]
<1>1. PICK v \in Verdicts : files' = [files EXCEPT ![p] = [id |-> made + 1, verdict |-> v]]
  BY DEF WriteTake
<1>2. made + 1 \in 1 .. MaxTakes /\ made' \in 0 .. MaxTakes
  BY BoundsAssumption DEF WriteTake, Types
<1>3. [id |-> made + 1, verdict |-> v] \in Take BY <1>2 DEF Take
<1>4. \A q \in Paths : Usable(q) => q # p BY FileCases
<1>. QED BY <1>1, <1>2, <1>3, <1>4 DEF Types

\* The file of the path of the attempt is there already. Without damage this
\* is never the run.
LEMMA CollideStep ==
  ASSUME IInv, NEW w \in Workers, job[w].at \in Repairing, Collide(w),
         UNCHANGED <<files, made, record, ledger, damage>>,
         damage = 0 => w # "run"
  PROVE  IInv'
<1>1. Types /\ Counted BY DEF IInv
<1>2. /\ job' \in [Workers -> Job] /\ job'[w].at = "collided"
      /\ job'[w].tries = job[w].tries /\ \A v \in Workers : v # w => job'[v] = job[v]
  BY <1>1, Gone DEF Collide, Steps
<1>3. mutex = w /\ mutex' = "free" /\ \A v \in Workers : v # w => job[v].at \notin Working
  BY DEF IInv, Locked, Working, Repairing, Collide, Release
<1>4. Types' BY <1>1, <1>2, <1>3 DEF Types
<1>5. Locked' BY <1>2, <1>3 DEF Locked, Working
<1>6. Counted' BY <1>1, <1>2 DEF Counted, Repairing, Usable
<1>7. Undamaged'
  <2>1. SUFFICES ASSUME damage = 0
                 PROVE  (SoundRecord /\ Spared /\ SoundTries /\ SoundResult /\ Free)'
    BY DEF Undamaged
  <2>2. SoundRecord /\ Free /\ w = "rerender" BY <2>1 DEF IInv, Undamaged, Workers
  <2>3. SoundRecord' BY <2>2 DEF SoundRecord, Settled, Sound
  <2>4. Spared' BY <1>2, <1>3 DEF Spared, Working, Workers
  <2>5. SoundTries' /\ SoundResult'
    BY <1>2, <1>3 DEF SoundTries, SoundResult, Repairing, Working, Workers
  <2>6. Free' BY <1>2, <1>3, <2>2 DEF Free, Working, Workers
  <2>. QED BY <2>3, <2>4, <2>5, <2>6
<1>8. Playable'
  <2>1. job'["run"].at = "persisting" =>
          job'["run"] = job["run"] /\ job'["rerender"].at # "landing"
    BY <1>2, <1>3 DEF Workers, Working
  <2>. QED BY <2>1 DEF IInv, Playable, Rows, Usable
<1>. QED BY <1>4, <1>5, <1>6, <1>7, <1>8 DEF IInv

\* A take is written and the worker goes on to look at it. Only what is free
\* for the run depends on which take it is.
LEMMA WriteStep ==
  ASSUME IInv, NEW w \in Workers, job[w].at \in Repairing,
         NEW p \in Paths, ~ Exists(p), WriteTake(p),
         NEW at \in {"judging", "landing"}, Go(w, at),
         UNCHANGED <<record, ledger, mutex, damage>>,
         at = "landing" => Usable(RawPath(job[w].attempt)) /\ p = StretchedPath(w, job[w].attempt),
         damage = 0 => Free'
  PROVE  IInv'
<1>1. Types /\ Counted BY DEF IInv
<1>2. /\ job' \in [Workers -> Job] /\ job'[w].at = at
      /\ job'[w].tries = job[w].tries /\ job'[w].first = job[w].first
      /\ job'[w].attempt = job[w].attempt /\ \A v \in Workers : v # w => job'[v] = job[v]
  BY <1>1, Gone DEF Steps
<1>3. /\ files' \in [Paths -> Take \union {NoTake, Damaged}] /\ made' \in 0 .. MaxTakes
      /\ \A q \in Paths : Usable(q) => files'[q] = files[q]
  BY <1>1, Written
<1>4. mutex = w /\ \A v \in Workers : v # w => job[v].at \notin Working
  BY DEF IInv, Locked, Working, Repairing
<1>5. \A q \in Paths : Usable(q) => q # p BY <1>1, FileCases
<1>6. RawPath(job[w].attempt) \in Paths BY <1>1, Attempt, PathFacts
<1>7. Types' BY <1>1, <1>2, <1>3 DEF Types
<1>8. Locked' BY <1>2, <1>4 DEF Locked, Working
<1>9. Counted'
  <2>1. at = "landing" => Usable(RawPath(job[w].attempt))'
    BY <1>2, <1>3, <1>6 DEF Usable
  <2>2. \A v \in Workers : v # w => job'[v] = job[v] /\ job'[v].at # "landing"
    BY <1>2, <1>4 DEF Working
  <2>3. job'[w].at \in Repairing /\ job'[w].at \notin {"waiting", "discarding"}
    BY <1>2 DEF Repairing
  <2>. QED BY <1>1, <1>2, <2>1, <2>2, <2>3 DEF Counted, Usable
<1>10. Undamaged'
  <2>1. SUFFICES ASSUME damage = 0
                 PROVE  (SoundRecord /\ Spared /\ SoundTries /\ SoundResult /\ Free)'
    BY DEF Undamaged
  <2>2. SoundRecord /\ SoundTries BY <2>1 DEF IInv, Undamaged
  <2>3. \A row \in Row : Sound(row) => Usable(row.path) /\ row.path \in Paths
    BY <1>1, FileCases DEF Sound, Row
  <2>4. \A row \in Row : Sound(row) => files'[row.path] = row.take
    BY <1>3, <2>3 DEF Sound
  <2>5. SoundRecord' BY <2>2, <2>4 DEF SoundRecord, Settled, Sound
  <2>6. Spared'
    <3>1. record # NoRecord => Usable(record.chosen.path) /\ record.chosen.path \in Paths
      BY <2>2, <2>3 DEF SoundRecord, Settled, Sound
    <3>2. job'["run"].at # "discarding" /\ \A v \in Workers : v # w => job'[v].at # "landing"
      BY <1>2, <1>4 DEF Working, Workers
    <3>. QED BY <1>2, <1>5, <3>1, <3>2 DEF Spared
  <2>7. SoundTries'
    BY <1>2, <1>4, <2>2, <2>4 DEF SoundTries, Sound, Repairing, Working, Workers
  <2>8. SoundResult' BY <1>2, <1>4 DEF SoundResult, Working, Workers
  <2>. QED BY <2>1, <2>5, <2>6, <2>7, <2>8
<1>11. Playable'
  <2>1. SUFFICES ASSUME job'["run"].at = "persisting"
                 PROVE  Playable'
    BY DEF Playable
  <2>2. job'["run"] = job["run"] /\ w = "rerender" BY <1>2, <2>1 DEF Workers
  <2>3. job["run"].tries \in Seq(Row) BY <1>1 DEF Types, Job, Workers
  <2>4. \A row \in Rows("run") : row.path \in Paths /\ Usable(row.path)
    <3>1. \A i \in 1 .. Len(job["run"].tries) : job["run"].tries[i] \in Row BY <2>3
    <3>2. \A row \in Rows("run") : row \in Row BY <3>1 DEF Rows
    <3>3. \A row \in Row : row.path \in Paths BY DEF Row
    <3>. QED BY <2>1, <2>2, <3>2, <3>3 DEF IInv, Playable
  <2>5. Rows("run")' = Rows("run") BY <2>2 DEF Rows
  <2>6. \A row \in Rows("run") : files'[row.path] = files[row.path] /\ row.path # p
    BY <1>3, <1>5, <2>4
  <2>7. job'["rerender"].at = "landing" => p = StretchedPath("rerender", job'["rerender"].attempt)
    BY <1>2, <2>2
  <2>. QED BY <2>4, <2>5, <2>6, <2>7 DEF Playable, Usable
<1>. QED BY <1>7, <1>8, <1>9, <1>10, <1>11 DEF IInv

\* A take of attempt n is on no path of an attempt after it.
LEMMA FreeAhead ==
  ASSUME NEW n \in Numbers, NEW last \in Numbers, NEW F, NEW G,
         \A q \in Paths : q \notin {RawPath(n), StretchedPath("run", n)} => G[q] = F[q],
         \A m \in n + 1 .. last : F[RawPath(m)] = NoTake /\ F[StretchedPath("run", m)] = NoTake
  PROVE  \A m \in n + 1 .. last : G[RawPath(m)] = NoTake /\ G[StretchedPath("run", m)] = NoTake
<1>1. \A m \in n + 1 .. last : m \in Numbers /\ m \in Nat /\ n \in Nat /\ m # n
  BY AttemptsAssumption DEF Numbers
<1>2. \A m \in n + 1 .. last :
        /\ RawPath(m) \in Paths /\ StretchedPath("run", m) \in Paths
        /\ RawPath(m) \notin {RawPath(n), StretchedPath("run", n)}
        /\ StretchedPath("run", m) \notin {RawPath(n), StretchedPath("run", n)}
  BY <1>1, PathFacts DEF Workers
<1>. QED BY <1>2

LEMMA SynthesizeStep ==
  ASSUME IInv, NEW w \in Workers, Synthesize(w)
  PROVE  IInv'
<1>. DEFINE n == job[w].attempt
            last == job[w].first + MaxAttempts - 1
<1>1. Types /\ Counted /\ job[w].at = "rendering" /\ job[w].at \in Repairing
  BY DEF IInv, Synthesize, Repairing
<1>2. n \in Numbers /\ RawPath(n) \in Paths /\ last \in Numbers /\ n <= last
  BY <1>1, Attempt, PathFacts DEF Counted
<1>3. UNCHANGED <<record, ledger, damage>> BY DEF Synthesize
<1>4. CASE Exists(RawPath(n))
  <2>1. damage = 0 => w # "run"
    BY <1>1, <1>2, <1>4 DEF IInv, Undamaged, Free, FreeFrom, Numbers
  <2>. QED BY <1>1, <1>3, <1>4, <2>1, CollideStep DEF Synthesize
<1>5. CASE ~ Exists(RawPath(n))
  <2>1. WriteTake(RawPath(n)) /\ Go(w, "judging") /\ UNCHANGED mutex
    BY <1>5 DEF Synthesize
  <2>2. \A q \in Paths : q # RawPath(n) => files'[q] = files[q]
    BY <1>1, <1>2, <1>5, <2>1, Written
  <2>3. /\ job'[w].at = "judging" /\ job'[w].first = job[w].first
        /\ job'[w].attempt = n /\ \A v \in Workers : v # w => job'[v] = job[v]
    BY <1>1, <2>1, Gone DEF Steps
  <2>4. ASSUME damage = 0 PROVE Free'
    <3>1. Free BY <2>4 DEF IInv, Undamaged
    <3>2. CASE w = "run"
      <4>1. \A m \in n .. last :
              files[RawPath(m)] = NoTake /\ files[StretchedPath("run", m)] = NoTake
        BY <1>1, <3>1, <3>2 DEF Free, FreeFrom, Exists
      <4>2. n \in n .. last /\ n \in Nat /\ \A m \in n + 1 .. last : m \in n .. last
        BY <1>2 DEF Numbers
      <4>3. files'[StretchedPath("run", n)] = NoTake
        <5>1. StretchedPath("run", n) \in Paths /\ StretchedPath("run", n) # RawPath(n)
          BY <1>2, <4>2, PathFacts DEF Workers
        <5>. QED BY <2>2, <4>1, <4>2, <5>1
      <4>4. \A m \in n + 1 .. last :
              files'[RawPath(m)] = NoTake /\ files'[StretchedPath("run", m)] = NoTake
        <5>1. \A m \in n + 1 .. last :
                files[RawPath(m)] = NoTake /\ files[StretchedPath("run", m)] = NoTake
          BY <4>1, <4>2
        <5>. QED BY <1>2, <2>2, <5>1, FreeAhead
      <4>5. /\ job'["run"].at = "judging" /\ job'["run"].attempt = n
            /\ job'["run"].first + MaxAttempts - 1 = last
        BY <2>3, <3>2
      <4>. HIDE DEF n, last
      <4>. QED BY <4>3, <4>4, <4>5 DEF Free, FreeFrom, Exists
    <3>3. CASE w # "run"
      <4>1. job["run"].at \notin Working /\ job'["run"] = job["run"]
        BY <1>1, <2>3, <3>3 DEF IInv, Locked, Working, Workers
      <4>. QED BY <3>1, <4>1 DEF Free, Working
    <3>. QED BY <3>2, <3>3
  <2>. QED BY <1>1, <1>2, <1>3, <1>5, <2>1, <2>4, WriteStep
<1>. QED BY <1>4, <1>5

-----------------------------------------------------------------------------
(***************************************************************************)
(* The verdict on a take.                                                  *)
(***************************************************************************)
\* The attempt is one more row, and within the attempts of the repair.
LEMMA TryFacts ==
  ASSUME Types, Counted, NEW w \in Workers, job[w].at \in Repairing,
         NEW p \in Paths, Usable(p), NEW row, row = [path |-> p, take |-> files[p]]
  PROVE  /\ row \in Row /\ row.path = p /\ row.take = files[p]
         /\ Try(w, p) = Append(job[w].tries, row)
         /\ Try(w, p) \in Seq(Row)
         /\ Len(Try(w, p)) = Len(job[w].tries) + 1 /\ Len(Try(w, p)) <= MaxAttempts
         /\ \A i \in 1 .. Len(Try(w, p)) :
              IF i <= Len(job[w].tries) THEN Try(w, p)[i] = job[w].tries[i] ELSE Try(w, p)[i] = row
<1>1. job[w].tries \in Seq(Row) BY DEF Types, Job
<1>2. row \in Row BY FileCases DEF Row
<1>3. Try(w, p) = Append(job[w].tries, row) BY DEF Try
<1>4. /\ Append(job[w].tries, row) \in Seq(Row)
      /\ Len(Append(job[w].tries, row)) = Len(job[w].tries) + 1
      /\ \A i \in 1 .. Len(job[w].tries) : Append(job[w].tries, row)[i] = job[w].tries[i]
      /\ Append(job[w].tries, row)[Len(job[w].tries) + 1] = row
  BY <1>1, <1>2
<1>5. Len(job[w].tries) + 1 <= MaxAttempts
  <2>1. Len(job[w].tries) \in Nat BY <1>1
  <2>2. /\ Len(job[w].tries) = job[w].attempt - job[w].first
        /\ job[w].attempt <= job[w].first + MaxAttempts - 1
    BY DEF Counted
  <2>3. job[w].attempt \in Nat /\ job[w].first \in Nat BY Attempt DEF Numbers
  <2>. QED BY <2>1, <2>2, <2>3, AttemptsAssumption
<1>6. \A i \in 1 .. Len(Try(w, p)) : i \in 1 .. Len(job[w].tries) \/ i = Len(job[w].tries) + 1
  BY <1>1, <1>3, <1>4
<1>7. \A i \in 1 .. Len(Try(w, p)) :
        IF i <= Len(job[w].tries) THEN Try(w, p)[i] = job[w].tries[i] ELSE Try(w, p)[i] = row
  BY <1>1, <1>3, <1>4, <1>6
<1>. QED BY <1>2, <1>3, <1>4, <1>5, <1>7

\* A repair ends with its tries and the row it chose.
LEMMA Chose ==
  ASSUME Types, NEW w \in Workers, NEW tries \in Seq(Row), NEW chosen \in Row,
         NEW mark \in BOOLEAN, Choose(w, tries, chosen, mark)
  PROVE  /\ job' \in [Workers -> Job]
         /\ job'[w].at = Finished(w) /\ job'[w].tries = tries
         /\ job'[w].chosen = chosen /\ job'[w].flagged = mark
         /\ job'[w].first = job[w].first /\ job'[w].attempt = job[w].attempt
         /\ \A v \in Workers : v # w => job'[v] = job[v]
<1>1. Finished(w) \in Steps BY DEF Finished, Steps
<1>2. PICK new :
        /\ new = [job[w] EXCEPT !.at = Finished(w), !.tries = tries,
                                !.chosen = chosen, !.flagged = mark]
        /\ job' = [job EXCEPT ![w] = new]
  BY DEF Choose
<1>3. job[w] \in Job BY DEF Types
<1>4. /\ new \in Job /\ new.at = Finished(w) /\ new.tries = tries
      /\ new.chosen = chosen /\ new.flagged = mark
      /\ new.first = job[w].first /\ new.attempt = job[w].attempt
  <2>1. new = [job[w] EXCEPT !.at = Finished(w), !.tries = tries,
                             !.chosen = chosen, !.flagged = mark]
    BY <1>2
  <2>2. PICK i \in Job, at \in Steps : i = job[w] /\ at = Finished(w)
    BY <1>1, <1>3
  <2>3. new = [i EXCEPT !.at = at, !.tries = tries, !.chosen = chosen, !.flagged = mark]
    BY <2>1, <2>2
  <2>4. /\ new \in Job /\ new.at = at /\ new.tries = tries
        /\ new.chosen = chosen /\ new.flagged = mark
        /\ new.first = i.first /\ new.attempt = i.attempt
    BY <2>3 DEF Job
  <2>. QED BY <2>2, <2>4
<1>. QED BY <1>2, <1>4 DEF Types

\* The take fits: it is the result, not flagged.
LEMMA FitStep ==
  ASSUME IInv, NEW w \in Workers, job[w].at \in Repairing,
         NEW p \in Paths, Usable(p), files[p].verdict = "fits",
         Choose(w, Try(w, p), [path |-> p, take |-> files[p]], FALSE),
         UNCHANGED <<files, made, record, ledger, mutex, damage>>
  PROVE  IInv'
<1>1. Types /\ Counted BY DEF IInv
<1>. DEFINE row == [path |-> p, take |-> files[p]]
<1>2. /\ row \in Row /\ row.path = p /\ row.take = files[p]
      /\ Try(w, p) \in Seq(Row) /\ Len(Try(w, p)) <= MaxAttempts
  BY <1>1, TryFacts
<1>. HIDE DEF row
<1>3. Choose(w, Try(w, p), row, FALSE) BY DEF row
<1>4. /\ job' \in [Workers -> Job] /\ job'[w].at = Finished(w)
      /\ job'[w].tries = Try(w, p) /\ job'[w].chosen = row /\ job'[w].flagged = FALSE
      /\ \A v \in Workers : v # w => job'[v] = job[v]
  BY <1>1, <1>2, <1>3, Chose
<1>5. mutex = w /\ \A v \in Workers : v # w => job[v].at \notin Working
  BY DEF IInv, Locked, Working, Repairing
<1>6. Types' BY <1>1, <1>2, <1>4 DEF Types
<1>7. Locked' BY <1>4, <1>5 DEF Locked, Working
<1>8. Counted' BY <1>1, <1>2, <1>4 DEF Counted, Repairing, Usable, Finished
<1>9. Undamaged'
  <2>1. SUFFICES ASSUME damage = 0
                 PROVE  (SoundRecord /\ Spared /\ SoundTries /\ SoundResult /\ Free)'
    BY DEF Undamaged
  <2>2. SoundRecord /\ Free BY <2>1 DEF IInv, Undamaged
  <2>3. SoundRecord' BY <2>2 DEF SoundRecord, Settled, Sound
  <2>4. Spared' BY <1>4, <1>5 DEF Spared, Finished, Working, Workers
  <2>5. SoundTries' BY <1>4, <1>5 DEF SoundTries, Finished, Repairing, Working, Workers
  <2>6. SoundResult'
    <3>1. CASE w = "run" BY <1>2, <1>4, <3>1 DEF SoundResult, Settled, Sound
    <3>2. CASE w # "run" BY <1>4, <1>5, <3>2 DEF SoundResult, Working, Workers
    <3>. QED BY <3>1, <3>2
  <2>7. Free' BY <1>4, <1>5, <2>2 DEF Free, Finished, Working, Workers
  <2>. QED BY <2>3, <2>4, <2>5, <2>6, <2>7
<1>10. Playable'
  <2>1. job'["run"].at = "persisting" =>
          job'["run"] = job["run"] /\ job'["rerender"].at # "landing"
    BY <1>4, <1>5 DEF Finished, Workers, Working
  <2>. QED BY <2>1 DEF IInv, Playable, Rows, Usable
<1>. QED BY <1>6, <1>7, <1>8, <1>9, <1>10 DEF IInv

\* The take misses: the next attempt of the window, or one of the tries,
\* flagged.
LEMMA NextOrChosen ==
  ASSUME Types, Counted, NEW w \in Workers, job[w].at \in Repairing,
         NEW p \in Paths, Usable(p), Missed(w, p)
  PROVE  /\ job' \in [Workers -> Job] /\ job'[w].tries = Try(w, p)
         /\ job'[w].first = job[w].first
         /\ \A v \in Workers : v # w => job'[v] = job[v]
         /\ \/ /\ job'[w].at = "rendering" /\ job'[w].attempt = job[w].attempt + 1
               /\ job'[w].attempt <= job[w].first + MaxAttempts - 1
            \/ /\ job'[w].at = Finished(w) /\ job'[w].flagged = TRUE
               /\ \E i \in 1 .. Len(Try(w, p)) : job'[w].chosen = Try(w, p)[i]
<1>1. job[w] \in Job BY DEF Types
<1>2. Try(w, p) \in Seq(Row) BY TryFacts
<1>3. CASE job[w].attempt < job[w].first + MaxAttempts - 1
  <2>1. PICK new :
          /\ new = [job[w] EXCEPT !.at = "rendering", !.attempt = @ + 1, !.tries = Try(w, p)]
          /\ job' = [job EXCEPT ![w] = new]
    BY <1>3 DEF Missed
  <2>2. PICK i \in Job, at \in Steps, n \in Numbers, tries \in Seq(Row) :
          i = job[w] /\ at = "rendering" /\ n = job[w].attempt + 1 /\ tries = Try(w, p)
    <3>1. job[w].attempt + 1 \in Numbers
      <4>1. job[w].attempt \in 1 .. MaxNumber /\ job[w].first \in 1 .. MaxNumber
            /\ job[w].first + MaxAttempts - 1 <= MaxNumber
        BY Attempt DEF Counted, Numbers
      <4>. QED BY <1>3, <4>1, AttemptsAssumption DEF Numbers
    <3>2. "rendering" \in Steps BY DEF Steps
    <3>. QED BY <1>1, <1>2, <3>1, <3>2
  <2>3. new = [i EXCEPT !.at = at, !.attempt = n, !.tries = tries]
    BY <2>1, <2>2
  <2>4. new \in Job /\ new.at = at /\ new.attempt = n /\ new.tries = tries /\ new.first = i.first
    BY <2>3 DEF Job
  <2>5. job[w].attempt + 1 <= job[w].first + MaxAttempts - 1
    BY <1>3, Attempt, AttemptsAssumption DEF Numbers
  <2>. QED BY <2>1, <2>2, <2>4, <2>5 DEF Types
<1>4. CASE ~ (job[w].attempt < job[w].first + MaxAttempts - 1)
  <2>1. PICK i \in 1 .. Len(Try(w, p)) : Choose(w, Try(w, p), Try(w, p)[i], TRUE)
    BY <1>4 DEF Missed
  <2>2. Try(w, p)[i] \in Row BY <1>2
  <2>. QED BY <1>2, <2>1, <2>2, Chose
<1>. QED BY <1>3, <1>4

\* Whether the missed take is left in place or is the stretched form of one,
\* which goes. Only what is free for the run depends on which it is.
LEMMA MissedStep ==
  ASSUME IInv, NEW w \in Workers, job[w].at \in Repairing,
         Usable(RawPath(job[w].attempt)), Missed(w, RawPath(job[w].attempt)),
         UNCHANGED <<made, record, ledger, mutex, damage>>,
         \/ files' = files
         \/ /\ job[w].at = "landing"
            /\ files' = [files EXCEPT ![StretchedPath(w, job[w].attempt)] = NoTake],
         damage = 0 => Free'
  PROVE  IInv'
<1>. DEFINE p == RawPath(job[w].attempt)
            out == StretchedPath(w, job[w].attempt)
            row == [path |-> p, take |-> files[p]]
<1>1. Types /\ Counted BY DEF IInv
<1>2. job[w].attempt \in Numbers /\ job[w].attempt \in Nat BY <1>1, Attempt DEF Numbers
<1>3. p \in Paths /\ out \in Paths /\ p # out BY <1>2, PathFacts
<1>4. /\ row \in Row /\ row.path = p /\ row.take = files[p]
      /\ Try(w, p) \in Seq(Row) /\ Len(Try(w, p)) <= MaxAttempts
      /\ Len(Try(w, p)) = Len(job[w].tries) + 1
      /\ \A i \in 1 .. Len(Try(w, p)) :
           IF i <= Len(job[w].tries) THEN Try(w, p)[i] = job[w].tries[i] ELSE Try(w, p)[i] = row
  BY <1>1, <1>3, TryFacts
<1>5. /\ job' \in [Workers -> Job] /\ job'[w].tries = Try(w, p)
      /\ job'[w].first = job[w].first
      /\ \A v \in Workers : v # w => job'[v] = job[v]
      /\ \/ /\ job'[w].at = "rendering" /\ job'[w].attempt = job[w].attempt + 1
            /\ job'[w].attempt <= job[w].first + MaxAttempts - 1
         \/ /\ job'[w].at = Finished(w) /\ job'[w].flagged = TRUE
            /\ \E i \in 1 .. Len(Try(w, p)) : job'[w].chosen = Try(w, p)[i]
  BY <1>1, <1>3, NextOrChosen
<1>6. mutex = w /\ \A v \in Workers : v # w => job[v].at \notin Working
  BY DEF IInv, Locked, Working, Repairing
<1>7. /\ files' \in [Paths -> Take \union {NoTake, Damaged}]
      /\ \A q \in Paths : q # out => files'[q] = files[q]
      /\ job[w].at # "landing" => files' = files
  BY <1>1, <1>3 DEF Types
<1>. HIDE DEF p, out, row
<1>8. Types' BY <1>1, <1>4, <1>5, <1>7 DEF Types
<1>9. Locked' BY <1>5, <1>6 DEF Locked, Working
<1>10. Counted'
  <2>1. job[w].first \in Nat /\ job[w].first + MaxAttempts - 1 <= MaxNumber
        /\ Len(job[w].tries) = job[w].attempt - job[w].first
    BY <1>1, Attempt DEF Counted, Numbers
  <2>2. job'[w].at = "rendering" => Len(job'[w].tries) = job'[w].attempt - job'[w].first
    BY <1>2, <1>4, <1>5, <2>1 DEF Finished
  <2>3. w = "rerender" /\ job'[w].at = "returning" => job'[w].chosen \in Row
    <3>1. \A i \in 1 .. Len(Try(w, p)) : Try(w, p)[i] \in Row BY <1>4
    <3>. QED BY <1>5, <3>1
  <2>4. job'[w].at \in {"rendering", Finished(w)} BY <1>5
  <2>5. \A v \in Workers : v # w => job'[v] = job[v] /\ job'[v].at # "landing"
    BY <1>5, <1>6 DEF Working
  <2>. QED
    BY <1>1, <1>5, <2>1, <2>2, <2>3, <2>4, <2>5 DEF Counted, Repairing, Usable, Finished
<1>11. Undamaged'
  <2>1. SUFFICES ASSUME damage = 0
                 PROVE  (SoundRecord /\ Spared /\ SoundTries /\ SoundResult /\ Free)'
    BY DEF Undamaged
  <2>2. SoundRecord /\ Spared /\ SoundTries BY <2>1 DEF IInv, Undamaged
  <2>3. SoundRecord'
    <3>1. SUFFICES ASSUME record # NoRecord PROVE Settled(record)'
      BY DEF SoundRecord
    <3>2. Settled(record) /\ record.chosen \in Row BY <2>2, <3>1 DEF SoundRecord, Settled, Sound
    <3>3. job[w].at = "landing" => record.chosen.path # out
      BY <2>2, <3>1 DEF Spared, out
    <3>4. files'[record.chosen.path] = files[record.chosen.path]
      BY <1>7, <3>2, <3>3 DEF Row
    <3>. QED BY <3>2, <3>4 DEF Settled, Sound
  <2>4. Spared' BY <1>5, <1>6 DEF Spared, Finished, Working, Workers
  <2>5. w = "run" =>
          \A i \in 1 .. Len(Try(w, p)) :
            /\ Try(w, p)[i] \in Row /\ files'[Try(w, p)[i].path] = Try(w, p)[i].take
            /\ \E n \in Numbers : Try(w, p)[i].path = RawPath(n)
    <3>1. SUFFICES ASSUME w = "run", NEW i \in 1 .. Len(Try(w, p))
                   PROVE  /\ Try(w, p)[i] \in Row /\ files'[Try(w, p)[i].path] = Try(w, p)[i].take
                          /\ \E n \in Numbers : Try(w, p)[i].path = RawPath(n)
      OBVIOUS
    <3>2. CASE i <= Len(job[w].tries)
      <4>1. Try(w, p)[i] = job[w].tries[i] /\ i \in 1 .. Len(job[w].tries)
        <5>1. job[w].tries \in Seq(Row) BY <1>1 DEF Types, Job
        <5>. QED BY <1>4, <3>1, <3>2, <5>1
      <4>2. Sound(job[w].tries[i]) /\ \E n \in Numbers : job[w].tries[i].path = RawPath(n)
        BY <2>2, <3>1, <4>1 DEF SoundTries
      <4>3. PICK n \in Numbers : job[w].tries[i].path = RawPath(n) BY <4>2
      <4>4. RawPath(n) \in Paths /\ RawPath(n) # out
        BY <1>2, PathFacts DEF out, Numbers
      <4>. QED BY <1>7, <4>1, <4>2, <4>3, <4>4 DEF Sound
    <3>3. CASE ~ (i <= Len(job[w].tries))
      <4>1. Try(w, p)[i] = row BY <1>4, <3>3
      <4>2. files'[p] = files[p] BY <1>3, <1>7
      <4>. QED BY <1>2, <1>4, <4>1, <4>2 DEF p
    <3>. QED BY <3>2, <3>3
  <2>6. SoundTries'
    <3>1. CASE w = "run" BY <1>5, <2>5, <3>1 DEF SoundTries, Sound
    <3>2. CASE w # "run"
      BY <1>5, <1>6, <3>2 DEF SoundTries, Repairing, Working, Workers
    <3>. QED BY <3>1, <3>2
  <2>7. SoundResult'
    <3>1. CASE w = "run" BY <1>5, <2>5, <3>1 DEF SoundResult, Settled, Sound
    <3>2. CASE w # "run" BY <1>5, <1>6, <3>2 DEF SoundResult, Working, Workers
    <3>. QED BY <3>1, <3>2
  <2>. QED BY <2>1, <2>3, <2>4, <2>6, <2>7
<1>12. Playable'
  <2>1. SUFFICES ASSUME job'["run"].at = "persisting"
                 PROVE  Playable'
    BY DEF Playable
  <2>2. job'["run"] = job["run"] /\ w = "rerender" BY <1>5, <2>1 DEF Workers, Finished
  <2>3. job["run"].tries \in Seq(Row) BY <1>1 DEF Types, Job, Workers
  <2>4. \A r \in Rows("run") :
          /\ r.path \in Paths /\ Usable(r.path)
          /\ job[w].at = "landing" => r.path # out
    <3>1. \A i \in 1 .. Len(job["run"].tries) : job["run"].tries[i] \in Row BY <2>3
    <3>2. \A r \in Rows("run") : r \in Row BY <3>1 DEF Rows
    <3>3. \A r \in Row : r.path \in Paths BY DEF Row
    <3>. QED BY <2>1, <2>2, <3>2, <3>3 DEF IInv, Playable, out
  <2>5. Rows("run")' = Rows("run") BY <2>2 DEF Rows
  <2>6. \A r \in Rows("run") : files'[r.path] = files[r.path] BY <1>7, <2>4
  <2>7. job'["rerender"].at # "landing" BY <1>5, <2>2 DEF Finished
  <2>. QED BY <2>4, <2>5, <2>6, <2>7 DEF Playable, Usable
<1>. QED BY <1>8, <1>9, <1>10, <1>11, <1>12 DEF IInv

\* What is free for the run once it went on after a miss, or was not at work.
LEMMA FreeAfter ==
  ASSUME Types, Counted, NEW w \in Workers, job[w].at \in Repairing,
         mutex = w, Locked, Free,
         \A v \in Workers : v # w => job'[v] = job[v],
         \A q \in Paths : files[q] = NoTake => files'[q] = NoTake,
         w = "run" =>
           /\ FreeFrom(job["run"].attempt + 1)
           /\ job'["run"].first = job["run"].first
           /\ \/ job'["run"].at = "rendering" /\ job'["run"].attempt = job["run"].attempt + 1
              \/ job'["run"].at = "recording"
  PROVE  Free'
<1>1. CASE w = "run"
  <2>. DEFINE n == job["run"].attempt
              last == job["run"].first + MaxAttempts - 1
  <2>1. n \in Numbers /\ last \in Numbers BY <1>1, Attempt
  <2>2. \A m \in n + 1 .. last :
          files[RawPath(m)] = NoTake /\ files[StretchedPath("run", m)] = NoTake
    BY <1>1 DEF FreeFrom, Exists
  <2>3. job'["run"].at = "rendering" =>
          job'["run"].attempt = n + 1 /\ job'["run"].first + MaxAttempts - 1 = last
    BY <1>1
  <2>4. job'["run"].at \in {"rendering", "recording"} BY <1>1
  <2>. HIDE DEF n, last
  <2>5. \A m \in n + 1 .. last : RawPath(m) \in Paths /\ StretchedPath("run", m) \in Paths
    <3>1. \A m \in n + 1 .. last : m \in Numbers BY <2>1, AttemptsAssumption DEF Numbers
    <3>. QED BY <3>1, PathFacts DEF Workers
  <2>6. \A m \in n + 1 .. last :
          files'[RawPath(m)] = NoTake /\ files'[StretchedPath("run", m)] = NoTake
    BY <2>2, <2>5
  <2>. QED BY <2>3, <2>4, <2>6 DEF Free, FreeFrom, Exists
<1>2. CASE w # "run"
  <2>1. job'["run"] = job["run"] /\ job["run"].at \notin Working
    BY <1>2 DEF Locked, Workers
  <2>. QED BY <2>1 DEF Free, Working
<1>. QED BY <1>1, <1>2

LEMMA JudgeStep ==
  ASSUME IInv, NEW w \in Workers, Judge(w)
  PROVE  IInv'
<1>. DEFINE n == job[w].attempt
            last == job[w].first + MaxAttempts - 1
            p == RawPath(n)
            out == StretchedPath(w, n)
<1>1. /\ Types /\ Counted /\ Locked /\ job[w].at = "judging" /\ job[w].at \in Repairing
      /\ Usable(p) /\ UNCHANGED <<record, ledger, damage>> /\ mutex = w
  BY DEF IInv, Judge, Repairing, Locked, Working
<1>2. n \in Numbers /\ last \in Numbers BY <1>1, Attempt
<1>3. p \in Paths /\ out \in Paths BY <1>2, PathFacts
<1>4. damage = 0 => Free BY DEF IInv, Undamaged
<1>5. CASE files[p].verdict = "fits" /\ Choose(w, Try(w, p), [path |-> p, take |-> files[p]], FALSE)
           /\ UNCHANGED <<files, made, mutex>>
  BY <1>1, <1>3, <1>5, FitStep
<1>6. CASE files[p].verdict = "misses" /\ Missed(w, p) /\ UNCHANGED <<files, made, mutex>>
  <2>1. ASSUME damage = 0 PROVE Free'
    <3>1. /\ \A v \in Workers : v # w => job'[v] = job[v]
          /\ job'[w].first = job[w].first
          /\ \/ job'[w].at = "rendering" /\ job'[w].attempt = n + 1
             \/ job'[w].at = Finished(w)
      BY <1>1, <1>3, <1>6, NextOrChosen
    <3>2. w = "run" => FreeFrom(job["run"].attempt + 1)
      BY <1>1, <1>4, <1>6, <2>1 DEF Free
    <3>. QED BY <1>1, <1>4, <1>6, <2>1, <3>1, <3>2, FreeAfter DEF Finished
  <2>. QED BY <1>1, <1>6, <2>1, MissedStep
<1>7. CASE files[p].verdict = "stretches" /\ ~ Exists(out) /\ WriteTake(out) /\ Go(w, "landing")
           /\ UNCHANGED mutex
  <2>1. \A q \in Paths : q # out => files'[q] = files[q]
    BY <1>1, <1>3, <1>7, Written
  <2>2. /\ job'[w].at = "landing" /\ job'[w].first = job[w].first
        /\ job'[w].attempt = n /\ \A v \in Workers : v # w => job'[v] = job[v]
    BY <1>1, <1>7, Gone DEF Steps
  <2>3. ASSUME damage = 0 PROVE Free'
    <3>1. CASE w = "run"
      <4>1. FreeFrom(n + 1) BY <1>1, <1>4, <1>7, <2>3, <3>1 DEF Free
      <4>2. \A m \in n + 1 .. last :
              files[RawPath(m)] = NoTake /\ files[StretchedPath("run", m)] = NoTake
        BY <3>1, <4>1 DEF FreeFrom, Exists
      <4>3. \A m \in n + 1 .. last :
              files'[RawPath(m)] = NoTake /\ files'[StretchedPath("run", m)] = NoTake
        BY <1>2, <2>1, <3>1, <4>2, FreeAhead
      <4>4. /\ job'["run"].at = "landing" /\ job'["run"].attempt = n
            /\ job'["run"].first + MaxAttempts - 1 = last
        BY <2>2, <3>1
      <4>. HIDE DEF n, last
      <4>. QED BY <4>3, <4>4 DEF Free, FreeFrom, Exists
    <3>2. CASE w # "run"
      <4>1. job["run"].at \notin Working /\ job'["run"] = job["run"]
        BY <1>1, <2>2, <3>2 DEF Locked, Workers
      <4>. QED BY <1>4, <2>3, <4>1 DEF Free, Working
    <3>. QED BY <3>1, <3>2
  <2>. QED BY <1>1, <1>3, <1>7, <2>3, WriteStep
<1>8. CASE files[p].verdict = "stretches" /\ Exists(out) /\ Collide(w) /\ UNCHANGED <<files, made>>
  <2>1. damage = 0 => w # "run"
    BY <1>1, <1>4, <1>8 DEF Free
  <2>. QED BY <1>1, <1>8, <2>1, CollideStep
<1>. QED BY <1>5, <1>6, <1>7, <1>8 DEF Judge

LEMMA LandStep ==
  ASSUME IInv, NEW w \in Workers, Land(w)
  PROVE  IInv'
<1>. DEFINE n == job[w].attempt
            p == RawPath(n)
            out == StretchedPath(w, n)
<1>1. /\ Types /\ Counted /\ Locked /\ job[w].at = "landing" /\ job[w].at \in Repairing
      /\ Usable(out) /\ Usable(p) /\ UNCHANGED <<made, record, ledger, mutex, damage>>
      /\ mutex = w
  BY DEF IInv, Land, Repairing, Locked, Working, Counted
<1>2. p \in Paths /\ out \in Paths BY <1>1, Attempt, PathFacts
<1>3. CASE files[out].verdict = "fits" /\ UNCHANGED files
           /\ Choose(w, Try(w, out), [path |-> out, take |-> files[out]], FALSE)
  BY <1>1, <1>2, <1>3, FitStep
<1>4. CASE files[out].verdict # "fits" /\ files' = [files EXCEPT ![out] = NoTake] /\ Missed(w, p)
  <2>1. ASSUME damage = 0 PROVE Free'
    <3>1. /\ \A v \in Workers : v # w => job'[v] = job[v]
          /\ job'[w].first = job[w].first
          /\ \/ job'[w].at = "rendering" /\ job'[w].attempt = n + 1
             \/ job'[w].at = Finished(w)
      BY <1>1, <1>2, <1>4, NextOrChosen
    <3>2. Free BY <2>1 DEF IInv, Undamaged
    <3>3. w = "run" => FreeFrom(job["run"].attempt + 1)
      BY <1>1, <3>2 DEF Free
    <3>4. \A q \in Paths : files[q] = NoTake => files'[q] = NoTake
      BY <1>1, <1>4 DEF Types
    <3>. QED BY <1>1, <3>1, <3>2, <3>3, <3>4, FreeAfter DEF Finished
  <2>. QED BY <1>1, <1>4, <2>1, MissedStep
<1>. QED BY <1>3, <1>4 DEF Land

-----------------------------------------------------------------------------
(***************************************************************************)
(* The ends of a job.                                                      *)
(***************************************************************************)
LEMMA PersistStep ==
  ASSUME IInv, NEW w \in Workers, Persist(w)
  PROVE  IInv'
<1>1. /\ job[w].at = "persisting" /\ ledger' = ledger \union Rows(w)
      /\ job' = [job EXCEPT ![w] = Idle] /\ UNCHANGED <<files, made, record, mutex, damage>>
  BY DEF Persist
<1>2. Types /\ Counted BY DEF IInv
<1>3. Rows(w) \subseteq Row
  <2>1. CASE w = "run"
    <3>1. job["run"].tries \in Seq(Row) BY <1>2 DEF Types, Job, Workers
    <3>2. \A i \in 1 .. Len(job["run"].tries) : job["run"].tries[i] \in Row BY <3>1
    <3>. QED BY <2>1, <3>2 DEF Rows
  <2>2. CASE w = "rerender" BY <1>1, <1>2, <2>2 DEF Counted, Rows
  <2>. QED BY <2>1, <2>2 DEF Workers
<1>4. ledger' \subseteq Row /\ mutex' \in Workers \union {"free"}
  BY <1>1, <1>2, <1>3 DEF Types
<1>5. job' \in [Workers -> Job] /\ \A v \in Workers : job'[v] = Idle \/ job'[v] = job[v]
  BY <1>1, <1>2, IdleJob DEF Types
<1>. QED BY <1>1, <1>4, <1>5, EndedJobs

LEMMA StopStep ==
  ASSUME IInv, Crash \/ \E w \in Workers : Stop(w)
  PROVE  IInv'
<1>1. Types /\ UNCHANGED <<files, made, record, ledger, damage>> BY DEF IInv, Crash, Stop
<1>2. CASE Crash
  <2>1. job' \in [Workers -> Job] /\ \A v \in Workers : job'[v] = Idle
    BY <1>2, IdleJob DEF Crash
  <2>. QED BY <1>1, <1>2, <2>1, EndedJobs DEF Crash, Types
<1>3. ASSUME NEW w \in Workers, Stop(w) PROVE IInv'
  <2>1. /\ job' \in [Workers -> Job] /\ job'[w] = Idle
        /\ \A v \in Workers : v # w => job'[v] = job[v]
    BY <1>1, <1>3, IdleJob DEF Stop, Types
  <2>2. /\ mutex' \in Workers \union {"free"} /\ ledger' \subseteq Row
        /\ \A v \in Workers : v # w /\ mutex = v => mutex' = v
    BY <1>1, <1>3 DEF Stop, Release, Types
  <2>. QED BY <1>1, <2>1, <2>2, EndedJobs
<1>. QED BY <1>2, <1>3

\* A power failure ends both jobs, and from then on files may be damaged.
LEMMA PowerFailureStep ==
  ASSUME IInv, NEW p \in Paths, PowerFailure(p)
  PROVE  IInv'
<1>1. /\ damage < MaxDamage /\ damage' = damage + 1
      /\ files' = [files EXCEPT ![p] = Damaged]
      /\ job' = [w \in Workers |-> Idle] /\ mutex' = "free"
      /\ UNCHANGED <<made, record, ledger>>
  BY DEF PowerFailure
<1>2. Types BY DEF IInv
<1>3. damage' \in 0 .. MaxDamage /\ damage' # 0
  BY <1>1, <1>2, BoundsAssumption DEF Types
<1>4. job' \in [Workers -> Job] /\ \A w \in Workers : job'[w] = Idle
  BY <1>1, IdleJob
<1>5. Types' BY <1>1, <1>2, <1>3, <1>4, IdleJob, AttemptsAssumption DEF Types
<1>6. Locked' /\ Counted' /\ Playable'
  BY <1>4, IdleJob DEF Locked, Working, Counted, Repairing, Playable, Workers
<1>7. Undamaged' BY <1>3 DEF Undamaged
<1>. QED BY <1>5, <1>6, <1>7 DEF IInv

-----------------------------------------------------------------------------
(***************************************************************************)
(* The theorems.                                                           *)
(***************************************************************************)
LEMMA InitIInv == Init => IInv
<1>. SUFFICES ASSUME Init PROVE IInv
  OBVIOUS
<1>1. /\ job \in [Workers -> Job] /\ \A w \in Workers : job[w] = Idle
      /\ files \in [Paths -> {NoTake}] /\ record = NoRecord /\ damage = 0
  BY IdleJob DEF Init
<1>2. NoRecord \in Record /\ Len(NoRecord.tries) = 0 BY DEF NoRecord, Record, NoRow
<1>3. Types
  BY <1>1, <1>2, IdleJob, AttemptsAssumption, BoundsAssumption DEF Types, Init
<1>4. Locked /\ Counted /\ Playable
  BY <1>1, IdleJob DEF Locked, Working, Counted, Repairing, Playable, Workers
<1>5. Undamaged
  BY <1>1, IdleJob
  DEF Undamaged, SoundRecord, Spared, SoundTries, SoundResult, Free, Repairing, Workers
<1>. QED BY <1>3, <1>4, <1>5 DEF IInv

LEMMA Unchanged == IInv /\ UNCHANGED vars => IInv'
<1>. SUFFICES ASSUME IInv, UNCHANGED vars PROVE IInv'
  OBVIOUS
<1>1. /\ job' = job /\ mutex' = mutex /\ ledger' = ledger
      /\ UNCHANGED <<files, made, record, damage>>
  BY DEF vars
<1>. QED BY <1>1, EndedJobs DEF IInv, Types

LEMMA NextIInv == IInv /\ [Next]_vars => IInv'
<1>. SUFFICES ASSUME IInv, [Next]_vars PROVE IInv'
  OBVIOUS
<1>1. CASE RerenderStart \/ \E s \in Slots : RunStart(s) BY <1>1, StartStep
<1>2. CASE RunOpen BY <1>2, OpenStep
<1>3. CASE RunDiscard BY <1>3, DiscardStep
<1>4. CASE RunRender BY <1>4, RenderStep
<1>5. CASE RunRecord BY <1>5, RecordStep
<1>6. CASE RerenderOpen BY <1>6, RerenderOpenStep
<1>7. CASE RunBusy \/ \E w \in Workers : Return(w) BY <1>7, ReturnStep
<1>8. CASE \E w \in Workers : Synthesize(w) BY <1>8, SynthesizeStep
<1>9. CASE \E w \in Workers : Judge(w) BY <1>9, JudgeStep
<1>10. CASE \E w \in Workers : Land(w) BY <1>10, LandStep
<1>11. CASE \E w \in Workers : Persist(w) BY <1>11, PersistStep
<1>12. CASE Crash \/ \E w \in Workers : Stop(w) BY <1>12, StopStep
<1>13. CASE \E p \in Paths : PowerFailure(p) BY <1>13, PowerFailureStep
<1>14. CASE UNCHANGED vars BY <1>14, Unchanged
<1>. QED
  BY <1>1, <1>2, <1>3, <1>4, <1>5, <1>6, <1>7, <1>8, <1>9, <1>10, <1>11, <1>12, <1>13, <1>14
  DEF Next

LEMMA AlwaysIInv == Spec => []IInv
BY InitIInv, NextIInv, PTL DEF Spec

\* Every file, record, job and row has its type: among others, no repair tries
\* more often than it may and no attempt leaves the numbers.
THEOREM TypeCorrect == Spec => []TypeOK
<1>1. IInv => TypeOK
  <2>. SUFFICES ASSUME IInv PROVE TypeOK
    OBVIOUS
  <2>1. ResultOK(record) BY DEF IInv, Types, Record, ResultOK
  <2>2. \A w \in Workers :
          /\ job[w].at \in Steps /\ ResultOK(job[w])
          /\ job[w].first \in Numbers /\ job[w].attempt \in Numbers
          /\ job[w].doomed \subseteq Paths
    BY DEF IInv, Types, Job, ResultOK
  <2>. QED BY <2>1, <2>2 DEF IInv, Types, TypeOK
<1>. QED BY <1>1, AlwaysIInv, PTL

\* As long as no take was damaged, the chosen take of the record has the bytes
\* it had when the line was finished: what a run removes and what a re-render
\* or the next run writes never meet it.
THEOREM RecordedTakesStayIntact == Spec => []RecordedTakeIntact
<1>1. IInv => RecordedTakeIntact
  BY DEF IInv, Undamaged, SoundRecord, Settled, Sound, RecordedTakeIntact
<1>. QED BY <1>1, AlwaysIInv, PTL

\* As long as no take was damaged, a run never finds a file on a path it
\* renders to: the window it opened is free for every attempt still to come.
THEOREM SoundRunsNeverCollide == Spec => []SoundTakesNeverBlock
<1>1. IInv => SoundTakesNeverBlock
  BY DEF IInv, Undamaged, Free, SoundTakesNeverBlock
<1>. QED BY <1>1, AlwaysIInv, PTL

\* Damaged or not, every take a run writes a row for is there to be played:
\* no re-render of the moment removes it, though the run holds the runner no
\* longer.
THEOREM RunRowsAreThere == Spec => RunRowsArePlayable
<1>1. IInv /\ [Next]_vars =>
        [\A row \in ledger' \ ledger :
           job["run"].at = "persisting" /\ job'["run"].at = "idle" => Usable(row.path)]_vars
  <2>. SUFFICES ASSUME IInv, Next, NEW row \in ledger' \ ledger,
                       job["run"].at = "persisting", job'["run"].at = "idle"
                PROVE  Usable(row.path)
    OBVIOUS
  <2>1. PICK w \in Workers : Persist(w)
    BY DEF Next, RunStart, RunOpen, RunDiscard, RunRender, RunRecord, RunBusy, RerenderStart,
           RerenderOpen, Synthesize, Judge, Land, Return, Stop, Crash, PowerFailure
  <2>2. w = "run"
    <3>1. job \in [Workers -> Job] /\ "run" \in Workers BY DEF IInv, Types, Workers
    <3>. QED BY <2>1, <3>1 DEF Persist, Workers
  <2>3. row \in Rows("run") BY <2>1, <2>2 DEF Persist
  <2>. QED BY <2>3 DEF IInv, Playable
<1>. QED BY <1>1, AlwaysIInv, PTL DEF Spec, RunRowsArePlayable

-----------------------------------------------------------------------------
(***************************************************************************)
(* The track: the invariant.                                               *)
(***************************************************************************)
\* A line is worked on before the mix.
AtWork == work.at # "idle" => phase = "lines" /\ line <= LineCount

\* A finished line nobody is told to look at has a take that is hardly longer
\* than its slot.
Fitting ==
  \A l \in Lines :
    l < line /\ l \notin flagged => take[l] # Unheard /\ take[l] <= Slot(l) + StretchDeadBand

\* The mix starts with all takes and loses none but the flagged.
Mixing ==
  /\ phase = "lines" => clips = {}
  /\ phase \in {"lines", "sorting"} => placed = <<>>
  /\ phase \in {"sorting", "placing", "mixed"} =>
       /\ line > LineCount
       /\ \A l \in Lines : l \in clips => take[l] # Unheard
       /\ \A l \in Lines : take[l] # Unheard /\ l \notin clips => l \in flagged
  /\ phase \in {"placing", "mixed"} => \A l \in clips : segments[l].start \in 0 .. BedEnd - 1
  /\ phase = "mixed" => Unplaced = {}

\* Where the clip after clip i starts, or will.
After(i) == IF i < Len(placed) THEN placed[i + 1].delay
            ELSE IF Unplaced = {} THEN BedEnd ELSE segments[First(Unplaced)].start

\* How much of a clip is laid when the next one starts at next.
Laid(clip, next) ==
  LET available == next - clip.delay
      room == BedEnd - clip.delay
  IN  /\ available > 0
      /\ clip.policy # "crossfade" => clip.keep <= available
      /\ clip.keep <= available + Crossfade
      /\ clip.keep > available /\ room > Crossfade =>
           clip.fadeOut >= clip.keep - available /\ clip.fadeOut <= Crossfade
      /\ take[clip.line] <= available + Crossfade /\ take[clip.line] <= room =>
           clip.voiced <= clip.keep

\* The clips that are laid, from the first to the last.
Placing ==
  phase \in {"placing", "mixed"} =>
    \A i \in DOMAIN placed :
      /\ placed[i].line \in clips
      /\ placed[i].delay = segments[placed[i].line].start
      /\ Laid(placed[i], After(i))
      /\ \A j \in 1 .. i - 1 : placed[j].delay < placed[i].delay
      /\ i > 1 /\ placed[i - 1].policy = "crossfade"
              /\ placed[i - 1].fadeOut <= placed[i].keep =>
           placed[i].fadeIn = placed[i - 1].fadeOut

TrackInv == TrackTypeOK /\ AtWork /\ Fitting /\ Mixing /\ Placing

-----------------------------------------------------------------------------
(***************************************************************************)
(* The arithmetic: the nearest of the takes that were tried is one of      *)
(* them, and what a clip keeps.                                            *)
(***************************************************************************)
LEMMA SizeType == \A n \in Int : Size(n) \in Nat
BY DEF Size

LEMMA LeastNumber ==
  ASSUME NEW S, S \subseteq Nat, S # {}
  PROVE  \E n \in S : \A m \in S : n <= m
<1>1. PICK x \in S : \A y \in S : ~ (<<y, x>> \in OpToRel(<, Nat))
  BY NatLessThanWellFounded, WFMin
<1>2. ASSUME NEW y \in S PROVE x <= y
  <2>1. <<y, x>> \notin OpToRel(<, Nat) BY <1>1
  <2>2. x \in Nat /\ y \in Nat OBVIOUS
  <2>3. ~ (y < x) BY <2>1, <2>2 DEF OpToRel
  <2>. QED BY <2>2, <2>3
<1>. QED BY <1>2

LEMMA NearestIsTried ==
  ASSUME NEW slot \in Int, NEW tried \in Seq(Nat), tried # <<>>
  PROVE  Nearest(slot, tried) \in Nat
<1>. DEFINE Near(k) == Size(tried[k] - slot)
            Sizes == {Near(k) : k \in DOMAIN tried}
            Good(k) == /\ \A j \in DOMAIN tried : Near(k) <= Near(j)
                       /\ \A j \in 1 .. k - 1 : Near(j) > Near(k)
<1>1. /\ DOMAIN tried = 1 .. Len(tried) /\ Len(tried) \in Nat /\ 1 \in DOMAIN tried
      /\ \A k \in DOMAIN tried : tried[k] \in Nat
  OBVIOUS
<1>2. \A k \in DOMAIN tried : Near(k) \in Nat
  <2>1. TAKE k \in DOMAIN tried
  <2>2. tried[k] - slot \in Int BY <1>1
  <2>. QED BY <2>2, SizeType
<1>. HIDE DEF Near
<1>3. PICK size \in Sizes : \A other \in Sizes : size <= other
  <2>1. Sizes \subseteq Nat /\ Sizes # {} BY <1>1, <1>2
  <2>. HIDE DEF Sizes
  <2>. QED BY <2>1, LeastNumber
<1>4. PICK k \in {i \in DOMAIN tried : Near(i) = size} :
        \A j \in {i \in DOMAIN tried : Near(i) = size} : k <= j
  <2>. DEFINE S == {i \in DOMAIN tried : Near(i) = size}
  <2>1. S \subseteq Nat /\ S # {} BY <1>1, <1>3
  <2>. HIDE DEF S
  <2>2. \E i \in S : \A j \in S : i <= j BY <2>1, LeastNumber
  <2>. QED BY <2>2 DEF S
<1>5. Good(k)
  <2>1. \A j \in DOMAIN tried : Near(k) <= Near(j) BY <1>3, <1>4
  <2>2. ASSUME NEW j \in 1 .. k - 1 PROVE Near(j) > Near(k)
    <3>1. j \in DOMAIN tried /\ ~ (k <= j) BY <1>1, <1>4
    <3>2. Near(j) # size BY <1>4, <3>1
    <3>. QED BY <1>2, <1>4, <2>1, <3>1, <3>2
  <2>. QED BY <2>1, <2>2
<1>6. \E i \in DOMAIN tried : Good(i) BY <1>4, <1>5
<1>7. (CHOOSE i \in DOMAIN tried : Good(i)) \in DOMAIN tried
  <2>. HIDE DEF Good
  <2>. QED BY <1>6
<1>8. Nearest(slot, tried) = tried[CHOOSE i \in DOMAIN tried : Good(i)]
  BY DEF Nearest, Near
<1>. QED BY <1>1, <1>7, <1>8

\* What Place keeps of a take, when the next one is available away and the end
\* of the bed room away.
WellKept(choice, measured, voiced, available, room) ==
  /\ choice.policy \in Policies
  /\ choice.keep \in 1 .. room
  /\ choice.truncated \in Nat
  /\ choice.fadeOut \in 0 .. choice.keep
  /\ choice.policy # "crossfade" => choice.keep <= available
  /\ choice.keep <= available + Crossfade
  /\ choice.keep > available /\ room > Crossfade =>
       choice.fadeOut >= choice.keep - available /\ choice.fadeOut <= Crossfade
  /\ measured <= available + Crossfade /\ measured <= room => voiced <= choice.keep

LEMMA Kept ==
  ASSUME NEW slot \in Int, NEW measured \in Nat \ {0}, NEW voiced \in 0 .. measured,
         NEW room \in Nat, NEW available \in 1 .. room, NEW choice,
         choice = ClampKeep(DecidePolicy(slot, measured, voiced, available), measured, room)
  PROVE  WellKept(choice, measured, voiced, available, room)
<1>1. Crossfade \in Nat \ {0} BY CrossfadeAssumption
<1>2. PICK decided : decided = DecidePolicy(slot, measured, voiced, available) OBVIOUS
<1>3. choice = ClampKeep(decided, measured, room) BY <1>2
<1>4. CASE measured <= available
  <2>1. PICK policy \in {"fit", "gap"} :
          decided = [policy |-> policy, keep |-> measured, truncated |-> 0, fadeOut |-> 0]
    BY <1>2, <1>4 DEF DecidePolicy
  <2>2. choice = decided BY <1>3, <1>4, <2>1 DEF ClampKeep
  <2>3. choice.policy = policy /\ choice.keep = measured /\ choice.truncated = 0
        /\ choice.fadeOut = 0
    BY <2>1, <2>2
  <2>. QED BY <1>1, <1>4, <2>3 DEF WellKept, Policies
<1>5. CASE ~ (measured <= available) /\ voiced <= available
  <2>1. decided = [policy |-> "truncate", keep |-> available,
                   truncated |-> measured - available, fadeOut |-> 0]
    BY <1>2, <1>5 DEF DecidePolicy
  <2>2. choice = decided BY <1>3, <2>1 DEF ClampKeep
  <2>3. choice.policy = "truncate" /\ choice.keep = available
        /\ choice.truncated = measured - available /\ choice.fadeOut = 0
    BY <2>1, <2>2
  <2>. QED BY <1>1, <1>5, <2>3 DEF WellKept, Policies
<1>6. CASE ~ (measured <= available) /\ ~ (voiced <= available)
  <2>1. PICK keep : keep = Least(available + Crossfade, measured) OBVIOUS
  <2>2. /\ keep \in Nat /\ keep > available /\ keep <= available + Crossfade /\ keep <= measured
        /\ measured <= available + Crossfade => keep = measured
    BY <1>1, <1>6, <2>1 DEF Least
  <2>3. PICK fade : fade = Least(keep - available, Crossfade) OBVIOUS
  <2>4. fade = keep - available /\ fade \in 1 .. Crossfade /\ fade < keep
    BY <1>1, <2>2, <2>3 DEF Least
  <2>5. decided = [policy |-> "crossfade", keep |-> keep, truncated |-> measured - keep,
                   fadeOut |-> fade]
    BY <1>2, <1>6, <2>1, <2>3, <2>4 DEF DecidePolicy, Overlapped
  <2>6. CASE keep <= room
    <3>1. choice = decided BY <1>3, <2>5, <2>6 DEF ClampKeep
    <3>2. choice.policy = "crossfade" /\ choice.keep = keep
          /\ choice.truncated = measured - keep /\ choice.fadeOut = fade
      BY <2>5, <3>1
    <3>. QED BY <1>1, <2>2, <2>4, <2>6, <3>2 DEF WellKept, Policies
  <2>7. CASE ~ (keep <= room)
    <3>1. PICK out : out = IF fade >= room THEN room \div 2 ELSE fade OBVIOUS
    <3>2. /\ out \in 0 .. room /\ measured - room \in Nat
          /\ room > Crossfade => out = fade
      BY <1>1, <2>2, <2>4, <2>7, <3>1
    <3>3. choice = [policy |-> "crossfade", keep |-> room, truncated |-> measured - room,
                    fadeOut |-> out]
      BY <1>3, <2>5, <2>7, <3>1 DEF ClampKeep
    <3>4. choice.policy = "crossfade" /\ choice.keep = room
          /\ choice.truncated = measured - room /\ choice.fadeOut = out
      BY <3>3
    <3>. QED BY <1>1, <2>2, <2>4, <2>7, <3>2, <3>4 DEF WellKept, Policies
  <2>. QED BY <2>6, <2>7
<1>. QED BY <1>4, <1>5, <1>6

\* The order of the clips has a first one.
LEMMA FirstLine ==
  ASSUME NEW S, S \subseteq Lines, S # {}, \A l \in S : segments[l].start \in Nat
  PROVE  First(S) \in S /\ \A k \in S \ {First(S)} : Earlier(First(S), k)
<1>. DEFINE Starts == {segments[l].start : l \in S}
<1>1. PICK start \in Starts : \A other \in Starts : start <= other
  <2>1. Starts \subseteq Nat /\ Starts # {} OBVIOUS
  <2>. HIDE DEF Starts
  <2>. QED BY <2>1, LeastNumber
<1>. DEFINE Twins == {l \in S : segments[l].start = start}
<1>2. PICK l \in Twins : \A k \in Twins : l <= k
  <2>1. Twins \subseteq Nat /\ Twins # {}
    <3>1. Lines \subseteq Nat BY TrackAssumption DEF Lines
    <3>. QED BY <1>1, <3>1
  <2>. HIDE DEF Twins
  <2>. QED BY <2>1, LeastNumber
<1>3. ASSUME NEW k \in S \ {l} PROVE Earlier(l, k)
  <2>1. segments[k].start \in Nat /\ start \in Nat /\ start <= segments[k].start BY <1>1
  <2>2. segments[k].start = start => l <= k BY <1>2
  <2>3. l \in Nat /\ k \in Nat
    <3>1. Lines \subseteq Nat BY TrackAssumption DEF Lines
    <3>. QED BY <1>2, <3>1
  <2>. QED BY <1>2, <2>1, <2>2, <2>3 DEF Earlier
<1>4. \E first \in S : \A k \in S \ {first} : Earlier(first, k) BY <1>2, <1>3
<1>. QED BY <1>4 DEF First

-----------------------------------------------------------------------------
(***************************************************************************)
(* The lines.                                                              *)
(***************************************************************************)
LEMMA SlotType ==
  ASSUME TrackTypeOK, NEW l \in Lines
  PROVE  segments[l].start \in Int /\ segments[l].end \in Int /\ Slot(l) \in Int
<1>1. segments \in [Lines -> [start : Int, end : Int]] /\ FilmEnd \in Nat
  BY TrackAssumption DEF TrackTypeOK
<1>2. segments[l] \in [start : Int, end : Int] BY <1>1
<1>3. segments[l].start \in Int /\ segments[l].end \in Int BY <1>2
<1>. QED BY <1>1, <1>3 DEF Slot

LEMMA LineNumbers ==
  /\ LineCount \in Nat \ {0} /\ RetryAttempts \in Nat \ {0} /\ RepairAttempts \in Nat \ {0}
  /\ BedEnd \in Nat \ {0} /\ FilmEnd \in Nat /\ StretchDeadBand \in Nat /\ Crossfade \in Nat
  /\ Unheard = 0
BY TrackAssumption, RepairAssumption, CrossfadeAssumption DEF Unheard

\* A step on a line that is not its last: nothing that is settled changes.
LEMMA SameLine ==
  ASSUME TrackInv, work' \in Work, Len(work'.tried) < RepairAttempts,
         phase = "lines", line <= LineCount,
         UNCHANGED <<segments, phase, line, take, flagged, clips, placed>>
  PROVE  TrackInv'
<1>1. TrackTypeOK' BY DEF TrackInv, TrackTypeOK
<1>2. AtWork' BY DEF AtWork
<1>3. Fitting' BY DEF TrackInv, Fitting, Slot, Clamped, Outside
<1>4. Mixing' BY DEF TrackInv, Mixing
<1>5. Placing' BY DEF Placing
<1>. QED BY <1>1, <1>2, <1>3, <1>4, <1>5 DEF TrackInv

\* The last step on a line: it is flagged, or its take fits.
LEMMA LineEnds ==
  ASSUME TrackInv, phase = "lines", line <= LineCount, NextLine,
         NEW length \in Nat,
         take' = take \/ take' = [take EXCEPT ![line] = length],
         \/ Flag(line)
         \/ /\ UNCHANGED flagged
            /\ take' = [take EXCEPT ![line] = length]
            /\ length # Unheard /\ length <= Slot(line) + StretchDeadBand,
         UNCHANGED <<segments, phase, clips, placed>>
  PROVE  TrackInv'
<1>1. /\ line \in Lines /\ line' = line + 1 /\ line' \in 1 .. LineCount + 1
      /\ work' = [at |-> "idle", tries |-> 0, tried |-> <<>>]
      /\ take \in [Lines -> Nat] /\ flagged \subseteq Lines
      /\ segments' = segments /\ phase' = "lines" /\ clips' = clips /\ placed' = placed
  BY LineNumbers DEF NextLine, NoWork, TrackInv, TrackTypeOK, Lines
<1>2. /\ flagged' \subseteq Lines /\ flagged \subseteq flagged'
      /\ take' \in [Lines -> Nat]
      /\ \A l \in Lines : l # line => take'[l] = take[l]
  BY <1>1 DEF Flag
<1>3. work' \in Work /\ Len(work'.tried) < RepairAttempts
  <2>1. <<>> \in Seq(Nat) /\ Len(<<>>) = 0 /\ 0 \in 0 .. RetryAttempts - 1 /\ 0 < RepairAttempts
    BY LineNumbers
  <2>. QED BY <1>1, <2>1 DEF Work
<1>4. TrackTypeOK' BY <1>1, <1>2, <1>3 DEF TrackInv, TrackTypeOK
<1>5. AtWork' BY <1>1 DEF AtWork
<1>6. Fitting'
  <2>1. SUFFICES ASSUME NEW l \in Lines, l < line', l \notin flagged'
                 PROVE  take'[l] # Unheard /\ take'[l] <= Slot(l) + StretchDeadBand
    BY <1>1 DEF Fitting, Slot, Clamped, Outside
  <2>2. CASE l = line
    <3>1. take' = [take EXCEPT ![line] = length]
          /\ length # Unheard /\ length <= Slot(line) + StretchDeadBand
      BY <2>1, <2>2 DEF Flag
    <3>. QED BY <1>1, <2>2, <3>1
  <2>3. CASE l # line
    <3>1. l < line BY <1>1, <2>1, <2>3 DEF Lines
    <3>2. l \notin flagged BY <1>2, <2>1
    <3>. QED BY <1>2, <2>3, <3>1, <3>2 DEF TrackInv, Fitting
  <2>. QED BY <2>2, <2>3
<1>7. Mixing' BY <1>1 DEF TrackInv, Mixing
<1>8. Placing' BY <1>1 DEF Placing
<1>. QED BY <1>4, <1>5, <1>6, <1>7, <1>8 DEF TrackInv

LEMMA OpenLineStep == ASSUME TrackInv, OpenLine PROVE TrackInv'
<1>1. /\ phase = "lines" /\ work.at = "idle" /\ line <= LineCount
      /\ UNCHANGED <<segments, phase, take, clips, placed>>
  BY DEF OpenLine
<1>2. CASE Outside(line) /\ NextLine /\ Flag(line)
  <2>1. 0 \in Nat OBVIOUS
  <2>. QED BY <1>1, <1>2, <2>1, LineEnds
<1>3. CASE work' = [work EXCEPT !.at = "translating"] /\ UNCHANGED <<line, flagged>>
  <2>1. work \in Work /\ Len(work.tried) < RepairAttempts BY DEF TrackInv, TrackTypeOK
  <2>2. work' \in Work /\ work'.tried = work.tried BY <1>3, <2>1 DEF Work
  <2>. QED BY <1>1, <1>3, <2>1, <2>2, SameLine
<1>. QED BY <1>2, <1>3 DEF OpenLine

\* The calls of the services.
LEMMA CallStep == ASSUME TrackInv, Translated \/ Busy PROVE TrackInv'
<1>1. work \in Work /\ Len(work.tried) < RepairAttempts /\ phase = "lines" /\ line <= LineCount
  BY DEF TrackInv, TrackTypeOK, AtWork, Translated, Busy
<1>2. UNCHANGED <<segments, phase, line, take, flagged, clips, placed>>
  BY DEF Translated, Busy
<1>3. work' \in Work /\ work'.tried = work.tried
  <2>1. work.tries \in 0 .. RetryAttempts - 1 BY <1>1 DEF Work
  <2>2. CASE Translated
    <3>1. 0 \in 0 .. RetryAttempts - 1 BY LineNumbers
    <3>. QED BY <1>1, <2>2, <3>1 DEF Translated, Work
  <2>3. CASE Busy
    <3>1. work.tries + 1 \in 0 .. RetryAttempts - 1 BY <2>1, <2>3, LineNumbers DEF Busy
    <3>. QED BY <1>1, <2>3, <3>1 DEF Busy, Work
  <2>. QED BY <2>2, <2>3
<1>. QED BY <1>1, <1>2, <1>3, SameLine

LEMMA GiveUpStep == ASSUME TrackInv, GiveUp PROVE TrackInv'
<1>1. phase = "lines" /\ line <= LineCount BY DEF TrackInv, AtWork, GiveUp
<1>2. /\ NextLine /\ Flag(line) /\ 0 \in Nat
      /\ UNCHANGED <<segments, phase, take, clips, placed>>
  BY DEF GiveUp
<1>. QED BY <1>1, <1>2, LineEnds

\* A take that missed is one of the tries, and after the last of them the
\* nearest is taken and the line flagged.
LEMMA TryMissedStep ==
  ASSUME TrackInv, phase = "lines", line <= LineCount, NEW length \in Nat, TryMissed(length),
         UNCHANGED <<segments, phase, clips, placed>>
  PROVE  TrackInv'
<1>. DEFINE tried == Append(work.tried, length)
<1>1. work \in Work BY DEF TrackInv, TrackTypeOK
<1>2. work.tried \in Seq(Nat) BY <1>1 DEF Work
<1>3. tried \in Seq(Nat) /\ tried # <<>> BY <1>2
<1>4. CASE AttemptsLeft(tried)
  <2>1. /\ work' = [at |-> "translating", tries |-> 0, tried |-> tried]
        /\ UNCHANGED <<line, take, flagged>>
    BY <1>4 DEF TryMissed, NoWork
  <2>2. Len(tried) < RepairAttempts BY <1>4 DEF AttemptsLeft
  <2>3. 0 \in 0 .. RetryAttempts - 1 BY LineNumbers
  <2>. HIDE DEF tried
  <2>4. work' \in Work /\ work'.tried = tried BY <1>3, <2>1, <2>3 DEF Work
  <2>. QED BY <2>1, <2>2, <2>4, SameLine
<1>5. CASE ~ AttemptsLeft(tried)
  <2>1. Settle(Nearest(Slot(line), tried), FALSE) BY <1>5 DEF TryMissed
  <2>2. line \in Lines BY DEF TrackInv, TrackTypeOK, Lines
  <2>3. Slot(line) \in Int BY <2>2, SlotType DEF TrackInv
  <2>. HIDE DEF tried
  <2>4. PICK near \in Nat : near = Nearest(Slot(line), tried) BY <1>3, <2>3, NearestIsTried
  <2>5. take' = [take EXCEPT ![line] = near] /\ NextLine /\ Flag(line)
    BY <2>1, <2>4 DEF Settle
  <2>. QED BY <2>5, LineEnds
<1>. QED BY <1>4, <1>5

\* A take that fits misses its slot by the dead band at most.
LEMMA TakeFitsStep ==
  ASSUME TrackInv, phase = "lines", line <= LineCount, NEW length \in Nat \ {0},
         Size(length - Slot(line)) <= StretchDeadBand, Settle(length, TRUE),
         UNCHANGED <<segments, phase, clips, placed>>
  PROVE  TrackInv'
<1>1. line \in Lines BY DEF TrackInv, TrackTypeOK, Lines
<1>2. Slot(line) \in Int BY <1>1, SlotType DEF TrackInv
<1>3. length # Unheard /\ length <= Slot(line) + StretchDeadBand
  BY <1>2, LineNumbers DEF Size
<1>4. /\ take' = [take EXCEPT ![line] = length] /\ NextLine
      /\ UNCHANGED flagged \/ Flag(line)
  BY DEF Settle
<1>. QED BY <1>3, <1>4, LineEnds

LEMMA SynthesizedStep == ASSUME TrackInv, Synthesized PROVE TrackInv'
<1>1. phase = "lines" /\ line <= LineCount /\ UNCHANGED <<segments, phase, clips, placed>>
  BY DEF TrackInv, AtWork, Synthesized
<1>2. PICK length \in Lengths(line) :
         LET plan == PlanStretch(Slot(line), length)
         IN  \/ plan = "none" /\ Settle(length, TRUE)
             \/ plan = "atempo" /\ \E after \in Lengths(line) :
                  IF Lands(Slot(line), length, after) THEN Settle(after, TRUE)
                  ELSE TryMissed(length)
             \/ plan = "rewrite" /\ TryMissed(length)
  BY DEF Synthesized
<1>3. \A n \in Lengths(line) : n \in Nat \ {0} BY DEF Lengths
<1>4. length \in Nat \ {0} BY <1>2, <1>3
<1>5. CASE TryMissed(length) BY <1>1, <1>4, <1>5, TryMissedStep
<1>6. CASE PlanStretch(Slot(line), length) = "none" /\ Settle(length, TRUE)
  <2>1. Size(length - Slot(line)) <= StretchDeadBand
    BY <1>6 DEF PlanStretch, InDeadBand
  <2>. QED BY <1>1, <1>4, <1>6, <2>1, TakeFitsStep
<1>7. ASSUME NEW after \in Lengths(line), Lands(Slot(line), length, after), Settle(after, TRUE)
      PROVE  TrackInv'
  <2>1. Size(after - Slot(line)) <= StretchDeadBand BY <1>7 DEF Lands
  <2>2. after \in Nat \ {0} BY <1>3
  <2>. QED BY <1>1, <1>7, <2>1, <2>2, TakeFitsStep
<1>. QED BY <1>2, <1>5, <1>6, <1>7

LEMMA RunFailsStep == ASSUME TrackInv, RunFails PROVE TrackInv'
<1>1. /\ phase' = "failed" /\ work' = [at |-> "idle", tries |-> 0, tried |-> <<>>]
      /\ UNCHANGED <<segments, line, take, flagged, clips, placed>>
  BY DEF RunFails, NoWork
<1>2. work' \in Work /\ Len(work'.tried) < RepairAttempts
  <2>1. <<>> \in Seq(Nat) /\ Len(<<>>) = 0 /\ 0 \in 0 .. RetryAttempts - 1 /\ 0 < RepairAttempts
    BY LineNumbers
  <2>. QED BY <1>1, <2>1 DEF Work
<1>3. TrackTypeOK' BY <1>1, <1>2 DEF TrackInv, TrackTypeOK
<1>4. AtWork' BY <1>1 DEF AtWork
<1>5. Fitting' BY <1>1 DEF TrackInv, Fitting, Slot, Clamped, Outside
<1>6. Mixing' BY <1>1 DEF Mixing
<1>7. Placing' BY <1>1 DEF Placing
<1>. QED BY <1>3, <1>4, <1>5, <1>6, <1>7 DEF TrackInv

-----------------------------------------------------------------------------
(***************************************************************************)
(* The mix.                                                                *)
(***************************************************************************)
LEMMA StartMixStep == ASSUME TrackInv, StartMix PROVE TrackInv'
<1>1. /\ phase = "lines" /\ line > LineCount /\ phase' = "sorting"
      /\ clips' = {l \in Lines : take[l] # Unheard}
      /\ UNCHANGED <<segments, line, work, take, flagged, placed>>
  BY DEF StartMix
<1>2. TrackTypeOK' BY <1>1 DEF TrackInv, TrackTypeOK
<1>3. AtWork' BY <1>1, LineNumbers DEF TrackInv, TrackTypeOK, AtWork
<1>4. Fitting' BY <1>1 DEF TrackInv, Fitting, Slot, Clamped, Outside
<1>5. Mixing' BY <1>1 DEF TrackInv, Mixing
<1>6. Placing' BY <1>1 DEF Placing
<1>. QED BY <1>2, <1>3, <1>4, <1>5, <1>6 DEF TrackInv

LEMMA SortStep == ASSUME TrackInv, Sort PROVE TrackInv'
<1>1. /\ phase = "sorting" /\ placed = <<>>
      /\ UNCHANGED <<segments, line, work, take, placed>>
  BY DEF Sort, TrackInv, Mixing
<1>2. /\ clips' \subseteq clips /\ flagged \subseteq flagged' /\ flagged' \subseteq Lines
      /\ clips \subseteq clips' \union flagged'
      /\ phase' \in {"sorting", "placing", "failed"}
      /\ phase' = "placing" => clips' = clips /\ OutsideBed = {}
                               /\ \A l \in clips : ~ (segments[l].start < 0)
  BY DEF Sort, OutsideBed, TrackInv, TrackTypeOK
<1>3. TrackTypeOK'
  <2>1. clips' \subseteq Lines BY <1>2 DEF TrackInv, TrackTypeOK
  <2>. QED BY <1>1, <1>2, <2>1 DEF TrackInv, TrackTypeOK
<1>4. AtWork' BY <1>1 DEF TrackInv, AtWork
<1>5. Fitting' BY <1>1, <1>2 DEF TrackInv, Fitting, Slot, Clamped, Outside
<1>6. phase' = "placing" => \A l \in clips' : segments[l].start \in 0 .. BedEnd - 1
  <2>1. SUFFICES ASSUME phase' = "placing", NEW l \in clips'
                 PROVE  segments[l].start \in 0 .. BedEnd - 1
    OBVIOUS
  <2>2. l \in clips /\ ~ (segments[l].start >= BedEnd) /\ ~ (segments[l].start < 0)
    BY <1>2, <2>1 DEF OutsideBed
  <2>3. segments[l].start \in Int
    <3>1. l \in Lines BY <2>2 DEF TrackInv, TrackTypeOK
    <3>. QED BY <3>1, SlotType DEF TrackInv
  <2>. QED BY <2>2, <2>3, LineNumbers
<1>7. Mixing'
  <2>1. line > LineCount /\ (\A l \in Lines : l \in clips => take[l] # Unheard)
        /\ (\A l \in Lines : take[l] # Unheard /\ l \notin clips => l \in flagged)
    BY <1>1 DEF TrackInv, Mixing
  <2>2. \A l \in Lines : l \in clips' => take[l] # Unheard BY <1>2, <2>1
  <2>3. \A l \in Lines : take[l] # Unheard /\ l \notin clips' => l \in flagged' BY <1>2, <2>1
  <2>. QED BY <1>1, <1>2, <1>6, <2>1, <2>2, <2>3 DEF Mixing
<1>8. Placing' BY <1>1 DEF Placing
<1>. QED BY <1>3, <1>4, <1>5, <1>7, <1>8 DEF TrackInv

\* While clips are placed they all start on the bed, one of those that wait is
\* the first, and those after it start later or are its twins.
LEMMA NextClip ==
  ASSUME TrackInv, phase = "placing", Unplaced # {}
  PROVE  LET l == First(Unplaced)
             rest == Unplaced \ {l}
         IN  /\ l \in Unplaced /\ l \in clips /\ l \in Lines
             /\ segments[l].start \in 0 .. BedEnd - 1
             /\ take[l] \in Nat \ {0} /\ Slot(l) \in Int
             /\ rest = {} <=> Unplaced = {l}
             /\ rest # {} => /\ First(rest) \in rest /\ First(rest) \in clips
                             /\ segments[First(rest)].start \in 0 .. BedEnd - 1
                             /\ segments[First(rest)].start >= segments[l].start
<1>1. \A k \in clips : k \in Lines /\ segments[k].start \in 0 .. BedEnd - 1
                       /\ take[k] # Unheard
  BY DEF TrackInv, TrackTypeOK, Mixing
<1>2. Unplaced \subseteq clips BY DEF Unplaced
<1>3. \A k \in clips : segments[k].start \in Nat BY <1>1, LineNumbers
<1>4. PICK l : l = First(Unplaced) OBVIOUS
<1>5. l \in Unplaced /\ \A k \in Unplaced \ {l} : Earlier(l, k)
  <2>1. Unplaced \subseteq Lines /\ \A k \in Unplaced : segments[k].start \in Nat
    BY <1>1, <1>2, <1>3
  <2>. QED BY <1>4, <2>1, FirstLine
<1>6. l \in clips /\ l \in Lines /\ take[l] \in Nat \ {0} /\ Slot(l) \in Int
  <2>1. l \in clips /\ l \in Lines BY <1>1, <1>2, <1>5
  <2>2. take[l] \in Nat BY <2>1 DEF TrackInv, TrackTypeOK
  <2>3. take[l] # 0 BY <1>1, <2>1 DEF Unheard
  <2>. QED BY <2>1, <2>2, <2>3, SlotType DEF TrackInv
<1>7. PICK rest : rest = Unplaced \ {l} OBVIOUS
<1>8. ASSUME rest # {}
      PROVE  /\ First(rest) \in rest /\ First(rest) \in clips
             /\ segments[First(rest)].start \in 0 .. BedEnd - 1
             /\ segments[First(rest)].start >= segments[l].start
  <2>1. rest \subseteq Lines /\ rest \subseteq clips
        /\ \A k \in rest : segments[k].start \in Nat
    BY <1>1, <1>2, <1>3, <1>7
  <2>2. First(rest) \in rest BY <1>8, <2>1, FirstLine
  <2>3. Earlier(l, First(rest)) BY <1>5, <1>7, <2>2
  <2>4. First(rest) \in clips /\ segments[l].start \in Nat /\ segments[First(rest)].start \in Nat
    BY <1>3, <1>6, <2>1, <2>2
  <2>5. segments[First(rest)].start >= segments[l].start BY <2>3, <2>4 DEF Earlier
  <2>. QED BY <1>1, <2>2, <2>4, <2>5
<1>9. rest = {} <=> Unplaced = {l} BY <1>5, <1>7
<1>. QED BY <1>1, <1>4, <1>5, <1>6, <1>7, <1>8, <1>9

\* A clip is laid up to where the next one will start.
LEMMA PlaceClipStep == ASSUME TrackInv, PlaceClip PROVE TrackInv'
<1>1. PICK l, delay, next, rest, i :
        /\ l = First(Unplaced) /\ rest = Unplaced \ {l} /\ i = Len(placed) + 1
        /\ delay = segments[l].start
        /\ next = IF Unplaced = {l} THEN BedEnd ELSE segments[First(rest)].start
  OBVIOUS
<1>2. /\ phase = "placing" /\ Unplaced # {}
      /\ UNCHANGED <<segments, line, work, take, flagged, clips>>
  BY DEF PlaceClip
<1>3. /\ l \in Unplaced /\ l \in clips /\ l \in Lines
      /\ delay \in 0 .. BedEnd - 1 /\ next \in 1 .. BedEnd \union {0}
      /\ take[l] \in Nat \ {0} /\ Slot(l) \in Int
  BY <1>1, <1>2, NextClip, LineNumbers
<1>4. \/ phase' = "failed" /\ UNCHANGED placed
      \/ next > delay /\ phase' = phase /\ Lay(l, next)
  BY <1>1 DEF PlaceClip
<1>5. Fitting' BY <1>2 DEF TrackInv, Fitting, Slot, Clamped, Outside
<1>6. AtWork' BY <1>2 DEF TrackInv, AtWork
<1>7. CASE phase' = "failed" /\ UNCHANGED placed
  <2>1. TrackTypeOK' BY <1>2, <1>7 DEF TrackInv, TrackTypeOK
  <2>2. Mixing' BY <1>7 DEF Mixing
  <2>3. Placing' BY <1>7 DEF Placing
  <2>. QED BY <1>5, <1>6, <2>1, <2>2, <2>3 DEF TrackInv
<1>8. ASSUME next > delay, phase' = phase,
             NEW tail \in Tails, NEW voiced, NEW choice, NEW clip,
             voiced = IF tail < take[l] THEN take[l] - tail ELSE 0,
             choice = ClampKeep(DecidePolicy(Slot(l), take[l], voiced, next - delay),
                                take[l], BedEnd - delay),
             clip = [line |-> l, delay |-> delay, voiced |-> voiced,
                     policy |-> choice.policy, keep |-> choice.keep,
                     truncated |-> choice.truncated,
                     fadeIn |-> FadeIn(i, choice), fadeOut |-> choice.fadeOut],
             placed' = Append(placed, clip)
      PROVE  TrackInv'
  <2>1. voiced \in 0 .. take[l] BY <1>3, <1>8, TrackAssumption
  <2>2. next - delay \in 1 .. BedEnd - delay /\ BedEnd - delay \in Nat
    BY <1>3, <1>8, LineNumbers
  <2>3. WellKept(choice, take[l], voiced, next - delay, BedEnd - delay)
    BY <1>3, <1>8, <2>1, <2>2, Kept
  <2>4. /\ placed \in Seq(Clip) /\ Len(placed) \in Nat /\ DOMAIN placed = 1 .. Len(placed)
        /\ i \in Nat /\ i - 1 = Len(placed)
        /\ \A k \in 1 .. Len(placed) : placed[k] \in Clip
    BY <1>1 DEF TrackInv, TrackTypeOK
  <2>5. /\ FadeIn(i, choice) \in Nat /\ FadeIn(i, choice) <= choice.keep
        /\ i > 1 /\ placed[i - 1].policy = "crossfade"
                 /\ placed[i - 1].fadeOut <= choice.keep =>
             FadeIn(i, choice) = placed[i - 1].fadeOut
    <3>1. i > 1 => placed[i - 1].fadeOut \in Nat
      <4>1. i > 1 => placed[i - 1] \in Clip BY <2>4
      <4>. QED BY <4>1 DEF Clip
    <3>2. choice.keep \in Nat BY <2>2, <2>3 DEF WellKept
    <3>. QED BY <3>1, <3>2 DEF FadeIn
  <2>6. /\ clip.line = l /\ clip.delay = delay /\ clip.voiced = voiced
        /\ clip.policy = choice.policy /\ clip.keep = choice.keep
        /\ clip.truncated = choice.truncated
        /\ clip.fadeIn = FadeIn(i, choice) /\ clip.fadeOut = choice.fadeOut
    BY <1>8
  <2>7. clip \in Clip
    <3>1. /\ l \in Lines /\ delay \in Nat /\ voiced \in Nat /\ choice.policy \in Policies
          /\ choice.keep \in Nat /\ choice.truncated \in Nat
          /\ FadeIn(i, choice) \in Nat /\ choice.fadeOut \in Nat
      BY <1>3, <2>1, <2>2, <2>3, <2>5, LineNumbers DEF WellKept
    <3>. QED BY <1>8, <3>1 DEF Clip
  <2>8. /\ placed' \in Seq(Clip) /\ Len(placed') = i /\ DOMAIN placed' = 1 .. i
        /\ placed'[i] = clip
        /\ \A k \in 1 .. Len(placed) : placed'[k] = placed[k]
        /\ \A k \in 1 .. i : k \in 1 .. Len(placed) \/ k = i
    BY <1>8, <2>4, <2>7
  <2>9. TrackTypeOK'
    <3>1. \A k \in DOMAIN placed' :
            /\ placed'[k].keep \in 1 .. BedEnd - placed'[k].delay
            /\ placed'[k].fadeIn <= placed'[k].keep
            /\ placed'[k].fadeOut <= placed'[k].keep
      <4>1. ASSUME NEW k \in 1 .. Len(placed)
            PROVE  /\ placed'[k].keep \in 1 .. BedEnd - placed'[k].delay
                   /\ placed'[k].fadeIn <= placed'[k].keep
                   /\ placed'[k].fadeOut <= placed'[k].keep
        <5>1. placed'[k] = placed[k] /\ k \in DOMAIN placed BY <2>4, <2>8
        <5>. QED BY <5>1 DEF TrackInv, TrackTypeOK
      <4>2. /\ placed'[i].keep \in 1 .. BedEnd - placed'[i].delay
            /\ placed'[i].fadeIn <= placed'[i].keep
            /\ placed'[i].fadeOut <= placed'[i].keep
        BY <2>2, <2>3, <2>5, <2>6, <2>8 DEF WellKept
      <4>. QED BY <2>8, <4>1, <4>2
    <3>. QED BY <1>2, <1>8, <2>8, <3>1 DEF TrackInv, TrackTypeOK
  <2>10. Mixing' BY <1>2, <1>8 DEF TrackInv, Mixing
  <2>11. Unplaced' = rest
    <3>1. {placed'[k].line : k \in DOMAIN placed'}
            = {placed[k].line : k \in DOMAIN placed} \union {l}
      BY <2>4, <2>6, <2>8
    <3>2. clips' = clips BY <1>2
    <3>. QED BY <1>1, <3>1, <3>2 DEF Unplaced
  <2>12. Placing'
    <3>1. After(i)' = next
      <4>1. rest = {} <=> Unplaced = {l} BY <1>1, <1>3
      <4>2. ~ (i < Len(placed')) BY <2>4, <2>8
      <4>3. segments' = segments BY <1>2
      <4>. QED BY <1>1, <2>11, <4>1, <4>2, <4>3 DEF After, First, Earlier
    <3>2. ASSUME NEW k \in 1 .. Len(placed) PROVE After(k)' = After(k)
      <4>1. CASE k < Len(placed)
        <5>1. k + 1 \in 1 .. Len(placed) /\ k < Len(placed') BY <2>4, <2>8, <4>1
        <5>. QED BY <2>8, <4>1, <5>1 DEF After
      <4>2. CASE ~ (k < Len(placed))
        <5>1. k + 1 = i /\ k < Len(placed') BY <2>4, <2>8, <4>2
        <5>2. After(k)' = delay BY <2>6, <2>8, <5>1 DEF After
        <5>3. After(k) = delay BY <1>1, <1>2, <4>2 DEF After
        <5>. QED BY <5>2, <5>3
      <4>. QED BY <4>1, <4>2
    <3>3. ASSUME NEW k \in 1 .. Len(placed)
          PROVE  /\ placed[k].line \in clips
                 /\ placed[k].delay = segments[placed[k].line].start
                 /\ Laid(placed[k], After(k))
                 /\ \A j \in 1 .. k - 1 : placed[j].delay < placed[k].delay
                 /\ k > 1 /\ placed[k - 1].policy = "crossfade"
                          /\ placed[k - 1].fadeOut <= placed[k].keep =>
                      placed[k].fadeIn = placed[k - 1].fadeOut
      BY <1>2, <2>4 DEF TrackInv, Placing
    <3>4. ASSUME NEW k \in 1 .. Len(placed)
          PROVE  /\ placed'[k].line \in clips'
                 /\ placed'[k].delay = segments'[placed'[k].line].start
                 /\ Laid(placed[k], After(k))'
                 /\ \A j \in 1 .. k - 1 : placed'[j].delay < placed'[k].delay
                 /\ k > 1 /\ placed'[k - 1].policy = "crossfade"
                          /\ placed'[k - 1].fadeOut <= placed'[k].keep =>
                      placed'[k].fadeIn = placed'[k - 1].fadeOut
      <4>1. placed'[k] = placed[k] /\ (k > 1 => placed'[k - 1] = placed[k - 1])
            /\ \A j \in 1 .. k - 1 : placed'[j] = placed[j]
        BY <2>4, <2>8
      <4>2. clips' = clips /\ segments' = segments /\ take' = take BY <1>2
      <4>3. Laid(placed[k], After(k))' BY <3>2, <3>3, <4>1, <4>2 DEF Laid
      <4>. QED BY <3>3, <4>1, <4>2, <4>3
    <3>5. /\ placed'[i].line \in clips'
          /\ placed'[i].delay = segments'[placed'[i].line].start
          /\ Laid(placed[i], After(i))'
          /\ i > 1 /\ placed'[i - 1].policy = "crossfade"
                   /\ placed'[i - 1].fadeOut <= placed'[i].keep =>
               placed'[i].fadeIn = placed'[i - 1].fadeOut
      <4>1. clips' = clips /\ segments' = segments /\ take' = take BY <1>2
      <4>2. Laid(clip, next)' BY <1>8, <2>2, <2>3, <2>6, <4>1 DEF Laid, WellKept
      <4>3. i > 1 => placed'[i - 1] = placed[i - 1] BY <2>4, <2>8
      <4>. QED BY <1>1, <1>3, <2>5, <2>6, <2>8, <3>1, <4>1, <4>2, <4>3
    <3>6. \A j \in 1 .. i - 1 : placed'[j].delay < placed'[i].delay
      <4>1. SUFFICES ASSUME NEW j \in 1 .. Len(placed) PROVE placed[j].delay < delay
        BY <2>4, <2>6, <2>8
      <4>2. PICK n : n = Len(placed) OBVIOUS
      <4>3. n \in 1 .. n /\ n \in Nat /\ j \in 1 .. n BY <2>4, <4>2
      <4>4. After(n) = delay BY <1>1, <1>2, <4>2, <4>3 DEF After
      <4>5. placed[n].delay \in Nat /\ placed[j].delay \in Nat
        <5>1. placed[n] \in Clip /\ placed[j] \in Clip BY <2>4, <4>2, <4>3
        <5>. QED BY <5>1 DEF Clip
      <4>6. placed[n].delay < delay
        <5>1. Laid(placed[n], delay) BY <3>3, <4>2, <4>3, <4>4
        <5>. QED BY <1>3, <4>5, <5>1 DEF Laid
      <4>7. j = n \/ placed[j].delay < placed[n].delay BY <3>3, <4>2, <4>3
      <4>. QED BY <1>3, <4>5, <4>6, <4>7
    <3>. QED BY <2>8, <3>4, <3>5, <3>6 DEF Placing
  <2>. QED BY <1>5, <1>6, <2>9, <2>10, <2>12 DEF TrackInv
<1>9. CASE next > delay /\ phase' = phase /\ Lay(l, next)
  <2>1. PICK tail \in Tails :
          LET voiced == IF tail < take[l] THEN take[l] - tail ELSE 0
              choice == ClampKeep(DecidePolicy(Slot(l), take[l], voiced,
                                               next - segments[l].start),
                                  take[l], BedEnd - segments[l].start)
          IN  placed' = Append(placed,
                [line |-> l, delay |-> segments[l].start, voiced |-> voiced,
                 policy |-> choice.policy, keep |-> choice.keep,
                 truncated |-> choice.truncated,
                 fadeIn |-> FadeIn(Len(placed) + 1, choice), fadeOut |-> choice.fadeOut])
    BY <1>9, Zenon DEF Lay
  <2>2. PICK voiced : voiced = IF tail < take[l] THEN take[l] - tail ELSE 0 OBVIOUS
  <2>3. PICK choice :
          choice = ClampKeep(DecidePolicy(Slot(l), take[l], voiced, next - delay),
                             take[l], BedEnd - delay)
    OBVIOUS
  <2>4. PICK clip :
          clip = [line |-> l, delay |-> delay, voiced |-> voiced,
                  policy |-> choice.policy, keep |-> choice.keep,
                  truncated |-> choice.truncated,
                  fadeIn |-> FadeIn(i, choice), fadeOut |-> choice.fadeOut]
    OBVIOUS
  <2>5. placed' = Append(placed, clip) BY <1>1, <2>1, <2>2, <2>3, <2>4
  <2>. QED BY <1>8, <1>9, <2>2, <2>3, <2>4, <2>5
<1>. QED BY <1>4, <1>7, <1>9

\* Where nothing that placing reads changes.
LEMMA SamePlacing ==
  ASSUME Placing, UNCHANGED <<segments, take, clips, placed>>,
         phase' \in {"placing", "mixed"} => phase \in {"placing", "mixed"}
  PROVE  Placing'
<1>1. Unplaced' = Unplaced BY DEF Unplaced
<1>2. SUFFICES ASSUME phase' \in {"placing", "mixed"}, NEW i \in DOMAIN placed
               PROVE  /\ placed[i].line \in clips
                      /\ placed[i].delay = segments[placed[i].line].start
                      /\ Laid(placed[i], After(i))'
                      /\ \A j \in 1 .. i - 1 : placed[j].delay < placed[i].delay
                      /\ i > 1 /\ placed[i - 1].policy = "crossfade"
                               /\ placed[i - 1].fadeOut <= placed[i].keep =>
                           placed[i].fadeIn = placed[i - 1].fadeOut
  BY DEF Placing
<1>3. After(i)' = After(i) BY <1>1 DEF After, First, Earlier
<1>4. Laid(placed[i], After(i)) BY <1>2 DEF Placing
<1>5. Laid(placed[i], After(i))' BY <1>3, <1>4 DEF Laid
<1>. QED BY <1>2, <1>5 DEF Placing

LEMMA MixStep == ASSUME TrackInv, Mix PROVE TrackInv'
<1>1. /\ phase = "placing" /\ phase' = "mixed" /\ Unplaced = {}
      /\ UNCHANGED <<segments, line, work, take, flagged, clips, placed>>
  BY DEF Mix
<1>2. TrackTypeOK' BY <1>1 DEF TrackInv, TrackTypeOK
<1>3. AtWork' BY <1>1 DEF TrackInv, AtWork
<1>4. Fitting' BY <1>1 DEF TrackInv, Fitting, Slot, Clamped, Outside
<1>5. Mixing' BY <1>1 DEF TrackInv, Mixing, Unplaced
<1>6. Placing' BY <1>1, SamePlacing DEF TrackInv
<1>. QED BY <1>2, <1>3, <1>4, <1>5, <1>6 DEF TrackInv

-----------------------------------------------------------------------------
LEMMA TrackInitInv == TrackInit => TrackInv
<1>. SUFFICES ASSUME TrackInit PROVE TrackInv OBVIOUS
<1>1. TrackTypeOK
  <2>1. NoWork \in Work /\ Len(NoWork.tried) < RepairAttempts
    BY LineNumbers DEF NoWork, Work
  <2>2. <<>> \in Seq(Clip) /\ DOMAIN <<>> = {} OBVIOUS
  <2>. QED BY <2>1, <2>2, LineNumbers DEF TrackInit, TrackTypeOK
<1>2. AtWork /\ Mixing /\ Placing BY DEF TrackInit, AtWork, NoWork, Mixing, Placing
<1>3. Fitting
  <2>1. \A l \in Lines : ~ (l < 1) BY TrackAssumption DEF Lines
  <2>. QED BY <2>1 DEF TrackInit, Fitting
<1>. QED BY <1>1, <1>2, <1>3 DEF TrackInv

LEMMA TrackNextInv == TrackInv /\ [TrackNext]_trackVars => TrackInv'
<1>. SUFFICES ASSUME TrackInv, [TrackNext]_trackVars PROVE TrackInv' OBVIOUS
<1>1. CASE UNCHANGED trackVars
  <2>1. UNCHANGED <<segments, phase, line, work, take, flagged, clips, placed>>
    BY <1>1 DEF trackVars
  <2>2. TrackTypeOK' BY <2>1 DEF TrackInv, TrackTypeOK
  <2>3. AtWork' BY <2>1 DEF TrackInv, AtWork
  <2>4. Fitting' BY <2>1 DEF TrackInv, Fitting, Slot, Clamped, Outside
  <2>5. Mixing' BY <2>1 DEF TrackInv, Mixing, Unplaced
  <2>6. Placing' BY <2>1, SamePlacing DEF TrackInv
  <2>. QED BY <2>2, <2>3, <2>4, <2>5, <2>6 DEF TrackInv
<1>. QED BY <1>1, OpenLineStep, CallStep, GiveUpStep, SynthesizedStep, RunFailsStep, StartMixStep,
            SortStep, PlaceClipStep, MixStep DEF TrackNext, Progress

LEMMA TrackIsInv == FairSpec => []TrackInv
<1>. QED BY TrackInitInv, TrackNextInv, PTL DEF FairSpec

-----------------------------------------------------------------------------
(***************************************************************************)
(* What the track promises.                                                *)
(***************************************************************************)
\* A clip that nothing disturbs has room for its slot, and for the fade or the
\* bed after it, which is as much as a take that fits is longer.
LEMMA HeardWhenMixed == TrackInv => UnflaggedLinesAreHeard
<1>. SUFFICES ASSUME TrackInv, phase = "mixed", NEW i \in DOMAIN placed,
                     placed[i].line \notin flagged, Undisturbed(i)
              PROVE  placed[i].voiced <= placed[i].keep
  BY DEF UnflaggedLinesAreHeard
<1>1. /\ placed[i] \in Clip /\ placed \in Seq(Clip) /\ i \in 1 .. Len(placed) /\ Len(placed) \in Nat
      /\ placed[i].line \in clips /\ placed[i].line \in Lines
      /\ placed[i].delay = segments[placed[i].line].start
      /\ Laid(placed[i], After(i))
  BY DEF TrackInv, TrackTypeOK, Placing
<1>2. PICK l, delay, slot, measured, available :
        /\ l = placed[i].line /\ delay = placed[i].delay /\ slot = Slot(l) /\ measured = take[l]
        /\ available = After(i) - delay
  OBVIOUS
<1>3. slot \in Int /\ measured \in Nat /\ delay \in Nat
  <2>1. slot \in Int BY <1>1, <1>2, SlotType DEF TrackInv
  <2>2. measured \in Nat BY <1>1, <1>2 DEF TrackInv, TrackTypeOK
  <2>. QED BY <1>1, <1>2, <2>1, <2>2 DEF Clip
<1>4. measured <= slot + StretchDeadBand
  <2>1. l < line
    <3>1. line > LineCount /\ line \in Nat BY LineNumbers DEF TrackInv, Mixing, TrackTypeOK
    <3>. QED BY <1>1, <1>2, <3>1, LineNumbers DEF Lines
  <2>. QED BY <1>1, <1>2, <2>1 DEF TrackInv, Fitting
<1>5. BedEnd >= delay + slot + StretchDeadBand BY <1>2, <1>3, LineNumbers DEF Undisturbed
<1>6. available \in Int /\ available >= slot
  <2>1. CASE i < Len(placed)
    <3>1. After(i) = placed[i + 1].delay /\ placed[i + 1] \in Clip BY <1>1, <2>1 DEF After
    <3>2. After(i) >= delay + slot BY <1>2, <2>1, <3>1 DEF Undisturbed
    <3>3. After(i) \in Nat BY <3>1 DEF Clip
    <3>. QED BY <1>2, <1>3, <3>2, <3>3
  <2>2. CASE ~ (i < Len(placed))
    <3>1. After(i) = BedEnd BY <2>2 DEF After, TrackInv, Mixing
    <3>. QED BY <1>2, <1>3, <1>5, <3>1, LineNumbers
  <2>. QED BY <2>1, <2>2
<1>7. measured <= available + Crossfade /\ measured <= BedEnd - delay
  BY <1>3, <1>4, <1>5, <1>6, LineNumbers, BandAssumption
<1>. QED BY <1>1, <1>2, <1>7 DEF Laid

LEMMA MissingWhenMixed == TrackInv => MissingLinesAreFlagged
<1>. SUFFICES ASSUME TrackInv, phase = "mixed",
                     NEW l \in Lines, l \notin {placed[i].line : i \in DOMAIN placed}
              PROVE  l \in flagged
  BY DEF MissingLinesAreFlagged
<1>1. l \notin clips BY DEF TrackInv, Mixing, Unplaced
<1>2. CASE take[l] # Unheard BY <1>1, <1>2 DEF TrackInv, Mixing
<1>3. CASE take[l] = Unheard
  <2>1. line > LineCount /\ line \in Nat BY LineNumbers DEF TrackInv, Mixing, TrackTypeOK
  <2>2. l < line BY <2>1, LineNumbers DEF Lines
  <2>. QED BY <1>3, <2>2 DEF TrackInv, Fitting
<1>. QED BY <1>2, <1>3

\* A clip ends at most a fade after the next one starts, hence before the one
\* after that when starts are further apart than the fade.
LEMMA CrossfadesWhenMixed == TrackInv => VoicesCrossfade
<1>. SUFFICES ASSUME TrackInv, phase = "mixed", Spaced,
                     NEW i \in DOMAIN placed, NEW j \in DOMAIN placed,
                     i < j, Ends(i) > placed[j].delay
              PROVE  /\ j = i + 1
                     /\ placed[i].fadeOut >= Ends(i) - placed[j].delay
                     /\ placed[j].keep >= Crossfade => placed[j].fadeIn = placed[i].fadeOut
  BY DEF VoicesCrossfade
<1>1. /\ placed \in Seq(Clip) /\ Len(placed) \in Nat /\ DOMAIN placed = 1 .. Len(placed)
      /\ i + 1 \in DOMAIN placed /\ i \in 1 .. Len(placed) - 1 /\ i < Len(placed)
  BY DEF TrackInv, TrackTypeOK
<1>2. \A k \in DOMAIN placed :
        /\ placed[k].delay \in Nat /\ placed[k].keep \in Nat /\ placed[k].fadeOut \in Nat
        /\ placed[k].delay < BedEnd
        /\ Laid(placed[k], After(k))
        /\ \A h \in 1 .. k - 1 : placed[h].delay < placed[k].delay
        /\ k > 1 /\ placed[k - 1].policy = "crossfade"
                 /\ placed[k - 1].fadeOut <= placed[k].keep =>
             placed[k].fadeIn = placed[k - 1].fadeOut
  <2>1. TAKE k \in DOMAIN placed
  <2>2. placed[k] \in Clip BY <1>1
  <2>3. placed[k].delay \in Nat /\ placed[k].keep \in Nat /\ placed[k].fadeOut \in Nat
    BY <2>2 DEF Clip
  <2>4. placed[k].delay \in 0 .. BedEnd - 1 BY DEF TrackInv, Placing, Mixing
  <2>. QED BY <2>3, <2>4, LineNumbers DEF TrackInv, Placing
<1>3. PICK next : next = placed[i + 1].delay OBVIOUS
<1>4. Laid(placed[i], next)
  <2>1. After(i) = next BY <1>1, <1>3 DEF After
  <2>. QED BY <1>2, <2>1
<1>5. next \in Nat /\ next > placed[i].delay + Crossfade /\ next < BedEnd
  BY <1>1, <1>2, <1>3 DEF Spaced
<1>6. Ends(i) <= next + Crossfade BY <1>2, <1>4, <1>5, LineNumbers DEF Laid, Ends
<1>7. j = i + 1
  <2>1. SUFFICES ASSUME j # i + 1 PROVE FALSE OBVIOUS
  <2>2. i + 2 \in DOMAIN placed /\ i + 1 \in 1 .. Len(placed) - 1 /\ (i + 1) + 1 = i + 2
        /\ (j = i + 2 \/ i + 2 \in 1 .. j - 1)
    BY <1>1, <2>1
  <2>3. placed[i + 2].delay > next + Crossfade BY <1>3, <2>2 DEF Spaced
  <2>4. placed[j].delay >= placed[i + 2].delay BY <1>2, <2>2
  <2>5. placed[j].delay \in Nat /\ placed[i + 2].delay \in Nat /\ Ends(i) \in Nat
    BY <1>2, <2>2 DEF Ends
  <2>. QED BY <1>5, <1>6, <2>3, <2>4, <2>5, LineNumbers
<1>8. placed[i].keep > next - placed[i].delay
  BY <1>2, <1>3, <1>5, <1>7 DEF Ends
<1>9. /\ placed[i].policy = "crossfade"
      /\ placed[i].fadeOut >= placed[i].keep - (next - placed[i].delay)
      /\ placed[i].fadeOut <= Crossfade
  <2>1. BedEnd - placed[i].delay > Crossfade BY <1>2, <1>5, LineNumbers
  <2>2. placed[i].keep \in Nat /\ placed[i].delay \in Nat BY <1>2
  <2>. QED BY <1>4, <1>5, <1>8, <2>1, <2>2 DEF Laid
<1>10. placed[i].fadeOut >= Ends(i) - placed[j].delay
  BY <1>2, <1>3, <1>5, <1>7, <1>9 DEF Ends
<1>11. ASSUME placed[j].keep >= Crossfade PROVE placed[j].fadeIn = placed[i].fadeOut
  <2>1. j > 1 /\ j - 1 = i BY <1>1, <1>7
  <2>2. placed[i].fadeOut <= placed[j].keep BY <1>2, <1>9, <1>11, LineNumbers
  <2>. QED BY <1>2, <1>9, <2>1, <2>2
<1>. QED BY <1>7, <1>10, <1>11

\* The clips that wait are in order, so the one after the first starts no
\* earlier.
LEMMA TwinsWhenRefused ==
  TrackInv => (PlaceClip /\ phase' = "failed" =>
                 \E k, l \in clips : k # l /\ segments[k].start = segments[l].start)
<1>. SUFFICES ASSUME TrackInv, PlaceClip, phase' = "failed"
              PROVE  \E k, l \in clips : k # l /\ segments[k].start = segments[l].start
  OBVIOUS
<1>1. PICK l, rest, next :
        /\ l = First(Unplaced) /\ rest = Unplaced \ {l}
        /\ next = IF Unplaced = {l} THEN BedEnd ELSE segments[First(rest)].start
  OBVIOUS
<1>2. phase = "placing" /\ Unplaced # {} /\ next <= segments[l].start
  BY <1>1 DEF PlaceClip
<1>3. /\ l \in clips /\ segments[l].start \in 0 .. BedEnd - 1
      /\ rest = {} <=> Unplaced = {l}
      /\ rest # {} => /\ First(rest) \in rest /\ First(rest) \in clips
                      /\ segments[First(rest)].start \in 0 .. BedEnd - 1
                      /\ segments[First(rest)].start >= segments[l].start
  BY <1>1, <1>2, NextClip
<1>4. Unplaced # {l} BY <1>1, <1>2, <1>3, LineNumbers
<1>5. rest # {} /\ next = segments[First(rest)].start BY <1>1, <1>3, <1>4
<1>6. First(rest) \in clips /\ First(rest) # l BY <1>1, <1>3, <1>5
<1>7. segments[First(rest)].start = segments[l].start
  BY <1>2, <1>3, <1>5, LineNumbers
<1>. QED BY <1>3, <1>6, <1>7

\* The line at work, its tries, the chosen takes and the clips stay within
\* their ranges: a clip never reaches past the bed, and its fades are no longer
\* than what is kept of it (loop.go, rewrite.go, place.go).
THEOREM TrackTypeCorrect == FairSpec => []TrackTypeOK
<1>1. TrackInv => TrackTypeOK BY DEF TrackInv
<1>. QED BY <1>1, TrackIsInv, PTL

\* Whatever takes the services return and wherever the lines lie, a line nobody
\* is told to look at is heard to its last sound, as the dead band of the
\* repair (stretch.go) is no wider than the fade of the mix (place.go).
THEOREM UnflaggedAreHeard == FairSpec => []UnflaggedLinesAreHeard
<1>. QED BY HeardWhenMixed, TrackIsInv, PTL

\* Any line that is missing from a finished film was flagged, when it was given
\* up, was outside the film or was refused by the bed (loop.go, main.go).
THEOREM MissingAreFlagged == FairSpec => []MissingLinesAreFlagged
<1>. QED BY MissingWhenMixed, TrackIsInv, PTL

\* No three voices sound at once, and two only in a crossfade, for any number
\* of lines and any lengths of their takes (place.go Place).
THEOREM VoicesMeetInCrossfades == FairSpec => []VoicesCrossfade
<1>. QED BY CrossfadesWhenMixed, TrackIsInv, PTL

\* Place fails for two lines that start together and for no other collision
\* (place.go:155-157).
THEOREM OnlyTwinsStopTheMix == FairSpec => OnlyTwinsCollide
<1>1. TrackInv /\ [TrackNext]_trackVars =>
        [PlaceClip /\ phase' = "failed" =>
           \E k, l \in clips : k # l /\ segments[k].start = segments[l].start]_trackVars
  BY TwinsWhenRefused
<1>2. FairSpec => [][TrackNext]_trackVars BY PTL DEF FairSpec
<1>. QED BY <1>1, <1>2, TrackIsInv, PTL DEF OnlyTwinsCollide
=============================================================================
