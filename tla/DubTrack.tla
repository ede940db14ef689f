------------------------------ MODULE DubTrack ------------------------------
(***************************************************************************)
(* The track of one run, from the segmentation to the mix: each line is    *)
(* rendered, repaired or given up, then the chosen takes are laid on the   *)
(* bed (internal/fit/loop.go Run, rewrite.go RepairLine, retry.go;         *)
(* cmd/ajilamu/main.go assembleRun, placeTakes; internal/assemble/place.go *)
(* Place).                                                                 *)
(*                                                                         *)
(* A line that resumes repeats a result an earlier run got this way        *)
(* (TakeFiles has the resume itself). The text and its rewrite mode only   *)
(* influence how long the next take is, which is any length here.          *)
(*                                                                         *)
(* RenderProofs has the proofs about this module and about TakeFiles, so   *)
(* the two share no name.                                                  *)
(***************************************************************************)
EXTENDS Repair, Placement

CONSTANTS LineCount,      \* dialogue lines
          Segmentations,  \* what the segmenter may return: line -> [start, end]
          FilmEnd,        \* the film, as probed; 0 when unknown
          BedEnd,         \* the bed, as decoded
          RepairAttempts,    \* attempts of one repair (3 in the code)
          RetryAttempts,  \* calls of one busy service (3 in the code)
          Misses,         \* how far a take misses its slot
          Tails           \* silence at the end of a take

Lines == 1 .. LineCount
Unheard == 0               \* a take is its length

\* The parser of the segmentation wants a start before its end, no more.
ASSUME TrackAssumption ==
  /\ LineCount \in Nat \ {0}
  /\ Segmentations \subseteq [Lines -> [start : Int, end : Int]]
  /\ \A s \in Segmentations : \A l \in Lines : s[l].start < s[l].end
  /\ FilmEnd \in Nat /\ BedEnd \in Nat \ {0}
  /\ RepairAttempts \in Nat \ {0} /\ RetryAttempts \in Nat \ {0}
  /\ Misses \subseteq Int /\ Tails \subseteq Nat

\* Both are 40 ms.
ASSUME BandAssumption == StretchDeadBand <= Crossfade

VARIABLES segments,  \* line -> its slot
          phase,     \* "lines", "sorting", "placing", "mixed" or "failed"
          line,      \* the line at work
          work,       \* what is done for it
          take,      \* line -> its chosen take
          flagged,   \* the lines a creator has to look at
          clips,     \* the lines to be placed
          placed     \* the clips laid on the bed, in order

trackVars == <<segments, phase, line, work, take, flagged, clips, placed>>

NoWork == [at |-> "idle", tries |-> 0, tried |-> <<>>]

Work == [at : {"idle", "translating", "synthesizing"}, tries : 0 .. RetryAttempts - 1,
         tried : Seq(Nat)]
Clip == [line : Lines, delay : Nat, voiced : Nat, policy : Policies, keep : Nat,
         truncated : Nat, fadeIn : Nat, fadeOut : Nat]

TrackTypeOK ==
  /\ segments \in Segmentations
  /\ phase \in {"lines", "sorting", "placing", "mixed", "failed"}
  /\ line \in 1 .. LineCount + 1
  /\ work \in Work /\ Len(work.tried) < RepairAttempts
  /\ take \in [Lines -> Nat]
  /\ flagged \subseteq Lines /\ clips \subseteq Lines
  /\ placed \in Seq(Clip)
  /\ \A i \in DOMAIN placed :
       /\ placed[i].keep \in 1 .. BedEnd - placed[i].delay
       /\ placed[i].fadeIn <= placed[i].keep
       /\ placed[i].fadeOut <= placed[i].keep

TrackInit ==
  /\ segments \in Segmentations
  /\ phase = "lines" /\ line = 1 /\ work = NoWork
  /\ take = [l \in Lines |-> Unheard]
  /\ flagged = {} /\ clips = {} /\ placed = <<>>

\* A line past the film is left out, one that ends past it is clamped.
Outside(l) == FilmEnd > 0 /\ segments[l].start >= FilmEnd
Clamped(l) == FilmEnd > 0 /\ ~ Outside(l) /\ segments[l].end > FilmEnd
Slot(l) == (IF Clamped(l) THEN FilmEnd ELSE segments[l].end) - segments[l].start

-----------------------------------------------------------------------------
(***************************************************************************)
(* The lines, one after the other.                                         *)
(***************************************************************************)
NextLine == line' = line + 1 /\ work' = NoWork
Flag(l) == flagged' = flagged \union {l}

OpenLine ==
  /\ phase = "lines" /\ work.at = "idle" /\ line <= LineCount
  /\ \/ Outside(line) /\ NextLine /\ Flag(line)
     \/ ~ Outside(line) /\ work' = [work EXCEPT !.at = "translating"]
        /\ UNCHANGED <<line, flagged>>
  /\ UNCHANGED <<segments, phase, take, clips, placed>>

Translated ==
  /\ work.at = "translating"
  /\ work' = [work EXCEPT !.at = "synthesizing", !.tries = 0]
  /\ UNCHANGED <<segments, phase, line, take, flagged, clips, placed>>

\* A busy service is called again after a pause.
Busy ==
  /\ work.at # "idle"
  /\ work.tries + 1 < RetryAttempts
  /\ work' = [work EXCEPT !.tries = @ + 1]
  /\ UNCHANGED <<segments, phase, line, take, flagged, clips, placed>>

\* Faulty: the run goes on and does not say so.
GiveUpSilently ==
  /\ work.at # "idle"
  /\ work.tries + 1 = RetryAttempts
  /\ NextLine
  /\ UNCHANGED <<segments, phase, take, flagged, clips, placed>>

\* After the last call the run goes on without the line.
GiveUp ==
  /\ work.at # "idle"
  /\ work.tries + 1 = RetryAttempts
  /\ NextLine /\ Flag(line)
  /\ UNCHANGED <<segments, phase, take, clips, placed>>

Settle(length, fits) ==
  /\ take' = [take EXCEPT ![line] = length]
  /\ NextLine
  /\ IF fits /\ ~ Clamped(line) THEN UNCHANGED flagged ELSE Flag(line)

\* Faulty: one attempt too many.
AttemptsLeftOffByOne(tried) == Len(tried) <= RepairAttempts

AttemptsLeft(tried) == Len(tried) < RepairAttempts

TryMissed(length) ==
  LET tried == Append(work.tried, length)
  IN  IF AttemptsLeft(tried)
      THEN work' = [NoWork EXCEPT !.at = "translating", !.tried = tried]
           /\ UNCHANGED <<line, take, flagged>>
      ELSE Settle(Nearest(Slot(line), tried), FALSE)

Lengths(l) == {Slot(l) + miss : miss \in Misses} \intersect (Nat \ {0})

\* The take is measured and kept, stretched, or tried again.
Synthesized ==
  /\ work.at = "synthesizing"
  /\ \E length \in Lengths(line) :
       LET plan == PlanStretch(Slot(line), length)
       IN  \/ plan = "none" /\ Settle(length, TRUE)
           \/ plan = "atempo" /\ \E after \in Lengths(line) :
                IF Lands(Slot(line), length, after)
                THEN Settle(after, TRUE)
                ELSE TryMissed(length)
           \/ plan = "rewrite" /\ TryMissed(length)
  /\ UNCHANGED <<segments, phase, clips, placed>>

\* A cancel, an error of a call, of a tool or of the disk.
RunFails ==
  /\ phase \notin {"mixed", "failed"}
  /\ phase' = "failed" /\ work' = NoWork
  /\ UNCHANGED <<segments, line, take, flagged, clips, placed>>

-----------------------------------------------------------------------------
(***************************************************************************)
(* The mix.                                                                *)
(***************************************************************************)
StartMix ==
  /\ phase = "lines" /\ line > LineCount
  /\ phase' = "sorting"
  /\ clips' = {l \in Lines : take[l] # Unheard}
  /\ UNCHANGED <<segments, line, work, take, flagged, placed>>

OutsideBed == {l \in clips : segments[l].start >= BedEnd}

\* Faulty: the refused clips are flagged and stay.
SortKeepingClips ==
  /\ phase = "sorting"
  /\ flagged' = flagged \union OutsideBed
  /\ phase' = IF OutsideBed = {} THEN "placing" ELSE "sorting"
  /\ UNCHANGED <<segments, line, work, take, clips, placed>>

\* Place refuses a clip before the bed, and names those after it. placeTakes
\* drops them and calls it again.
Sort ==
  /\ phase = "sorting"
  /\ IF \E l \in clips : segments[l].start < 0
     THEN phase' = "failed" /\ UNCHANGED <<flagged, clips>>
     ELSE /\ clips' = clips \ OutsideBed
          /\ flagged' = flagged \union OutsideBed
          /\ phase' = IF OutsideBed = {} THEN "placing" ELSE "sorting"
  /\ UNCHANGED <<segments, line, work, take, placed>>

\* Faulty: the lines stay in the order of the segmenter.
EarlierNamed(k, l) == k < l

Earlier(k, l) == \/ segments[k].start < segments[l].start
                 \/ segments[k].start = segments[l].start /\ k < l

\* The first of lines in that order, and those not placed yet.
First(lines) == CHOOSE l \in lines : \A k \in lines \ {l} : Earlier(l, k)
Unplaced == clips \ {placed[i].line : i \in DOMAIN placed}

\* Faulty: the fade of the clip itself.
FadeInOwn(i, choice) == choice.fadeOut

\* A clip fades in while the one before it fades out.
FadeIn(i, choice) ==
  IF i > 1 /\ placed[i - 1].policy = "crossfade"
  THEN IF placed[i - 1].fadeOut > choice.keep
       THEN choice.keep \div 2 ELSE placed[i - 1].fadeOut
  ELSE 0

\* The take of the line is laid up to the next one, or over its start.
Lay(l, next) ==
  LET delay == segments[l].start
  IN  \E tail \in Tails :
        LET voiced == IF tail < take[l] THEN take[l] - tail ELSE 0
            choice == ClampKeep(DecidePolicy(Slot(l), take[l], voiced, next - delay),
                                take[l], BedEnd - delay)
        IN  placed' = Append(placed,
              [line |-> l, delay |-> delay, voiced |-> voiced,
               policy |-> choice.policy, keep |-> choice.keep,
               truncated |-> choice.truncated,
               fadeIn |-> FadeIn(Len(placed) + 1, choice), fadeOut |-> choice.fadeOut])

PlaceClip ==
  LET l == First(Unplaced)
      next == IF Unplaced = {l} THEN BedEnd ELSE segments[First(Unplaced \ {l})].start
  IN  /\ phase = "placing" /\ Unplaced # {}
      /\ \/ next <= segments[l].start /\ phase' = "failed" /\ UNCHANGED placed
         \/ next > segments[l].start /\ Lay(l, next) /\ UNCHANGED phase
      /\ UNCHANGED <<segments, line, work, take, flagged, clips>>

Mix ==
  /\ phase = "placing" /\ Unplaced = {}
  /\ phase' = "mixed"
  /\ UNCHANGED <<segments, line, work, take, flagged, clips, placed>>

-----------------------------------------------------------------------------
Progress ==
  \/ OpenLine \/ Translated \/ Busy \/ GiveUp \/ Synthesized
  \/ StartMix \/ Sort \/ PlaceClip \/ Mix

TrackNext == Progress \/ RunFails

\* One goroutine, whose calls all have timeouts.
FairSpec == TrackInit /\ [][TrackNext]_trackVars /\ WF_trackVars(Progress)

-----------------------------------------------------------------------------
(***************************************************************************)
(* Properties.                                                             *)
(***************************************************************************)
Ends(i) == placed[i].delay + placed[i].keep

\* Nothing else starts inside the slot of the clip, and the bed has room for
\* the band after it.
Undisturbed(i) ==
  LET free == placed[i].delay + Slot(placed[i].line)
  IN  /\ i < Len(placed) => placed[i + 1].delay >= free
      /\ BedEnd >= free + StretchDeadBand

\* The dead band of the repair and the fade of the mix agree: a line nobody is
\* told to look at is heard to its last sound, however close the next line
\* starts (stretch.go StretchDeadBand, place.go Crossfade).
UnflaggedLinesAreHeard ==
  phase = "mixed" =>
    \A i \in DOMAIN placed :
      placed[i].line \notin flagged /\ Undisturbed(i) => placed[i].voiced <= placed[i].keep

\* A line that is not in the film is one the creator is told to look at: lines
\* outside the film or the bed and lines whose service stayed busy.
MissingLinesAreFlagged ==
  phase = "mixed" => Lines \ {placed[i].line : i \in DOMAIN placed} \subseteq flagged

\* Starts further apart than the fade.
Spaced == \A i \in 1 .. Len(placed) - 1 : placed[i + 1].delay > placed[i].delay + Crossfade

\* However long the takes are, no more than two of them sound at a time, and
\* only while the earlier one fades out and the later one, unless it is shorter
\* than the fade, fades in over the same time.
VoicesCrossfade ==
  phase = "mixed" /\ Spaced =>
    \A i, j \in DOMAIN placed : i < j /\ Ends(i) > placed[j].delay =>
      /\ j = i + 1
      /\ placed[i].fadeOut >= Ends(i) - placed[j].delay
      /\ placed[j].keep >= Crossfade => placed[j].fadeIn = placed[i].fadeOut

\* When every take is paid for, the mix refuses the run for two lines that
\* start together, and for no other collision, in whatever order the segmenter
\* returned the lines and whichever of them have a take (place.go:155-157).
OnlyTwinsCollide ==
  [][PlaceClip /\ phase' = "failed" =>
       \E k, l \in clips : k # l /\ segments[k].start = segments[l].start]_trackVars

\* A run ends whatever the services do: every retry and every refused clip is
\* counted.
RunEnds == <> (phase \in {"mixed", "failed"})
=============================================================================
