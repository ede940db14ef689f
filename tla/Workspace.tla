----------------------------- MODULE Workspace -----------------------------
(***************************************************************************)
(* One project as its readers see it while runs add to it: the workspace   *)
(* route (internal/api/workspace.go) and the project index                 *)
(* (internal/api/index.go), which assemble their answers from several      *)
(* reads of ClickHouse (internal/ledger/workspace.go, index.go) and from   *)
(* the record that ProjectStore keeps.                                     *)
(*                                                                         *)
(* Rows reach ClickHouse in the order they are written (LedgerDelivery),   *)
(* so what a read finds is the length of a prefix of the journal. The      *)
(* commits of the project form a chain (CommitWriters), so the ancestry of *)
(* a head is every commit before it.                                       *)
(***************************************************************************)
EXTENDS ProjectStore, Sequences, FiniteSets

CONSTANTS Dub,         \* the project
          Runs,        \* its runs
          Languages,   \* target languages, numbered in the order of their codes
          StoredLanguage, \* the one its upload names
          LineCount,   \* the lines of any run are numbered up to it
          Segmentations, \* the sets of lines a run may find in the film
          MaxFaults    \* bound on failed calls and crashes

ASSUME DubAssumption == Dub \in Uploads
ASSUME LanguagesAssumption == Languages \subseteq Nat /\ StoredLanguage \in Languages
ASSUME BoundsAssumption == LineCount \in Nat \ {0} /\ MaxFaults \in Nat
ASSUME SegmentationsAssumption == Segmentations \subseteq SUBSET (1 .. LineCount) \ {{}}

VARIABLES journal,    \* every row written for the project, in order
          delivered,  \* ClickHouse holds journal[1 .. delivered]
          run,        \* the step each run is at
          language,   \* the target language of each run
          found,      \* the lines each run found
          place,      \* how far each run is in writing its rows
          request,    \* the one request of a reader
          faults      \* faults so far, at most MaxFaults

ledgerVars == <<journal, delivered>>
runVars == <<run, language, found, place>>
vars == <<storeVars, ledgerVars, runVars, request, faults>>

Lines == 1 .. LineCount
LastPlace == 1 + 2 * LineCount
Words == {"pending", "running", "review", "ready", "not found", "not listed"}

Lowest(S) == CHOOSE x \in S : \A y \in S : x <= y

Row == [kind : {"commit"}, id : Runs]
       \union [kind : {"take"}, id : Runs, language : Languages, line : Lines, fits : BOOLEAN]
       \union [kind : {"state"}, id : Runs, language : Languages, line : Lines]

Request == [step : {"idle", "takes", "languages", "commits", "record", "target",
                    "timeline", "index takes", "index counts", "answered"},
            running : BOOLEAN,        \* the sample of the run registry
            takes : Nat,              \* what ClickHouse held at each read
            languages : BOOLEAN,      \* the language list had an entry
            commits : SUBSET Runs,    \* the commits listed
            stored : BOOLEAN,         \* the record was readable,
            named : BOOLEAN,          \* and again when its language was asked for
            word : Words \union {"none"},
            known : BOOLEAN,          \* when the request began: the project was answered,
            empty : BOOLEAN,          \* ClickHouse held nothing of it,
            beside : BOOLEAN]         \* a run was in progress, or started since

NoRequest == [step |-> "idle", running |-> FALSE, takes |-> 0, languages |-> FALSE, commits |-> {},
              stored |-> FALSE, named |-> FALSE, word |-> "none", known |-> FALSE, empty |-> FALSE,
              beside |-> FALSE]

TypeOK ==
  /\ StoreTypeOK
  /\ journal \in Seq(Row)
  /\ delivered \in 0 .. Len(journal)
  /\ run \in [Runs -> {"idle", "rendering", "rows", "done", "failed"}]
  /\ language \in [Runs -> Languages]
  /\ found \in [Runs -> SUBSET Lines]
  /\ place \in [Runs -> 0 .. LastPlace]
  /\ request \in Request
  /\ faults \in 0 .. MaxFaults

-----------------------------------------------------------------------------
(***************************************************************************)
(* What ClickHouse answers when it holds n rows.                           *)
(***************************************************************************)
RowsIn(n, kind) == {i \in 1 .. n : journal[i].kind = kind}
Commits(n) == {journal[i].id : i \in RowsIn(n, "commit")}
TakeLanguages(n) == {journal[i].language : i \in RowsIn(n, "take")}
TakesOf(n, lang, line) ==
  {i \in RowsIn(n, "take") : journal[i].language = lang /\ journal[i].line = line}

\* Lines of a language with a snapshot at one of these commits, the ancestry of
\* the newest.
Segments(commits, n, lang) ==
  {journal[i].line : i \in {j \in RowsIn(n, "state") : /\ journal[j].language = lang
                                                       /\ journal[j].id \in commits}}

-----------------------------------------------------------------------------
(***************************************************************************)
(* Readiness.                                                              *)
(***************************************************************************)
RenderedLines(n) ==
  {p \in TakeLanguages(n) \X Lines : TakesOf(n, p[1], p[2]) # {}}

\* buildLanguageTracks: a line is flagged if it has takes and none fits.
FlaggedLines(n) ==
  {p \in RenderedLines(n) : \A i \in TakesOf(n, p[1], p[2]) : ~ journal[i].fits}

\* Faulty: the lines of one language are enough.
ReadinessOfOneTrack(running, n, segmentCount, trackCount) ==
  CASE running -> "running"
    [] ~ running /\ RowsIn(n, "take") = {} -> "pending"
    [] ~ running /\ RowsIn(n, "take") # {} ->
         IF FlaggedLines(n) # {} \/ Cardinality(RenderedLines(n)) < segmentCount
         THEN "review" ELSE "ready"

\* The rule of workspaceReadiness and DeriveReadiness.
Readiness(running, n, segmentCount, trackCount) ==
  CASE running -> "running"
    [] ~ running /\ RowsIn(n, "take") = {} -> "pending"
    [] ~ running /\ RowsIn(n, "take") # {} ->
         IF \/ FlaggedLines(n) # {}
            \/ segmentCount > 0 /\ Cardinality(RenderedLines(n)) < segmentCount * trackCount
         THEN "review" ELSE "ready"

\* withStoredTrack appends the stored language if no take has it.
Tracks(n, named) == TakeLanguages(n) \union (IF named THEN {StoredLanguage} ELSE {})
FirstTrack(n) == IF TakeLanguages(n) # {} THEN Lowest(TakeLanguages(n)) ELSE StoredLanguage

\* Faulty: a project without a record does not exist.
WordOfRecord(running, takes, langs, commits, stored, named, timeline) ==
  IF ~ stored THEN "not found"
  ELSE Readiness(running, takes, Cardinality(Segments(commits, timeline, FirstTrack(takes))),
                 Cardinality(Tracks(takes, named)))

\* assembleWorkspace: the takes and the timeline of the first track are read at
\* these lengths.
WorkspaceWord(running, takes, langs, commits, stored, named, timeline) ==
  LET tracks == Tracks(takes, named)
      segments == IF tracks = {} THEN {} ELSE Segments(commits, timeline, FirstTrack(takes))
  IN  IF ~ stored /\ commits = {} /\ ~ langs /\ tracks = {}
      THEN "not found"
      ELSE Readiness(running, takes, Cardinality(segments), Cardinality(tracks))

\* IndexFacts and overlayIndexFacts: no run is asked for, and one statement
\* counts the lines of each language at the newest commit.
IndexWord(takes, counts) ==
  LET tracks == TakeLanguages(takes)
      segments == IF tracks = {} THEN {} ELSE Segments(Commits(counts), counts, Lowest(tracks))
  IN  Readiness(FALSE, takes, Cardinality(segments), Cardinality(tracks))

-----------------------------------------------------------------------------
(***************************************************************************)
(* Runs: each finds the lines of the film anew (decodeSegments asks for    *)
(* rising numbers, no more). persist writes the commit, a take per line    *)
(* that was not busy, and a snapshot per line; every write flushes the     *)
(* queue.                                                                  *)
(***************************************************************************)
RowsAt(r) ==
  LET p == place[r]
      line == IF p > LineCount THEN p - LineCount ELSE p
  IN  IF p = 0 THEN {[kind |-> "commit", id |-> r]}
      ELSE IF p <= LineCount
      THEN [kind : {"take"}, id : {r}, language : {language[r]}, line : {line}, fits : BOOLEAN]
      ELSE {[kind |-> "state", id |-> r, language |-> language[r], line |-> line]}

\* A run that has written its commit passes over the lines it did not find.
Places(r) == {LastPlace} \union found[r] \union {LineCount + l : l \in found[r]}
NextPlace(r) == Lowest({p \in Places(r) : p > place[r]})

Active == \E r \in Runs : run[r] \in {"rendering", "rows"}

Fault ==
  /\ faults < MaxFaults
  /\ faults' = faults + 1

Init ==
  /\ StoreInit
  /\ journal = <<>>
  /\ delivered = 0
  /\ run = [r \in Runs |-> "idle"]
  /\ language = [r \in Runs |-> StoredLanguage]
  /\ found = [r \in Runs |-> {}]
  /\ place = [r \in Runs |-> 0]
  /\ request = NoRequest
  /\ faults = 0

\* RunStartHandler: one run of a project at a time, which needs its video only,
\* into any language.
RunStart(r) ==
  /\ run[r] = "idle"
  /\ ~ Active
  /\ dir[Dub] = "project" /\ "video" \in parts[Dub]
  /\ run' = [run EXCEPT ![r] = "rendering"]
  /\ \E lang \in Languages : language' = [language EXCEPT ![r] = lang]
  /\ request' = [request EXCEPT !.beside = request.step # "idle"]
  /\ UNCHANGED <<storeVars, ledgerVars, found, place, faults>>

\* The lines are found and rendered; persist begins with a flush of what
\* earlier writers left in the queue.
RunFlush(r) ==
  /\ run[r] = "rendering"
  /\ \/ /\ delivered' = Len(journal)
        /\ run' = [run EXCEPT ![r] = "rows"]
        /\ \E lines \in Segmentations : found' = [found EXCEPT ![r] = lines]
        /\ UNCHANGED faults
     \/ /\ Fault
        /\ run' = [run EXCEPT ![r] = "failed"]
        /\ UNCHANGED <<delivered, found>>
  /\ UNCHANGED <<storeVars, journal, language, place, request>>

\* A row is written and delivered, or it may stay in the queue and the run ends.
RunWrite(r) ==
  /\ run[r] = "rows" /\ place[r] < LastPlace
  /\ \E row \in RowsAt(r) :
       \/ /\ journal' = Append(journal, row)
          /\ delivered' = Len(journal) + 1
          /\ UNCHANGED <<run, faults>>
       \/ /\ Fault
          /\ run' = [run EXCEPT ![r] = "failed"]
          /\ journal' \in {journal, Append(journal, row)}
          /\ UNCHANGED delivered
  /\ place' = [place EXCEPT ![r] = NextPlace(r)]
  /\ UNCHANGED <<storeVars, language, found, request>>

\* A line no service could speak has no take.
RunSkips(r) ==
  /\ run[r] = "rows" /\ place[r] \in Lines
  /\ place' = [place EXCEPT ![r] = NextPlace(r)]
  /\ UNCHANGED <<storeVars, ledgerVars, run, language, found, request, faults>>

RunEnds(r) ==
  /\ run[r] = "rows" /\ place[r] = LastPlace
  /\ run' = [run EXCEPT ![r] = "done"]
  /\ UNCHANGED <<storeVars, ledgerVars, language, found, place, request, faults>>

\* The run is cancelled or a service fails it before it has anything to write.
RunFails(r) ==
  /\ run[r] = "rendering"
  /\ Fault
  /\ run' = [run EXCEPT ![r] = "failed"]
  /\ UNCHANGED <<storeVars, ledgerVars, language, found, place, request>>

Reconcile ==
  /\ delivered < Len(journal)
  /\ delivered' = Len(journal)
  /\ UNCHANGED <<storeVars, journal, runVars, request, faults>>

-----------------------------------------------------------------------------
(***************************************************************************)
(* The workspace route, read by read.                                      *)
(***************************************************************************)
Asked(s) ==
  [NoRequest EXCEPT !.step = s, !.known = answered[Dub] # NoTitle, !.empty = (delivered = 0)]

\* The handler asks the run registry first.
AskWorkspace ==
  /\ request.step = "idle"
  /\ request' = [Asked("takes") EXCEPT !.running = Active, !.beside = Active]
  /\ UNCHANGED <<storeVars, ledgerVars, runVars, faults>>

ReadTakes ==
  /\ request.step = "takes"
  /\ request' = [request EXCEPT !.takes = delivered, !.step = "languages"]
  /\ UNCHANGED <<storeVars, ledgerVars, runVars, faults>>

ReadLanguages ==
  /\ request.step = "languages"
  /\ request' = [request EXCEPT !.languages = TakeLanguages(delivered) # {}, !.step = "commits"]
  /\ UNCHANGED <<storeVars, ledgerVars, runVars, faults>>

ReadCommits ==
  /\ request.step = "commits"
  /\ request' = [request EXCEPT !.commits = Commits(delivered), !.step = "record"]
  /\ UNCHANGED <<storeVars, ledgerVars, runVars, faults>>

ReadRecord ==
  /\ request.step = "record"
  /\ request' = [request EXCEPT !.stored = Readable(Dub),
                                !.step = IF Readable(Dub) THEN "target" ELSE "timeline"]
  /\ UNCHANGED <<storeVars, ledgerVars, runVars, faults>>

\* StoredTargetLanguage reads the record again: it may be unreadable by now.
ReadTarget ==
  /\ request.step = "target"
  /\ request' = [request EXCEPT !.named = Readable(Dub), !.step = "timeline"]
  /\ UNCHANGED <<storeVars, ledgerVars, runVars, faults>>

AnswerWorkspace ==
  /\ request.step = "timeline"
  /\ request' = [request EXCEPT
       !.word = WorkspaceWord(request.running, request.takes, request.languages,
                              request.commits, request.stored, request.named, delivered),
       !.step = "answered"]
  /\ UNCHANGED <<storeVars, ledgerVars, runVars, faults>>

(***************************************************************************)
(* The project index: the records first, then the grouped reads.           *)
(***************************************************************************)
AskIndex ==
  /\ request.step = "idle"
  /\ request' = IF Readable(Dub)
                THEN [Asked("index takes") EXCEPT !.stored = TRUE, !.beside = Active]
                ELSE [Asked("answered") EXCEPT !.word = "not listed"]
  /\ UNCHANGED <<storeVars, ledgerVars, runVars, faults>>

ReadIndexTakes ==
  /\ request.step = "index takes"
  /\ request' = [request EXCEPT !.takes = delivered, !.step = "index counts"]
  /\ UNCHANGED <<storeVars, ledgerVars, runVars, faults>>

AnswerIndex ==
  /\ request.step = "index counts"
  /\ request' = [request EXCEPT !.word = IndexWord(request.takes, delivered),
                                !.step = "answered"]
  /\ UNCHANGED <<storeVars, ledgerVars, runVars, faults>>

\* The answer is sent, or a read failed and the request ends without one.
EndRequest ==
  /\ request.step # "idle"
  /\ request' = NoRequest
  /\ UNCHANGED <<storeVars, ledgerVars, runVars, faults>>

-----------------------------------------------------------------------------
\* The process dies with every request and run in progress.
Crash ==
  /\ Fault
  /\ StoreDies
  /\ run' = [r \in Runs |-> IF run[r] \in {"idle", "done"} THEN run[r] ELSE "failed"]
  /\ request' = NoRequest
  /\ UNCHANGED <<ledgerVars, language, found, place>>

Store ==
  /\ StoreStep
  /\ UNCHANGED <<ledgerVars, runVars, request, faults>>

Read ==
  \/ AskWorkspace \/ ReadTakes \/ ReadLanguages \/ ReadCommits
  \/ ReadRecord \/ ReadTarget \/ AnswerWorkspace
  \/ AskIndex \/ ReadIndexTakes \/ AnswerIndex
  \/ EndRequest

Next ==
  \/ Store
  \/ \E r \in Runs : RunStart(r) \/ RunFlush(r) \/ RunWrite(r) \/ RunSkips(r)
                      \/ RunEnds(r) \/ RunFails(r)
  \/ Reconcile
  \/ Read
  \/ Crash

Spec == Init /\ [][Next]_vars

-----------------------------------------------------------------------------
(***************************************************************************)
(* Properties.                                                             *)
(***************************************************************************)
Timeline(lang) == Segments(Commits(delivered), delivered, lang)

\* What the takes a request read show: every language the answer lists is
\* dubbed, with a take that fits for each line of its timeline.
ShowsEveryLine ==
  \A lang \in Tracks(request.takes, request.named) :
    /\ lang \in TakeLanguages(request.takes)
    /\ \A line \in Timeline(lang) :
         \E i \in TakesOf(request.takes, lang, line) : journal[i].fits

Ready == request.step = "answered" /\ request.word = "ready"

\* The rows of a run stay behind although the run failed.
HalfRecorded == \E r \in Runs : run[r] = "failed" /\ place[r] > 0

\* The rule multiplies the lines of the first track by the number of tracks, as
\* if the runs into other languages had found as many.
FirstIsLongest ==
  \A lang \in Tracks(request.takes, request.named) :
    Cardinality(Timeline(lang)) <= Cardinality(Timeline(FirstTrack(request.takes)))

\* The workspace and the index call a project ready only when they read, for
\* every language they list, a fitting take of each line of its timeline,
\* whatever arrived between their reads (workspace.go:246-251, wire.go:20-21),
\* unless a run failed half way through its rows or worked meanwhile, or a
\* language has more lines than the first.
ReadyIsWhole ==
  (Ready /\ ~ request.beside /\ ~ HalfRecorded /\ FirstIsLongest) => ShowsEveryLine

\* A project that was there when the request began is answered "not found" or
\* left out of the index only if a rename of it writes the record or has ended,
\* and "not found" only if nothing of it had reached the ledger: the ledger
\* vouches for a project whose record is lost (workspace.go:104-106).
NotFoundMeansNothing ==
  (request.step = "answered" /\ request.word \in {"not found", "not listed"}) =>
    /\ request.word = "not found" => request.empty
    /\ request.known =>
         \E r \in Renames : about[r] = Dub /\ step[r] \in {"opened", "done", "failed"}
=============================================================================
