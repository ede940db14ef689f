# A TLA+ model of Ajilamu

Ajilamu dubs videos: it cuts a film into dialogue lines, translates and
synthesizes each line, measures the take against the slot of the line, repairs
or rewrites it, and lays the takes over the film. Every take, edit and charge
is a row of an append-only ledger in ClickHouse. These modules model the parts
of the Go server, and of the pages that edit through it, where order, failure
and concurrency decide whether that ledger, the files it names and the film
that comes out can be trusted.

## Inventory

| Component | Source | State | Operations | What makes it correct | Modules |
|---|---|---|---|---|---|
| Durable ledger queue | `internal/ledger/queue.go`, `client.go` | files in one directory; requests on the wire | `Enqueue`, `Flush`, the reconciler | no promised row is lost; ClickHouse never holds a row without every earlier promised row; every row arrives in the end | `LedgerDelivery`, `LedgerQueue`, `LedgerQueueProofs` |
| Commit history writers | `internal/api/mutations.go`, `rerender.go`, `cmd/ajilamu/main.go`, `internal/ledger/commits.go`, `history.go` | rows of ClickHouse and of the queue, one lock per dub | edit, re-render, run; flush, read head, append, write rows | the commits are a chain; success means stored; no writer undoes another's work; the lock is always released | `CommitWriters`, `CommitWritersProofs` |
| Runs and event streams | `internal/api/run.go`, `events.go`, `server.go` | registry, one `dubRun` per dub, subscriber channels | start, emit, finish, subscribe, cancel, shutdown | one active run; each stream ends with the terminal frame; success only after the rows; a clean shutdown | `RunEvents`, `RunEventsProofs` |
| Take files and resume record | `internal/fit/loop.go`, `rewrite.go`, `stretch.go`, `internal/tts/chirp.go` | WAV files and one record per line | resume, clean up, render, stretch, record | finished work is kept; a run is never blocked by leftovers; rows name playable takes | `TakeFiles`, `RenderProofs` |
| Fit arithmetic | `internal/fit/stretch.go`, `rewrite.go` | attempts of one line | dead band, stretch plan, landing check, choice of the nearest take | a line nobody has to look at is heard to its end | `Repair`, `DubTrack`, `RenderProofs` |
| Charges | `internal/cost`, `ledger/takes.go`, `ledger/charges.go`, `main.go` | recorders, charge rows and their key | bill, attribute, record | no call counts twice; a finished run and an answered turn count every call | `Charges`, `ChargesProofs` |
| Commit identity gate | `internal/ledger/commits.go` | one lock object per identity in use, queue, ClickHouse | lock, check the queue, ClickHouse and the parent, append | a commit a reader has seen never changes | `CommitHistory`, `CommitHistoryProofs` |
| Timeline replay | `ledger/history.go`, `sql/schema.sql` | none | `RecordSegmentState`, `ReplayAt`, `timeline_at_commit` | the replay and the view give one answer, whatever prefix has arrived and whatever ties | `CommitHistory`, `CommitHistoryProofs` |
| Retries | `internal/fit/retry.go` | count of calls | backoff, giving up | a run ends; a line given up is flagged | `DubTrack`, `RenderProofs` |
| Command bar | `internal/command/parse.go`, `internal/api/command.go` | none | validate, apply, preview | a command does what its sentence says and makes no overlap | `TimelineEdits`, `TimelineEditsProofs` |
| Assembly | `internal/assemble`, `main.go` | clips, placement events | place, bed, duck, export | voices meet in crossfades alone; only lines that start together stop the mix; missing lines are flagged | `Placement`, `DubTrack`, `RenderProofs` |
| Upload, project record, index | `internal/api/upload.go`, `sample.go`, `index.go`, `ledger/index.go` | directories, one record each | upload, sample, rename, list | a shown project has its parts and an accepted name; what was answered stays | `ProjectStore`, `Workspace`, `WorkspaceProofs` |
| Workspace readiness | `internal/api/workspace.go`, `ledger/workspace.go` | none | five reads, one word | "ready" means a fitting take of every line of every language; "not found" means nothing is there | `Workspace`, `WorkspaceProofs` |
| Editor agent | `internal/agent`, `internal/api/agent.go` | charges of one turn | ask | an answered turn has a row for each call | `Charges`, `ChargesProofs` |
| Settings | `internal/config` | one file | save, presence | not modelled: one file replaced as a whole under a mutex, with both syncs | - |
| Web workspace | `web/src/routes/d/[id]/+page.svelte`, `web/src/lib/edit`, `LanguageStrip.svelte` | track and lines shown, handles, preview, edits awaited | drag, preview, confirm, answers, switch of the language | no silent overlap; the page shows what it saved | `TimelineEdits`, `TimelineEditsProofs` |
| Clients, probing, queries, wire types, deployment | `internal/gemini`, `internal/tts`, `internal/media`, `internal/fixtures`, `deploy` | - | calls, formatting | not modelled: external services, pure input and output, data | - |

How they meet: a run goroutine (`RunEvents`) drives the pipeline, which works on
the take files (`TakeFiles`) and then records the result (`CommitWriters`); edits
and re-renders record the same way; every row goes through the queue
(`LedgerQueue`), which promises `LedgerDelivery`, the only fact `CommitWriters`
uses of it: rows reach ClickHouse in the order they were enqueued. `DubTrack`
uses `Repair` and `Placement` for what one run makes of the lines of a film,
and `TimelineEdits` is what pages and the edit route make of them afterwards;
its server step is the edit whose lock and rows `CommitWriters` has.
`CommitHistory` is the client below the writers, for callers less careful than
they are. `Workspace` composes the project's directories (`ProjectStore`) with
the rows of its runs and the readers who put both together.

What is hard: a process or power failure between a rename and its directory
sync; a request applied after its sender gave up; readers of ClickHouse while
rows are still queued; two writers of one dub; a render of minutes between a
read and the write it leads to; leftovers of an interrupted run;
billed calls of lines, attempts and turns that fail; a slow event
reader at the end of a run; a request in progress during shutdown; two
constants of different packages that have to agree; pages that edit what they
no longer see; an answer assembled from several reads while a run adds rows; a
record rewritten in place while it is read; a lock made on demand and removed
while others wait for it.
`PROJECT.json` lists each hazard at its line.

## Modules

`LedgerDelivery` is the contract of the queue: rows are written, some are
promised (their `Enqueue` returned nil), and ClickHouse receives rows together
with every earlier promised one.

`LedgerQueue` is `queue.go` and `client.go`. The directory is a function from
file numbers to rows (`files`) with a second function (`images`) of what a
power failure may leave under each name since the last directory sync. One
mutex covers each call, so the state holds one call in progress (`phase`,
`todo`, `batch`). `wire` holds the requests that ClickHouse may still apply: a
sender that gives up leaves its request there. `Crash` keeps `files`,
`PowerFailure` picks from `images`.

`CommitWriters` has one writer per request, each at a step (`pc`) of its
handler, the dub lock, and `journal`, the queue with everything it ever held;
`delivered` rows of it are in ClickHouse, and all reads see those alone. A
timeline row says for the slot and for the take which commit set it, so that a
copy of something old is visible. The take row stands for the take and its
charge rows, which `RecordTake` enqueues together. A commit identifier is the
writer's own: the code mints a random one per request.

`RunEvents` has the registry's run, the step of each run goroutine, the
channels of the readers (a bounded sequence and a closed flag), the handlers of
event streams and cancels, and the steps of the shutdown. What happens under
`run.mu` is one step; what the code does outside it (the look-up before the
subscription, the mark before the cancel) is a step of its own.

`TakeFiles` has the files of one line, its resume record, the ledger rows that
name them, one pipeline run and one re-render. A take is an identity, new for
every file written, with the verdict of measuring it. The slot is the line as
the segmenter returns it, which may differ from run to run.

`Charges` has, for each run, re-render and agent turn of a dub, the calls it was
billed for, the step of its pipeline (`job`) and the keys of `charges_raw`, so
that two rows with one key are one row. All calls of a kind cost the same: only
then do the other columns of the key have to keep them apart, and two attempts
that speak one text do cost the same. Retries of a busy service bill nothing and
are one outcome, `StayBusy`.

`Repair` and `Placement` are the arithmetic of `stretch.go` and `place.go` as
operators over integers. A budget is a percentage of the slot and compared
without division; a length is a number of units, since the frames of `place.go`
are a rounding of milliseconds that keeps their order.

`DubTrack` runs a segmentation through them. The synthesizer may make a take of
any length (`Misses` around the slot) with silence at its end (`Tails`); a
stretch may land anywhere. A service may be busy in any call. `placed` is the
list of clips on the bed with what `Place` decides for each; the sorted list of the
code is the order in which `First` takes the clips that wait. Everything else that can
stop a run is one action, `RunFails`. Its names differ from those of `TakeFiles`
(`TrackInit`, `TrackNext`, `work`), as one proof module is about both.

`TimelineEdits` has the rows at the head of a dub (`head`: the lines of the
track of each language, which need not have the same lines), and for each page
the rows it was told of (`view`), the language it shows (`active`), its boundary
handles (`edited`), its command preview and the edits it waits for. A creator
switches the language at any time (`Switch`); an edit names the language shown
when it is sent, and its answer is drawn on the one shown when it arrives
(`Receive`). The server validates and saves in one step, under
the dub lock. Amounts wrap around at `MaxInt`, as `int64` does, and a request with
a larger number is refused (`Decoded`). A command is its
parsed form; the text of a name is a string and "begins with" is a relation.
`unseen` is history: which rows a page was not told of, or shows the state of
another track in.

`ProjectStore` is the upload volume. A request stages its files in a directory
that readers skip and moves it into place; a rename truncates the record and
writes it again (`os.WriteFile`). Of a record only the title changes, so a file
is the title its last write put at its start and a size; it parses only if the
size is that of the title, since two renames at once may leave the tail of the
longer one. A failed call or a crash leaves what was written so far. A rename
is answered in the step that writes its record (`WriteRecord`), so "last
answered" means last written. The store
has no power failure: nothing of it is ever synced, so after one no state of the
volume is excluded and nothing could be stated.

`Workspace` EXTENDS it with one project's runs, the journal of their rows
(commits, takes, timeline rows, in the order `persist` writes them), how much of
it ClickHouse has, and one request for the workspace or the index, which makes
its reads one at a time. Every run finds the lines of the film anew (`found`),
so two languages, or two runs into one language, need not have the same lines.
That rows arrive in order is the contract
`LedgerDelivery`; that commits form a chain is `Chain` of `CommitWriters`.

`CommitHistory` is `AppendCommit` step by step: find or create the lock object
of the identity, wait for it, look in the queue, in ClickHouse and for the
parent, enqueue, flush, unlock, count down and remove the object. Beside it
snapshots are recorded, and rows arrive (and may be applied again, when the
answer was lost). The view and the replay are two operators over what has
arrived: the one goes level by level, as the recursive query does, the other
parent by parent. `Ancestry` of `CommitWriters` reads the same query as the least
set of commits it is, since there every history is a chain.

Operators marked `Faulty` are not part of the specifications: each is a
plausible mistake in the definition below it, and the property named with it in
`PROJECT.json` fails when it takes that definition's place.

## Runs

| Run | Shows | Bounds |
|---|---|---|
| `ledger_queue` | `NoPromisedRowLost` under crashes, power failures, lost answers and late requests; `EveryPromisedRowArrives` and `ImplementsDelivery`, the refinement of `LedgerDelivery`, which forbids overtaking, with one table refused for ever | 4 rows of 2 tables, batches of 2: a batch ends by size, by table and by the end of the queue; numbers restart; 2 faults |
| `commit_writers` | `Chain`, `SuccessIsStored` with failing calls at every place and a crash; `EditsKeepEveryCommit` when none fails; `EveryWriterEnds` | one edit, one re-render, two runs (so that a run may undo an edit, and an edit a run), one line, two faults |
| `run_events` | `OneActiveRun`, `StreamsAreComplete`, `DoneMeansPersisted`, `CleanShutdown`; `EveryRunEnds` although no reader reads, `EveryReaderIsTold` if the reader reads | two runs, one reader with room for one frame (so that frames are dropped), one cancel |
| `take_files` | `RecordedTakeIntact`, `SoundTakesNeverBlock` for every interruption and resegmentation; `RunRowsArePlayable` even with a file damaged by a power failure | two attempts, two segmentations, five files written, one damaged |
| `charges` | `NothingCountsTwice`, `RunCountsEveryCall`, `AnsweredTurnCounts` with failures anywhere | one run, one re-render, one agent turn; two lines, two attempts, two calls of the turn |
| `dub_track` | `UnflaggedLinesAreHeard`, `MissingLinesAreFlagged`, `VoicesCrossfade`, `OnlyTwinsCollide`, `RunEnds` | three lines in six segmentations (touching, overlapping, unordered, starting together, past the bed or the film, before it); 1 unit = 20 ms, so the band and the fade are 2; two attempts, two calls |
| `timeline_edits` | `NoSilentOverlap`, `CommandsDoWhatTheySay`, `ShowsWhatItSaved` with stale views, lost and late answers | two pages, two languages with two lines and one, two edits, four commands (one wraps around, one names no line, names that begin alike), one target of a drag; 1 unit = 50 ms; previews and switches that no edit can follow are left out |
| `workspace` | `ShownProjectsAreWhole`, `AnsweredNameIsShown`, `NotFoundMeansNothing` and `ReadyIsWhole` while a project is uploaded, renamed and dubbed and a reader assembles its answer | one project, two renames to titles shorter and longer than the first (so that one write may leave a tail of another), two runs in two languages or twice in one, each of which finds the first line or both, one request, one fault; beside a run, a fault meets at most one rename, and the second run comes where nothing failed, nobody renamed and at most one take does not fit (`Bounded`) |
| `commit_history` | `AppendOnly`, `ReplayIsTheView` | three callers (two race, one waits), three identities, five possible appends among them two contents of one identity and a refused row, two snapshots with tied versions, one fault |

The bounds reach every branch: each needs at most two requests, one fault and
one restart to go wrong; a clip is placed by its own length, the clip before it
and the start of the one after it, so three lines show every neighbourhood; an
edit goes wrong with one other edit; a gate goes wrong with a holder, a waiter
and a newcomer. "Ready" is reached with two languages of two lines each. The pages of
`timeline_edits`, the runs of `workspace` and the callers of `commit_history`
are symmetric; no run with a liveness property uses symmetry. Deadlock checking is off where every request has
ended or the server has stopped.

Three runs show a disagreement between the code and its own words. Their traces
are short and worth reading beside the code.

- `stale_rerender`: a re-render writes back the boundaries and speaker it read
  before it rendered, so it undoes an edit made meanwhile (`mutations.go:56`,
  "the head timeline keeps every commit").
- `ledger_takes`: the cleanup removes takes that ledger rows name, and later
  renders reuse the names (`loop.go:1180`).
- `discarded_charges`: every call of a re-render gets the attempt of its take,
  so two attempts that speak one text count once (`takes.go:36`, "A call from a
  discarded attempt keeps its own attempt").

Further disagreements met while modelling, each by reading the code beside its
words; no run is spent on them:

- A run whose rows stop after its first take leaves a project with one take and
  no timeline, which `Readiness` calls "ready" (`api/wire.go:20`, "means the dub
  is finished and playable"). `ReadyIsWhole` leaves such runs out.
- `workspaceReadiness` and `indexReadinessFacts` multiply the lines of the first
  track by the number of tracks, but each run segments the film anew
  (`main.go:653`). Where another language has more lines than the first, its
  extra takes make up for missing ones: first two lines, then three of which one
  was given up, and the answer is "ready" although `workspace.go:249-251` says
  "Every line fitting and every segment covered means ready". Where another has
  fewer lines, the project is never "ready". `ReadyIsWhole` is about projects
  whose first track is longest (`FirstIsLongest`).
- `patchActiveSegment` draws an answer on the track of the language shown when
  it arrives. After a switch between the edit and its answer the page shows on
  one track what was saved to another, although `+page.svelte:172-174` says "a
  two-language dub cannot show one track and save another".
  `ShowsWhatItSaved` leaves out both rows (`unseen`) until the page is loaded
  again.
- The index never says "running", although `api/index.go:40-41` says that both
  routes name a project with one word.
- A rename that fails after the truncation answers "nothing was saved"
  (`upload.go:379`) but the record is gone; two renames at once may leave one
  that does not parse. `AnsweredNameIsShown` is about records that neither met.
- A record outlives the damaged take it names (`loop.go:377`): an abandoned
  render of that path is then resumed and collides with its own leftovers.
  `SoundTakesNeverBlock` is about files that were never damaged.
- The preview of a command checks the timeline against the one film length the
  pages send for every film (`command.go:68`, `fixture.ts:98`), so in a longer
  film it refuses every command.

Some limits of the passing properties come from the code, and their
definitions name them. `EditsKeepEveryCommit` is about histories without a
failed call: `EditsHandler` derives the edited row from ClickHouse before
`RecordEdit` flushes the queue (`mutations.go:235`), so a commit that a failed
request left in the queue becomes the parent of an edit that undoes what it
set. `RunCountsEveryCall` and `AnsweredTurnCounts` are about success: a cancelled
run, a line given up as busy and a failed turn leave billed calls without rows.
`CleanShutdown` is about a drain that ended: a run registered by a request that
was in progress when `Shutdown` cancelled the runs is cancelled by nobody, and
its streams hold the drain until the deadline (`server.go:244`).
`UnflaggedLinesAreHeard` is about lines whose slot no other line enters and after
which the bed has room for the dead band: elsewhere `place.go` cuts a take that
fits, and records it. `VoicesCrossfade` is about starts further apart than the fade.
`CommandsDoWhatTheySay` is about names given in full: the beginning of a name may
have come to mean another speaker than the preview said. `ShowsWhatItSaved`
leaves out the rows of `unseen`: a page learns of edits of other pages, and of
its own whose answers were lost, overtook each other or came after a switch of
the language, only when it is loaded again. `OnlyTwinsCollide` says of a failed
placement that two lines start together or one starts before the film.

## Fairness

`LedgerQueue`: the reconciler calls `Flush` every second, a call takes its next
step, the HTTP client gives up after 30 s; ClickHouse applies and answers a
request that is sent again and again. The last is strong fairness: nothing can
arrive at a database that is down for ever. `CommitWriters`: a handler takes
its next step. Weak fairness is enough for the lock: each of finitely many
requests takes it once. `RunEvents`: goroutines
take their next step, and the pipeline and the recorder return (their calls
have timeouts). No reader has to read for `EveryRunEnds`;
`EveryReaderIsTold` has the fairness of its reader as a hypothesis. `DubTrack`:
the one goroutine of the run takes its next step, so each of its calls returns.
The clients bound their requests; a call that is given the run's own context
has no deadline of its own, and a service that keeps one open for ever would
keep the run. `TakeFiles`, `Charges`, `TimelineEdits`, `Workspace` and
`CommitHistory` state no liveness: a request ends with its client, and a caller
of the gate waits on nothing that waits on it.

## Proofs

TLAPS proves these for every value of the constants that satisfies the named
assumptions: a batch holds at least one row, the kinds of writers and requests
are disjoint, a film has at least one line, a run finds at least one, a repair has at least one attempt
and the numbers reach that far, every title has a positive length, snapshots of
one commit are one, the dead band of the repair is no wider than the fade of the
mix (both are 40 ms), bounds are natural numbers. Each proof module states its invariant as a conjunction of
named parts; the lemmas are one per step of the program.

- `LedgerQueueProofs`: `TypeOK`, `NoPromisedRowLost`, and that `LedgerQueue`
  implements `LedgerDelivery`. That rows do not overtake each other is not
  inductive: a request may be applied long after it was sent, and a file may
  come back after it was removed. The invariant adds that every unstored
  promised row lies below every name that may hold a later row (`FileOrder`),
  that every request on the wire carries or follows each earlier promised row
  (`WireOrder`), and what the call in progress knows about its batch; all three
  are theorems too. The heart is the lemma that a batch is closed downward among
  the entries of the directory, whatever its size and tables.
- `CommitWritersProofs`: `TypeOK`, `Chain`, `SuccessIsStored`,
  `EditsKeepEveryCommit`. `Chain` needs that
  a writer about to append holds the lock, that since its flush every commit of
  the journal is delivered, and that the head it read is the last commit with
  its version one below its own. `SuccessIsStored` needs where a writer's commit
  and the rows written so far are (`Recorded`): in the journal while it writes,
  within the delivered part once it answered. `EditsKeepEveryCommit` needs the
  whole history: each row of a line that follows a commit carries the last slot an
  edit set and the last take a run chose before it (`Copies`), and what a writer
  read under the lock is what the head still has when it writes (`Snapshots`).
  That the newest row of a line is among the ancestors of the head is an
  induction along the chain, over a set of commits instead of a recursion.
- `RunEventsProofs`: `TypeOK`, `OneActiveRun`, `StreamsAreComplete`,
  `DoneMeansPersisted`, `CleanShutdown`. The invariant ties each channel to its
  run: who is subscribed streams a run that is not over, a closed channel belongs
  to one that is; frames are numbered upward through what was written and what
  waits, and the terminal frame is the last number. Frames may be dropped at any
  point, so completeness is about the last frame, not about all of them.
  `CleanShutdown` needs that after the drain no request is left that was admitted
  and has not registered its run.
- `RenderProofs`, of `TakeFiles`: `TypeOK`, `RecordedTakeIntact`, `SoundTakesNeverBlock`,
  `RunRowsArePlayable`. The first two hold of files that no power failure
  touched. They rest on each other: the record is sound (`SoundRecord`), what is
  about to be removed is not its take (`Spared`), the tries of the repair are
  sound (`SoundTries`, or the one chosen last might not be), and all paths of
  the attempts still to come are free (`Free`), which needs that attempts stay
  within the window that was checked (`Counted`) and that nobody else renders
  meanwhile (`Locked`). `RunRowsArePlayable` holds with damaged files as well:
  the files are opened before the runner is released (`Playable`), and what a
  re-render removes afterwards it made itself, on a path where no file was.
- `RenderProofs`, of `DubTrack`: `TrackTypeOK`, `UnflaggedLinesAreHeard`,
  `MissingLinesAreFlagged`, `VoicesCrossfade`, `OnlyTwinsCollide`. The invariant
  says that a finished line is flagged or has a take that is hardly longer than
  its slot (`Fitting`), that the mix starts with every take and loses none but
  flagged ones (`Mixing`), and of each clip that is laid how much of it is kept up
  to the start of the next one, laid or waiting (`Placing`, `Laid`). Two lemmas
  carry it: `Kept`, the arithmetic of `decidePolicy` and `clampKeep` for all
  lengths, and `FirstLine`, that clips by start and then by name have a first one.
  `Spaced` enters once, to show that a clip ends before the one after the next
  starts.
- `WorkspaceProofs`: the store's invariant is proved of
  the store alone; `WorkspaceRunsStore` proves that every behaviour of the
  composed program is a behaviour of the store (each step is a step of the store
  or leaves it as it is), so `ShownProjectsAreWhole` and `AnsweredNameIsShown`
  carry over. The invariant says what each request at its step has left on disk,
  and that a record written by one rename at a time is empty while it is written
  and the answered one otherwise. `NotFoundMeansNothing` adds what a request
  under way has seen (`Asking`): that a ledger which held a row when it began
  shows a commit at its read, since the commit is a run's first row and rows
  arrive in order. `ReadyIsWhole` counts: a run that ended well has left a
  snapshot of every line it found at its commit (`Written`), so where nobody is
  at work and no run is half recorded every take is of a line of its language's
  timeline (`TakesAreCounted`), and no row arrives any more (`Queued`). If no
  timeline is longer than the first, the lines with a take are at most as many
  as the rule asks for, and as many only if no language and no line is without
  one (`Counting`, by numbering the lines of each timeline; `ReadyShows`).
- `ChargesProofs`: `TypeOK`, `NothingCountsTwice`, `RunCountsEveryCall`,
  `AnsweredTurnCounts`. The rows of a request are a function of its calls and its
  takes: `RowFor` is the row that pays for a call, every row is one of these, so
  there are no more rows than calls. For a run and a turn no two calls have one
  row: the attempt in the key keeps the calls of a line apart, and the
  segmentation is the only call without one. That no call is left out needs that
  each call belongs to a take or to the line being rendered (`CoveredBy`). A
  re-render has only the first half, since its row drops the attempt of the call:
  that is the divergence `discarded_charges` shows.
- `CommitHistoryProofs`: `TypeOK`, that one caller of an identity is past the
  gate, `AppendOnly`, and `ReplayIsTheView`. The gate's invariant: who uses a lock object is counted
  in it and finds it in the registry, so the object is not removed while anyone
  waits for it, and two users of one identity use one object. What a caller past
  the gate looked up in the queue stays true until it appends, because an
  identity leaves the queue only for ClickHouse and enters it only here. For
  `ReplayIsTheView` the parent that was looked up stays as well, so that at any
  moment a commit is of a higher version than its parent and no two have one
  identity (`Lineage`). On such a history the level of the query has one row, the
  one the walk is at (`WalkFollowsLevels`), and a row of level k has k rows above
  it, so the levels end (`TheViewEnds`). The replay keeps the one snapshot that
  none in the ancestry outranks (`ReplayKeepsTheNewest`). What a recursive function
  computes at each number is shown from the least number where it would not
  (`UpTo`), and that it exists at all in `Recursion`.
- `TimelineEditsProofs`: `TypeOK`, `NoSilentOverlap`, `CommandsDoWhatTheySay`,
  `ShowsWhatItSaved`. `TypeOK` is inductive: it says that lines fit in an `int64` and
  have a positive length, which the edit route must keep although boundaries wrap
  around. For `CommandsDoWhatTheySay` (`ValidatedDoes`): the sum of two numbers that
  fit either fits or wraps to a negative one (`WrapOver`), which `Inside` refuses for
  each kind of command, so what is saved never wrapped. For `NoSilentOverlap` one lemma says
  that two lines overlap no more than before when one of them is saved without a
  kept overlap. For `ShowsWhatItSaved` the invariant `Informed` says of each row a
  page knows that every answer on its way carries the head, and that without one
  the page shows it.

Only model-checked: every liveness property, which is out of this prover's reach.
Every other property of a passing run is a theorem. The three divergences are counterexamples and need no proof.

## What is not modelled

- The clients of Gemini, Chirp and the translator, ffmpeg and ffprobe: outside
  the program. What they may answer (any length, busy, failed, late) is a choice
  in the models that use them.
- Samples, filters and levels of the mix: a placed clip has a start, a length and
  fades, and what ffmpeg makes of them is not for a model checker.
- Read-only routes and queries (`ledger/priors.go`, `api/history.go`,
  `api/takes.go`, `CompareBranches`): they keep no state, and the ones that
  combine several reads are in `Workspace`.
- Prices and sums, wording, languages, fixtures, static files, configuration and
  deployment: data, formatting and scripts.
- The parsing of commands: `TimelineEdits` starts from the parsed form.
- Several dubs at once: they share the queue, which `LedgerQueue` has for rows of
  any origin, and the runner mutex, which only delays.
- Reconnection of an event stream at the page (`web/src/lib/progress.ts`): a
  reconnection is a further reader of `RunEvents`; its back-off and the numbers the
  page carries over are left out.

## What comes next

1. Costs of a branch (`CompareBranches`) on top of `CommitHistory` and `Charges`.
2. The settings file, if it gains a second writer.
