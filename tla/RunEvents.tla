----------------------------- MODULE RunEvents -----------------------------
(***************************************************************************)
(* The runs of one dub and their event streams (internal/api/run.go,       *)
(* events.go), with the cancel route and the server shutdown (server.go).  *)
(*                                                                         *)
(* A run is a goroutine that renders, persists and reports one terminal    *)
(* event. Its events go to a bounded channel per connected reader; a full  *)
(* channel drops the event, so a slow reader never holds the run up. run.mu*)
(* makes emit, finish, subscribe, unsubscribe and markCancelling atomic.   *)
(***************************************************************************)
EXTENDS Naturals, Sequences

CONSTANTS Runs,        \* the runs started, each by one request
          Readers,     \* event stream requests
          Cancels,     \* cancel requests
          NoRun,       \* no run
          MaxEvents,   \* bound on the events a pipeline emits
          Buffer       \* frames a reader's channel holds (64 in the code)

ASSUME NoRunAssumption == NoRun \notin Runs
ASSUME SizesAssumption == MaxEvents \in Nat /\ Buffer \in Nat \ {0}

VARIABLES registered,  \* the run the registry holds for the dub, or NoRun
          status,      \* run -> its status
          step,        \* run -> the step of its goroutine
          cancelled,   \* runs whose context is cancelled
          emitted,     \* run -> events its pipeline has emitted
          persisted,   \* runs whose rows are recorded
          nextID,      \* run -> number of its last frame
          terminal,    \* run -> its terminal frame, or NoFrame
          subs,        \* run -> readers it offers frames to
          frames,      \* reader -> frames in its channel
          closed,      \* readers whose channel is closed
          stream,      \* reader -> [at, run]: the step of its handler
          wrote,       \* reader -> frames written to the client
          cancel,      \* cancel request -> [at, run]
          server       \* the step of the server's life

runVars == <<registered, status, step, cancelled, emitted, persisted, nextID, terminal>>
readerVars == <<subs, frames, closed, stream, wrote>>
vars == <<runVars, readerVars, cancel, server>>

NoFrame == [id |-> 0, kind |-> "none"]
Kinds == {"progress", "done", "error"}
Frame == [id : Nat, kind : Kinds]

TypeOK ==
  /\ registered \in Runs \union {NoRun}
  /\ status \in [Runs -> {"none", "running", "cancelling", "finished"}]
  /\ step \in [Runs -> {"none", "admitted", "pipeline", "persist", "report", "fail", "over"}]
  /\ cancelled \subseteq Runs
  /\ emitted \in [Runs -> 0 .. MaxEvents]
  /\ persisted \subseteq Runs
  /\ nextID \in [Runs -> Nat]
  /\ terminal \in [Runs -> Frame \union {NoFrame}]
  /\ subs \in [Runs -> SUBSET Readers]
  /\ frames \in [Readers -> Seq(Frame)] /\ \A s \in Readers : Len(frames[s]) <= Buffer
  /\ closed \subseteq Readers
  /\ stream \in [Readers -> [at : {"idle", "found", "streaming", "last", "ended", "gone"},
                             run : Runs \union {NoRun}]]
  /\ wrote \in [Readers -> Seq(Frame)]
  /\ cancel \in [Cancels -> [at : {"idle", "found", "marked", "accepted", "refused"},
                             run : Runs \union {NoRun}]]
  /\ server \in {"serving", "cancelling", "draining", "waiting", "stopped", "expired"}

Active(r) == status[r] \in {"running", "cancelling"}
Busy == registered # NoRun /\ Active(registered)

-----------------------------------------------------------------------------
(***************************************************************************)
(* Offering a frame to every subscriber: a full channel drops it.          *)
(***************************************************************************)
\* Faulty: a channel without a bound.
OfferAlways(r, frame) ==
  frames' = [s \in Readers |->
               IF s \in subs[r] THEN Append(frames[s], frame) ELSE frames[s]]

Offer(r, frame) ==
  frames' = [s \in Readers |->
               IF s \in subs[r] /\ Len(frames[s]) < Buffer
               THEN Append(frames[s], frame)
               ELSE frames[s]]

\* Faulty: waits for room in every channel.
FinishBlocking(r, kind) ==
  LET frame == [id |-> nextID[r] + 1, kind |-> kind]
  IN  /\ \A s \in subs[r] : Len(frames[s]) < Buffer
      /\ status' = [status EXCEPT ![r] = "finished"]
      /\ nextID' = [nextID EXCEPT ![r] = @ + 1]
      /\ terminal' = [terminal EXCEPT ![r] = frame]
      /\ Offer(r, frame)
      /\ closed' = closed \union subs[r]
      /\ subs' = [subs EXCEPT ![r] = {}]
      /\ cancelled' = cancelled \union {r}

\* Faulty: forgets to close the channels.
FinishOpen(r, kind) ==
  LET frame == [id |-> nextID[r] + 1, kind |-> kind]
  IN  /\ status' = [status EXCEPT ![r] = "finished"]
      /\ nextID' = [nextID EXCEPT ![r] = @ + 1]
      /\ terminal' = [terminal EXCEPT ![r] = frame]
      /\ Offer(r, frame)
      /\ UNCHANGED closed
      /\ subs' = [subs EXCEPT ![r] = {}]
      /\ cancelled' = cancelled \union {r}

\* finish: store and offer the terminal frame, close every channel.
Finish(r, kind) ==
  LET frame == [id |-> nextID[r] + 1, kind |-> kind]
  IN  /\ status' = [status EXCEPT ![r] = "finished"]
      /\ nextID' = [nextID EXCEPT ![r] = @ + 1]
      /\ terminal' = [terminal EXCEPT ![r] = frame]
      /\ Offer(r, frame)
      /\ closed' = closed \union subs[r]
      /\ subs' = [subs EXCEPT ![r] = {}]
      /\ cancelled' = cancelled \union {r}

GoRun(r, s) == step' = [step EXCEPT ![r] = s]

-----------------------------------------------------------------------------
Init ==
  /\ registered = NoRun
  /\ status = [r \in Runs |-> "none"]
  /\ step = [r \in Runs |-> "none"]
  /\ cancelled = {}
  /\ emitted = [r \in Runs |-> 0]
  /\ persisted = {}
  /\ nextID = [r \in Runs |-> 0]
  /\ terminal = [r \in Runs |-> NoFrame]
  /\ subs = [r \in Runs |-> {}]
  /\ frames = [s \in Readers |-> <<>>]
  /\ closed = {}
  /\ stream = [s \in Readers |-> [at |-> "idle", run |-> NoRun]]
  /\ wrote = [s \in Readers |-> <<>>]
  /\ cancel = [c \in Cancels |-> [at |-> "idle", run |-> NoRun]]
  /\ server = "serving"

(***************************************************************************)
(* RunStartHandler: refuse an active dub, find the media, then register    *)
(* and launch. The registry checks again under its mutex.                  *)
(***************************************************************************)
Admit(r) ==
  /\ step[r] = "none"
  /\ server \in {"serving", "cancelling"}
  /\ ~ Busy
  /\ GoRun(r, "admitted")
  /\ UNCHANGED <<registered, status, cancelled, emitted, persisted, nextID, terminal,
                 readerVars, cancel, server>>

\* Faulty: trusts the first check.
StartUnchecked(r) ==
  /\ step[r] = "admitted"
  /\ registered' = r
  /\ status' = [status EXCEPT ![r] = "running"]
  /\ GoRun(r, "pipeline")
  /\ UNCHANGED <<cancelled, emitted, persisted, nextID, terminal, readerVars, cancel, server>>

Start(r) ==
  /\ step[r] = "admitted"
  /\ IF Busy
     THEN GoRun(r, "over") /\ UNCHANGED <<registered, status>>
     ELSE /\ registered' = r
          /\ status' = [status EXCEPT ![r] = "running"]
          /\ GoRun(r, "pipeline")
  /\ UNCHANGED <<cancelled, emitted, persisted, nextID, terminal, readerVars, cancel, server>>

(***************************************************************************)
(* execute: the pipeline emits events and returns, the recorder persists,  *)
(* and only then does the run report. Either may fail, cancelled or not.   *)
(***************************************************************************)
\* Faulty: forwards the pipeline's terminal event as it comes.
EmitTerminal(r) ==
  /\ step[r] = "pipeline"
  /\ emitted[r] < MaxEvents
  /\ emitted' = [emitted EXCEPT ![r] = @ + 1]
  /\ nextID' = [nextID EXCEPT ![r] = @ + 1]
  /\ \E kind \in Kinds : Offer(r, [id |-> nextID[r] + 1, kind |-> kind])
  /\ UNCHANGED <<registered, status, step, cancelled, persisted, terminal,
                 subs, closed, stream, wrote, cancel, server>>

\* emit: a terminal event of the pipeline is kept back (it only words the
\* frame that finish makes), every other event is numbered and offered.
Emit(r) ==
  /\ step[r] = "pipeline"
  /\ emitted[r] < MaxEvents
  /\ emitted' = [emitted EXCEPT ![r] = @ + 1]
  /\ \/ /\ nextID' = [nextID EXCEPT ![r] = @ + 1]
        /\ Offer(r, [id |-> nextID[r] + 1, kind |-> "progress"])
     \/ UNCHANGED <<nextID, frames>>
  /\ UNCHANGED <<registered, status, step, cancelled, persisted, terminal,
                 subs, closed, stream, wrote, cancel, server>>

PipelineReturns(r) ==
  /\ step[r] = "pipeline"
  /\ GoRun(r, "persist") \/ GoRun(r, "fail")
  /\ UNCHANGED <<registered, status, cancelled, emitted, persisted, nextID, terminal,
                 readerVars, cancel, server>>

Persist(r) ==
  /\ step[r] = "persist"
  /\ \/ GoRun(r, "report") /\ persisted' = persisted \union {r}
     \/ GoRun(r, "fail") /\ UNCHANGED persisted
  /\ UNCHANGED <<registered, status, cancelled, emitted, nextID, terminal,
                 readerVars, cancel, server>>

Report(r) ==
  /\ step[r] \in {"report", "fail"}
  /\ Finish(r, IF step[r] = "report" THEN "done" ELSE "error")
  /\ GoRun(r, "over")
  /\ UNCHANGED <<registered, emitted, persisted, stream, wrote, cancel, server>>

(***************************************************************************)
(* EventsHandler: look the dub's run up, subscribe, copy frames.           *)
(***************************************************************************)
GoStream(s, at) == stream' = [stream EXCEPT ![s].at = at]

Lookup(s) ==
  /\ stream[s].at = "idle"
  /\ server \in {"serving", "cancelling"}
  /\ registered # NoRun
  /\ stream' = [stream EXCEPT ![s] = [at |-> "found", run |-> registered]]
  /\ UNCHANGED <<runVars, subs, frames, closed, wrote, cancel, server>>

\* subscribe: a running run queues one resume frame for this reader alone; a
\* finished run hands out its terminal frame.
Subscribe(s) ==
  LET r == stream[s].run
  IN  /\ stream[s].at = "found"
      /\ IF status[r] = "finished"
         THEN /\ wrote' = [wrote EXCEPT ![s] = <<terminal[r]>>]
              /\ GoStream(s, "ended")
              /\ UNCHANGED <<nextID, subs, frames>>
         ELSE /\ subs' = [subs EXCEPT ![r] = @ \union {s}]
              /\ nextID' = [nextID EXCEPT ![r] = @ + 1]
              /\ frames' = [frames EXCEPT ![s] = <<[id |-> nextID[r] + 1, kind |-> "progress"]>>]
              /\ GoStream(s, "streaming")
              /\ UNCHANGED wrote
  /\ UNCHANGED <<registered, status, step, cancelled, emitted, persisted, terminal,
                 closed, cancel, server>>

WriteFrame(s) ==
  /\ stream[s].at = "streaming"
  /\ frames[s] # <<>>
  /\ wrote' = [wrote EXCEPT ![s] = Append(@, Head(frames[s]))]
  /\ frames' = [frames EXCEPT ![s] = Tail(@)]
  /\ UNCHANGED <<runVars, subs, closed, stream, cancel, server>>

LastID(s) == IF wrote[s] = <<>> THEN 0 ELSE wrote[s][Len(wrote[s])].id

\* Faulty: a dropped terminal frame is never written.
StreamClosesSilently(s) ==
  /\ stream[s].at = "streaming"
  /\ frames[s] = <<>> /\ s \in closed
  /\ GoStream(s, "ended")
  /\ UNCHANGED <<runVars, subs, frames, closed, wrote, cancel, server>>

\* The channel is drained and closed: write the terminal frame a drop hid.
StreamCloses(s) ==
  LET last == terminal[stream[s].run]
  IN  /\ stream[s].at = "streaming"
      /\ frames[s] = <<>> /\ s \in closed
      /\ wrote' = IF last.id > LastID(s) THEN [wrote EXCEPT ![s] = Append(@, last)] ELSE wrote
      /\ GoStream(s, "ended")
  /\ UNCHANGED <<runVars, subs, frames, closed, cancel, server>>

Disconnect(s) ==
  /\ stream[s].at = "streaming"
  /\ GoStream(s, "gone")
  /\ subs' = [subs EXCEPT ![stream[s].run] = @ \ {s}]
  /\ UNCHANGED <<runVars, frames, closed, wrote, cancel, server>>

-----------------------------------------------------------------------------
(***************************************************************************)
(* cancelRun: look the run up, mark it under run.mu, cancel its context.   *)
(***************************************************************************)
GoCancel(c, at) == cancel' = [cancel EXCEPT ![c].at = at]

CancelLookup(c) ==
  /\ cancel[c].at = "idle"
  /\ server \in {"serving", "cancelling"}
  /\ registered # NoRun
  /\ cancel' = [cancel EXCEPT ![c] = [at |-> "found", run |-> registered]]
  /\ UNCHANGED <<runVars, readerVars, server>>

CancelMark(c) ==
  LET r == cancel[c].run
  IN  /\ cancel[c].at = "found"
      /\ IF Active(r)
         THEN status' = [status EXCEPT ![r] = "cancelling"] /\ GoCancel(c, "marked")
         ELSE GoCancel(c, "refused") /\ UNCHANGED status
  /\ UNCHANGED <<registered, step, cancelled, emitted, persisted, nextID, terminal,
                 readerVars, server>>

CancelContext(c) ==
  /\ cancel[c].at = "marked"
  /\ cancelled' = cancelled \union {cancel[c].run}
  /\ GoCancel(c, "accepted")
  /\ UNCHANGED <<registered, status, step, emitted, persisted, nextID, terminal,
                 readerVars, server>>

(***************************************************************************)
(* Shutdown: cancel every run the registry holds, stop accepting and wait  *)
(* for the requests in progress, wait for the run goroutines. Both waits   *)
(* end at one deadline.                                                    *)
(***************************************************************************)
ShutdownBegins ==
  /\ server = "serving"
  /\ server' = "cancelling"
  /\ UNCHANGED <<runVars, readerVars, cancel>>

CancelAll ==
  /\ server = "cancelling"
  /\ server' = "draining"
  /\ IF Busy
     THEN /\ status' = [status EXCEPT ![registered] = "cancelling"]
          /\ cancelled' = cancelled \union {registered}
     ELSE UNCHANGED <<status, cancelled>>
  /\ UNCHANGED <<registered, step, emitted, persisted, nextID, terminal, readerVars, cancel>>

RequestsInProgress ==
  \/ \E r \in Runs : step[r] = "admitted"
  \/ \E s \in Readers : stream[s].at \in {"found", "streaming"}
  \/ \E c \in Cancels : cancel[c].at \in {"found", "marked"}

RunsInProgress == \E r \in Runs : step[r] \in {"pipeline", "persist", "report", "fail"}

\* Faulty: waits for the runs only while it waits for the requests.
DrainedAndDone ==
  /\ server = "draining"
  /\ ~ RequestsInProgress
  /\ server' = "stopped"
  /\ UNCHANGED <<runVars, readerVars, cancel>>

Drained ==
  /\ server = "draining"
  /\ ~ RequestsInProgress
  /\ server' = "waiting"
  /\ UNCHANGED <<runVars, readerVars, cancel>>

RunsStopped ==
  /\ server = "waiting"
  /\ ~ RunsInProgress
  /\ server' = "stopped"
  /\ UNCHANGED <<runVars, readerVars, cancel>>

DeadlineExpires ==
  /\ server \in {"draining", "waiting"}
  /\ server' = "expired"
  /\ UNCHANGED <<runVars, readerVars, cancel>>

-----------------------------------------------------------------------------
RunStep(r) == Start(r) \/ Emit(r) \/ PipelineReturns(r) \/ Persist(r) \/ Report(r)
ReaderStep(s) == Subscribe(s) \/ WriteFrame(s) \/ StreamCloses(s)
CancelStep(c) == CancelMark(c) \/ CancelContext(c)

Next ==
  \/ \E r \in Runs : Admit(r) \/ RunStep(r)
  \/ \E s \in Readers : Lookup(s) \/ ReaderStep(s) \/ Disconnect(s)
  \/ \E c \in Cancels : CancelLookup(c) \/ CancelStep(c)
  \/ ShutdownBegins \/ CancelAll \/ Drained \/ RunsStopped \/ DeadlineExpires

Spec == Init /\ [][Next]_vars

\* Goroutines take their next step; a pipeline or a recorder returns in the
\* end. No reader has to read, nobody has to connect, cancel or shut down.
RunFairness ==
  /\ \A r \in Runs : WF_vars(RunStep(r))
  /\ \A c \in Cancels : WF_vars(CancelStep(c))

FairSpec == Spec /\ RunFairness

-----------------------------------------------------------------------------
(***************************************************************************)
(* Properties.                                                             *)
(***************************************************************************)
\* Two start requests that both saw a free dub never run it together (run.go
\* start, "a second run for a dub already running returns errRunActive").
OneActiveRun == \A r, q \in Runs : Active(r) /\ Active(q) => r = q

\* A stream that the server ended has written the terminal frame of its run
\* exactly once and last, and its frame numbers only grow, whichever frames a
\* full channel dropped (events.go streamSubscriber).
StreamsAreComplete ==
  \A s \in Readers :
    /\ \A i, j \in 1 .. Len(wrote[s]) : i < j => wrote[s][i].id < wrote[s][j].id
    /\ stream[s].at = "ended" =>
         /\ wrote[s] # <<>>
         /\ wrote[s][Len(wrote[s])] = terminal[stream[s].run]
         /\ terminal[stream[s].run].kind # "none"

\* A reader is told of success only by a run whose rows are recorded (run.go
\* emit, "the run reports it only after persistence has run").
DoneMeansPersisted ==
  \A s \in Readers : \A i \in 1 .. Len(wrote[s]) :
    wrote[s][i].kind = "done" => stream[s].run \in persisted

\* A shutdown that met its deadline leaves no run goroutine behind, not even
\* one of a request that was in progress (server.go Shutdown).
CleanShutdown == server = "stopped" => ~ RunsInProgress

\* A run ends although no reader ever reads (run.go:172, "drops events rather
\* than stalling the pipeline"), and a cancel that was accepted is over.
EveryRunEnds == \A r \in Runs : Active(r) ~> status[r] = "finished"

\* A reader who stays connected and reads is told how the run ended (events.go
\* streamSubscriber), whatever the other readers do.
EveryReaderIsTold == \A s \in Readers :
  WF_vars(ReaderStep(s)) => (stream[s].at = "found" ~> stream[s].at \in {"ended", "gone"})
=============================================================================
