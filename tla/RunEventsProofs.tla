-------------------------- MODULE RunEventsProofs --------------------------
(***************************************************************************)
(* Proofs about RunEvents, for any number of runs, readers, cancels and    *)
(* events and for channels of any size: the state is well typed, one run   *)
(* is active at a time, a stream the server ended is complete, "done"      *)
(* means persisted, and a clean shutdown leaves no run behind.             *)
(***************************************************************************)
EXTENDS RunEvents, SequenceTheorems, TLAPS

Working == {"pipeline", "persist", "report", "fail"}

\* A run is active exactly while its goroutine works, and it is then the one
\* the registry holds.
RunShape ==
  \A r \in Runs :
    /\ step[r] \in {"none", "admitted"} => status[r] = "none"
    /\ step[r] \in Working <=> Active(r)
    /\ Active(r) => registered = r
    /\ step[r] = "report" => r \in persisted

\* What a lookup hands out has been started.
Started ==
  /\ registered # NoRun => status[registered] # "none"
  /\ \A s \in Readers : stream[s].at # "idle" =>
       stream[s].run \in Runs /\ status[stream[s].run] # "none"
  /\ \A c \in Cancels : cancel[c].at # "idle" => cancel[c].run \in Runs

\* The terminal frame is the last one a run numbers.
Terminals ==
  \A r \in Runs : status[r] = "finished" =>
    /\ terminal[r] \in Frame
    /\ terminal[r].id = nextID[r] /\ nextID[r] > 0
    /\ terminal[r].kind \in {"done", "error"}
    /\ terminal[r].kind = "done" => r \in persisted

\* Who is subscribed streams a run that is not over; whose channel is closed,
\* one that is.
Subscribers ==
  \A s \in Readers :
    /\ \A r \in Runs : s \in subs[r] =>
         stream[s].at = "streaming" /\ stream[s].run = r /\ status[r] # "finished"
    /\ s \in closed => stream[s].at # "idle" /\ status[stream[s].run] = "finished"
    /\ stream[s].at \in {"idle", "found"} => wrote[s] = <<>> /\ frames[s] = <<>>

\* A frame of a stream is progress, or the terminal frame itself.
FrameOf(s, f) ==
  LET r == stream[s].run
  IN  /\ f.id <= nextID[r]
      /\ \/ f.kind = "progress" /\ (status[r] = "finished" => f.id < nextID[r])
         \/ status[r] = "finished" /\ f = terminal[r]

Growing(q) == \A i, j \in 1 .. Len(q) : i < j => q[i].id < q[j].id

\* What was written and what waits in the channel are in order.
Ordered(s) ==
  /\ Growing(wrote[s]) /\ Growing(frames[s])
  /\ \A i \in 1 .. Len(wrote[s]), j \in 1 .. Len(frames[s]) :
       wrote[s][i].id < frames[s][j].id
  /\ \A i \in 1 .. Len(wrote[s]) : FrameOf(s, wrote[s][i])
  /\ \A i \in 1 .. Len(frames[s]) : FrameOf(s, frames[s][i])

InOrder == \A s \in Readers : Ordered(s)

\* A stream that ended has the terminal frame.
Endings ==
  \A s \in Readers : stream[s].at = "ended" =>
    /\ wrote[s] # <<>>
    /\ status[stream[s].run] = "finished"
    /\ wrote[s][Len(wrote[s])] = terminal[stream[s].run]

\* Past the drain no request is left that could start a run.
Draining ==
  /\ server \in {"waiting", "stopped"} => \A r \in Runs : step[r] # "admitted"
  /\ server = "stopped" => ~ RunsInProgress

IInv == TypeOK /\ RunShape /\ Started /\ Terminals /\ Subscribers /\ InOrder /\ Endings /\ Draining

-----------------------------------------------------------------------------
LEMMA FrameIDs == \A f \in Frame : f.id \in Nat
BY DEF Frame

\* A frame numbered next is offered to the channels that have room: every
\* channel stays in its bound and in order, ahead of it the new frame only.
LEMMA OfferInOrder ==
  ASSUME IInv, NEW r \in Runs, Active(r), NEW f \in Frame, f.id = nextID[r] + 1, Offer(r, f)
  PROVE  /\ frames' \in [Readers -> Seq(Frame)]
         /\ \A s \in Readers :
              /\ Len(frames'[s]) <= Buffer
              /\ Growing(frames'[s])
              /\ s \notin subs[r] => frames'[s] = frames[s]
              /\ \A j \in 1 .. Len(frames'[s]) :
                   \/ j \in 1 .. Len(frames[s]) /\ frames'[s][j] = frames[s][j]
                   \/ j = Len(frames[s]) + 1 /\ s \in subs[r] /\ frames'[s][j] = f
<1>1. frames' \in [Readers -> Seq(Frame)] BY DEF Offer, IInv, TypeOK
<1>2. ASSUME NEW s \in Readers
      PROVE  /\ Len(frames'[s]) <= Buffer
             /\ Growing(frames'[s])
             /\ s \notin subs[r] => frames'[s] = frames[s]
             /\ \A j \in 1 .. Len(frames'[s]) :
                  \/ j \in 1 .. Len(frames[s]) /\ frames'[s][j] = frames[s][j]
                  \/ j = Len(frames[s]) + 1 /\ s \in subs[r] /\ frames'[s][j] = f
  <2>1. frames[s] \in Seq(Frame) /\ Len(frames[s]) <= Buffer /\ Buffer \in Nat
        /\ Growing(frames[s]) /\ nextID[r] \in Nat
    BY SizesAssumption DEF IInv, TypeOK, InOrder, Ordered
  <2>2. CASE s \in subs[r] /\ Len(frames[s]) < Buffer
    <3>1. frames'[s] = Append(frames[s], f) BY <2>2 DEF Offer
    <3>2. \A j \in 1 .. Len(frames[s]) : frames[s][j].id <= nextID[r]
      BY <2>2 DEF IInv, InOrder, Ordered, FrameOf, Subscribers
    <3>3. Len(frames'[s]) = Len(frames[s]) + 1
          /\ frames'[s][Len(frames[s]) + 1] = f
          /\ \A j \in 1 .. Len(frames[s]) : frames'[s][j] = frames[s][j]
      BY <3>1, <2>1
    <3>4. Growing(frames'[s])
      <4>1. SUFFICES ASSUME NEW i \in 1 .. Len(frames'[s]), NEW j \in 1 .. Len(frames'[s]), i < j
                     PROVE  frames'[s][i].id < frames'[s][j].id
        BY DEF Growing
      <4>2. i \in 1 .. Len(frames[s]) BY <4>1, <3>3, <2>1
      <4>3. CASE j \in 1 .. Len(frames[s]) BY <4>1, <4>2, <4>3, <3>3, <2>1 DEF Growing
      <4>4. CASE j = Len(frames[s]) + 1
        <5>1. frames[s][i] \in Frame BY <4>2, <2>1
        <5>2. frames[s][i].id \in Nat /\ frames[s][i].id <= nextID[r]
          BY <4>2, <3>2, <5>1 DEF Frame
        <5>3. frames'[s][i] = frames[s][i] /\ frames'[s][j] = f BY <4>2, <4>4, <3>3
        <5>. QED BY <2>1, <5>2, <5>3
      <4>. QED BY <4>3, <4>4, <3>3, <2>1
    <3>. QED BY <2>1, <2>2, <3>3, <3>4
  <2>3. CASE ~ (s \in subs[r] /\ Len(frames[s]) < Buffer)
    <3>1. frames'[s] = frames[s] BY <2>3 DEF Offer
    <3>. QED BY <2>1, <3>1
  <2>. QED BY <2>2, <2>3
<1>. QED BY <1>1, <1>2

\* So the streams stay in order, whether the run goes on or the frame is its
\* terminal one.
LEMMA OfferStaysInOrder ==
  ASSUME IInv, NEW r \in Runs, Active(r), NEW f \in Frame, f.id = nextID[r] + 1, Offer(r, f),
         UNCHANGED <<stream, wrote>>,
         nextID' = [nextID EXCEPT ![r] = @ + 1],
         \/ f.kind = "progress" /\ UNCHANGED <<status, terminal>>
         \/ /\ status' = [status EXCEPT ![r] = "finished"]
            /\ terminal' = [terminal EXCEPT ![r] = f]
  PROVE  InOrder'
<1>. SUFFICES ASSUME NEW s \in Readers
              PROVE  /\ Growing(wrote[s]) /\ Growing(frames'[s])
                     /\ \A i \in 1 .. Len(wrote[s]), j \in 1 .. Len(frames'[s]) :
                          wrote[s][i].id < frames'[s][j].id
                     /\ \A i \in 1 .. Len(wrote[s]) : FrameOf(s, wrote[s][i])'
                     /\ \A i \in 1 .. Len(frames'[s]) : FrameOf(s, frames[s][i])'
  BY DEF InOrder, Ordered, Growing, FrameOf
<1>1. /\ Growing(frames'[s])
      /\ \A j \in 1 .. Len(frames'[s]) :
           \/ j \in 1 .. Len(frames[s]) /\ frames'[s][j] = frames[s][j]
           \/ j = Len(frames[s]) + 1 /\ s \in subs[r] /\ frames'[s][j] = f
  BY OfferInOrder
<1>2. Growing(wrote[s]) /\ wrote[s] \in Seq(Frame) /\ frames[s] \in Seq(Frame)
      /\ nextID \in [Runs -> Nat] /\ status[r] # "finished"
  BY DEF IInv, InOrder, Ordered, TypeOK, Active
<1>3. stream[s].at = "idle" => Len(wrote[s]) = 0 /\ Len(frames[s]) = 0
  BY DEF IInv, Subscribers
<1>. DEFINE q == stream[s].run
            Old(g) == /\ g.id <= nextID[q]
                      /\ \/ g.kind = "progress" /\ (status[q] = "finished" => g.id < nextID[q])
                         \/ status[q] = "finished" /\ g = terminal[q]
            New(g) == /\ g.id <= nextID'[q]
                      /\ \/ g.kind = "progress" /\ (status'[q] = "finished" => g.id < nextID'[q])
                         \/ status'[q] = "finished" /\ g = terminal'[q]
<1>4. ASSUME NEW g \in Frame, stream[s].at # "idle", Old(g) PROVE New(g)
  <2>1. q \in Runs /\ g.id \in Nat BY <1>4 DEF IInv, Started, Frame
  <2>2. CASE q # r BY <1>2, <1>4, <2>1, <2>2 DEF IInv, TypeOK
  <2>3. CASE q = r
    <3>1. g.id <= nextID[r] /\ g.kind = "progress" BY <1>2, <1>4, <2>3
    <3>. QED BY <1>2, <2>1, <2>3, <3>1
  <2>. QED BY <2>2, <2>3
<1>5. ASSUME NEW i \in 1 .. Len(wrote[s]) PROVE New(wrote[s][i])
  <2>1. Old(wrote[s][i]) /\ wrote[s][i] \in Frame BY <1>2 DEF IInv, InOrder, Ordered, FrameOf
  <2>2. stream[s].at # "idle" BY <1>2, <1>3
  <2>. HIDE DEF Old, New
  <2>. QED BY <1>4, <2>1, <2>2
<1>6. ASSUME NEW j \in 1 .. Len(frames'[s]) PROVE New(frames'[s][j])
  <2>1. CASE j \in 1 .. Len(frames[s]) /\ frames'[s][j] = frames[s][j]
    <3>1. Old(frames[s][j]) /\ frames[s][j] \in Frame
      BY <1>2, <2>1 DEF IInv, InOrder, Ordered, FrameOf
    <3>2. stream[s].at # "idle" BY <1>2, <1>3, <2>1
    <3>. HIDE DEF Old, New
    <3>3. New(frames[s][j]) BY <1>4, <3>1, <3>2
    <3>. QED BY <2>1, <3>3
  <2>2. CASE s \in subs[r] /\ frames'[s][j] = f
    <3>1. q = r BY <2>2 DEF IInv, Subscribers
    <3>2. New(f) BY <1>2, <3>1 DEF IInv, TypeOK
    <3>. HIDE DEF New
    <3>. QED BY <2>2, <3>2
  <2>. QED BY <1>1, <2>1, <2>2
<1>7. ASSUME NEW i \in 1 .. Len(wrote[s]), NEW j \in 1 .. Len(frames'[s])
      PROVE  wrote[s][i].id < frames'[s][j].id
  <2>1. CASE j \in 1 .. Len(frames[s]) /\ frames'[s][j] = frames[s][j]
    BY <2>1 DEF IInv, InOrder, Ordered
  <2>2. CASE s \in subs[r] /\ frames'[s][j] = f
    <3>1. wrote[s][i].id <= nextID[r]
      BY <2>2 DEF IInv, InOrder, Ordered, FrameOf, Subscribers
    <3>2. wrote[s][i] \in Frame BY <1>2
    <3>3. wrote[s][i].id \in Nat BY <3>2 DEF Frame
    <3>. QED BY <2>2, <3>1, <3>3, <1>2
  <2>. QED BY <1>1, <2>1, <2>2
<1>8. \A i \in 1 .. Len(wrote[s]) : FrameOf(s, wrote[s][i])' BY <1>5 DEF FrameOf
<1>9. \A i \in 1 .. Len(frames'[s]) : FrameOf(s, frames[s][i])' BY <1>6 DEF FrameOf
<1>. QED BY <1>1, <1>2, <1>7, <1>8, <1>9

-----------------------------------------------------------------------------
(***************************************************************************)
(* The steps of a run.                                                     *)
(***************************************************************************)
\* Streams only depend on the frames, the numbers and whether a run is over.
LEMMA StreamsUnchanged ==
  ASSUME IInv, UNCHANGED <<nextID, terminal, subs, frames, closed, stream, wrote>>,
         \A r \in Runs : status'[r] = "finished" <=> status[r] = "finished"
  PROVE  Subscribers' /\ InOrder' /\ Endings'
<1>1. \A s \in Readers : stream[s].at # "idle" => stream[s].run \in Runs
  BY DEF IInv, Started
<1>2. Subscribers' BY <1>1 DEF IInv, Subscribers
<1>3. Endings' BY <1>1 DEF IInv, Endings
<1>4. InOrder'
  <2>1. SUFFICES ASSUME NEW s \in Readers
                 PROVE  /\ \A i \in 1 .. Len(wrote[s]) : FrameOf(s, wrote[s][i])'
                        /\ \A i \in 1 .. Len(frames[s]) : FrameOf(s, frames[s][i])'
    BY DEF IInv, InOrder, Ordered, Growing, FrameOf
  <2>2. CASE stream[s].at = "idle"
    BY <2>2 DEF IInv, Subscribers
  <2>3. CASE stream[s].at # "idle"
    BY <1>1, <2>3 DEF IInv, InOrder, Ordered, FrameOf
  <2>. QED BY <2>2, <2>3
<1>. QED BY <1>2, <1>3, <1>4

\* A step that touches the stream of one reader leaves the others in order.
LEMMA OneReader ==
  ASSUME IInv, NEW s \in Readers, UNCHANGED <<nextID, terminal, status>>,
         \A t \in Readers \ {s} :
           frames'[t] = frames[t] /\ wrote'[t] = wrote[t] /\ stream'[t] = stream[t],
         Ordered(s)'
  PROVE  InOrder'
<1>1. ASSUME NEW t \in Readers, t # s PROVE Ordered(t)'
  <2>1. frames'[t] = frames[t] /\ wrote'[t] = wrote[t] /\ stream'[t] = stream[t] BY <1>1
  <2>. QED BY <2>1 DEF IInv, InOrder, Ordered, Growing, FrameOf
<1>. QED BY <1>1 DEF InOrder

LEMMA AdmitStep == ASSUME IInv, NEW r \in Runs, Admit(r) PROVE IInv'
<1>1. TypeOK' BY DEF Admit, GoRun, IInv, TypeOK, readerVars
<1>2. RunShape' BY DEF Admit, GoRun, IInv, TypeOK, RunShape, Working, Active
<1>3. Started' /\ Terminals' BY DEF Admit, IInv, Started, Terminals, readerVars
<1>4. Subscribers' /\ InOrder' /\ Endings' BY StreamsUnchanged DEF Admit, readerVars
<1>5. Draining' BY DEF Admit, IInv, Draining
<1>. QED BY <1>1, <1>2, <1>3, <1>4, <1>5 DEF IInv

\* The registry looks again before it registers: whoever is active is the run
\* it holds.
LEMMA StartStep == ASSUME IInv, NEW r \in Runs, Start(r) PROVE IInv'
<1>1. TypeOK' BY DEF Start, GoRun, IInv, TypeOK, readerVars
<1>2. status[r] = "none" BY DEF Start, IInv, RunShape
<1>3. RunShape'
  BY <1>2, NoRunAssumption DEF Start, GoRun, Busy, IInv, TypeOK, RunShape, Working, Active
<1>4. Started' BY <1>2 DEF Start, IInv, TypeOK, Started, readerVars
<1>5. Terminals' BY <1>2 DEF Start, IInv, TypeOK, Terminals
<1>6. Subscribers' /\ InOrder' /\ Endings'
  <2>1. \A q \in Runs : status'[q] = "finished" <=> status[q] = "finished"
    BY <1>2 DEF Start, IInv, TypeOK
  <2>. QED BY <2>1, StreamsUnchanged DEF Start, readerVars
<1>7. Draining' BY DEF Start, GoRun, IInv, TypeOK, Draining, RunsInProgress
<1>. QED BY <1>1, <1>3, <1>4, <1>5, <1>6, <1>7 DEF IInv

LEMMA WorkStep ==
  ASSUME IInv, NEW r \in Runs, PipelineReturns(r) \/ Persist(r) PROVE IInv'
<1>1. TypeOK' BY DEF PipelineReturns, Persist, GoRun, IInv, TypeOK, readerVars
<1>2. RunShape'
  BY DEF PipelineReturns, Persist, GoRun, IInv, TypeOK, RunShape, Working, Active
<1>3. Started' BY DEF PipelineReturns, Persist, IInv, Started, readerVars
<1>4. Terminals' BY DEF PipelineReturns, Persist, IInv, Terminals
<1>5. Subscribers' /\ InOrder' /\ Endings'
  BY StreamsUnchanged DEF PipelineReturns, Persist, readerVars
<1>6. Draining'
  BY DEF PipelineReturns, Persist, GoRun, IInv, TypeOK, Draining, RunsInProgress
<1>. QED BY <1>1, <1>2, <1>3, <1>4, <1>5, <1>6 DEF IInv

LEMMA EmitStep == ASSUME IInv, NEW r \in Runs, Emit(r) PROVE IInv'
<1>1. Active(r) BY DEF Emit, IInv, RunShape, Working
<1>2. RunShape' /\ Started' /\ Draining'
  BY DEF Emit, IInv, TypeOK, RunShape, Active, Started, Draining, RunsInProgress
<1>3. nextID[r] + 1 \in Nat /\ emitted[r] + 1 \in 0 .. MaxEvents
  BY SizesAssumption DEF Emit, IInv, TypeOK
<1>4. CASE UNCHANGED <<nextID, frames>>
  <2>1. TypeOK' BY <1>3, <1>4 DEF Emit, IInv, TypeOK
  <2>2. Terminals' BY <1>4 DEF Emit, IInv, Terminals
  <2>3. Subscribers' /\ InOrder' /\ Endings' BY <1>4, StreamsUnchanged DEF Emit
  <2>. QED BY <1>2, <2>1, <2>2, <2>3 DEF IInv
<1>5. CASE nextID' = [nextID EXCEPT ![r] = @ + 1]
           /\ Offer(r, [id |-> nextID[r] + 1, kind |-> "progress"])
  <2>. DEFINE f == [id |-> nextID[r] + 1, kind |-> "progress"]
  <2>1. f \in Frame /\ f.id = nextID[r] + 1 /\ f.kind = "progress"
    BY <1>3 DEF Frame, Kinds
  <2>. HIDE DEF f
  <2>2. Offer(r, f) BY <1>5 DEF f
  <2>3. frames' \in [Readers -> Seq(Frame)] /\ \A s \in Readers : Len(frames'[s]) <= Buffer
    BY <1>1, <2>1, <2>2, OfferInOrder
  <2>4. TypeOK' BY <1>3, <1>5, <2>3 DEF Emit, IInv, TypeOK
  <2>5. Terminals' BY <1>1, <1>5 DEF Emit, IInv, TypeOK, Terminals, Active
  <2>6. InOrder' BY <1>1, <1>5, <2>1, <2>2, OfferStaysInOrder DEF Emit
  <2>7. \A s \in Readers : s \notin subs[r] => frames'[s] = frames[s]
    BY <1>1, <2>1, <2>2, OfferInOrder
  <2>8. Subscribers' BY <2>7 DEF Emit, IInv, Subscribers
  <2>9. Endings' BY DEF Emit, IInv, Endings
  <2>. QED BY <1>2, <2>4, <2>5, <2>6, <2>8, <2>9 DEF IInv
<1>. QED BY <1>4, <1>5 DEF Emit

LEMMA ReportStep == ASSUME IInv, NEW r \in Runs, Report(r) PROVE IInv'
<1>. DEFINE kind == IF step[r] = "report" THEN "done" ELSE "error"
            f == [id |-> nextID[r] + 1, kind |-> kind]
<1>1. Active(r) /\ registered = r /\ (kind = "done" => r \in persisted)
  BY DEF Report, IInv, RunShape, Working
<1>2. /\ status' = [status EXCEPT ![r] = "finished"]
      /\ nextID' = [nextID EXCEPT ![r] = @ + 1]
      /\ terminal' = [terminal EXCEPT ![r] = f]
      /\ Offer(r, f)
      /\ closed' = closed \union subs[r]
      /\ subs' = [subs EXCEPT ![r] = {}]
      /\ cancelled' = cancelled \union {r}
      /\ step' = [step EXCEPT ![r] = "over"]
      /\ UNCHANGED <<registered, emitted, persisted, stream, wrote, cancel, server>>
  BY DEF Report, Finish, GoRun
<1>3. f \in Frame /\ f.id = nextID[r] + 1 /\ f.kind = kind /\ kind \in {"done", "error"}
  BY DEF IInv, TypeOK, Frame, Kinds
<1>. HIDE DEF f, kind
<1>4. frames' \in [Readers -> Seq(Frame)]
      /\ \A s \in Readers : /\ Len(frames'[s]) <= Buffer
                            /\ s \notin subs[r] => frames'[s] = frames[s]
  BY <1>1, <1>2, <1>3, OfferInOrder
<1>5. TypeOK'
  <2>1. nextID[r] + 1 \in Nat BY DEF IInv, TypeOK
  <2>. QED BY <1>2, <1>3, <1>4, <2>1 DEF IInv, TypeOK
<1>6. RunShape' BY <1>1, <1>2 DEF IInv, TypeOK, RunShape, Working, Active
<1>7. Started' BY <1>2 DEF IInv, TypeOK, Started
<1>8. Terminals' BY <1>1, <1>2, <1>3 DEF IInv, TypeOK, Terminals
<1>9. Subscribers' BY <1>1, <1>2, <1>4 DEF IInv, TypeOK, Subscribers, Started, Active
<1>10. InOrder' BY <1>1, <1>2, <1>3, OfferStaysInOrder
<1>11. Endings' BY <1>1, <1>2 DEF IInv, TypeOK, Endings, Active, Started
<1>12. Draining' BY <1>2 DEF IInv, TypeOK, Draining, RunsInProgress
<1>. QED BY <1>5, <1>6, <1>7, <1>8, <1>9, <1>10, <1>11, <1>12 DEF IInv

-----------------------------------------------------------------------------
(***************************************************************************)
(* The steps of a reader.                                                  *)
(***************************************************************************)
LEMMA LookupStep == ASSUME IInv, NEW s \in Readers, Lookup(s) PROVE IInv'
<1>1. registered \in Runs /\ status[registered] # "none"
  BY DEF Lookup, IInv, TypeOK, Started
<1>2. TypeOK' BY <1>1 DEF Lookup, IInv, TypeOK, runVars
<1>3. RunShape' /\ Terminals' /\ Draining'
  BY DEF Lookup, IInv, RunShape, Active, Terminals, Draining, RunsInProgress, runVars
<1>4. Started' BY <1>1 DEF Lookup, IInv, TypeOK, Started, runVars
<1>5. Subscribers' BY DEF Lookup, IInv, TypeOK, Subscribers, runVars
<1>6. wrote[s] = <<>> /\ frames[s] = <<>> BY DEF Lookup, IInv, Subscribers
<1>7. InOrder'
  <2>1. /\ UNCHANGED <<nextID, terminal, status, frames, wrote>>
        /\ \A t \in Readers \ {s} : stream'[t] = stream[t]
    BY DEF Lookup, IInv, TypeOK, runVars
  <2>2. wrote'[s] = <<>> /\ frames'[s] = <<>> BY <1>6, <2>1
  <2>3. Ordered(s)' BY <2>2 DEF Ordered, Growing
  <2>. QED BY <2>1, <2>3, OneReader
<1>8. Endings' BY DEF Lookup, IInv, TypeOK, Endings, runVars
<1>. QED BY <1>2, <1>3, <1>4, <1>5, <1>7, <1>8 DEF IInv

\* A reader who comes late is handed the terminal frame; one who comes in time
\* gets a frame of its own, numbered after all others.
LEMMA SubscribeStep == ASSUME IInv, NEW s \in Readers, Subscribe(s) PROVE IInv'
<1>. DEFINE r == stream[s].run
            f == [id |-> nextID[r] + 1, kind |-> "progress"]
<1>1. r \in Runs /\ status[r] # "none" /\ wrote[s] = <<>> /\ frames[s] = <<>>
      /\ nextID[r] \in Nat /\ stream[s].at = "found"
  BY DEF Subscribe, IInv, TypeOK, Started, Subscribers
<1>2. s \notin closed \/ status[r] = "finished" BY DEF IInv, Subscribers
<1>3. RunShape' /\ Draining'
  BY DEF Subscribe, IInv, RunShape, Active, Draining, RunsInProgress
<1>4. Started'
  <2>1. UNCHANGED <<registered, status, cancel>> BY DEF Subscribe
  <2>2. \/ stream' = [stream EXCEPT ![s].at = "ended"]
        \/ stream' = [stream EXCEPT ![s].at = "streaming"]
    BY DEF Subscribe, GoStream
  <2>3. /\ \A t \in Readers : stream'[t].run = stream[t].run
        /\ \A t \in Readers \ {s} : stream'[t] = stream[t]
    <3>1. stream \in [Readers -> [at : {"idle", "found", "streaming", "last", "ended", "gone"},
                                 run : Runs \union {NoRun}]]
      BY DEF IInv, TypeOK
    <3>2. CASE stream' = [stream EXCEPT ![s].at = "ended"] BY <3>1, <3>2
    <3>3. CASE stream' = [stream EXCEPT ![s].at = "streaming"] BY <3>1, <3>3
    <3>. QED BY <2>2, <3>2, <3>3
  <2>. QED BY <1>1, <2>1, <2>3 DEF IInv, Started
<1>5. CASE status[r] = "finished"
  <2>1. terminal[r] \in Frame /\ terminal[r].id = nextID[r]
    BY <1>1, <1>5 DEF IInv, Terminals
  <2>2. /\ wrote' = [wrote EXCEPT ![s] = <<terminal[r]>>]
        /\ stream' = [stream EXCEPT ![s].at = "ended"]
        /\ UNCHANGED <<nextID, subs, frames, registered, status, step, cancelled, emitted,
                       persisted, terminal, closed, cancel, server>>
    BY <1>5 DEF Subscribe, GoStream
  <2>3. <<terminal[r]>> \in Seq(Frame) BY <2>1
  <2>. HIDE DEF r
  <2>4. TypeOK' BY <2>2, <2>3 DEF IInv, TypeOK
  <2>5. Terminals' BY <2>2 DEF IInv, Terminals
  <2>6. Subscribers' BY <1>1, <2>2 DEF IInv, TypeOK, Subscribers
  <2>. USE DEF r
  <2>7. InOrder'
    <3>1. \A t \in Readers \ {s} :
            frames'[t] = frames[t] /\ wrote'[t] = wrote[t] /\ stream'[t] = stream[t]
      BY <2>2 DEF IInv, TypeOK
    <3>2. wrote'[s] = <<terminal[r]>> /\ frames'[s] = <<>> /\ stream'[s].run = r
      BY <1>1, <2>2 DEF IInv, TypeOK
    <3>3. terminal'[r].id <= nextID'[r] BY <1>1, <2>1, <2>2
    <3>. HIDE DEF r
    <3>4. Ordered(s)' BY <1>5, <2>2, <3>2, <3>3 DEF Ordered, Growing, FrameOf
    <3>. QED BY <2>2, <3>1, <3>4, OneReader
  <2>8. Endings' BY <1>1, <1>5, <2>2 DEF IInv, TypeOK, Endings
  <2>. QED BY <1>3, <1>4, <2>4, <2>5, <2>6, <2>7, <2>8 DEF IInv
<1>6. CASE status[r] # "finished"
  <2>1. /\ subs' = [subs EXCEPT ![r] = @ \union {s}]
        /\ nextID' = [nextID EXCEPT ![r] = @ + 1]
        /\ frames' = [frames EXCEPT ![s] = <<f>>]
        /\ stream' = [stream EXCEPT ![s].at = "streaming"]
        /\ UNCHANGED <<wrote, registered, status, step, cancelled, emitted,
                       persisted, terminal, closed, cancel, server>>
    BY <1>6 DEF Subscribe, GoStream
  <2>2. f \in Frame /\ f.id = nextID[r] + 1 /\ f.kind = "progress"
    BY <1>1 DEF Frame, Kinds
  <2>3. <<f>> \in Seq(Frame) /\ Len(<<f>>) = 1 /\ <<f>>[1] = f BY <2>2
  <2>. HIDE DEF f
  <2>4. TypeOK'
    <3>1. frames' \in [Readers -> Seq(Frame)] /\ \A t \in Readers : Len(frames'[t]) <= Buffer
      BY <2>1, <2>3, SizesAssumption DEF IInv, TypeOK
    <3>2. nextID' \in [Runs -> Nat] BY <1>1, <2>1 DEF IInv, TypeOK
    <3>3. stream' \in [Readers -> [at : {"idle", "found", "streaming", "last", "ended", "gone"},
                                  run : Runs \union {NoRun}]]
      BY <2>1 DEF IInv, TypeOK
    <3>4. subs' \in [Runs -> SUBSET Readers] BY <1>1, <2>1 DEF IInv, TypeOK
    <3>. QED BY <2>1, <3>1, <3>2, <3>3, <3>4 DEF IInv, TypeOK
  <2>5. Terminals' BY <1>6, <2>1 DEF IInv, TypeOK, Terminals
  <2>6. Subscribers' BY <1>1, <1>2, <1>6, <2>1 DEF IInv, TypeOK, Subscribers
  <2>7. InOrder'
    <3>1. SUFFICES ASSUME NEW t \in Readers
                   PROVE  /\ Growing(wrote'[t]) /\ Growing(frames'[t])
                          /\ \A i \in 1 .. Len(wrote'[t]), j \in 1 .. Len(frames'[t]) :
                               wrote'[t][i].id < frames'[t][j].id
                          /\ \A i \in 1 .. Len(wrote'[t]) : FrameOf(t, wrote[t][i])'
                          /\ \A i \in 1 .. Len(frames'[t]) : FrameOf(t, frames[t][i])'
      BY DEF InOrder, Ordered, Growing, FrameOf
    <3>2. CASE t = s
      <4>1. frames'[t] = <<f>> /\ wrote'[t] = <<>> /\ stream'[t].run = r
        BY <1>1, <2>1, <3>2 DEF IInv, TypeOK
      <4>2. nextID'[r] = nextID[r] + 1 /\ status'[r] # "finished"
        BY <1>1, <1>6, <2>1 DEF IInv, TypeOK
      <4>. HIDE DEF r
      <4>. QED BY <2>2, <2>3, <4>1, <4>2, <1>1 DEF Growing, FrameOf
    <3>3. CASE t # s
      <4>1. frames'[t] = frames[t] /\ wrote'[t] = wrote[t] /\ stream'[t] = stream[t]
        BY <2>1, <3>3 DEF IInv, TypeOK
      <4>2. frames[t] \in Seq(Frame) /\ wrote[t] \in Seq(Frame) /\ nextID \in [Runs -> Nat]
        BY DEF IInv, TypeOK
      <4>. DEFINE q == stream[t].run
                  Old(g) == /\ g.id <= nextID[q]
                            /\ \/ g.kind = "progress" /\ (status[q] = "finished" => g.id < nextID[q])
                               \/ status[q] = "finished" /\ g = terminal[q]
                  New(g) == /\ g.id <= nextID'[q]
                            /\ \/ g.kind = "progress" /\ (status[q] = "finished" => g.id < nextID'[q])
                               \/ status[q] = "finished" /\ g = terminal[q]
      <4>3. stream[t].at = "idle" => Len(wrote[t]) = 0 /\ Len(frames[t]) = 0
        BY DEF IInv, Subscribers
      <4>4. ASSUME NEW g \in Frame, stream[t].at # "idle", Old(g) PROVE New(g)
        <5>1. q \in Runs /\ g.id \in Nat BY <4>4 DEF IInv, Started, Frame
        <5>. QED BY <1>1, <1>6, <2>1, <4>2, <4>4, <5>1
      <4>5. ASSUME NEW i \in 1 .. Len(wrote[t]) PROVE New(wrote[t][i])
        <5>1. Old(wrote[t][i]) /\ wrote[t][i] \in Frame BY <4>2 DEF IInv, InOrder, Ordered, FrameOf
        <5>2. stream[t].at # "idle" BY <4>2, <4>3
        <5>. HIDE DEF Old, New
        <5>. QED BY <4>4, <5>1, <5>2
      <4>6. ASSUME NEW i \in 1 .. Len(frames[t]) PROVE New(frames[t][i])
        <5>1. Old(frames[t][i]) /\ frames[t][i] \in Frame BY <4>2 DEF IInv, InOrder, Ordered, FrameOf
        <5>2. stream[t].at # "idle" BY <4>2, <4>3
        <5>. HIDE DEF Old, New
        <5>. QED BY <4>4, <5>1, <5>2
      <4>7. \A i \in 1 .. Len(wrote'[t]) : FrameOf(t, wrote[t][i])'
        BY <2>1, <4>1, <4>5 DEF FrameOf
      <4>8. \A i \in 1 .. Len(frames'[t]) : FrameOf(t, frames[t][i])'
        BY <2>1, <4>1, <4>6 DEF FrameOf
      <4>9. Growing(wrote[t]) /\ Growing(frames[t])
            /\ \A i \in 1 .. Len(wrote[t]), j \in 1 .. Len(frames[t]) :
                 wrote[t][i].id < frames[t][j].id
        BY DEF IInv, InOrder, Ordered
      <4>. QED BY <4>1, <4>7, <4>8, <4>9
    <3>. QED BY <3>2, <3>3
  <2>8. Endings' BY <1>1, <2>1 DEF IInv, TypeOK, Endings
  <2>. QED BY <1>3, <1>4, <2>4, <2>5, <2>6, <2>7, <2>8 DEF IInv
<1>. QED BY <1>5, <1>6
\* The frame at the head of the channel comes after all that was written.
LEMMA WriteFrameStep == ASSUME IInv, NEW s \in Readers, WriteFrame(s) PROVE IInv'
<1>. DEFINE f == Head(frames[s])
<1>1. /\ wrote' = [wrote EXCEPT ![s] = Append(wrote[s], f)]
      /\ frames' = [frames EXCEPT ![s] = Tail(frames[s])]
      /\ frames[s] # <<>> /\ stream[s].at = "streaming"
      /\ UNCHANGED <<registered, status, step, cancelled, emitted, persisted, nextID, terminal,
                     subs, closed, stream, cancel, server>>
  BY DEF WriteFrame, runVars
<1>2. frames[s] \in Seq(Frame) /\ wrote[s] \in Seq(Frame) /\ Len(frames[s]) \in 1 .. Buffer
      /\ Buffer \in Nat
  BY <1>1, SizesAssumption DEF IInv, TypeOK
<1>3. f = frames[s][1] /\ f \in Frame /\ Tail(frames[s]) \in Seq(Frame)
      /\ Len(Tail(frames[s])) = Len(frames[s]) - 1
      /\ \A j \in 1 .. Len(Tail(frames[s])) : Tail(frames[s])[j] = frames[s][j + 1]
  BY <1>1, <1>2
<1>4. Append(wrote[s], f) \in Seq(Frame) /\ Len(Append(wrote[s], f)) = Len(wrote[s]) + 1
      /\ Append(wrote[s], f)[Len(wrote[s]) + 1] = f
      /\ \A i \in 1 .. Len(wrote[s]) : Append(wrote[s], f)[i] = wrote[s][i]
  BY <1>2, <1>3
<1>. HIDE DEF f
<1>5. TypeOK' BY <1>1, <1>2, <1>3, <1>4 DEF IInv, TypeOK
<1>6. RunShape' /\ Started' /\ Terminals' /\ Draining'
  BY <1>1 DEF IInv, RunShape, Active, Started, Terminals, Draining, RunsInProgress
<1>7. Subscribers' BY <1>1 DEF IInv, TypeOK, Subscribers
<1>8. Endings' BY <1>1 DEF IInv, TypeOK, Endings
<1>9. InOrder'
  <2>1. \A t \in Readers \ {s} :
          frames'[t] = frames[t] /\ wrote'[t] = wrote[t] /\ stream'[t] = stream[t]
    BY <1>1 DEF IInv, TypeOK
  <2>2. wrote'[s] = Append(wrote[s], f) /\ frames'[s] = Tail(frames[s])
    BY <1>1 DEF IInv, TypeOK
  <2>3. Ordered(s) BY DEF IInv, InOrder
  <2>4. Growing(wrote'[s])
    <3>1. SUFFICES ASSUME NEW i \in 1 .. Len(wrote'[s]), NEW j \in 1 .. Len(wrote'[s]), i < j
                   PROVE  wrote'[s][i].id < wrote'[s][j].id
      BY DEF Growing
    <3>2. i \in 1 .. Len(wrote[s]) BY <3>1, <1>2, <1>4, <2>2
    <3>3. CASE j \in 1 .. Len(wrote[s]) BY <3>1, <3>2, <3>3, <1>4, <2>2, <2>3 DEF Ordered, Growing
    <3>4. CASE j = Len(wrote[s]) + 1
      BY <3>2, <3>4, <1>2, <1>3, <1>4, <2>2, <2>3 DEF Ordered
    <3>. QED BY <3>3, <3>4, <1>2, <1>4, <2>2
  <2>5. Growing(frames'[s])
    BY <1>2, <1>3, <2>2, <2>3 DEF Ordered, Growing
  <2>6. \A i \in 1 .. Len(wrote'[s]), j \in 1 .. Len(frames'[s]) :
          wrote'[s][i].id < frames'[s][j].id
    <3>1. SUFFICES ASSUME NEW i \in 1 .. Len(wrote'[s]), NEW j \in 1 .. Len(frames'[s])
                   PROVE  wrote'[s][i].id < frames'[s][j].id
      OBVIOUS
    <3>2. j + 1 \in 1 .. Len(frames[s]) /\ frames'[s][j] = frames[s][j + 1] /\ 1 < j + 1
      BY <1>2, <1>3, <2>2
    <3>3. CASE i \in 1 .. Len(wrote[s]) BY <3>2, <3>3, <1>4, <2>2, <2>3 DEF Ordered
    <3>4. CASE i = Len(wrote[s]) + 1
      <4>1. 1 \in 1 .. Len(frames[s]) BY <1>2
      <4>. QED BY <3>2, <3>4, <4>1, <1>3, <1>4, <2>2, <2>3 DEF Ordered, Growing
    <3>. QED BY <3>3, <3>4, <1>2, <1>4, <2>2
  <2>7. \A g : FrameOf(s, g) => FrameOf(s, g)' BY <1>1 DEF FrameOf
  <2>8. \A i \in 1 .. Len(wrote'[s]) : FrameOf(s, wrote'[s][i])
    <3>1. 1 \in 1 .. Len(frames[s]) BY <1>2
    <3>. QED BY <3>1, <1>2, <1>3, <1>4, <2>2, <2>3 DEF Ordered
  <2>9. \A j \in 1 .. Len(frames'[s]) : FrameOf(s, frames'[s][j])
    BY <1>2, <1>3, <2>2, <2>3 DEF Ordered
  <2>10. Ordered(s)' BY <1>1, <2>4, <2>5, <2>6, <2>8, <2>9 DEF Ordered, Growing, FrameOf
  <2>. QED BY <1>1, <2>1, <2>10, OneReader
<1>. QED BY <1>5, <1>6, <1>7, <1>8, <1>9 DEF IInv

\* The channel was closed after the terminal frame: it is the last one written,
\* or a full channel dropped it and it is written now.
LEMMA StreamClosesStep == ASSUME IInv, NEW s \in Readers, StreamCloses(s) PROVE IInv'
<1>. DEFINE r == stream[s].run
            last == terminal[r]
            n == Len(wrote[s])
<1>1. /\ wrote' = IF last.id > LastID(s) THEN [wrote EXCEPT ![s] = Append(wrote[s], last)]
                                         ELSE wrote
      /\ stream' = [stream EXCEPT ![s].at = "ended"]
      /\ stream[s].at = "streaming" /\ frames[s] = <<>> /\ s \in closed
      /\ UNCHANGED <<registered, status, step, cancelled, emitted, persisted, nextID, terminal,
                     subs, frames, closed, cancel, server>>
  BY DEF StreamCloses, GoStream, runVars
<1>2. r \in Runs /\ status[r] = "finished" /\ last \in Frame /\ last.id = nextID[r]
      /\ nextID[r] \in Nat /\ nextID[r] > 0
  BY <1>1 DEF IInv, TypeOK, Started, Subscribers, Terminals
<1>3. wrote[s] \in Seq(Frame) /\ n \in Nat BY DEF IInv, TypeOK
<1>4. \A i \in 1 .. n : wrote[s][i] \in Frame /\ wrote[s][i].id \in Nat BY <1>3, FrameIDs
<1>5. Growing(wrote[s]) /\ \A i \in 1 .. n : FrameOf(s, wrote[s][i])
  BY DEF IInv, InOrder, Ordered
<1>6. Append(wrote[s], last) \in Seq(Frame) /\ Len(Append(wrote[s], last)) = n + 1
      /\ Append(wrote[s], last)[n + 1] = last
      /\ \A i \in 1 .. n : Append(wrote[s], last)[i] = wrote[s][i]
  BY <1>2, <1>3
<1>7. wrote[s] = <<>> <=> n = 0 BY <1>3
<1>8. FrameOf(s, last) BY <1>2 DEF FrameOf
<1>. HIDE DEF n, last
<1>9. /\ wrote'[s] \in Seq(Frame) /\ wrote'[s] # <<>> /\ wrote'[s][Len(wrote'[s])] = last
      /\ Growing(wrote'[s])
      /\ \A i \in 1 .. Len(wrote'[s]) : FrameOf(s, wrote'[s][i])
  <2>1. CASE last.id > LastID(s)
    <3>1. wrote'[s] = Append(wrote[s], last) BY <1>1, <2>1 DEF IInv, TypeOK
    <3>2. n > 0 => LastID(s) = wrote[s][n].id BY <1>3, <1>7 DEF LastID, n
    <3>3. \A i \in 1 .. n : wrote[s][i].id < last.id
      <4>1. SUFFICES ASSUME NEW i \in 1 .. n PROVE wrote[s][i].id < last.id OBVIOUS
      <4>2. n > 0 /\ n \in 1 .. n BY <1>3
      <4>3. wrote[s][i].id <= wrote[s][n].id
        <5>1. CASE i = n BY <1>4, <5>1
        <5>2. CASE i < n BY <1>4, <1>5, <4>2, <5>2 DEF Growing, n
        <5>. QED BY <1>3, <5>1, <5>2
      <4>4. wrote[s][n].id < last.id BY <2>1, <3>2, <4>2, <1>2, <1>4
      <4>. QED BY <4>2, <4>3, <4>4, <1>2, <1>4
    <3>4. Growing(wrote'[s])
      <4>1. SUFFICES ASSUME NEW i \in 1 .. n + 1, NEW j \in 1 .. n + 1, i < j
                     PROVE  wrote'[s][i].id < wrote'[s][j].id
        BY <1>6, <3>1 DEF Growing
      <4>2. i \in 1 .. n BY <4>1, <1>3
      <4>3. CASE j \in 1 .. n BY <4>1, <4>2, <4>3, <1>5, <1>6, <3>1 DEF Growing, n
      <4>4. CASE j = n + 1 BY <4>2, <4>4, <1>6, <3>1, <3>3
      <4>. QED BY <4>3, <4>4, <1>3
    <3>5. \A i \in 1 .. Len(wrote'[s]) : FrameOf(s, wrote'[s][i])
      BY <1>3, <1>5, <1>6, <1>8, <3>1
    <3>6. Len(wrote'[s]) # 0 BY <1>3, <1>6, <3>1
    <3>7. wrote'[s] # <<>> BY <3>6
    <3>. QED BY <1>6, <3>1, <3>4, <3>5, <3>7
  <2>2. CASE ~ (last.id > LastID(s))
    <3>1. wrote'[s] = wrote[s] BY <1>1, <2>2
    <3>2. n # 0
      <4>1. n = 0 => LastID(s) = 0 BY <1>7 DEF LastID
      <4>. QED BY <1>2, <2>2, <4>1
    <3>3. n \in 1 .. n /\ LastID(s) = wrote[s][n].id BY <1>3, <1>7, <3>2 DEF LastID, n
    <3>4. FrameOf(s, wrote[s][n]) /\ wrote[s][n].id \in Nat BY <1>4, <1>5, <3>3
    <3>5. ~ (wrote[s][n].id < nextID[r]) BY <1>2, <2>2, <3>3, <3>4
    <3>6. wrote[s][n] = last BY <1>2, <3>4, <3>5 DEF FrameOf, last
    <3>. QED BY <1>3, <1>5, <1>7, <3>1, <3>2, <3>6 DEF n
  <2>. QED BY <2>1, <2>2
<1>10. /\ \A t \in Readers \ {s} : wrote'[t] = wrote[t] /\ stream'[t] = stream[t]
       /\ \A t \in Readers : stream'[t].run = stream[t].run
       /\ stream'[s].at = "ended"
       /\ wrote' \in [Readers -> Seq(Frame)]
  <2>1. wrote' \in [Readers -> Seq(Frame)] BY <1>1, <1>6 DEF IInv, TypeOK
  <2>. QED BY <1>1, <2>1 DEF IInv, TypeOK
<1>11. TypeOK' BY <1>1, <1>10 DEF IInv, TypeOK
<1>12. RunShape' /\ Terminals' /\ Draining'
  BY <1>1 DEF IInv, RunShape, Active, Terminals, Draining, RunsInProgress
<1>13. Started' BY <1>1, <1>10 DEF IInv, Started
<1>14. Endings' BY <1>1, <1>2, <1>9, <1>10 DEF IInv, Endings, last
<1>15. Subscribers'
  <2>1. \A q \in Runs : s \notin subs[q]
    <3>1. status[r] = "finished" BY <1>2
    <3>. QED BY <3>1 DEF IInv, Subscribers
  <2>. QED BY <1>1, <1>10, <2>1 DEF IInv, Subscribers
<1>16. InOrder'
  <2>1. frames'[s] = <<>> /\ stream'[s].run = r BY <1>1, <1>10
  <2>2. Ordered(s)' BY <1>1, <1>9, <2>1 DEF Ordered, Growing, FrameOf
  <2>. QED BY <1>1, <1>10, <2>2, OneReader
<1>. QED BY <1>11, <1>12, <1>13, <1>14, <1>15, <1>16 DEF IInv

LEMMA DisconnectStep == ASSUME IInv, NEW s \in Readers, Disconnect(s) PROVE IInv'
<1>1. /\ stream' = [stream EXCEPT ![s].at = "gone"]
      /\ subs' = [subs EXCEPT ![stream[s].run] = @ \ {s}]
      /\ stream[s].at = "streaming"
      /\ UNCHANGED <<registered, status, step, cancelled, emitted, persisted, nextID, terminal,
                     frames, closed, wrote, cancel, server>>
  BY DEF Disconnect, GoStream, runVars
<1>2. stream[s].run \in Runs BY <1>1 DEF IInv, Started
<1>3. /\ \A t \in Readers : stream'[t].run = stream[t].run
      /\ \A t \in Readers \ {s} : stream'[t] = stream[t]
      /\ stream'[s].at = "gone"
  BY <1>1 DEF IInv, TypeOK
<1>4. TypeOK' BY <1>1, <1>2 DEF IInv, TypeOK
<1>5. RunShape' /\ Terminals' /\ Draining'
  BY <1>1 DEF IInv, RunShape, Active, Terminals, Draining, RunsInProgress
<1>6. Started' BY <1>1, <1>3 DEF IInv, Started
<1>7. Subscribers' BY <1>1, <1>2, <1>3 DEF IInv, TypeOK, Subscribers
<1>8. Endings' BY <1>1, <1>3 DEF IInv, Endings
<1>9. InOrder'
  <2>1. wrote'[s] = wrote[s] /\ frames'[s] = frames[s] BY <1>1
  <2>2. Ordered(s)' BY <1>1, <1>3, <2>1 DEF IInv, InOrder, Ordered, Growing, FrameOf
  <2>. QED BY <1>1, <1>3, <2>2, OneReader
<1>. QED BY <1>4, <1>5, <1>6, <1>7, <1>8, <1>9 DEF IInv
-----------------------------------------------------------------------------
(***************************************************************************)
(* The steps of a cancel and of the server.                                *)
(***************************************************************************)
LEMMA CancelRequestStep ==
  ASSUME IInv, NEW c \in Cancels, CancelLookup(c) \/ CancelMark(c) \/ CancelContext(c)
  PROVE  IInv'
<1>1. CASE CancelLookup(c)
  <2>1. registered \in Runs BY <1>1 DEF CancelLookup, IInv, TypeOK
  <2>2. TypeOK' BY <1>1, <2>1 DEF CancelLookup, IInv, TypeOK, runVars, readerVars
  <2>3. RunShape' /\ Terminals' /\ Draining'
    BY <1>1 DEF CancelLookup, IInv, RunShape, Active, Terminals, Draining, RunsInProgress, runVars
  <2>4. Started' BY <1>1, <2>1 DEF CancelLookup, IInv, TypeOK, Started, runVars, readerVars
  <2>5. Subscribers' /\ InOrder' /\ Endings'
    BY <1>1, StreamsUnchanged DEF CancelLookup, runVars, readerVars
  <2>. QED BY <2>2, <2>3, <2>4, <2>5 DEF IInv
<1>2. CASE CancelMark(c)
  <2>. DEFINE r == cancel[c].run
  <2>1. r \in Runs BY <1>2 DEF CancelMark, IInv, Started
  <2>2. /\ \/ Active(r) /\ status' = [status EXCEPT ![r] = "cancelling"]
           \/ UNCHANGED status
        /\ \/ cancel' = [cancel EXCEPT ![c].at = "marked"]
           \/ cancel' = [cancel EXCEPT ![c].at = "refused"]
        /\ cancel[c].at = "found"
        /\ UNCHANGED <<registered, step, cancelled, emitted, persisted, nextID, terminal,
                       subs, frames, closed, stream, wrote, server>>
    BY <1>2 DEF CancelMark, GoCancel, readerVars
  <2>. HIDE DEF r
  <2>3. TypeOK'
    <3>1. status' \in [Runs -> {"none", "running", "cancelling", "finished"}]
      BY <2>1, <2>2 DEF IInv, TypeOK
    <3>2. cancel' \in [Cancels -> [at : {"idle", "found", "marked", "accepted", "refused"},
                                  run : Runs \union {NoRun}]]
      <4>1. cancel \in [Cancels -> [at : {"idle", "found", "marked", "accepted", "refused"},
                                   run : Runs \union {NoRun}]]
        BY DEF IInv, TypeOK
      <4>2. CASE cancel' = [cancel EXCEPT ![c].at = "marked"] BY <4>1, <4>2
      <4>3. CASE cancel' = [cancel EXCEPT ![c].at = "refused"] BY <4>1, <4>3
      <4>. QED BY <2>2, <4>2, <4>3
    <3>. QED BY <2>2, <3>1, <3>2 DEF IInv, TypeOK
  <2>4. /\ \A q \in Runs : Active(q)' <=> Active(q)
        /\ \A q \in Runs : status'[q] = "finished" <=> status[q] = "finished"
        /\ \A q \in Runs : status'[q] = "none" <=> status[q] = "none"
    BY <2>1, <2>2 DEF IInv, TypeOK, Active
  <2>5. RunShape' BY <2>2, <2>4 DEF IInv, RunShape
  <2>6. Terminals' BY <2>2, <2>4 DEF IInv, Terminals
  <2>7. Started'
    <3>1. \A d \in Cancels : cancel'[d].run = cancel[d].run
                           /\ (cancel'[d].at # "idle" => cancel[d].at # "idle")
      <4>1. cancel \in [Cancels -> [at : {"idle", "found", "marked", "accepted", "refused"},
                                   run : Runs \union {NoRun}]]
        BY DEF IInv, TypeOK
      <4>2. CASE cancel' = [cancel EXCEPT ![c].at = "marked"] BY <2>2, <4>1, <4>2
      <4>3. CASE cancel' = [cancel EXCEPT ![c].at = "refused"] BY <2>2, <4>1, <4>3
      <4>. QED BY <2>2, <4>2, <4>3
    <3>2. registered \in Runs \union {NoRun} BY DEF IInv, TypeOK
    <3>. QED BY <2>2, <2>4, <3>1, <3>2 DEF IInv, Started
  <2>8. Subscribers' /\ InOrder' /\ Endings' BY <2>2, <2>4, StreamsUnchanged
  <2>9. Draining' BY <2>2 DEF IInv, Draining, RunsInProgress
  <2>. QED BY <2>3, <2>5, <2>6, <2>7, <2>8, <2>9 DEF IInv
<1>3. CASE CancelContext(c)
  <2>1. cancel[c].run \in Runs BY <1>3 DEF CancelContext, IInv, Started
  <2>2. /\ cancelled' = cancelled \union {cancel[c].run}
        /\ cancel' = [cancel EXCEPT ![c].at = "accepted"]
        /\ cancel[c].at = "marked"
        /\ UNCHANGED <<registered, status, step, emitted, persisted, nextID, terminal,
                       subs, frames, closed, stream, wrote, server>>
    BY <1>3 DEF CancelContext, GoCancel, readerVars
  <2>3. TypeOK' BY <2>1, <2>2 DEF IInv, TypeOK
  <2>4. RunShape' /\ Terminals' /\ Draining'
    BY <2>2 DEF IInv, RunShape, Active, Terminals, Draining, RunsInProgress
  <2>5. Started' BY <2>2 DEF IInv, TypeOK, Started
  <2>6. Subscribers' /\ InOrder' /\ Endings' BY <2>2, StreamsUnchanged
  <2>. QED BY <2>3, <2>4, <2>5, <2>6 DEF IInv
<1>. QED BY <1>1, <1>2, <1>3

\* The shutdown cancels the one active run; the drain leaves no start request,
\* so nothing starts behind the wait for the runs.
LEMMA ServerStep ==
  ASSUME IInv, ShutdownBegins \/ CancelAll \/ Drained \/ RunsStopped \/ DeadlineExpires
  PROVE  IInv'
<1>1. CASE CancelAll
  <2>1. /\ \/ registered \in Runs /\ Active(registered)
              /\ status' = [status EXCEPT ![registered] = "cancelling"]
              /\ cancelled' = cancelled \union {registered}
           \/ UNCHANGED <<status, cancelled>>
        /\ server' = "draining"
        /\ UNCHANGED <<registered, step, emitted, persisted, nextID, terminal,
                       subs, frames, closed, stream, wrote, cancel>>
    BY <1>1 DEF CancelAll, Busy, IInv, TypeOK, readerVars
  <2>2. TypeOK' BY <2>1 DEF IInv, TypeOK
  <2>3. /\ \A q \in Runs : Active(q)' <=> Active(q)
        /\ \A q \in Runs : status'[q] = "finished" <=> status[q] = "finished"
        /\ \A q \in Runs : status'[q] = "none" <=> status[q] = "none"
    BY <2>1 DEF IInv, TypeOK, Active
  <2>4. RunShape' BY <2>1, <2>3 DEF IInv, RunShape
  <2>5. Terminals' BY <2>1, <2>3 DEF IInv, Terminals
  <2>6. Started'
    <3>1. registered \in Runs \union {NoRun} BY DEF IInv, TypeOK
    <3>. QED BY <2>1, <2>3, <3>1 DEF IInv, Started
  <2>7. Subscribers' /\ InOrder' /\ Endings' BY <2>1, <2>3, StreamsUnchanged
  <2>8. Draining' BY <2>1 DEF Draining
  <2>. QED BY <2>2, <2>4, <2>5, <2>6, <2>7, <2>8 DEF IInv
<1>2. CASE ~ CancelAll
  <2>1. /\ UNCHANGED <<registered, status, step, cancelled, emitted, persisted, nextID, terminal,
                       subs, frames, closed, stream, wrote, cancel>>
        /\ server' \in {"cancelling", "waiting", "stopped", "expired"}
    BY <1>2 DEF ShutdownBegins, Drained, RunsStopped, DeadlineExpires, runVars, readerVars
  <2>2. TypeOK' BY <2>1 DEF IInv, TypeOK
  <2>3. RunShape' /\ Started' /\ Terminals'
    BY <2>1 DEF IInv, RunShape, Active, Started, Terminals
  <2>4. Subscribers' /\ InOrder' /\ Endings' BY <2>1, StreamsUnchanged
  <2>5. Draining'
    BY <1>2, <2>1 DEF IInv, Draining, RunsInProgress, RequestsInProgress,
                      ShutdownBegins, Drained, RunsStopped, DeadlineExpires
  <2>. QED BY <2>2, <2>3, <2>4, <2>5 DEF IInv
<1>. QED BY <1>1, <1>2

-----------------------------------------------------------------------------
LEMMA InitInv == Init => IInv
<1>. SUFFICES ASSUME Init PROVE IInv OBVIOUS
<1>1. TypeOK BY SizesAssumption DEF Init, TypeOK
<1>2. RunShape /\ Started /\ Terminals
  BY DEF Init, RunShape, Working, Active, Started, Terminals
<1>3. Subscribers /\ Endings /\ Draining BY DEF Init, Subscribers, Endings, Draining
<1>4. InOrder BY DEF Init, InOrder, Ordered, Growing
<1>. QED BY <1>1, <1>2, <1>3, <1>4 DEF IInv

LEMMA StutterInv == IInv /\ UNCHANGED vars => IInv'
<1>. SUFFICES ASSUME IInv, UNCHANGED vars PROVE IInv' OBVIOUS
<1>1. UNCHANGED <<registered, status, step, cancelled, emitted, persisted, nextID, terminal,
                 subs, frames, closed, stream, wrote, cancel, server>>
  BY DEF vars, runVars, readerVars
<1>2. TypeOK' BY <1>1 DEF IInv, TypeOK
<1>3. RunShape' /\ Started' /\ Terminals' /\ Draining'
  BY <1>1 DEF IInv, RunShape, Active, Started, Terminals, Draining, RunsInProgress
<1>4. Subscribers' /\ InOrder' /\ Endings' BY <1>1, StreamsUnchanged
<1>. QED BY <1>2, <1>3, <1>4 DEF IInv

\* Every step keeps the invariant.
LEMMA NextInv == IInv /\ [Next]_vars => IInv'
<1>. SUFFICES ASSUME IInv, [Next]_vars PROVE IInv' OBVIOUS
<1>1. CASE \E r \in Runs : Admit(r) \/ RunStep(r)
  BY <1>1, AdmitStep, StartStep, EmitStep, WorkStep, ReportStep DEF RunStep
<1>2. CASE \E s \in Readers : Lookup(s) \/ ReaderStep(s) \/ Disconnect(s)
  BY <1>2, LookupStep, SubscribeStep, WriteFrameStep, StreamClosesStep, DisconnectStep
     DEF ReaderStep
<1>3. CASE \E c \in Cancels : CancelLookup(c) \/ CancelStep(c)
  BY <1>3, CancelRequestStep DEF CancelStep
<1>4. CASE ShutdownBegins \/ CancelAll \/ Drained \/ RunsStopped \/ DeadlineExpires
  BY <1>4, ServerStep
<1>5. CASE UNCHANGED vars BY <1>5, StutterInv
<1>. QED BY <1>1, <1>2, <1>3, <1>4, <1>5 DEF Next

LEMMA Invariant == Spec => []IInv
BY InitInv, NextInv, PTL DEF Spec

\* The registry, the runs, the streams and the server stay in the states the
\* code has for them.
THEOREM TypeCorrect == Spec => []TypeOK
<1>1. IInv => TypeOK BY DEF IInv
<1>. QED BY <1>1, Invariant, PTL

\* However many start requests saw a free dub, the second look under the
\* registry's mutex lets one of them run it (run.go start).
THEOREM OneRunAtATime == Spec => []OneActiveRun
<1>1. IInv => OneActiveRun BY DEF IInv, RunShape, OneActiveRun
<1>. QED BY <1>1, Invariant, PTL

\* However many frames a full channel dropped, a stream the server ended wrote
\* the terminal frame, last and once (events.go streamSubscriber).
THEOREM StreamsComplete == Spec => []StreamsAreComplete
<1>1. ASSUME IInv PROVE StreamsAreComplete
  <2>1. ASSUME NEW s \in Readers
        PROVE  \A i, j \in 1 .. Len(wrote[s]) : i < j => wrote[s][i].id < wrote[s][j].id
    BY <1>1 DEF IInv, InOrder, Ordered, Growing
  <2>2. ASSUME NEW s \in Readers, stream[s].at = "ended"
        PROVE  /\ wrote[s] # <<>>
               /\ wrote[s][Len(wrote[s])] = terminal[stream[s].run]
               /\ terminal[stream[s].run].kind # "none"
    BY <1>1, <2>2 DEF IInv, Endings, Started, Terminals
  <2>. QED BY <2>1, <2>2 DEF StreamsAreComplete
<1>. QED BY <1>1, Invariant, PTL

\* No reader, whatever it connected to and when, is told "done" by a run whose
\* rows are not recorded (run.go emit and finish).
THEOREM DoneIsPersisted == Spec => []DoneMeansPersisted
<1>1. ASSUME IInv PROVE DoneMeansPersisted
  <2>1. SUFFICES ASSUME NEW s \in Readers, NEW i \in 1 .. Len(wrote[s]),
                        wrote[s][i].kind = "done"
                 PROVE  stream[s].run \in persisted
    BY DEF DoneMeansPersisted
  <2>2. FrameOf(s, wrote[s][i]) BY <1>1 DEF IInv, InOrder, Ordered
  <2>3. status[stream[s].run] = "finished" /\ terminal[stream[s].run].kind = "done"
    BY <2>1, <2>2 DEF FrameOf
  <2>4. wrote[s] # <<>>
    <3>1. wrote[s] \in Seq(Frame) BY <1>1 DEF IInv, TypeOK
    <3>2. Len(wrote[s]) # 0 BY <3>1
    <3>. QED BY <3>2
  <2>5. stream[s].run \in Runs BY <1>1, <2>4 DEF IInv, Subscribers, Started
  <2>. QED BY <1>1, <2>3, <2>5 DEF IInv, Terminals
<1>. QED BY <1>1, Invariant, PTL

\* The wait for the runs comes after the wait for the requests, so no request
\* starts a run behind it (server.go Shutdown).
THEOREM ShutdownIsClean == Spec => []CleanShutdown
<1>1. IInv => CleanShutdown BY DEF IInv, Draining, CleanShutdown
<1>. QED BY <1>1, Invariant, PTL
=============================================================================
