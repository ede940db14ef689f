------------------------- MODULE TimelineEditsProofs -------------------------
(***************************************************************************)
(* TimelineEdits keeps its types, no overlap grows unnoticed and commands  *)
(* do what they say, for any number of pages, lines and edits and integers *)
(* of any width.                                                           *)
(***************************************************************************)
EXTENDS TimelineEdits, FiniteSetTheorems, TLAPS

\* Whatever its numbers are, an edit is computed in int64.
LEMMA WrapInt == ASSUME NEW x \in Int PROVE Wrap(x) \in Int64
<1>1. 2 * (MaxInt + 1) \in Nat \ {0} /\ MaxInt \in Nat
  BY EditsAssumption
<1>2. (x + MaxInt + 1) % (2 * (MaxInt + 1)) \in 0 .. 2 * (MaxInt + 1) - 1
  BY <1>1
<1> QED
  BY <1>1, <1>2 DEF Wrap, Int64

\* A number that fits is itself; the sum of two that fit, if it does not, is
\* negative.
LEMMA WrapFits == ASSUME NEW x \in Int64 PROVE Wrap(x) = x
<1> DEFINE width == 2 * (MaxInt + 1)
<1>1. width \in Nat \ {0} /\ MaxInt \in Nat /\ x + MaxInt + 1 \in 0 .. width - 1
  BY EditsAssumption DEF Int64
<1>2. \A n \in Nat \ {0}, a \in Int : 0 <= a /\ a < n => a % n = a
  OBVIOUS
<1> HIDE DEF width
<1>3. (x + MaxInt + 1) % width = x + MaxInt + 1
  BY <1>1, <1>2
<1> QED BY <1>1, <1>3 DEF Wrap, width, Int64

LEMMA WrapOver ==
  ASSUME NEW x \in Nat, MaxInt < x, x <= 2 * MaxInt
  PROVE  Wrap(x) < 0
<1> DEFINE width == 2 * (MaxInt + 1)
<1>1. /\ width \in Nat \ {0} /\ MaxInt \in Nat /\ x + MaxInt + 1 \in Int
      /\ width <= x + MaxInt + 1 /\ x + MaxInt + 1 < 2 * width
  BY EditsAssumption
<1>2. \A n \in Nat \ {0}, a \in Int : n <= a /\ a < 2 * n => a % n = a - n
  OBVIOUS
<1>3. PICK a \in Int : a = x + MaxInt + 1
  BY <1>1
<1> HIDE DEF width
<1>4. a % width = a - width
  BY <1>1, <1>2, <1>3
<1> QED BY <1>1, <1>3, <1>4 DEF Wrap, width

\* A row is a line of the track of its language.
LEMMA RowParts ==
  ASSUME NEW row \in Rows
  PROVE  /\ row[1] \in Languages /\ row[2] \in LinesOf[row[1]] /\ row[2] \in Lines
         /\ row = <<row[1], row[2]>>
BY DEF Rows

LEMMA TrackRow ==
  ASSUME NEW t \in Languages, NEW l \in LinesOf[t]
  PROVE  <<t, l>> \in Rows
BY EditsAssumption DEF Rows

LEMMA TrackType ==
  ASSUME NEW rows \in [Rows -> LineStates], NEW t \in Languages
  PROVE  /\ Track(rows, t) \in [LinesOf[t] -> LineStates]
         /\ \A l \in LinesOf[t] : Track(rows, t)[l] = rows[<<t, l>>]
BY TrackRow DEF Track

\* A name is resolved to a name.
LEMMA ResolveString ==
  ASSUME NEW S, NEW lines \in [S -> LineStates], NEW typed \in STRING
  PROVE  ResolveSpeaker(lines, typed) \in STRING
<1>1. Starting(lines, typed) \subseteq STRING
  BY DEF Starting, LineStates
<1>2. CASE Named(lines, typed) # {}
  BY <1>2 DEF ResolveSpeaker
<1>3. CASE Named(lines, typed) = {} /\ Cardinality(Starting(lines, typed)) = 1
  <2>1. Starting(lines, typed) # {}
    <3>1. Cardinality({}) = 0 /\ 0 # 1
      BY FS_EmptySet
    <3> QED BY <1>3, <3>1, Zenon
  <2>2. (CHOOSE name \in Starting(lines, typed) : TRUE) \in Starting(lines, typed)
    BY <2>1
  <2> QED BY <1>1, <1>3, <2>2 DEF ResolveSpeaker
<1>4. CASE Named(lines, typed) = {} /\ Cardinality(Starting(lines, typed)) # 1
  BY <1>4, EditsAssumption DEF ResolveSpeaker
<1> QED BY <1>2, <1>3, <1>4

\* New boundaries of a line, if they fit, leave a line.
LEMMA Bounded ==
  ASSUME NEW line \in [start : 0 .. MaxInt, end : 0 .. MaxInt, speaker : STRING],
         NEW a \in Int64, NEW b \in Int64
  PROVE  [line EXCEPT !.start = a, !.end = b] \in [start : Int64, end : Int64, speaker : STRING]
OBVIOUS

\* A validated command leaves a line with a start before its end.
LEMMA MutateLine ==
  ASSUME NEW S, NEW lines \in [S -> LineStates], NEW c \in Commands, NEW duration,
         Validate(duration, lines, c)
  PROVE  c.line \in S /\ Mutate(lines, c) \in LineStates
<1>1. c.line \in S
  BY DEF Validate
<1>2. /\ c.kind \in Kinds /\ c.side \in {"left", "right"}
      /\ c.amount \in 0 .. MaxInt /\ c.speaker \in STRING
  BY EditsAssumption
<1>0. MaxInt \in Nat /\ 0 .. MaxInt \subseteq Int64 /\ Int64 \subseteq Int
  BY EditsAssumption DEF Int64
<1> DEFINE line == lines[c.line]
           made == Mutate(lines, c)
<1>3. line \in [start : 0 .. MaxInt, end : 0 .. MaxInt, speaker : STRING]
  BY <1>1 DEF LineStates
<1>4. made \in [start : Int64, end : Int64, speaker : STRING]
  <2> DEFINE duration1 == Wrap(line.end - line.start)
             by == IF c.side = "left" THEN - c.amount ELSE c.amount
  <2>1. duration1 \in Int /\ by \in Int
    <3>1. line.end - line.start \in Int /\ by \in Int
      BY <1>0, <1>2, <1>3
    <3> HIDE DEF line, by
    <3> QED BY <1>0, <3>1, WrapInt
  <2>2. /\ Wrap(c.amount + duration1) \in Int64 /\ Wrap(c.amount - duration1) \in Int64
        /\ Wrap(line.start + by) \in Int64 /\ Wrap(line.end + by) \in Int64
        /\ Wrap(line.end - c.amount) \in Int64
    <3>1. c.amount + duration1 \in Int /\ c.amount - duration1 \in Int
      BY <1>0, <1>2, <2>1
    <3>2. line.start + by \in Int /\ line.end + by \in Int /\ line.end - c.amount \in Int
      BY <1>2, <1>3, <2>1
    <3> HIDE DEF line, duration1, by
    <3> QED BY <3>1, <3>2, WrapInt
  <2>3. ResolveSpeaker(lines, c.speaker) \in STRING
    BY <1>2, ResolveString
  <2>4. CASE c.kind = "move" /\ c.side = "left"
    <3>1. made = [line EXCEPT !.start = c.amount, !.end = Wrap(c.amount + duration1)]
      BY <2>4 DEF Mutate
    <3>2. c.amount \in Int64
      BY <1>0, <1>2
    <3> HIDE DEF line, made, duration1
    <3> QED BY <3>1, <3>2, <1>3, <2>2, Bounded
  <2>5. CASE c.kind = "move" /\ c.side = "right"
    <3>1. made = [line EXCEPT !.start = Wrap(c.amount - duration1), !.end = c.amount]
      BY <2>5 DEF Mutate
    <3>2. c.amount \in Int64
      BY <1>0, <1>2
    <3> HIDE DEF line, made, duration1
    <3> QED BY <3>1, <3>2, <1>3, <2>2, Bounded
  <2>6. CASE c.kind = "shift"
    <3>1. made = [line EXCEPT !.start = Wrap(line.start + by), !.end = Wrap(line.end + by)]
      BY <2>6 DEF Mutate
    <3> QED BY <1>0, <3>1, <1>3, <2>2
  <2>7. CASE c.kind = "speaker"
    <3>1. made = [line EXCEPT !.speaker = ResolveSpeaker(lines, c.speaker)]
      BY <2>7 DEF Mutate
    <3> QED BY <1>0, <3>1, <1>3, <2>3
  <2>8. CASE c.kind = "shorten"
    <3>1. made = [line EXCEPT !.end = Wrap(line.end - c.amount)]
      BY <2>8 DEF Mutate
    <3> QED BY <1>0, <3>1, <1>3, <2>2
  <2> QED BY <1>2, <2>4, <2>5, <2>6, <2>7, <2>8 DEF Kinds
<1>5. 0 <= made.start /\ made.start < made.end
  BY DEF Validate, Inside
<1> QED
  <2> HIDE DEF made
  <2>1. made \in [start : 0 .. MaxInt, end : 0 .. MaxInt, speaker : STRING]
        /\ made.start < made.end
    BY <1>0, <1>4, <1>5 DEF Int64
  <2> QED BY <1>1, <2>1 DEF LineStates, made

\* A command that is served names a line of the track it was sent for.
LEMMA ServedCommand ==
  ASSUME TypeOK, NEW n \in Requests, request[n] \in Confirmed,
         LET lines == Track(head, RowOf(request[n])[1])
         IN  Validate(CommandDuration(lines), lines, request[n].command)
  PROVE  LET r == request[n]
             lines == Track(head, RowOf(r)[1])
         IN  /\ r.command \in Commands /\ r.language \in Languages
             /\ RowOf(r) = <<r.language, r.command.line>> /\ RowOf(r) \in Rows
             /\ lines \in [LinesOf[r.language] -> LineStates]
             /\ lines[r.command.line] = head[RowOf(r)]
             /\ Mutate(lines, r.command) \in LineStates
<1> DEFINE r == request[n]
           lines == Track(head, RowOf(r)[1])
<1>1. r.kind = "command" /\ r.command \in Commands /\ r.language \in Languages
  BY DEF Confirmed
<1>2. RowOf(r) = <<r.language, r.command.line>> /\ RowOf(r)[1] = r.language
  BY <1>1 DEF RowOf
<1>3. lines \in [LinesOf[r.language] -> LineStates]
  BY <1>1, <1>2, TrackType DEF TypeOK
<1>4. r.command.line \in LinesOf[r.language] /\ Mutate(lines, r.command) \in LineStates
  <2> HIDE DEF lines, r
  <2>1. Validate(CommandDuration(lines), lines, r.command)
    BY DEF lines, r
  <2> QED BY <1>1, <1>3, <2>1, MutateLine
<1>5. RowOf(r) \in Rows /\ lines[r.command.line] = head[RowOf(r)]
  BY <1>1, <1>2, <1>4, TrackRow, TrackType DEF TypeOK
<1> QED BY <1>1, <1>2, <1>3, <1>4, <1>5

\* What a step saves at the head is a line, and is one of Serve.
LEMMA ServedLine ==
  ASSUME TypeOK, NEW n \in Requests, Serve(n)
  PROVE  \/ UNCHANGED <<head, unseen>> /\ Refuse(n)
         \/ \E line \in LineStates :
              /\ RowOf(request[n]) \in Rows
              /\ request[n] \in Drags \union Confirmed
              /\ Save(n, line)
<1> DEFINE r == request[n]
           lines == Track(head, RowOf(r)[1])
<1>1. r \in Drags \union Confirmed
  BY DEF Serve, TypeOK, Unsent, Finished, Saved, Refused
<1>2. CASE r.kind = "boundary" /\ BoundaryEntry(r)
           /\ Save(n, [head[r.row] EXCEPT !.start = r.start, !.end = r.end])
  <2>1. r \in Drags
    BY <1>1, <1>2 DEF Confirmed
  <2>2. /\ r.row \in Rows /\ r.start \in Int /\ r.end \in Int
    BY <2>1 DEF Drags
  <2>3. head[r.row] \in [start : 0 .. MaxInt, end : 0 .. MaxInt, speaker : STRING]
    BY <2>2 DEF TypeOK, LineStates
  <2>4. 0 <= r.start /\ r.start < r.end /\ r.start <= MaxInt /\ r.end <= MaxInt
    BY <1>2, EditsAssumption DEF BoundaryEntry, Decoded, Int64
  <2> DEFINE line == [head[r.row] EXCEPT !.start = r.start, !.end = r.end]
  <2>5. line \in [start : 0 .. MaxInt, end : 0 .. MaxInt, speaker : STRING]
    <3>1. r.start \in 0 .. MaxInt /\ r.end \in 0 .. MaxInt
      BY <2>2, <2>4, EditsAssumption
    <3> QED BY <3>1, <2>3
  <2>6. line.start = r.start /\ line.end = r.end
    BY <2>3
  <2>7. line \in LineStates
    BY <2>4, <2>5, <2>6 DEF LineStates
  <2>8. RowOf(r) \in Rows
    BY <1>2, <2>2 DEF RowOf
  <2> QED BY <1>1, <1>2, <2>7, <2>8
<1>3. CASE r.kind = "command" /\ Validate(CommandDuration(lines), lines, r.command)
           /\ Save(n, Mutate(lines, r.command))
  <2>1. r \in Confirmed
    BY <1>1, <1>3 DEF Drags
  <2>2. RowOf(r) \in Rows /\ Mutate(lines, r.command) \in LineStates
    BY <1>3, <2>1, ServedCommand
  <2> QED BY <1>1, <1>3, <2>2
<1>4. CASE Refuse(n)
  BY <1>4 DEF Refuse
<1> QED BY <1>2, <1>3, <1>4 DEF Serve

-----------------------------------------------------------------------------
LEMMA InitTypeOK == Init => TypeOK
<1> SUFFICES ASSUME Init PROVE TypeOK
  OBVIOUS
<1>1. head \in [Rows -> LineStates]
  BY EditsAssumption DEF Init
<1>2. PICK first \in Rows :
        /\ active = [p \in Pages |-> first[1]]
        /\ edited = [p \in Pages |-> Slot(first[2], head[first])]
  BY DEF Init
<1>3. Slot(first[2], head[first]) \in [line : Lines, start : Int, end : Int]
  BY <1>1, RowParts DEF Slot, LineStates
<1>4. active \in [Pages -> Languages]
  BY <1>2, RowParts
<1> QED BY <1>1, <1>2, <1>3, <1>4 DEF Init, TypeOK

LEMMA DragType ==
  ASSUME TypeOK, NEW p \in Pages, NEW n \in Requests, NEW l \in Lines, Drag(p, n, l)
  PROVE  TypeOK'
<1> DEFINE Slots == [line : Lines, start : Int, end : Int]
<1>0. <<active[p], l>> \in Rows
  BY TrackRow DEF Drag, TypeOK
<1>1. Handles(p, l) \subseteq Slots
  BY <1>0 DEF TypeOK, Handles, Slot, LineStates
<1>2. PICK drawn \in Slots : SendDrag(p, n, l, drawn)
  <2>1. PICK from \in Handles(p, l), to \in DragTo, handle \in {"start", "end"} :
          SendDrag(p, n, l, Drawn(from, to, handle))
    BY DEF Drag
  <2>2. from \in Slots /\ to \in Int /\ MinDuration \in Int
    BY <1>1, EditsAssumption
  <2>3. /\ Sooner(from.end - MinDuration, Later(0, to)) \in Int
        /\ Later(from.start + MinDuration, to) \in Int
    BY <2>2 DEF Sooner, Later
  <2>4. Drawn(from, to, handle) \in Slots
    BY <2>2, <2>3 DEF Drawn
  <2> QED BY <2>1, <2>4
<1>3. [status |-> "sent", kind |-> "boundary", page |-> p, row |-> <<active[p], l>>,
       start |-> drawn.start, end |-> drawn.end,
       allowOverlap |-> Collides(Track(view[p], active[p]), l, drawn.start, drawn.end)] \in Drags
  <2>1. Collides(Track(view[p], active[p]), l, drawn.start, drawn.end) \in BOOLEAN
    BY DEF Collides
  <2> QED BY <1>0, <2>1 DEF Drags
<1>4. head' = head /\ view' = view /\ active' = active /\ unseen' = unseen /\ preview' = [preview EXCEPT ![p] = NoCommand]
  BY DEF Drag
<1>5. request' \in [Requests -> {Unsent, Finished} \union Drags \union Confirmed
                                \union Saved \union Refused]
  BY <1>2, <1>3 DEF SendDrag, TypeOK
<1>6. edited' \in [Pages -> Slots]
  BY <1>2 DEF SendDrag, TypeOK
<1>7. preview' \in [Pages -> Commands \union {NoCommand}]
  BY <1>4 DEF TypeOK
<1> QED BY <1>4, <1>5, <1>6, <1>7 DEF TypeOK

LEMMA ServeType ==
  ASSUME TypeOK, NEW n \in Requests, Serve(n)
  PROVE  TypeOK'
<1>1. view' = view /\ active' = active /\ edited' = edited /\ preview' = preview
  BY DEF Serve
<1>2. CASE UNCHANGED <<head, unseen>> /\ Refuse(n)
  <2>1. request[n] \in Drags \union Confirmed
    BY DEF Serve, TypeOK, Unsent, Finished, Saved, Refused
  <2>2. [status |-> "refused", kind |-> request[n].kind, page |-> request[n].page] \in Refused
    BY <2>1 DEF Drags, Confirmed, Refused
  <2> QED BY <1>1, <1>2, <2>2 DEF Refuse, TypeOK
<1>3. ASSUME NEW line \in LineStates,
             RowOf(request[n]) \in Rows, request[n] \in Drags \union Confirmed, Save(n, line)
      PROVE  TypeOK'
  <2> DEFINE r == request[n]
             row == RowOf(r)
             told == IF InFlight(r.page) = {n} THEN {r.page} ELSE {}
             answer == [status |-> "saved", kind |-> r.kind, page |-> r.page,
                        row |-> row, segment |-> line]
  <2>1. /\ head' = [head EXCEPT ![row] = line]
        /\ request' = [request EXCEPT ![n] = answer]
        /\ unseen' = (unseen \union (Pages \X {row})) \ (told \X {row})
    BY <1>3 DEF Save
  <2>2. r.kind \in {"boundary", "command"} /\ r.page \in Pages /\ row \in Rows
    BY <1>3 DEF Drags, Confirmed
  <2>3. answer \in Saved
    BY <1>3, <2>2 DEF Saved
  <2>4. unseen' \subseteq Pages \X Rows
    BY <2>1, <2>2 DEF TypeOK
  <2> HIDE DEF answer, row, told
  <2> QED BY <1>1, <1>3, <2>1, <2>2, <2>3, <2>4 DEF TypeOK
<1> QED BY <1>2, <1>3, ServedLine

LEMMA StepTypeOK == TypeOK /\ [Next]_vars => TypeOK'
<1> SUFFICES ASSUME TypeOK, [Next]_vars PROVE TypeOK'
  OBVIOUS
<1>1. ASSUME NEW p \in Pages, Preview(p) PROVE TypeOK'
  BY <1>1 DEF Preview, TypeOK
<1>2. ASSUME NEW p \in Pages, NEW n \in Requests, Confirm(p, n) PROVE TypeOK'
  <2>1. preview[p] \in Commands
    BY <1>2 DEF Confirm, TypeOK
  <2>2. [status |-> "sent", kind |-> "command", page |-> p, language |-> active[p],
        command |-> preview[p]] \in Confirmed
    BY <2>1 DEF Confirmed, TypeOK
  <2> QED BY <1>2, <2>2 DEF Confirm, TypeOK
<1>3. ASSUME NEW p \in Pages, NEW n \in Requests, NEW l \in Lines, Drag(p, n, l) PROVE TypeOK'
  BY <1>3, DragType
<1>4. ASSUME NEW n \in Requests, Serve(n) PROVE TypeOK'
  BY <1>4, ServeType
<1>5. ASSUME NEW n \in Requests, Lose(n) PROVE TypeOK'
  <2>1. request[n] \in Drags \union Confirmed \union Saved
    BY <1>5 DEF Lose, TypeOK, Unsent, Finished, Refused
  <2>2. [status |-> "failed", kind |-> request[n].kind, page |-> request[n].page] \in Refused
    BY <2>1 DEF Drags, Confirmed, Saved, Refused
  <2>3. unseen' \subseteq Pages \X Rows
    <3>1. request[n].status = "saved" => request[n].page \in Pages /\ request[n].row \in Rows
      BY <2>1 DEF Drags, Confirmed, Saved
    <3> QED BY <1>5, <3>1 DEF Lose, TypeOK
  <2> QED BY <1>5, <2>2, <2>3 DEF Lose, TypeOK
<1>6. ASSUME NEW n \in Requests, Receive(n) PROVE TypeOK'
  <2> DEFINE r == request[n]
  <2>1. r \in Saved
    <3>1. r.status = "saved"
      BY <1>6 DEF Receive
    <3> QED BY <3>1 DEF TypeOK, Unsent, Finished, Drags, Confirmed, Refused
  <2> DEFINE p == r.page
             l == r.row[2]
             row == <<active[p], l>>
  <2>2. p \in Pages /\ r.row \in Rows /\ l \in Lines /\ r.segment \in LineStates
    BY <2>1, RowParts DEF Saved
  <2>3. Slot(l, r.segment) \in [line : Lines, start : Int, end : Int]
    BY <2>2 DEF Slot, LineStates
  <2>4. /\ \/ view' = view
           \/ row \in Rows /\ view' = [view EXCEPT ![p][row] = r.segment]
        /\ edited' \in {edited, [edited EXCEPT ![p] = Slot(l, r.segment)]}
        /\ preview' \in {preview, [preview EXCEPT ![p] = NoCommand]}
        /\ request' = [request EXCEPT ![n] = Finished]
        /\ unseen' \subseteq unseen \union ({p} \X Rows)
        /\ head' = head /\ active' = active
    BY <1>6 DEF Receive, Applied, Done, Follow
  <2> HIDE DEF p, l, row
  <2>5. view' \in [Pages -> [Rows -> LineStates]]
    <3>1. view \in [Pages -> [Rows -> LineStates]]
      BY DEF TypeOK
    <3>2. ASSUME row \in Rows PROVE [view[p] EXCEPT ![row] = r.segment] \in [Rows -> LineStates]
      BY <2>2, <3>1, <3>2
    <3>3. CASE view' = view
      BY <3>1, <3>3
    <3>4. CASE row \in Rows /\ view' = [view EXCEPT ![p][row] = r.segment]
      BY <2>2, <3>1, <3>2, <3>4
    <3> QED BY <2>4, <3>3, <3>4
  <2>6. edited' \in [Pages -> [line : Lines, start : Int, end : Int]]
    BY <2>2, <2>3, <2>4 DEF TypeOK
  <2> QED BY <2>2, <2>4, <2>5, <2>6 DEF TypeOK
<1>7. ASSUME NEW n \in Requests, ReceiveError(n) PROVE TypeOK'
  <2> DEFINE p == request[n].page
             l == edited[p].line
             row == <<active[p], l>>
  <2>1. request[n] \in Refused
    <3>1. request[n].status \in {"refused", "failed"}
      BY <1>7 DEF ReceiveError
    <3>2. request[n] \in {Unsent, Finished} \union Drags \union Confirmed \union Saved \union Refused
      BY DEF TypeOK
    <3> QED BY <3>1, <3>2 DEF Unsent, Finished, Drags, Confirmed, Saved
  <2>2. p \in Pages /\ l \in Lines
    BY <2>1 DEF Refused, TypeOK
  <2>3. row \in Rows => Slot(l, view[p][row]) \in [line : Lines, start : Int, end : Int]
    <3> HIDE DEF p, l, row
    <3>1. row \in Rows => view[p][row] \in LineStates
      BY <2>2 DEF TypeOK
    <3> QED BY <2>2, <3>1 DEF Slot, LineStates
  <2>4. /\ \/ edited' = edited
           \/ row \in Rows /\ edited' = [edited EXCEPT ![p] = Slot(l, view[p][row])]
        /\ request' = [request EXCEPT ![n] = Finished]
        /\ UNCHANGED <<head, view, active, preview, unseen>>
    BY <1>7 DEF ReceiveError, Done
  <2> HIDE DEF p, l, row
  <2> QED BY <2>2, <2>3, <2>4 DEF TypeOK
<1>9. ASSUME NEW p \in Pages, NEW t \in Languages, Switch(p, t) PROVE TypeOK'
  <2> DEFINE l == edited[p].line
             there == <<t, l>>
             shown == Slot(l, view[p][there])
  <2>1. there \in Rows => shown \in [line : Lines, start : Int, end : Int]
    BY DEF Slot, LineStates, TypeOK
  <2>2. /\ \/ edited' = edited
           \/ there \in Rows /\ edited' = [edited EXCEPT ![p] = shown]
        /\ active' = [active EXCEPT ![p] = t]
        /\ UNCHANGED <<head, view, preview, request, unseen>>
    BY <1>9 DEF Switch, Follow
  <2> HIDE DEF there, shown
  <2> QED BY <2>1, <2>2 DEF TypeOK
<1>8. CASE UNCHANGED vars
  BY <1>8 DEF vars, TypeOK
<1> QED
  BY <1>1, <1>2, <1>3, <1>4, <1>5, <1>6, <1>7, <1>8, <1>9 DEF Next

\* Every line of the head and of a page has a start before its end, whatever is
\* dragged, typed, lost or overtaken (TypeOK).
THEOREM TypeCorrect == Spec => []TypeOK
BY InitTypeOK, StepTypeOK, PTL DEF Spec

-----------------------------------------------------------------------------
\* Overlaps are shared alike.
LEMMA SharedSymmetric ==
  ASSUME NEW a \in LineStates, NEW b \in LineStates
  PROVE  Shared(a, b) = Shared(b, a)
BY DEF LineStates, Shared, Later, Sooner

\* One saved edit makes no overlap with its line deeper, unless its creator kept
\* an overlap.
LEMMA SavedOverlap ==
  ASSUME TypeOK, NEW n \in Requests, Serve(n), request'[n].status = "saved",
         NEW k \in Rows \ {RowOf(request[n])}, k[1] = RowOf(request[n])[1],
         NEW line \in LineStates,
         head' = [head EXCEPT ![RowOf(request[n])] = line],
         ~ (request[n].kind = "boundary" /\ request[n].allowOverlap)
  PROVE  Shared(line, head[k]) <= Shared(head[RowOf(request[n])], head[k])
<1> DEFINE r == request[n]
           row == RowOf(r)
           lines == Track(head, row[1])
<1>1. r \in Drags \union Confirmed
  BY DEF Serve, TypeOK, Unsent, Finished, Saved, Refused
<1>2. ~ Refuse(n)
  BY DEF Refuse, TypeOK
<1>3. ASSUME row \in Rows
      PROVE  /\ lines \in [LinesOf[row[1]] -> LineStates]
             /\ k[2] \in LinesOf[row[1]] \ {row[2]}
             /\ lines[k[2]] = head[k] /\ lines[row[2]] = head[row]
  <2>1. /\ row[1] \in Languages /\ row[2] \in LinesOf[row[1]] /\ row = <<row[1], row[2]>>
        /\ k[2] \in LinesOf[k[1]] /\ k = <<k[1], k[2]>>
    BY <1>3, RowParts
  <2> HIDE DEF row
  <2>2. k[1] = row[1] /\ k # row
    BY DEF row, r
  <2>3. /\ lines \in [LinesOf[row[1]] -> LineStates]
        /\ \A l \in LinesOf[row[1]] : lines[l] = head[<<row[1], l>>]
    BY <2>1, TrackType DEF TypeOK
  <2> HIDE DEF lines
  <2> QED BY <2>1, <2>2, <2>3
<1>4. CASE r.kind = "boundary"
  <2>1. r \in Drags
    BY <1>1, <1>4 DEF Confirmed
  <2>2. /\ BoundaryEntry(r)
        /\ Save(n, [head[r.row] EXCEPT !.start = r.start, !.end = r.end])
    BY <1>2, <1>4 DEF Serve
  <2>3. row = r.row /\ r.row \in Rows /\ r.start \in Int /\ r.end \in Int
    BY <1>4, <2>1 DEF RowOf, Drags
  <2>4. ~ (r.start < head[k].end /\ r.end > head[k].start)
    <3>1. ~ Collides(lines, row[2], r.start, r.end)
      BY <1>4, <2>2, <2>3 DEF BoundaryEntry
    <3>2. DOMAIN lines = LinesOf[row[1]] /\ k[2] \in DOMAIN lines \ {row[2]} /\ lines[k[2]] = head[k]
      BY <1>3, <2>3
    <3> HIDE DEF lines, row, r
    <3> QED BY <3>1, <3>2 DEF Collides
  <2>5. line = [head[r.row] EXCEPT !.start = r.start, !.end = r.end]
    BY <2>2, <2>3 DEF Save, TypeOK
  <2>6. line.start = r.start /\ line.end = r.end
    BY <2>3, <2>5 DEF TypeOK, LineStates
  <2>7. head[k] \in LineStates /\ head[row] \in LineStates
    BY <2>3 DEF TypeOK
  <2> HIDE DEF row, r, lines
  <2>8. Shared(line, head[k]) = 0
    BY <2>3, <2>4, <2>6, <2>7 DEF Shared, Later, Sooner, LineStates
  <2>9. Shared(head[row], head[k]) >= 0
    BY <2>7 DEF Shared, Later, Sooner, LineStates
  <2> QED BY <2>8, <2>9 DEF row, r
<1>5. CASE r.kind = "command"
  <2>1. r \in Confirmed
    BY <1>1, <1>5 DEF Drags
  <2>2. /\ Validate(CommandDuration(lines), lines, r.command)
        /\ Save(n, Mutate(lines, r.command))
    BY <1>2, <1>5 DEF Serve
  <2>3. row \in Rows /\ row = <<r.language, r.command.line>>
    BY <2>1, <2>2, ServedCommand
  <2>4. line = Mutate(lines, r.command)
    BY <2>2, <2>3 DEF Save, TypeOK
  <2>5. ~ (Shared(line, head[k]) > Shared(head[row], head[k]))
    <3>1. ~ Overlaps(lines, row[2], line)
      BY <2>2, <2>3, <2>4 DEF Validate
    <3>2. /\ DOMAIN lines = LinesOf[row[1]] /\ k[2] \in DOMAIN lines \ {row[2]}
          /\ lines[k[2]] = head[k] /\ lines[row[2]] = head[row]
      BY <1>3, <2>3
    <3> HIDE DEF lines, row, r
    <3> QED BY <3>1, <3>2 DEF Overlaps
  <2>6. head[k] \in LineStates /\ head[row] \in LineStates
    BY <2>3 DEF TypeOK
  <2> HIDE DEF row, r, lines
  <2>7. Shared(line, head[k]) \in Int /\ Shared(head[row], head[k]) \in Int
    BY <2>6 DEF Shared, Later, Sooner, LineStates
  <2> QED BY <2>5, <2>7 DEF row, r
<1> QED BY <1>1, <1>4, <1>5 DEF Drags, Confirmed

\* An overlap grows in a step that saves a drag whose creator kept one.
LEMMA StepKeepsOverlaps ==
  ASSUME TypeOK, [Next]_vars, NEW k \in Rows, NEW l \in Rows, k # l, k[1] = l[1],
         Shared(head'[k], head'[l]) > Shared(head[k], head[l])
  PROVE  \E n \in Requests : /\ Saves(n) /\ request[n].kind = "boundary"
                             /\ request[n].allowOverlap /\ request[n].row[1] = k[1]
<1>1. head[k] \in LineStates /\ head[l] \in LineStates
  BY DEF TypeOK
<1>2. Shared(head[k], head[l]) \in Int
  BY <1>1 DEF Shared, Later, Sooner, LineStates
<1>3. head' # head
  BY <1>2
<1>4. PICK n \in Requests : Serve(n)
  BY <1>3 DEF Next, vars, Preview, Confirm, Drag, Switch, Lose, Receive, ReceiveError
<1>5. PICK line \in LineStates :
        RowOf(request[n]) \in Rows /\ Save(n, line)
  BY <1>3, <1>4, ServedLine
<1> DEFINE e == RowOf(request[n])
<1>6. head' = [head EXCEPT ![e] = line] /\ e \in Rows
  BY <1>5 DEF Save
<1>7. Saves(n)
  BY <1>4, <1>5 DEF Saves, Serve, Save, TypeOK
<1>8. e = k \/ e = l
  <2>1. e # k /\ e # l => head'[k] = head[k] /\ head'[l] = head[l]
    BY <1>6 DEF TypeOK
  <2> HIDE DEF e
  <2> QED BY <1>2, <2>1
<1>9. SUFFICES ASSUME ~ (request[n].kind = "boundary" /\ request[n].allowOverlap)
               PROVE  FALSE
  BY <1>7, <1>8 DEF RowOf
<1>10. ASSUME NEW j \in Rows \ {e}, j[1] = k[1]
       PROVE  Shared(line, head[j]) <= Shared(head[e], head[j])
  <2>1. j[1] = e[1]
    BY <1>8, <1>10
  <2> QED BY <1>4, <1>6, <1>7, <1>9, <1>10, <2>1, SavedOverlap DEF Saves
<1> HIDE DEF e
<1>11. CASE e = k
  <2>1. head'[k] = line /\ head'[l] = head[l] /\ l \in Rows \ {e}
    BY <1>6, <1>11 DEF TypeOK
  <2>2. Shared(line, head[l]) <= Shared(head[k], head[l])
    BY <1>10, <1>11, <2>1
  <2>3. Shared(line, head[l]) \in Int
    BY <1>1 DEF Shared, Later, Sooner, LineStates
  <2> QED BY <1>2, <2>1, <2>2, <2>3
<1>12. CASE e = l
  <2>1. head'[l] = line /\ head'[k] = head[k] /\ k \in Rows \ {e}
    BY <1>6, <1>12 DEF TypeOK
  <2>2. Shared(line, head[k]) <= Shared(head[l], head[k])
    BY <1>10, <1>12, <2>1
  <2>3. /\ Shared(line, head[k]) = Shared(head[k], line)
        /\ Shared(head[l], head[k]) = Shared(head[k], head[l])
    BY <1>1, SharedSymmetric
  <2>4. Shared(head[k], line) \in Int
    BY <1>1 DEF Shared, Later, Sooner, LineStates
  <2> QED BY <1>2, <2>1, <2>2, <2>3, <2>4
<1> QED BY <1>8, <1>11, <1>12

\* However many pages draw and confirm at the same time, no two lines of a track
\* come to overlap more than before, except by a drag on that track whose
\* creator kept an overlap (boundaryEntry in mutations.go, Validate in parse.go).
THEOREM OverlapsAreConfirmed == Spec => NoSilentOverlap
<1>1. TypeOK /\ [Next]_vars =>
        [\A k, l \in Rows :
           k # l /\ k[1] = l[1] /\ Shared(head'[k], head'[l]) > Shared(head[k], head[l]) =>
             \E n \in Requests : /\ Saves(n) /\ request[n].kind = "boundary"
                                 /\ request[n].allowOverlap /\ request[n].row[1] = k[1]]_vars
  BY StepKeepsOverlaps
<1> QED
  BY <1>1, TypeCorrect, PTL DEF Spec, NoSilentOverlap

-----------------------------------------------------------------------------
(***************************************************************************)
(* What a page shows. ShowsWhatItSaved is not inductive: while answers are *)
(* on their way the page shows an older line. What it has to show is then  *)
(* in the answer, and each answer for a line it knows carries the head.    *)
(***************************************************************************)
Answers(p, row) ==
  {n \in Requests : request[n].status = "saved" /\ request[n].page = p /\ request[n].row = row}

Known(p, row) ==
  /\ \A n \in Answers(p, row) : request[n].segment = head[row]
  /\ Answers(p, row) = {} => view[p][row] = head[row]

Informed == \A p \in Pages, row \in Rows : <<p, row>> \notin unseen => Known(p, row)

\* A step that leaves the answers, the line and its view alone.
LEMMA KnownStays ==
  ASSUME NEW p \in Pages, NEW row \in Rows, Informed,
         head'[row] = head[row], view'[p][row] = view[p][row],
         <<p, row>> \in unseen => <<p, row>> \in unseen',
         \A n \in Requests : request'[n].status = "saved" => request'[n] = request[n],
         \A n \in Answers(p, row) : request'[n] = request[n]
  PROVE  <<p, row>> \notin unseen' => Known(p, row)'
<1>1. Answers(p, row)' = Answers(p, row)
  BY DEF Answers
<1> QED
  BY <1>1 DEF Informed, Known, Answers

\* A page alone with its edit is told what it saved; every other page is not.
LEMMA SaveInforms ==
  ASSUME TypeOK, TypeOK', Informed, NEW n \in Requests, NEW line \in LineStates,
         RowOf(request[n]) \in Rows, request[n] \in Drags \union Confirmed,
         Save(n, line), UNCHANGED view
  PROVE  Informed'
<1> DEFINE r == request[n]
           e == RowOf(r)
           told == IF InFlight(r.page) = {n} THEN {r.page} ELSE {}
<1>1. /\ head' = [head EXCEPT ![e] = line]
      /\ request' = [request EXCEPT ![n] =
           [status |-> "saved", kind |-> r.kind, page |-> r.page,
            row |-> e, segment |-> line]]
      /\ unseen' = (unseen \union (Pages \X {e})) \ (told \X {e})
  BY DEF Save
<1>2. r.status = "sent" /\ r.page \in Pages
  BY DEF Drags, Confirmed
<1>3. ASSUME NEW m \in Requests, m # n PROVE request'[m] = request[m]
  BY <1>1, <1>3 DEF TypeOK
<1>4. /\ request'[n].status = "saved" /\ request'[n].page = r.page
      /\ request'[n].row = e /\ request'[n].segment = line
  BY <1>1 DEF TypeOK
<1>5. head'[e] = line /\ \A row \in Rows : row # e => head'[row] = head[row]
  BY <1>1 DEF TypeOK
<1> HIDE DEF r, e
<1>6. SUFFICES ASSUME NEW p \in Pages, NEW row \in Rows, <<p, row>> \notin unseen'
               PROVE  Known(p, row)'
  BY DEF Informed
<1>7. CASE row = e
  <2>1. p = r.page /\ InFlight(r.page) = {n}
    BY <1>1, <1>6, <1>7
  <2>2. \A m \in Requests : m # n => ~ (request[m].status = "saved" /\ request[m].page = p)
    BY <2>1 DEF InFlight
  <2>3. Answers(p, row)' = {n}
    BY <1>3, <1>4, <1>7, <2>1, <2>2 DEF Answers
  <2> QED BY <1>4, <1>5, <1>7, <2>3 DEF Known
<1>8. CASE row # e
  <2>1. <<p, row>> \notin unseen
    BY <1>1, <1>6, <1>8
  <2>2. Answers(p, row)' = Answers(p, row)
    BY <1>2, <1>3, <1>4, <1>8 DEF Answers, r
  <2>3. \A m \in Answers(p, row) : request'[m] = request[m]
    BY <1>2, <1>3 DEF Answers, r
  <2>4. Known(p, row)
    BY <2>1 DEF Informed
  <2> QED BY <1>5, <1>8, <2>2, <2>3, <2>4 DEF Known
<1> QED BY <1>7, <1>8

\* The page draws the answer it gets, on the track it wrote or on another.
LEMMA ReceiveInforms ==
  ASSUME TypeOK, Informed, NEW n \in Requests, Receive(n)
  PROVE  Informed'
<1> DEFINE r == request[n]
           drawn == <<active[r.page], r.row[2]>>
<1>0. r.status = "saved"
  BY DEF Receive
<1>1. r \in Saved
  BY <1>0 DEF TypeOK, Unsent, Finished, Drags, Confirmed, Refused
<1>2. r.page \in Pages /\ r.row \in Rows
  BY <1>1 DEF Saved
<1>3. /\ \/ drawn \notin Rows /\ view' = view
         \/ drawn \in Rows /\ view' = [view EXCEPT ![r.page][drawn] = r.segment]
      /\ unseen' = IF drawn = r.row THEN unseen
                   ELSE unseen \union ({r.page} \X ({r.row, drawn} \intersect Rows))
      /\ request' = [request EXCEPT ![n] = Finished]
      /\ head' = head
  BY DEF Receive, Applied, Done
<1>4. ASSUME NEW m \in Requests, m # n PROVE request'[m] = request[m]
  BY <1>3, <1>4 DEF TypeOK
<1>5. request'[n].status # "saved"
  BY <1>3 DEF TypeOK, Finished
<1> HIDE DEF drawn
<1>6. SUFFICES ASSUME NEW p \in Pages, NEW row \in Rows, <<p, row>> \notin unseen'
               PROVE  Known(p, row)'
  BY DEF Informed
<1>7. <<p, row>> \notin unseen
  BY <1>3, <1>6
<1>8. CASE p = r.page /\ row = drawn
  <2>1. drawn = r.row
    BY <1>3, <1>6, <1>8
  <2>2. view'[p][row] = r.segment
    BY <1>2, <1>3, <1>8, <2>1 DEF TypeOK
  <2>3. n \in Answers(p, row)
    BY <1>0, <1>8, <2>1 DEF Answers
  <2>4. \A m \in Answers(p, row) : request[m].segment = head[row]
    BY <1>7 DEF Informed, Known
  <2>5. view'[p][row] = head[row]
    BY <2>2, <2>3, <2>4
  <2>6. \A m \in Answers(p, row)' : m \in Answers(p, row) /\ request'[m] = request[m]
    BY <1>4, <1>5 DEF Answers
  <2> QED BY <1>3, <2>4, <2>5, <2>6 DEF Known
<1>9. CASE ~ (p = r.page /\ row = drawn)
  <2>1. view'[p][row] = view[p][row]
    BY <1>2, <1>3, <1>9 DEF TypeOK
  <2>2. n \notin Answers(p, row)
    <3>1. ~ (p = r.page /\ row = r.row)
      BY <1>2, <1>3, <1>6, <1>9
    <3> QED BY <3>1 DEF Answers
  <2> QED BY <1>3, <1>4, <1>5, <1>6, <1>7, <2>1, <2>2, KnownStays DEF Answers
<1> QED BY <1>8, <1>9

\* Every step keeps the pages informed.
LEMMA StepInforms == TypeOK /\ TypeOK' /\ Informed /\ [Next]_vars => Informed'
<1> SUFFICES ASSUME TypeOK, TypeOK', Informed, [Next]_vars PROVE Informed'
  OBVIOUS
<1>1. ASSUME UNCHANGED <<head, view>>, unseen \subseteq unseen',
             NEW n \in Requests, request[n].status # "saved", request'[n].status # "saved",
             \A m \in Requests : m # n => request'[m] = request[m]
      PROVE  Informed'
  BY <1>1, KnownStays DEF Informed, Answers
<1>2. ASSUME NEW n \in Requests, NEW p \in Pages, Confirm(p, n) \/ \E l \in Lines : Drag(p, n, l)
      PROVE  Informed'
  <2>1. UNCHANGED <<head, view, unseen>> /\ request[n].status # "saved"
    BY <1>2 DEF Confirm, Drag, IsNext, Unsent
  <2>2. request'[n].status # "saved" /\ \A m \in Requests : m # n => request'[m] = request[m]
    BY <1>2 DEF Confirm, Drag, SendDrag, TypeOK
  <2> QED BY <1>1, <2>1, <2>2
<1>3. ASSUME NEW n \in Requests, Serve(n) PROVE Informed'
  <2>1. view' = view
    BY <1>3 DEF Serve
  <2>2. CASE UNCHANGED <<head, unseen>> /\ Refuse(n)
    <3>1. request[n].status # "saved" /\ request'[n].status # "saved"
          /\ \A m \in Requests : m # n => request'[m] = request[m]
      BY <1>3, <2>2 DEF Serve, Refuse, TypeOK
    <3> QED BY <1>1, <2>1, <2>2, <3>1
  <2> QED BY <1>3, <2>1, <2>2, ServedLine, SaveInforms
<1>4. ASSUME NEW n \in Requests, Lose(n) PROVE Informed'
  <2>1. /\ UNCHANGED <<head, view>> /\ unseen \subseteq unseen'
        /\ request'[n].status # "saved"
        /\ \A m \in Requests : m # n => request'[m] = request[m]
    BY <1>4 DEF Lose, TypeOK
  <2>2. CASE request[n].status # "saved"
    BY <1>1, <2>1, <2>2
  <2>3. CASE request[n].status = "saved"
    <3>1. <<request[n].page, request[n].row>> \in unseen'
      BY <1>4, <2>3 DEF Lose
    <3>2. ASSUME NEW p \in Pages, NEW row \in Rows, <<p, row>> \notin unseen'
          PROVE  Known(p, row)'
      <4>1. n \notin Answers(p, row)
        BY <3>1, <3>2 DEF Answers
      <4> QED BY <2>1, <3>2, <4>1, KnownStays DEF Answers
    <3> QED BY <3>2 DEF Informed
  <2> QED BY <2>2, <2>3
<1>5. ASSUME NEW n \in Requests, Receive(n) PROVE Informed'
  BY <1>5, ReceiveInforms
<1>6. ASSUME NEW n \in Requests, ReceiveError(n) PROVE Informed'
  <2>1. /\ UNCHANGED <<head, view, unseen>> /\ request[n].status # "saved"
        /\ request'[n].status # "saved"
        /\ \A m \in Requests : m # n => request'[m] = request[m]
    BY <1>6 DEF ReceiveError, Done, Finished, TypeOK
  <2> QED BY <1>1, <2>1
<1>7. CASE UNCHANGED <<head, view, request, unseen>>
  BY <1>7, KnownStays DEF Informed, Answers
<1>8. ASSUME NEW p \in Pages, Preview(p) \/ \E t \in Languages : Switch(p, t) PROVE Informed'
  BY <1>7, <1>8 DEF Preview, Switch
<1>9. CASE UNCHANGED vars
  BY <1>7, <1>9 DEF vars
<1> QED
  BY <1>2, <1>3, <1>4, <1>5, <1>6, <1>8, <1>9 DEF Next

\* In every language, a page that waits for nothing shows the head in each line
\* it was told of and drew no other track's answer on, for any number of pages,
\* languages, lines and edits (patchActiveSegment in +page.svelte).
THEOREM PagesShowTheHead == Spec => []ShowsWhatItSaved
<1>1. Init => Informed
  BY DEF Init, Informed, Known, Answers, Unsent
<1>2. Informed => ShowsWhatItSaved
  BY DEF Informed, Known, Answers, InFlight, ShowsWhatItSaved
<1> QED
  BY <1>1, <1>2, TypeCorrect, StepInforms, PTL DEF Spec
-----------------------------------------------------------------------------
(***************************************************************************)
(* What a command does. Its arithmetic is int64's, which wraps: a result   *)
(* that wrapped is negative, and Inside refuses it.                        *)
(***************************************************************************)
LEMMA ValidatedDoes ==
  ASSUME NEW S, NEW lines \in [S -> LineStates], NEW c \in Commands, NEW duration,
         Validate(duration, lines, c)
  PROVE  /\ Does(c, lines[c.line], Mutate(lines, c))
         /\ c.kind = "speaker" /\ Named(lines, c.speaker) # {} =>
              Mutate(lines, c).speaker = c.speaker
<1> DEFINE line == lines[c.line]
           made == Mutate(lines, c)
           length == line.end - line.start
           by == IF c.side = "left" THEN - c.amount ELSE c.amount
<1>0. c.kind \in Kinds /\ c.side \in {"left", "right"} /\ c.amount \in 0 .. MaxInt
  BY EditsAssumption
<1>1. MaxInt \in Nat
  BY EditsAssumption
<1>2. /\ line \in [start : 0 .. MaxInt, end : 0 .. MaxInt, speaker : STRING]
      /\ line.start < line.end
  BY DEF Validate, LineStates
<1>3. 0 <= made.start /\ made.start < made.end
  BY DEF Validate, Inside
<1>4. Wrap(length) = length /\ length \in 1 .. MaxInt
  <2>1. length \in 1 .. MaxInt /\ length \in Int64
    BY <1>1, <1>2 DEF Int64
  <2> HIDE DEF length
  <2> QED BY <2>1, WrapFits
<1>5. ASSUME NEW x \in 0 .. MaxInt, Wrap(x + c.amount) >= 0
      PROVE  Wrap(x + c.amount) = x + c.amount
  <2>1. x + c.amount \in Nat /\ x + c.amount <= 2 * MaxInt
    BY <1>0, <1>1
  <2>2. CASE x + c.amount \in Int64
    BY <2>2, WrapFits
  <2>3. CASE MaxInt < x + c.amount
    <3>1. Wrap(x + c.amount) < 0 BY <2>1, <2>3, WrapOver
    <3>2. Wrap(x + c.amount) \in Int BY <2>1, WrapInt, <1>1 DEF Int64
    <3> QED BY <1>5, <3>1, <3>2
  <2> QED BY <1>1, <2>1, <2>2, <2>3 DEF Int64
<1>6. ASSUME NEW x \in 0 .. MaxInt PROVE Wrap(x - c.amount) = x - c.amount
  <2>1. x - c.amount \in Int64
    BY <1>0, <1>1 DEF Int64
  <2> QED BY <2>1, WrapFits
<1>7. CASE c.kind = "move" /\ c.side = "left"
  <2>1. made = [line EXCEPT !.start = c.amount, !.end = Wrap(c.amount + length)]
    BY <1>4, <1>7 DEF Mutate
  <2>2. made.start = c.amount /\ made.end = Wrap(c.amount + length)
    BY <1>2, <2>1
  <2>3. Wrap(length + c.amount) = length + c.amount
    <3>1. c.amount + length = length + c.amount /\ length + c.amount \in Int
      BY <1>0, <1>4
    <3>2. Wrap(length + c.amount) \in Int
      BY <3>1, <1>1, WrapInt DEF Int64
    <3> QED BY <1>0, <1>1, <1>3, <1>4, <1>5, <2>2, <3>1, <3>2
  <2> HIDE DEF made, line
  <2> QED BY <1>0, <1>2, <1>4, <1>7, <2>2, <2>3 DEF Does, made, line
<1>8. CASE c.kind = "move" /\ c.side = "right"
  <2>1. made = [line EXCEPT !.start = Wrap(c.amount - length), !.end = c.amount]
    BY <1>4, <1>8 DEF Mutate
  <2>2. made.start = Wrap(c.amount - length) /\ made.end = c.amount
    BY <1>2, <2>1
  <2>3. Wrap(c.amount - length) = c.amount - length
    <3>1. c.amount - length \in Int64
      BY <1>0, <1>1, <1>4 DEF Int64
    <3> HIDE DEF length
    <3> QED BY <3>1, WrapFits
  <2> HIDE DEF made, line
  <2> QED BY <1>0, <1>2, <1>4, <1>8, <2>2, <2>3 DEF Does, made, line
<1>9. CASE c.kind = "shift"
  <2>1. made = [line EXCEPT !.start = Wrap(line.start + by), !.end = Wrap(line.end + by)]
    BY <1>9 DEF Mutate
  <2>2. made.start = Wrap(line.start + by) /\ made.end = Wrap(line.end + by)
    BY <1>2, <2>1
  <2>3. Wrap(line.start + by) = line.start + by /\ Wrap(line.end + by) = line.end + by
    <3>1. line.start \in 0 .. MaxInt /\ line.end \in 0 .. MaxInt
      BY <1>2
    <3>2. CASE c.side = "left"
      <4>1. line.start + by = line.start - c.amount /\ line.end + by = line.end - c.amount
        BY <1>0, <1>1, <3>1, <3>2
      <4> HIDE DEF by, line
      <4> QED BY <1>6, <3>1, <4>1
    <3>3. CASE c.side = "right"
      <4>1. by = c.amount
        BY <3>3
      <4>2. made.start >= 0 /\ made.end >= 0
        <5>1. Wrap(line.start + c.amount) \in Int /\ Wrap(line.end + c.amount) \in Int
          <6>1. line.start + c.amount \in Int /\ line.end + c.amount \in Int
            BY <1>0, <1>1, <3>1
          <6> HIDE DEF line
          <6> QED BY <1>1, <6>1, WrapInt DEF Int64
        <5> HIDE DEF by, line, made
        <5> QED BY <1>3, <2>2, <4>1, <5>1
      <4> HIDE DEF by, line, made
      <4> QED BY <1>5, <2>2, <3>1, <4>1, <4>2
    <3> QED BY <1>0, <3>2, <3>3
  <2> HIDE DEF made, line
  <2> QED BY <1>9, <2>2, <2>3 DEF Does, made, line
<1>10. CASE c.kind = "speaker"
  <2>1. made = [line EXCEPT !.speaker = ResolveSpeaker(lines, c.speaker)]
    BY <1>10 DEF Mutate
  <2>2. /\ made.start = line.start /\ made.end = line.end
        /\ made.speaker = ResolveSpeaker(lines, c.speaker)
    BY <1>2, <2>1
  <2>3. Named(lines, c.speaker) # {} => ResolveSpeaker(lines, c.speaker) = c.speaker
    BY DEF ResolveSpeaker
  <2> HIDE DEF made, line
  <2> QED BY <1>10, <2>2, <2>3 DEF Does, made, line
<1>11. CASE c.kind = "shorten"
  <2>1. made = [line EXCEPT !.end = Wrap(line.end - c.amount)]
    BY <1>11 DEF Mutate
  <2>2. made.start = line.start /\ made.end = Wrap(line.end - c.amount)
    BY <1>2, <2>1
  <2>3. Wrap(line.end - c.amount) = line.end - c.amount
    <3>1. line.end \in 0 .. MaxInt
      BY <1>2
    <3> HIDE DEF line
    <3> QED BY <1>6, <3>1
  <2> HIDE DEF made, line
  <2> QED BY <1>11, <2>2, <2>3 DEF Does, made, line
<1> QED BY <1>0, <1>7, <1>8, <1>9, <1>10, <1>11 DEF Kinds

\* The step that saves an edit serves it.
LEMMA SavedIsServed ==
  ASSUME TypeOK, [Next]_vars, NEW n \in Requests, Saves(n)
  PROVE  Serve(n) /\ request[n] \in Drags \union Confirmed
<1>1. request[n].status = "sent" /\ request'[n].status = "saved"
  BY DEF Saves
<1>2. request[n] \in Drags \union Confirmed
  BY <1>1 DEF TypeOK, Unsent, Finished, Saved, Refused
<1>3. request'[n] # request[n]
  BY <1>1
<1>4. ASSUME NEW m \in Requests, Serve(m) PROVE m = n
  <2>1. \A k \in Requests \ {m} : request'[k] = request[k]
    BY <1>4 DEF Serve, Save, Refuse, TypeOK
  <2> QED BY <1>3, <2>1
<1>5. ASSUME NEW m \in Requests, Lose(m) \/ Receive(m) \/ ReceiveError(m) PROVE FALSE
  <2>1. \A k \in Requests \ {m} : request'[k] = request[k]
    BY <1>5 DEF Lose, Receive, ReceiveError, Done, TypeOK
  <2>2. request'[m].status # "saved"
    BY <1>5 DEF Lose, Receive, ReceiveError, Done, Finished, TypeOK
  <2> QED BY <1>1, <1>3, <2>1, <2>2
<1>6. ASSUME NEW p \in Pages, NEW m \in Requests,
             Confirm(p, m) \/ \E l \in Lines : Drag(p, m, l)
      PROVE  FALSE
  <2>1. /\ \A k \in Requests \ {m} : request'[k] = request[k]
        /\ request'[m].status # "saved"
    BY <1>6 DEF Confirm, Drag, SendDrag, TypeOK
  <2> QED BY <1>1, <1>3, <2>1
<1> QED
  BY <1>2, <1>3, <1>4, <1>5, <1>6 DEF Next, vars, Preview, Switch

\* However often the timeline changed since it was previewed, and however large
\* its numbers are, a confirmed command does what its sentence says, on its line
\* alone (Apply in parse.go, EditsHandler in mutations.go).
THEOREM CommandsAreSound == Spec => CommandsDoWhatTheySay
<1>1. ASSUME TypeOK, [Next]_vars, NEW n \in Requests, Saves(n), request[n].kind = "command"
      PROVE  LET c == request[n].command
                 row == RowOf(request[n])
             IN  /\ Does(c, head[row], head'[row])
                 /\ \A other \in Rows \ {row} : head'[other] = head[other]
                 /\ c.kind = "speaker" /\ Named(Track(head, row[1]), c.speaker) # {} =>
                      head'[row].speaker = c.speaker
  <2> DEFINE c == request[n].command
             row == RowOf(request[n])
             lines == Track(head, row[1])
  <2>1. Serve(n) /\ request[n] \in Confirmed
    <3>1. Serve(n) /\ request[n] \in Drags \union Confirmed
      BY <1>1, SavedIsServed
    <3> QED BY <1>1, <3>1 DEF Drags
  <2>2. Validate(CommandDuration(lines), lines, c) /\ Save(n, Mutate(lines, c))
    <3>1. ~ Refuse(n)
      BY <1>1 DEF Refuse, Saves, TypeOK
    <3> QED BY <1>1, <2>1, <3>1 DEF Serve
  <2>3. /\ c \in Commands /\ row \in Rows
        /\ lines \in [LinesOf[request[n].language] -> LineStates]
        /\ lines[c.line] = head[row]
    BY <1>1, <2>1, <2>2, ServedCommand
  <2>4. head' = [head EXCEPT ![row] = Mutate(lines, c)]
    BY <2>2 DEF Save
  <2> HIDE DEF c, row, lines
  <2>5. /\ head'[row] = Mutate(lines, c)
        /\ \A other \in Rows \ {row} : head'[other] = head[other]
    BY <1>1, <2>3, <2>4 DEF TypeOK
  <2>6. /\ Does(c, lines[c.line], Mutate(lines, c))
        /\ c.kind = "speaker" /\ Named(lines, c.speaker) # {} =>
             Mutate(lines, c).speaker = c.speaker
    BY <2>2, <2>3, ValidatedDoes
  <2> QED BY <2>3, <2>5, <2>6, Zenon DEF c, row, lines
<1>2. TypeOK /\ [Next]_vars =>
        [\A n \in Requests : Saves(n) /\ request[n].kind = "command" =>
           LET c == request[n].command
               row == RowOf(request[n])
           IN  /\ Does(c, head[row], head'[row])
               /\ \A other \in Rows \ {row} : head'[other] = head[other]
               /\ c.kind = "speaker" /\ Named(Track(head, row[1]), c.speaker) # {} =>
                    head'[row].speaker = c.speaker]_vars
  BY <1>1
<1> QED
  BY <1>2, TypeCorrect, PTL DEF Spec, CommandsDoWhatTheySay
=============================================================================
