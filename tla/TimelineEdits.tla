---------------------------- MODULE TimelineEdits ----------------------------
(***************************************************************************)
(* Edits of the tracks of one dub from several browser pages: boundary     *)
(* drags and commands (internal/command/parse.go; internal/api/command.go, *)
(* mutations.go; web/src/routes/d/[id]/+page.svelte, lib/edit/*.svelte,    *)
(* lib/LanguageStrip.svelte).                                              *)
(*                                                                         *)
(* The server derives every edit from the head while it holds the dub      *)
(* lock, which is one step here (CommitWriters has the lock and the rows). *)
(* A page draws, checks and previews on the lines it last heard of, in the *)
(* language it shows. An edit names that language when it is sent, and its *)
(* answer is drawn on the track of the language shown when it arrives.     *)
(***************************************************************************)
EXTENDS Integers, FiniteSets

CONSTANTS Pages,
          Languages,
          LineCount,    \* the largest number of a line
          LinesOf,      \* language -> the lines of its track
          Timelines,    \* heads to start from: row -> [start, end, speaker]
          Commands,     \* what the creator may type, parsed
          DragTo,       \* where a handle may be drawn to
          StartsWith,   \* pairs <<name, typed>>: typed is the beginning of name
          NoSpeaker,    \* the empty name
          Picture,      \* the length the pages assume for every film (75008 ms)
          MinDuration,  \* the shortest slot a drag leaves (100 ms)
          MaxInt,       \* the largest int64
          MaxRequests   \* edits sent in one behaviour

Lines == 1 .. LineCount
\* A line of one track. Tracks number their lines independently.
Rows == {row \in Languages \X Lines : row[2] \in LinesOf[row[1]]}
Requests == 1 .. MaxRequests
Kinds == {"move", "shift", "shorten", "speaker"}

Int64 == - (MaxInt + 1) .. MaxInt

LineStates ==
  {line \in [start : 0 .. MaxInt, end : 0 .. MaxInt, speaker : STRING] :
     line.start < line.end}

ASSUME EditsAssumption ==
  /\ LineCount \in Nat \ {0} /\ MaxRequests \in Nat
  /\ MaxInt \in Nat /\ Picture \in Nat /\ MinDuration \in Nat
  /\ DragTo \subseteq Int
  /\ Languages \subseteq STRING
  /\ LinesOf \in [Languages -> SUBSET Lines \ {{}}]
  /\ Timelines \subseteq [Rows -> LineStates]
  /\ NoSpeaker \in STRING
  /\ Commands \subseteq [kind : Kinds, line : Nat, side : {"left", "right"},
                         amount : 0 .. MaxInt, speaker : STRING]

VARIABLES head,     \* row -> its state at the head
          view,     \* page -> row -> its state in the page
          active,   \* page -> the language it shows and edits
          edited,   \* page -> the line under its boundary handles, as drawn
          preview,  \* page -> the command it previewed
          request,  \* edit -> where it is
          unseen    \* history: <<page, row>> a page was not told of, was told of
                    \* out of turn, or drew the answer of another track on

vars == <<head, view, active, edited, preview, request, unseen>>

NoCommand == [kind |-> "none"]
Unsent == [status |-> "unsent"]
Finished == [status |-> "done"]
Slot(l, line) == [line |-> l, start |-> line.start, end |-> line.end]

\* The track of a language: line -> its state.
Track(rows, t) == [l \in LinesOf[t] |-> rows[<<t, l>>]]

ValidTimeline(duration, lines) ==
  \A l \in DOMAIN lines :
    0 <= lines[l].start /\ lines[l].start < lines[l].end /\ lines[l].end <= duration

Drags == [status : {"sent"}, kind : {"boundary"}, page : Pages, row : Rows,
          start : Int, end : Int, allowOverlap : BOOLEAN]
Confirmed == [status : {"sent"}, kind : {"command"}, page : Pages, language : Languages,
              command : Commands]
Saved == [status : {"saved"}, kind : {"boundary", "command"}, page : Pages, row : Rows,
          segment : LineStates]
Refused == [status : {"refused", "failed"}, kind : {"boundary", "command"}, page : Pages]

TypeOK ==
  /\ head \in [Rows -> LineStates]
  /\ view \in [Pages -> [Rows -> LineStates]]
  /\ active \in [Pages -> Languages]
  /\ edited \in [Pages -> [line : Lines, start : Int, end : Int]]
  /\ preview \in [Pages -> Commands \union {NoCommand}]
  /\ request \in [Requests -> {Unsent, Finished} \union Drags \union Confirmed
                              \union Saved \union Refused]
  /\ unseen \subseteq Pages \X Rows

\* The pages open on the first track and its first line.
Init ==
  /\ head \in Timelines
  /\ view = [p \in Pages |-> head]
  /\ \E first \in Rows :
       /\ \A l \in LinesOf[first[1]] : first[2] <= l
       /\ active = [p \in Pages |-> first[1]]
       /\ edited = [p \in Pages |-> Slot(first[2], head[first])]
  /\ preview = [p \in Pages |-> NoCommand]
  /\ request = [n \in Requests |-> Unsent]
  /\ unseen = {}

-----------------------------------------------------------------------------
(***************************************************************************)
(* The command language.                                                   *)
(***************************************************************************)
Wrap(x) == ((x + MaxInt + 1) % (2 * (MaxInt + 1))) - (MaxInt + 1)
Later(a, b) == IF a < b THEN b ELSE a
Sooner(a, b) == IF a < b THEN a ELSE b

Named(lines, typed) == {l \in DOMAIN lines : lines[l].speaker = typed}
Starting(lines, typed) ==
  {lines[l].speaker : l \in {k \in DOMAIN lines : <<lines[k].speaker, typed>> \in StartsWith}}

\* Faulty: the first line whose speaker matches at all.
ResolveFirst(lines, typed) ==
  LET matches == {l \in DOMAIN lines : \/ lines[l].speaker = typed
                                       \/ <<lines[l].speaker, typed>> \in StartsWith}
  IN  IF matches = {} THEN NoSpeaker
      ELSE lines[CHOOSE l \in matches : \A k \in matches : l <= k].speaker

\* A full name, or the beginning of just one name.
ResolveSpeaker(lines, typed) ==
  IF Named(lines, typed) # {} THEN typed
  ELSE IF Cardinality(Starting(lines, typed)) = 1
  THEN CHOOSE name \in Starting(lines, typed) : TRUE
  ELSE NoSpeaker

Mutate(lines, c) ==
  LET line == lines[c.line]
      duration == Wrap(line.end - line.start)
      by == IF c.side = "left" THEN - c.amount ELSE c.amount
  IN  CASE c.kind = "move" /\ c.side = "left" ->
             [line EXCEPT !.start = c.amount, !.end = Wrap(c.amount + duration)]
        [] c.kind = "move" /\ c.side = "right" ->
             [line EXCEPT !.start = Wrap(c.amount - duration), !.end = c.amount]
        [] c.kind = "shift" ->
             [line EXCEPT !.start = Wrap(@ + by), !.end = Wrap(@ + by)]
        [] c.kind = "speaker" ->
             [line EXCEPT !.speaker = ResolveSpeaker(lines, c.speaker)]
        [] c.kind = "shorten" ->
             [line EXCEPT !.end = Wrap(@ - c.amount)]

Shared(a, b) ==
  LET start == Later(a.start, b.start)
      end == Sooner(a.end, b.end)
  IN  IF end <= start THEN 0 ELSE end - start

\* Faulty: lines that overlap already may overlap more.
OverlapsNewly(lines, l, candidate) ==
  \E k \in DOMAIN lines \ {l} : Shared(candidate, lines[k]) > 0 /\ Shared(lines[l], lines[k]) = 0

Overlaps(lines, l, candidate) ==
  \E k \in DOMAIN lines \ {l} : Shared(candidate, lines[k]) > Shared(lines[l], lines[k])

\* Faulty: the order of the boundaries goes without saying.
InsideUnordered(duration, candidate) ==
  0 <= candidate.start /\ candidate.end <= duration

Inside(duration, candidate) ==
  /\ 0 <= candidate.start /\ candidate.end <= duration
  /\ candidate.start < candidate.end

Validate(duration, lines, c) ==
  /\ ValidTimeline(duration, lines)
  /\ c.line \in DOMAIN lines
  /\ c.kind = "move" => c.amount <= duration
  /\ c.kind \in {"shift", "shorten"} => c.amount > 0
  /\ c.kind = "speaker" => ResolveSpeaker(lines, c.speaker) # NoSpeaker
  /\ Inside(duration, Mutate(lines, c))
  /\ ~ Overlaps(lines, c.line, Mutate(lines, c))

\* On the edit route, not in the preview, the longest line extends the length.
CommandDuration(lines) ==
  LET ends == {lines[l].end : l \in DOMAIN lines} \union {Picture}
  IN  CHOOSE d \in ends : \A e \in ends : e <= d

-----------------------------------------------------------------------------
(***************************************************************************)
(* A page sends an edit. n is the next number.                             *)
(***************************************************************************)
Collides(lines, l, start, end) ==
  \E k \in DOMAIN lines \ {l} : start < lines[k].end /\ end > lines[k].start

IsNext(n) == request[n] = Unsent /\ \A m \in 1 .. n - 1 : request[m] # Unsent
InFlight(p) ==
  {n \in Requests : request[n].status \in {"sent", "saved", "refused", "failed"}
                    /\ request[n].page = p}
Confirming(p) == \E n \in InFlight(p) : request[n].kind = "command"

\* A handle stays a minimum from the other one.
Drawn(from, to, handle) ==
  IF handle = "start"
  THEN [from EXCEPT !.start = Sooner(from.end - MinDuration, Later(0, to))]
  ELSE [from EXCEPT !.end = Later(from.start + MinDuration, to)]

SendDrag(p, n, l, drawn) ==
  /\ edited' = [edited EXCEPT ![p] = drawn]
  /\ request' = [request EXCEPT ![n] =
       [status |-> "sent", kind |-> "boundary", page |-> p, row |-> <<active[p], l>>,
        start |-> drawn.start, end |-> drawn.end,
        allowOverlap |-> Collides(Track(view[p], active[p]), l, drawn.start, drawn.end)]]

\* The handles of a line start from where they show, or were selected.
Handles(p, l) ==
  {Slot(l, view[p][<<active[p], l>>])} \union {from \in {edited[p]} : from.line = l}

\* A handle stays in the timeline it is drawn on; one that is held may still be
\* another track's. Where the page sees a collision, only a creator who keeps
\* the overlap gets here.
Drag(p, n, l) ==
  /\ IsNext(n) /\ l \in LinesOf[active[p]]
  /\ \E from \in Handles(p, l), to \in DragTo, handle \in {"start", "end"} :
       /\ \/ to <= Picture \/ to <= from.end
          \/ \E row \in Rows : to <= view[p][row].end
       /\ SendDrag(p, n, l, Drawn(from, to, handle))
  /\ preview' = [preview EXCEPT ![p] = NoCommand]
  /\ UNCHANGED <<head, view, active, unseen>>

\* A preview or a switch that no edit follows any more is left out.
Preview(p) ==
  /\ ~ Confirming(p) /\ \E n \in Requests : IsNext(n)
  /\ \E c \in Commands :
       /\ Validate(Picture, Track(view[p], active[p]), c)
       /\ preview' = [preview EXCEPT ![p] = c]
  /\ UNCHANGED <<head, view, active, edited, request, unseen>>

Confirm(p, n) ==
  /\ IsNext(n)
  /\ preview[p] # NoCommand /\ ~ Confirming(p)
  /\ request' = [request EXCEPT ![n] =
       [status |-> "sent", kind |-> "command", page |-> p, language |-> active[p],
        command |-> preview[p]]]
  /\ UNCHANGED <<head, view, active, edited, preview, unseen>>

\* The handles go where their line goes, unless the creator holds one or is
\* asked to keep an overlap.
Follow(p, l, from, to) ==
  edited' \in {edited} \union
    IF Slot(l, from) = Slot(l, to) THEN {} ELSE {[edited EXCEPT ![p] = Slot(l, to)]}

\* The strip changes the language and nothing else: the preview stays, and so
\* do the edits under way. A track without the selected line shows no handles.
Switch(p, t) ==
  LET l == edited[p].line
      here == <<active[p], l>>
      there == <<t, l>>
  IN  /\ t # active[p] /\ \E n \in Requests : request[n] # Finished
      /\ active' = [active EXCEPT ![p] = t]
      /\ \/ there \notin Rows /\ UNCHANGED edited
         \/ there \in Rows /\ here \notin Rows
            /\ edited' = [edited EXCEPT ![p] = Slot(l, view[p][there])]
         \/ {here, there} \subseteq Rows /\ Follow(p, l, view[p][here], view[p][there])
      /\ UNCHANGED <<head, view, preview, request, unseen>>

-----------------------------------------------------------------------------
(***************************************************************************)
(* The edit route.                                                         *)
(***************************************************************************)
\* A body with larger numbers is not decoded.
Decoded(r) == r.start \in Int64 /\ r.end \in Int64

BoundaryEntry(r) ==
  /\ Decoded(r)
  /\ 0 <= r.start /\ r.start < r.end
  /\ r.allowOverlap \/ ~ Collides(Track(head, r.row[1]), r.row[2], r.start, r.end)

RowOf(r) ==
  IF r.kind = "boundary" THEN r.row ELSE <<r.language, r.command.line>>

Save(n, line) ==
  LET r == request[n]
      row == RowOf(r)
      told == IF InFlight(r.page) = {n} THEN {r.page} ELSE {}
  IN  /\ head' = [head EXCEPT ![row] = line]
      /\ request' = [request EXCEPT ![n] =
           [status |-> "saved", kind |-> r.kind, page |-> r.page,
            row |-> row, segment |-> line]]
      /\ unseen' = (unseen \union (Pages \X {row})) \ (told \X {row})

Refuse(n) ==
  /\ request' = [request EXCEPT ![n] =
       [status |-> "refused", kind |-> request[n].kind, page |-> request[n].page]]
  /\ UNCHANGED <<head, unseen>>

Serve(n) ==
  LET r == request[n]
      lines == Track(head, RowOf(r)[1])
  IN  /\ r.status = "sent"
      /\ \/ r.kind = "boundary" /\ BoundaryEntry(r)
            /\ Save(n, [head[r.row] EXCEPT !.start = r.start, !.end = r.end])
         \/ r.kind = "boundary" /\ ~ BoundaryEntry(r) /\ Refuse(n)
         \/ r.kind = "command" /\ Validate(CommandDuration(lines), lines, r.command)
            /\ Save(n, Mutate(lines, r.command))
         \/ r.kind = "command" /\ ~ Validate(CommandDuration(lines), lines, r.command)
            /\ Refuse(n)
      /\ UNCHANGED <<view, active, edited, preview>>

\* The page learns nothing of a request or an answer the network lost.
Lose(n) ==
  LET r == request[n]
  IN  /\ r.status \in {"sent", "saved"}
      /\ request' = [request EXCEPT ![n] =
           [status |-> "failed", kind |-> r.kind, page |-> r.page]]
      /\ unseen' = IF r.status = "saved"
                   THEN unseen \union {<<r.page, r.row>>} ELSE unseen
      /\ UNCHANGED <<head, view, active, edited, preview>>

-----------------------------------------------------------------------------
(***************************************************************************)
(* A page gets its answer.                                                 *)
(***************************************************************************)
Done(n) == request' = [request EXCEPT ![n] = Finished]

\* Faulty: the page draws what it previewed.
AppliedPreview(p, r) ==
  IF r.kind = "command" /\ preview[p] # NoCommand /\ active[p] = r.row[1]
  THEN Mutate(Track(view[p], active[p]), preview[p]) ELSE r.segment

\* The page draws what the server saved.
Applied(p, r) == r.segment

\* The page patches the line of that number in the track it shows by now; a
\* command selects that line.
Receive(n) ==
  LET r == request[n]
      p == r.page
      l == r.row[2]
      row == <<active[p], l>>
      segment == Applied(p, r)
  IN  /\ r.status = "saved" /\ Done(n)
      /\ \/ row \notin Rows /\ UNCHANGED <<view, edited>>
         \/ row \in Rows /\ view' = [view EXCEPT ![p][row] = segment]
            /\ IF edited[p].line = l
               THEN Follow(p, l, view[p][row], segment)
               ELSE edited' \in {edited} \union
                      IF r.kind = "command" THEN {[edited EXCEPT ![p] = Slot(l, segment)]} ELSE {}
      /\ preview' = IF r.kind = "command"
                    THEN [preview EXCEPT ![p] = NoCommand] ELSE preview
      /\ unseen' = IF row = r.row THEN unseen
                   ELSE unseen \union ({p} \X ({r.row, row} \intersect Rows))
      /\ UNCHANGED <<head, active>>

\* After an error the handles show the line again; a command may be confirmed
\* again.
ReceiveError(n) ==
  LET r == request[n]
      p == r.page
      l == edited[p].line
      row == <<active[p], l>>
  IN  /\ r.status \in {"refused", "failed"} /\ Done(n)
      /\ edited' = IF r.kind = "boundary" /\ row \in Rows
                   THEN [edited EXCEPT ![p] = Slot(l, view[p][row])] ELSE edited
      /\ UNCHANGED <<head, view, active, preview, unseen>>

-----------------------------------------------------------------------------
Next ==
  \/ \E p \in Pages :
       \/ Preview(p)
       \/ \E t \in Languages : Switch(p, t)
       \/ \E n \in Requests : Confirm(p, n) \/ \E l \in Lines : Drag(p, n, l)
  \/ \E n \in Requests : Serve(n) \/ Lose(n) \/ Receive(n) \/ ReceiveError(n)

Spec == Init /\ [][Next]_vars

-----------------------------------------------------------------------------
(***************************************************************************)
(* Properties.                                                             *)
(***************************************************************************)
Saves(n) == request[n].status = "sent" /\ request'[n].status = "saved"

\* Whatever pages draw at the same time, lines of a track never come to overlap
\* more than before, except by a drag on that track whose creator kept an
\* overlap ("a silent overlap still fails", boundaryEntry in mutations.go; "an
\* overlap the mutation would introduce or deepen", Validate in parse.go).
NoSilentOverlap ==
  [][\A k, l \in Rows :
       k # l /\ k[1] = l[1] /\ Shared(head'[k], head'[l]) > Shared(head[k], head[l]) =>
         \E n \in Requests : /\ Saves(n) /\ request[n].kind = "boundary"
                             /\ request[n].allowOverlap /\ request[n].row[1] = k[1]]_vars

Does(c, before, after) ==
  LET by == IF c.side = "left" THEN - c.amount ELSE c.amount
  IN  CASE c.kind = "move" ->
             /\ c.amount = IF c.side = "left" THEN after.start ELSE after.end
             /\ after.end - after.start = before.end - before.start
        [] c.kind = "shift" ->
             after.start = before.start + by /\ after.end = before.end + by
        [] c.kind = "shorten" ->
             after.start = before.start /\ after.end = before.end - c.amount
        [] c.kind = "speaker" -> after.start = before.start /\ after.end = before.end

\* A confirmed command does what its sentence says, on the line it names in the
\* language shown when it was confirmed, there alone, and however large its
\* numbers are, although the timeline changed since the preview. A speaker named
\* in full is that speaker (Describe, Apply in parse.go).
CommandsDoWhatTheySay ==
  [][\A n \in Requests : Saves(n) /\ request[n].kind = "command" =>
       LET c == request[n].command
           row == RowOf(request[n])
       IN  /\ Does(c, head[row], head'[row])
           /\ \A other \in Rows \ {row} : head'[other] = head[other]
           /\ c.kind = "speaker" /\ Named(Track(head, row[1]), c.speaker) # {} =>
                head'[row].speaker = c.speaker]_vars

\* In every language, a page with no edit under way shows the head, but for
\* lines another page changed, edits of its own that overtook each other, lost
\* answers, and answers that arrived when it showed another language: these
\* leave both tracks' lines of that number unlike the head (patchActiveSegment
\* in +page.svelte, which reads the active language when the answer is there).
ShowsWhatItSaved ==
  \A p \in Pages, row \in Rows :
    InFlight(p) = {} /\ <<p, row>> \notin unseen => view[p][row] = head[row]
=============================================================================
