---------------------------- MODULE ChargesProofs ----------------------------
(***************************************************************************)
(* Proofs about Charges, for any number of runs, re-renders and agent      *)
(* turns, lines, attempts and calls: no call is paid for by two rows, and  *)
(* a finished run and an answered turn have a row for each of their calls. *)
(*                                                                         *)
(* The rows of a request are written from its calls and takes at its end,  *)
(* so the argument is about each request alone: which calls its takes      *)
(* cover, and that a row stands for one call.                              *)
(***************************************************************************)
EXTENDS Charges, FiniteSetTheorems, TLAPS

Job == [at : Steps, line : 1 .. LineCount + 1, attempt : 1 .. MaxAttempts,
        spoken : BOOLEAN, takes : Seq(Take), busy : BOOLEAN]

Rendering == {"translating", "synthesizing", "judging"}

\* The one call a run is billed for outside its lines.
Segmentation == [kind |-> "segment", line |-> WholeFilm, attempt |-> 0, index |-> 0]

\* A call of an attempt is in a take, or the line is still being rendered.
CoveredBy(S, j) ==
  \A c \in S : c.attempt > 0 =>
    \/ j.at \in Rendering /\ c.line = j.line /\ c.attempt <= j.attempt
    \/ \E k \in 1 .. Len(j.takes) :
         j.takes[k].line = c.line /\ j.takes[k].attempt = c.attempt

\* Every row a request may write.
AllRows(r) ==
  IF r \in Turns THEN TurnRows(r)
  ELSE UNION {RowsOfTake(r, k) : k \in 1 .. Len(job[r].takes)}

\* What a request has written at each step.
Written(r) ==
  /\ job[r].at = "done" => RowsOf(r) = AllRows(r)
  /\ job[r].at = "failed" => RowsOf(r) \subseteq AllRows(r)
  /\ job[r].at \notin {"done", "failed"} => RowsOf(r) = {}

Fine(r) ==
  /\ job[r] \in Job
  /\ calls[r] \subseteq Call /\ IsFiniteSet(calls[r])
  /\ job[r].at \in Rendering => job[r].line \in Lines
  /\ r \in Runs => \A c \in calls[r] : c.attempt = 0 => c = Segmentation
  /\ r \in Runs /\ job[r].at # "failed" /\ ~ job[r].busy => CoveredBy(calls[r], job[r])
  /\ r \in Rerenders => Len(job[r].takes) <= 1
  /\ Written(r)

Globals ==
  /\ calls \in [Requests -> SUBSET Call]
  /\ job \in [Requests -> Job]
  /\ rows \subseteq Key
  /\ record \in [Lines -> 0 .. MaxAttempts]
  /\ runner \in Runs \union Rerenders \union {NoRequest}
  /\ turn \in Turns \union {NoRequest}

IInv == Globals /\ \A r \in Requests : Fine(r)

-----------------------------------------------------------------------------
(***************************************************************************)
(* Counting.                                                               *)
(***************************************************************************)
\* The image of a function has no more members than its domain, and as many if
\* no two have one image.
LEMMA Images ==
  ASSUME NEW S, IsFiniteSet(S), NEW R, NEW f \in [S -> R], R = {f[x] : x \in S},
         NEW T, T \subseteq R
  PROVE  /\ Cardinality(T) <= Cardinality(S)
         /\ T = R /\ (\A x, y \in S : f[x] = f[y] => x = y) => Cardinality(T) = Cardinality(S)
<1>1. f \in Surjection(S, R) BY DEF Surjection
<1>2. /\ IsFiniteSet(R) /\ Cardinality(R) <= Cardinality(S)
      /\ Cardinality(R) = Cardinality(S) <=> f \in Injection(S, R)
  BY <1>1, FS_Surjection
<1>3. Cardinality(T) <= Cardinality(R) /\ IsFiniteSet(T) BY <1>2, FS_Subset
<1>4. Cardinality(T) \in Nat /\ Cardinality(R) \in Nat /\ Cardinality(S) \in Nat
  BY <1>2, <1>3, FS_CardinalityType
<1>5. (\A x, y \in S : f[x] = f[y] => x = y) => f \in Injection(S, R)
  BY <1>1 DEF Injection, IsInjective, Surjection
<1>. QED BY <1>2, <1>3, <1>4, <1>5

LEMMA Kindred ==
  /\ \A r \in Runs : r \in Requests /\ r \notin Rerenders /\ r \notin Turns
  /\ \A r \in Rerenders : r \in Requests /\ r \notin Runs /\ r \notin Turns
  /\ \A r \in Turns : r \in Requests /\ r \notin Runs /\ r \notin Rerenders
BY RequestsAssumption DEF Requests

LEMMA TakeTypes ==
  ASSUME NEW r \in Requests, job[r] \in Job, NEW k \in 1 .. Len(job[r].takes)
  PROVE  /\ job[r].takes[k] \in Take
         /\ job[r].takes[k].line \in Lines /\ job[r].takes[k].attempt \in 1 .. MaxAttempts
<1>1. job[r].takes \in Seq(Take) BY DEF Job
<1>2. job[r].takes[k] \in Take BY <1>1
<1>. QED BY <1>2 DEF Take

\* The row that pays for a call.
RowFor(r, c) ==
  [commit |-> r,
   call |-> IF r \in Turns THEN c
            ELSE IF r \in Rerenders THEN [c EXCEPT !.attempt = job[r].takes[1].attempt]
            ELSE IF c.attempt = 0 THEN [c EXCEPT !.line = job[r].takes[1].line]
            ELSE c]

\* Whatever a request may write pays for one of its calls.
LEMMA RowsPay ==
  ASSUME NEW r \in Requests, Fine(r)
  PROVE  AllRows(r) \subseteq {RowFor(r, c) : c \in calls[r]}
<1>1. CASE r \in Turns BY <1>1 DEF AllRows, TurnRows, RowFor
<1>2. CASE r \notin Turns
  <2>1. SUFFICES ASSUME NEW k \in 1 .. Len(job[r].takes), NEW row \in RowsOfTake(r, k)
                 PROVE  \E c \in calls[r] : row = RowFor(r, c)
    BY <1>2 DEF AllRows
  <2>2. PICK x \in TakeCharges(r, k) : row = [commit |-> r, call |-> x]
    BY DEF RowsOfTake
  <2>3. CASE r \in Rerenders
    <3>1. k = 1
      <4>1. Len(job[r].takes) <= 1 /\ job[r].takes \in Seq(Take) BY <2>3 DEF Fine, Job
      <4>. QED BY <4>1
    <3>2. PICK c \in calls[r] : x = [c EXCEPT !.attempt = job[r].takes[1].attempt]
      BY <2>2, <2>3, <3>1, Kindred DEF TakeCharges
    <3>. QED BY <1>2, <2>2, <2>3, <3>2 DEF RowFor
  <2>4. CASE r \in Runs
    <3>1. CASE x \in ChargesForAttempt(r, job[r].takes[k])
      <4>1. x \in calls[r] /\ x.attempt = job[r].takes[k].attempt BY <3>1 DEF ChargesForAttempt
      <4>2. x.attempt # 0 BY <4>1, TakeTypes DEF Fine
      <4>. QED BY <1>2, <2>2, <2>4, <4>1, <4>2, Kindred DEF RowFor
    <3>2. CASE x \notin ChargesForAttempt(r, job[r].takes[k])
      <4>1. PICK c \in WholePass(r) : k = 1 /\ x = [c EXCEPT !.line = job[r].takes[1].line]
        BY <2>2, <2>4, <3>2 DEF TakeCharges
      <4>2. c \in calls[r] /\ c.attempt = 0 BY DEF WholePass
      <4>. QED BY <1>2, <2>2, <2>4, <4>1, <4>2, Kindred DEF RowFor
    <3>. QED BY <3>1, <3>2
  <2>. QED BY <1>2, <2>3, <2>4 DEF Requests
<1>. QED BY <1>1, <1>2

\* Each row is a key of charges_raw.
LEMMA RowsAreKeys ==
  ASSUME NEW r \in Requests, Fine(r)
  PROVE  AllRows(r) \subseteq Key
<1>1. SUFFICES ASSUME NEW row \in AllRows(r) PROVE row \in Key
  OBVIOUS
<1>2. \A c \in calls[r] : c \in Call BY DEF Fine
<1>3. CASE r \in Turns BY <1>2, <1>3 DEF AllRows, TurnRows, Key
<1>4. CASE r \notin Turns
  <2>1. PICK k \in 1 .. Len(job[r].takes) : row \in RowsOfTake(r, k) BY <1>4 DEF AllRows
  <2>2. PICK x \in TakeCharges(r, k) : row = [commit |-> r, call |-> x]
    BY <2>1 DEF RowsOfTake
  <2>3. PICK take \in Take : take = job[r].takes[k] BY TakeTypes DEF Fine
  <2>4. \A c \in Call : [c EXCEPT !.line = take.line] \in Call
    BY DEF Call, Take, Lines
  <2>5. \A c \in Call : [c EXCEPT !.attempt = take.attempt] \in Call
    BY CountsAssumption DEF Call, Take
  <2>6. x \in Call
    BY <1>2, <2>2, <2>3, <2>4, <2>5 DEF TakeCharges, ChargesForAttempt, WholePass
  <2>. QED BY <2>2, <2>6 DEF Key
<1>. QED BY <1>3, <1>4

\* Two calls of a run, or of a turn, are paid for by two rows.
LEMMA RowsApart ==
  ASSUME NEW r \in Runs \union Turns, Fine(r), NEW c \in calls[r], NEW d \in calls[r],
         RowFor(r, c) = RowFor(r, d)
  PROVE  c = d
<1>1. c \in Call /\ d \in Call BY DEF Fine
<1>2. CASE r \in Turns BY <1>2 DEF RowFor
<1>3. CASE r \in Runs
  <2>1. r \notin Turns /\ r \notin Rerenders BY <1>3, Kindred
  <2>2. \A x \in Call : [x EXCEPT !.line = job[r].takes[1].line].attempt = x.attempt
    BY DEF Call
  <2>3. RowFor(r, c).call.attempt = c.attempt /\ RowFor(r, d).call.attempt = d.attempt
    BY <1>1, <2>1, <2>2 DEF RowFor
  <2>4. CASE c.attempt = 0
    <3>1. d.attempt = 0 BY <2>3, <2>4
    <3>. QED BY <1>3, <2>4, <3>1 DEF Fine
  <2>5. CASE c.attempt # 0
    <3>1. d.attempt # 0 BY <2>3, <2>5
    <3>. QED BY <2>1, <2>5, <3>1 DEF RowFor
  <2>. QED BY <2>4, <2>5
<1>. QED BY <1>2, <1>3

LEMMA NoMoreRows ==
  ASSUME NEW r \in Requests, Fine(r), NEW T, T \subseteq AllRows(r)
  PROVE  Cardinality(T) <= Cardinality(calls[r])
<1>. DEFINE R == {RowFor(r, c) : c \in calls[r]}
            f == [c \in calls[r] |-> RowFor(r, c)]
<1>1. T \subseteq R BY RowsPay
<1>2. f \in [calls[r] -> R] /\ R = {f[c] : c \in calls[r]} OBVIOUS
<1>3. IsFiniteSet(calls[r]) BY DEF Fine
<1>. HIDE DEF f, R
<1>. QED BY <1>1, <1>2, <1>3, Images

LEMMA AsManyRows ==
  ASSUME NEW r \in Runs \union Turns, Fine(r), AllRows(r) = {RowFor(r, c) : c \in calls[r]}
  PROVE  Cardinality(AllRows(r)) = Cardinality(calls[r])
<1>. DEFINE S == calls[r]
            R == AllRows(r)
            f == [c \in S |-> RowFor(r, c)]
<1>1. f \in [S -> R] /\ R = {f[c] : c \in S} OBVIOUS
<1>2. IsFiniteSet(S) BY DEF Fine
<1>3. \A c, d \in S : f[c] = f[d] => c = d BY RowsApart
<1>4. R \subseteq R OBVIOUS
<1>. HIDE DEF f, R, S
<1>5. Cardinality(R) = Cardinality(S) BY <1>1, <1>2, <1>3, <1>4, Images
<1>. QED BY <1>5 DEF R, S

-----------------------------------------------------------------------------
(***************************************************************************)
(* A step changes what one request does, was billed for and has written.   *)
(***************************************************************************)
LEMMA SameRows ==
  ASSUME NEW q, calls'[q] = calls[q], job'[q].takes = job[q].takes
  PROVE  AllRows(q)' = AllRows(q)
<1>1. TurnRows(q)' = TurnRows(q) BY DEF TurnRows
<1>2. WholePass(q)' = WholePass(q) BY DEF WholePass
<1>3. \A take : ChargesForAttempt(q, take)' = ChargesForAttempt(q, take)
  BY DEF ChargesForAttempt
<1>4. ASSUME NEW k PROVE TakeCharges(q, k)' = TakeCharges(q, k)
  <2>1. ChargesForAttempt(q, job[q].takes[k])' = ChargesForAttempt(q, job[q].takes[k])
    BY DEF ChargesForAttempt
  <2>. QED BY <1>2, <2>1 DEF TakeCharges
<1>5. ASSUME NEW k PROVE RowsOfTake(q, k)' = RowsOfTake(q, k) BY <1>4 DEF RowsOfTake
<1>. QED BY <1>1, <1>5 DEF AllRows

LEMMA Preserved ==
  ASSUME IInv, NEW r \in Requests,
         NEW j \in Job, job' = [job EXCEPT ![r] = j],
         NEW S \in SUBSET Call, calls' = [calls EXCEPT ![r] = S],
         NEW W \in SUBSET Key, \A k \in W : k.commit = r, rows' = rows \union W,
         record' \in [Lines -> 0 .. MaxAttempts],
         runner' \in Runs \union Rerenders \union {NoRequest},
         turn' \in Turns \union {NoRequest},
         Fine(r)'
  PROVE  IInv'
<1>1. calls \in [Requests -> SUBSET Call] /\ job \in [Requests -> Job] /\ rows \subseteq Key
  BY DEF IInv, Globals
<1>2. calls' \in [Requests -> SUBSET Call] /\ job' \in [Requests -> Job] /\ rows' \subseteq Key
  BY <1>1
<1>3. Globals' BY <1>2 DEF Globals
<1>4. ASSUME NEW q \in Requests, q # r PROVE Fine(q)'
  <2>1. calls'[q] = calls[q] /\ job'[q] = job[q] BY <1>1, <1>4
  <2>2. RowsOf(q)' = RowsOf(q) BY <1>4 DEF RowsOf
  <2>3. AllRows(q)' = AllRows(q) BY <2>1, SameRows
  <2>4. Fine(q) BY DEF IInv
  <2>5. Written(q)' BY <2>1, <2>2, <2>3, <2>4 DEF Fine, Written
  <2>. QED BY <2>1, <2>4, <2>5 DEF Fine
<1>5. \A q \in Requests : Fine(q)'
  <2>1. SUFFICES ASSUME NEW q \in Requests PROVE Fine(q)' OBVIOUS
  <2>2. CASE q = r BY <2>2
  <2>3. CASE q # r BY <1>4, <2>3
  <2>. QED BY <2>2, <2>3
<1>. QED BY <1>3, <1>5 DEF IInv

\* A step that writes no row.
LEMMA Quiet ==
  ASSUME IInv, NEW r \in Requests, job[r].at \notin {"done", "failed"},
         NEW j \in Job, job' = [job EXCEPT ![r] = j], j.at # "done",
         NEW S \in SUBSET Call, calls' = [calls EXCEPT ![r] = S], IsFiniteSet(S),
         rows' = rows,
         record' \in [Lines -> 0 .. MaxAttempts],
         runner' \in Runs \union Rerenders \union {NoRequest},
         turn' \in Turns \union {NoRequest},
         j.at \in Rendering => j.line \in Lines,
         r \in Runs => \A c \in S : c.attempt = 0 => c = Segmentation,
         r \in Runs /\ j.at # "failed" /\ ~ j.busy => CoveredBy(S, j),
         r \in Rerenders => Len(j.takes) <= 1
  PROVE  IInv'
<1>1. job'[r] = j /\ calls'[r] = S BY DEF IInv, Globals
<1>2. RowsOf(r)' = {} BY DEF IInv, Fine, Written, RowsOf
<1>3. Written(r)' BY <1>1, <1>2 DEF Written
<1>4. Fine(r)'
  <2>1. CoveredBy(calls[r], job[r])' <=> CoveredBy(S, j) BY <1>1, SMTT(20) DEF CoveredBy
  <2>. QED BY <1>1, <1>3, <2>1 DEF Fine
<1>. DEFINE W == {}
<1>5. W \in SUBSET Key /\ rows' = rows \union W /\ \A k \in W : k.commit = r OBVIOUS
<1>. HIDE DEF IInv, W
<1>. QED BY <1>4, <1>5, Preserved

\* A step that changes nothing but what the request does next.
LEMMA Moves ==
  ASSUME IInv, NEW r \in Requests, job[r].at \notin {"done", "failed"},
         NEW at \in {"segmenting", "recording", "failed", "asking"}, Go(r, at),
         at # "failed" => job[r].at \notin Rendering,
         UNCHANGED <<calls, rows, record>>,
         runner' \in Runs \union Rerenders \union {NoRequest},
         turn' \in Turns \union {NoRequest}
  PROVE  IInv'
<1>. DEFINE j == [job[r] EXCEPT !.at = at]
<1>1. Fine(r) /\ job[r] \in Job /\ calls \in [Requests -> SUBSET Call] /\ record \in [Lines -> 0 .. MaxAttempts]
  BY DEF IInv, Globals
<1>2. j \in Job /\ j.at = at /\ j.takes = job[r].takes /\ j.busy = job[r].busy
  BY <1>1 DEF Job, Steps
<1>3. job' = [job EXCEPT ![r] = j] BY DEF Go
<1>4. calls' = [calls EXCEPT ![r] = calls[r]] /\ calls[r] \in SUBSET Call BY <1>1
<1>5. at \notin Rendering /\ at # "done" BY DEF Rendering
<1>6. r \in Runs /\ at # "failed" /\ ~ j.busy => CoveredBy(calls[r], j)
  BY <1>1, <1>2 DEF Fine, CoveredBy
<1>7. /\ IsFiniteSet(calls[r])
      /\ r \in Runs => \A c \in calls[r] : c.attempt = 0 => c = Segmentation
      /\ r \in Rerenders => Len(j.takes) <= 1
  BY <1>1, <1>2 DEF Fine
<1>. HIDE DEF j, IInv
<1>. QED BY <1>1, <1>2, <1>3, <1>4, <1>5, <1>6, <1>7, Quiet

\* A run leaves a line with the takes that cover its calls.
LEMMA Advances ==
  ASSUME IInv, NEW r \in Runs, job[r].at \notin {"done", "failed"},
         job[r].line \in Lines, NEW takes \in Seq(Take), NextLine(r, takes),
         job[r].at \in Rendering =>
           \A n \in 1 .. job[r].attempt : \E k \in 1 .. Len(takes) :
             takes[k].line = job[r].line /\ takes[k].attempt = n,
         UNCHANGED <<calls, rows>>,
         record' \in [Lines -> 0 .. MaxAttempts],
         runner' \in Runs \union Rerenders \union {NoRequest},
         turn' \in Turns \union {NoRequest}
  PROVE  IInv'
<1>. DEFINE j == [job[r] EXCEPT !.at = "opening", !.line = @ + 1, !.attempt = 1,
                                !.takes = @ \o takes]
<1>1. r \in Requests /\ r \notin Rerenders BY Kindred
<1>2. Fine(r) /\ job[r] \in Job /\ calls \in [Requests -> SUBSET Call]
  BY <1>1 DEF IInv, Globals
<1>3. job[r].takes \in Seq(Take) BY <1>2 DEF Job
<1>4. job[r].takes \o takes \in Seq(Take)
  BY <1>3
<1>5. job[r].line + 1 \in 1 .. LineCount + 1 BY CountsAssumption DEF Lines
<1>8. job' = [job EXCEPT ![r] = j] BY DEF NextLine
<1>6. /\ j \in Job /\ j.at = "opening"
      /\ j.takes = job[r].takes \o takes /\ j.busy = job[r].busy
  <2>1. PICK i \in Job : i = job[r] BY <1>2
  <2>. DEFINE at == "opening"
              line == i.line + 1
              attempt == 1
              all == i.takes \o takes
  <2>2. j = [i EXCEPT !.at = at, !.line = line, !.attempt = attempt, !.takes = all]
    BY <2>1
  <2>3. /\ attempt \in 1 .. MaxAttempts /\ at \in Steps
        /\ line \in 1 .. LineCount + 1 /\ all \in Seq(Take)
    BY <1>4, <1>5, <2>1, CountsAssumption DEF Steps
  <2>. HIDE DEF j, at, line, attempt, all
  <2>4. j \in Job /\ j.at = at /\ j.takes = all /\ j.busy = i.busy
    BY <2>2, <2>3 DEF Job
  <2>. QED BY <2>1, <2>4 DEF all, at
<1>. HIDE DEF j
<1>9. calls' = [calls EXCEPT ![r] = calls[r]] /\ calls[r] \in SUBSET Call BY <1>1, <1>2
<1>10. /\ \A k \in 1 .. Len(job[r].takes) :
            k \in 1 .. Len(j.takes) /\ j.takes[k] = job[r].takes[k]
       /\ \A k \in 1 .. Len(takes) :
            /\ Len(job[r].takes) + k \in 1 .. Len(j.takes)
            /\ j.takes[Len(job[r].takes) + k] = takes[k]
  <2>. DEFINE s == job[r].takes
  <2>1. j.takes = s \o takes /\ s \in Seq(Take) BY <1>3, <1>6
  <2>. HIDE DEF s
  <2>2. /\ \A k \in 1 .. Len(s) : k \in 1 .. Len(j.takes) /\ j.takes[k] = s[k]
        /\ \A k \in 1 .. Len(takes) :
             Len(s) + k \in 1 .. Len(j.takes) /\ j.takes[Len(s) + k] = takes[k]
    BY <2>1
  <2>. QED BY <2>2 DEF s
<1>11. ASSUME ~ j.busy PROVE CoveredBy(calls[r], j)
  <2>1. ~ job[r].busy /\ job[r].at # "failed" BY <1>6, <1>11
  <2>2. SUFFICES ASSUME NEW c \in calls[r], c.attempt > 0
                 PROVE  \E k \in 1 .. Len(j.takes) :
                          j.takes[k].line = c.line /\ j.takes[k].attempt = c.attempt
    BY DEF CoveredBy
  <2>3. CoveredBy(calls[r], job[r]) BY <1>2, <2>1 DEF Fine
  <2>4. CASE \E k \in 1 .. Len(job[r].takes) :
               job[r].takes[k].line = c.line /\ job[r].takes[k].attempt = c.attempt
    <3>1. PICK k \in 1 .. Len(job[r].takes) :
            job[r].takes[k].line = c.line /\ job[r].takes[k].attempt = c.attempt
      BY <2>4
    <3>2. k \in 1 .. Len(j.takes) /\ j.takes[k] = job[r].takes[k] BY <1>10
    <3>. QED BY <3>1, <3>2
  <2>5. CASE job[r].at \in Rendering /\ c.line = job[r].line /\ c.attempt <= job[r].attempt
    <3>1. c.attempt \in Nat BY <1>2 DEF Fine, Call
    <3>2. job[r].attempt \in Nat BY <1>2, CountsAssumption DEF Job
    <3>3. c.attempt \in 1 .. job[r].attempt BY <2>2, <2>5, <3>1, <3>2
    <3>4. PICK k \in 1 .. Len(takes) : takes[k].line = c.line /\ takes[k].attempt = c.attempt
      BY <2>5, <3>3
    <3>5. /\ Len(job[r].takes) + k \in 1 .. Len(j.takes)
          /\ j.takes[Len(job[r].takes) + k] = takes[k]
      BY <1>10
    <3>. QED BY <3>4, <3>5
  <2>. QED BY <2>2, <2>3, <2>4, <2>5 DEF CoveredBy
<1>12. j.at \notin Rendering /\ j.at \notin {"done", "failed"} BY <1>6 DEF Rendering
<1>13. IsFiniteSet(calls[r]) /\ \A c \in calls[r] : c.attempt = 0 => c = Segmentation
  BY <1>2 DEF Fine
<1>. HIDE DEF IInv
<1>. QED BY <1>1, <1>6, <1>8, <1>9, <1>11, <1>12, <1>13, Quiet

LEMMA TakesOfTypes ==
  ASSUME NEW l \in Lines, NEW n \in 0 .. MaxAttempts
  PROVE  /\ TakesOf(l, n) \in Seq(Take) /\ Len(TakesOf(l, n)) = n
         /\ \A k \in 1 .. n : TakesOf(l, n)[k].line = l /\ TakesOf(l, n)[k].attempt = k
<1>1. \A k \in 1 .. n : [line |-> l, attempt |-> k] \in Take
  BY CountsAssumption DEF Take
<1>2. n \in Nat BY CountsAssumption
<1>. QED BY <1>1, <1>2 DEF TakesOf

-----------------------------------------------------------------------------
(***************************************************************************)
(* The steps.                                                              *)
(***************************************************************************)
LEMMA RunStartStep ==
  ASSUME IInv, NEW r \in Runs, RunStart(r) PROVE IInv'
<1>1. /\ job[r].at \notin {"done", "failed"} /\ job[r].at \notin Rendering
      /\ Go(r, "segmenting") /\ UNCHANGED <<calls, rows, record>>
      /\ runner' = r /\ turn' = turn
  BY DEF RunStart, Rendering
<1>2. record' \in [Lines -> 0 .. MaxAttempts] /\ turn' \in Turns \union {NoRequest}
  BY <1>1 DEF IInv, Globals
<1>. HIDE DEF IInv
<1>. QED BY <1>1, <1>2, Kindred, Moves

LEMMA FailStep ==
  ASSUME IInv, NEW r \in Requests, job[r].at \notin {"done", "failed"}, Fail(r),
         UNCHANGED <<calls, rows, record, turn>>
  PROVE  IInv'
<1>1. turn' \in Turns \union {NoRequest}
      /\ runner' \in Runs \union Rerenders \union {NoRequest} /\ Go(r, "failed")
  BY DEF IInv, Globals, Fail
<1>. HIDE DEF IInv
<1>. QED BY <1>1, Moves

LEMMA SegmentStep ==
  ASSUME IInv, NEW r \in Runs, Segment(r) PROVE IInv'
<1>. DEFINE j == [job[r] EXCEPT !.at = "opening"]
            S == calls[r] \union {Segmentation}
<1>1. r \in Requests /\ r \notin Rerenders BY Kindred
<1>2. Fine(r) /\ Globals /\ job[r] \in Job /\ calls[r] \in SUBSET Call
  BY <1>1 DEF IInv, Globals
<1>3. j \in Job /\ j.at = "opening" /\ j.takes = job[r].takes /\ j.busy = job[r].busy
  BY <1>2 DEF Job, Steps
<1>4. Segmentation \in Call
  BY CountsAssumption DEF Segmentation, Call, Kinds, WholeFilm
<1>5. S \in SUBSET Call /\ IsFiniteSet(S)
  BY <1>2, <1>4, FS_AddElement DEF Fine
<1>6. job' = [job EXCEPT ![r] = j] BY DEF Segment, Go
<1>7. calls' = [calls EXCEPT ![r] = S]
  BY DEF Segment, Bill, Segmentation
<1>8. \A c \in S : c.attempt = 0 => c = Segmentation BY <1>2 DEF Fine
<1>9. ASSUME ~ j.busy PROVE CoveredBy(S, j)
  <2>1. CoveredBy(calls[r], job[r]) /\ job[r].at \notin Rendering
    BY <1>2, <1>3, <1>9 DEF Fine, Segment, Rendering
  <2>2. ~ Segmentation.attempt > 0 BY DEF Segmentation
  <2>. QED BY <1>3, <2>1, <2>2 DEF CoveredBy
<1>10. /\ job[r].at \notin {"done", "failed"} /\ j.at \notin Rendering /\ j.at \notin {"done", "failed"}
       /\ rows' = rows
  BY <1>3 DEF Segment, Rendering
<1>11. /\ record' \in [Lines -> 0 .. MaxAttempts] /\ turn' \in Turns \union {NoRequest}
       /\ runner' \in Runs \union Rerenders \union {NoRequest}
  BY <1>2 DEF Segment, Globals
<1>. HIDE DEF j, S, IInv
<1>. QED BY <1>1, <1>3, <1>5, <1>6, <1>7, <1>8, <1>9, <1>10, <1>11, Quiet

LEMMA RerenderStartStep ==
  ASSUME IInv, NEW r \in Rerenders, NEW l \in Lines, NEW authoritative \in BOOLEAN,
         RerenderStart(r, l, authoritative)
  PROVE  IInv'
<1>. DEFINE at == IF authoritative THEN "synthesizing" ELSE "translating"
            j == [Idle EXCEPT !.line = l, !.spoken = authoritative, !.at = at]
            S == calls[r]
<1>1. r \in Requests /\ r \notin Runs BY Kindred
<1>2. Fine(r) /\ Globals BY <1>1 DEF IInv
<1>10. at \in {"synthesizing", "translating"} OBVIOUS
<1>11. job' = [job EXCEPT ![r] = j] BY DEF RerenderStart
<1>. HIDE DEF at
<1>4. /\ l \in 1 .. LineCount + 1 /\ at \in Steps
  BY <1>10, CountsAssumption DEF Lines, Steps
<1>3. Idle \in Job /\ Idle.takes = <<>>
  BY CountsAssumption DEF Idle, Job, Steps
<1>5. j \in Job /\ Len(j.takes) <= 1 /\ j.line = l /\ j.at = at
  <2>1. PICK i \in Job : i = Idle BY <1>3
  <2>2. j = [i EXCEPT !.line = l, !.spoken = authoritative, !.at = at] BY <2>1
  <2>. HIDE DEF j
  <2>3. j \in Job BY <1>4, <2>2 DEF Job
  <2>4. j.line = l /\ j.at = at /\ j.takes = i.takes BY <1>4, <2>2 DEF Job
  <2>. QED BY <1>3, <2>1, <2>3, <2>4
<1>. HIDE DEF j
<1>7. calls' = [calls EXCEPT ![r] = S] /\ S \in SUBSET Call /\ IsFiniteSet(S)
  BY <1>1, <1>2 DEF RerenderStart, Globals, Fine
<1>8. job[r].at \notin {"done", "failed"} /\ rows' = rows /\ j.at # "done"
  BY <1>5, <1>10 DEF RerenderStart
<1>9. /\ record' \in [Lines -> 0 .. MaxAttempts] /\ turn' \in Turns \union {NoRequest}
      /\ runner' \in Runs \union Rerenders \union {NoRequest}
  BY <1>2 DEF RerenderStart, Globals
<1>. HIDE DEF S, IInv
<1>. QED BY <1>1, <1>5, <1>7, <1>8, <1>9, <1>11, Quiet

LEMMA OpenLineStep ==
  ASSUME IInv, NEW r \in Runs, OpenLine(r) PROVE IInv'
<1>. DEFINE l == job[r].line
<1>1. r \in Requests /\ r \notin Rerenders BY Kindred
<1>2. Fine(r) /\ Globals /\ job[r] \in Job /\ calls[r] \in SUBSET Call
  BY <1>1 DEF IInv, Globals
<1>3. /\ job[r].at = "opening" /\ job[r].at \notin {"done", "failed"} /\ job[r].at \notin Rendering
      /\ UNCHANGED <<calls, rows, record>> /\ turn' = turn
  BY DEF OpenLine, Rendering
<1>4. /\ record' \in [Lines -> 0 .. MaxAttempts] /\ turn' \in Turns \union {NoRequest}
      /\ runner' \in Runs \union Rerenders \union {NoRequest}
  BY <1>2, <1>3 DEF OpenLine, Globals
<1>5. l \in Nat /\ l >= 1 BY <1>2, CountsAssumption DEF Job
<1>6. CASE l > LineCount /\ Go(r, "recording")
  <2>. HIDE DEF IInv
  <2>. QED BY <1>1, <1>3, <1>4, <1>6, Moves
<1>7. CASE l <= LineCount /\ NextLine(r, <<>>)
  <2>1. l \in Lines BY <1>5, <1>7, CountsAssumption DEF Lines
  <2>2. <<>> \in Seq(Take) OBVIOUS
  <2>. HIDE DEF IInv
  <2>. QED BY <1>3, <1>4, <1>7, <2>1, <2>2, Advances
<1>8. CASE l <= LineCount /\ NextLine(r, TakesOf(l, record[l]))
  <2>1. l \in Lines BY <1>5, <1>8, CountsAssumption DEF Lines
  <2>2. record[l] \in 0 .. MaxAttempts BY <1>2, <2>1 DEF Globals
  <2>. DEFINE takes == TakesOf(l, record[l])
  <2>3. takes \in Seq(Take) BY <2>1, <2>2, TakesOfTypes
  <2>4. NextLine(r, takes) BY <1>8
  <2>. HIDE DEF IInv, takes
  <2>. QED BY <1>3, <1>4, <2>1, <2>3, <2>4, Advances
<1>9. CASE l <= LineCount /\ Go(r, "translating")
  <2>. DEFINE j == [job[r] EXCEPT !.at = "translating"]
  <2>1. l \in Lines BY <1>5, <1>9, CountsAssumption DEF Lines
  <2>2. /\ j \in Job /\ j.at = "translating" /\ j.takes = job[r].takes
        /\ j.busy = job[r].busy /\ j.line = l
    BY <1>2 DEF Job, Steps
  <2>3. job' = [job EXCEPT ![r] = j] BY <1>9 DEF Go
  <2>4. calls' = [calls EXCEPT ![r] = calls[r]] BY <1>1, <1>2, <1>3 DEF Globals
  <2>5. ~ j.busy => CoveredBy(calls[r], j)
    BY <1>2, <1>3, <2>2 DEF Fine, CoveredBy
  <2>6. /\ IsFiniteSet(calls[r])
        /\ \A c \in calls[r] : c.attempt = 0 => c = Segmentation
    BY <1>2 DEF Fine
  <2>7. j.at # "done" /\ rows' = rows BY <1>3, <2>2
  <2>. HIDE DEF IInv, j
  <2>. QED BY <1>1, <1>2, <1>3, <1>4, <2>1, <2>2, <2>3, <2>4, <2>5, <2>6, <2>7, Quiet
<1>. QED BY <1>6, <1>7, <1>8, <1>9 DEF OpenLine

\* A call of an attempt is billed to the line in hand.
LEMMA Billed ==
  ASSUME IInv, NEW r \in Requests, job[r].at \in Rendering,
         r \notin Turns, NEW kind \in {"translate", "synthesize"},
         Bill(r, LineCall(r, kind)),
         NEW at \in {"synthesizing", "judging"}, Go(r, at),
         UNCHANGED <<rows, record, runner, turn>>
  PROVE  IInv'
<1>. DEFINE j == [job[r] EXCEPT !.at = at]
            call == LineCall(r, kind)
            S == calls[r] \union {call}
<1>2. Fine(r) /\ Globals /\ job[r] \in Job /\ calls[r] \in SUBSET Call
  BY DEF IInv, Globals
<1>3. /\ j \in Job /\ j.at = at /\ j.takes = job[r].takes /\ j.busy = job[r].busy
      /\ j.line = job[r].line /\ j.attempt = job[r].attempt
  BY <1>2 DEF Job, Steps
<1>4. job[r].line \in Lines /\ job[r].attempt \in 1 .. MaxAttempts
  BY <1>2 DEF Fine, Rendering, Job
<1>5. call \in Call /\ call.line = job[r].line /\ call.attempt = job[r].attempt
  BY <1>4, CountsAssumption DEF LineCall, Call, Kinds, Lines
<1>6. call.attempt > 0 /\ call.attempt <= job[r].attempt /\ call.attempt # 0
  BY <1>4, <1>5, CountsAssumption
<1>7. job' = [job EXCEPT ![r] = j] BY DEF Go
<1>8. calls' = [calls EXCEPT ![r] = S] BY DEF Bill
<1>. HIDE DEF j, call
<1>9. S \in SUBSET Call /\ IsFiniteSet(S)
  BY <1>2, <1>5, FS_AddElement DEF Fine
<1>10. r \in Runs => \A c \in S : c.attempt = 0 => c = Segmentation
  BY <1>2, <1>6 DEF Fine
<1>11. j.at \in Rendering /\ j.at \notin {"done", "failed"} /\ job[r].at \in Rendering
  BY <1>3 DEF Rendering
<1>12. ASSUME r \in Runs, ~ j.busy PROVE CoveredBy(S, j)
  <2>1. CoveredBy(calls[r], job[r]) BY <1>2, <1>3, <1>11, <1>12 DEF Fine, Rendering
  <2>2. \A c \in calls[r] : c.attempt > 0 =>
          \/ j.at \in Rendering /\ c.line = j.line /\ c.attempt <= j.attempt
          \/ \E k \in 1 .. Len(j.takes) : j.takes[k].line = c.line /\ j.takes[k].attempt = c.attempt
    BY <1>3, <1>11, <2>1 DEF CoveredBy
  <2>3. j.at \in Rendering /\ call.line = j.line /\ call.attempt <= j.attempt
    BY <1>3, <1>5, <1>6, <1>11
  <2>. QED BY <2>2, <2>3 DEF CoveredBy
<1>13. r \in Rerenders => Len(j.takes) <= 1 BY <1>2, <1>3 DEF Fine
<1>14. /\ record' \in [Lines -> 0 .. MaxAttempts] /\ turn' \in Turns \union {NoRequest}
       /\ runner' \in Runs \union Rerenders \union {NoRequest}
  BY <1>2 DEF Globals
<1>15. job[r].at \notin {"done", "failed"} /\ j.line \in Lines /\ j.at # "done"
  BY <1>3, <1>4, <1>11 DEF Rendering
<1>. HIDE DEF S, IInv
<1>. QED BY <1>3, <1>7, <1>8, <1>9, <1>10, <1>12, <1>13, <1>14, <1>15, Quiet

LEMMA TranslateStep ==
  ASSUME IInv, NEW r \in Runs \union Rerenders, Translate(r) PROVE IInv'
<1>1. r \in Requests /\ r \notin Turns BY Kindred
<1>2. /\ job[r].at \in Rendering /\ Bill(r, LineCall(r, "translate"))
      /\ Go(r, "synthesizing") /\ UNCHANGED <<rows, record, runner, turn>>
  BY DEF Translate, Rendering
<1>. HIDE DEF IInv
<1>. QED BY <1>1, <1>2, Billed

LEMMA SynthesizeStep ==
  ASSUME IInv, NEW r \in Runs \union Rerenders, Synthesize(r) PROVE IInv'
<1>1. r \in Requests /\ r \notin Turns BY Kindred
<1>2. /\ job[r].at \in Rendering /\ Bill(r, LineCall(r, "synthesize"))
      /\ Go(r, "judging") /\ UNCHANGED <<rows, record, runner, turn>>
  BY DEF Synthesize, Rendering
<1>. HIDE DEF IInv
<1>. QED BY <1>1, <1>2, Billed

LEMMA FinishStep ==
  ASSUME IInv, NEW r \in Runs \union Rerenders, job[r].at = "judging", Finish(r),
         UNCHANGED <<calls, rows, turn>>
  PROVE  IInv'
<1>1. r \in Requests /\ r \notin Turns BY Kindred
<1>2. Fine(r) /\ Globals /\ job[r] \in Job /\ calls[r] \in SUBSET Call
  BY <1>1 DEF IInv, Globals
<1>3. job[r].line \in Lines /\ job[r].attempt \in 1 .. MaxAttempts
  BY <1>2 DEF Fine, Job, Rendering
<1>4. job[r].at \notin {"done", "failed"} /\ turn' \in Turns \union {NoRequest}
  BY <1>2 DEF Globals
<1>5. CASE r \in Runs
  <2>. DEFINE n == job[r].attempt
              takes == TakesOf(job[r].line, n)
  <2>1. /\ record' = [record EXCEPT ![job[r].line] = n]
        /\ NextLine(r, takes) /\ runner' = runner
    BY <1>5 DEF Finish
  <2>2. n \in 0 .. MaxAttempts /\ n \in Nat BY <1>3, CountsAssumption
  <2>3. record' \in [Lines -> 0 .. MaxAttempts] BY <1>2, <1>3, <2>1, <2>2 DEF Globals
  <2>4. runner' \in Runs \union Rerenders \union {NoRequest} BY <1>2, <2>1 DEF Globals
  <2>5. takes \in Seq(Take) /\ Len(takes) = n
        /\ \A k \in 1 .. n : takes[k].line = job[r].line /\ takes[k].attempt = k
    BY <1>3, <2>2, TakesOfTypes
  <2>. HIDE DEF takes
  <2>6. \A m \in 1 .. job[r].attempt : \E k \in 1 .. Len(takes) :
          takes[k].line = job[r].line /\ takes[k].attempt = m
    BY <2>5
  <2>. HIDE DEF IInv
  <2>. QED BY <1>3, <1>4, <1>5, <2>1, <2>3, <2>4, <2>5, <2>6, Advances
<1>6. CASE r \notin Runs
  <2>1. r \in Rerenders BY <1>6
  <2>2. PICK k \in 1 .. MaxAttempts :
          job' = [job EXCEPT ![r].at = "recording",
                             ![r].takes = <<[line |-> job[r].line, attempt |-> k]>>]
    BY <1>6 DEF Finish
  <2>. DEFINE take == [line |-> job[r].line, attempt |-> k]
              takes == <<take>>
              j == [job[r] EXCEPT !.at = "recording", !.takes = takes]
  <2>3. take \in Take BY <1>3 DEF Take
  <2>4. job' = [job EXCEPT ![r] = j] BY <2>2
  <2>. HIDE DEF take
  <2>5. takes \in Seq(Take) /\ Len(takes) = 1 BY <2>3
  <2>. HIDE DEF takes
  <2>6. j \in Job /\ j.at = "recording" /\ j.takes = takes
    <3>1. PICK i \in Job : i = job[r] BY <1>2
    <3>2. j = [i EXCEPT !.at = "recording", !.takes = takes] BY <3>1
    <3>. HIDE DEF j
    <3>. QED BY <2>5, <3>2 DEF Job, Steps
  <2>7. calls' = [calls EXCEPT ![r] = calls[r]] /\ IsFiniteSet(calls[r])
    BY <1>1, <1>2 DEF Globals, Fine
  <2>8. /\ runner' \in Runs \union Rerenders \union {NoRequest}
        /\ record' \in [Lines -> 0 .. MaxAttempts]
    BY <1>2, <1>6 DEF Finish, Globals
  <2>. HIDE DEF j
  <2>9. j.at # "done" /\ j.at \notin Rendering BY <2>6 DEF Rendering
  <2>10. Len(j.takes) <= 1
    <3>1. Len(j.takes) = 1 BY <2>5, <2>6, Zenon
    <3>. QED BY <3>1
  <2>. HIDE DEF IInv, j
  <2>. QED BY <1>1, <1>2, <1>4, <1>6, <2>4, <2>6, <2>7, <2>8, <2>9, <2>10, Quiet
<1>. QED BY <1>5, <1>6

LEMMA JudgeStep ==
  ASSUME IInv, NEW r \in Runs \union Rerenders, Judge(r) PROVE IInv'
<1>1. r \in Requests /\ r \notin Turns BY Kindred
<1>2. Fine(r) /\ Globals /\ job[r] \in Job /\ calls[r] \in SUBSET Call
  BY <1>1 DEF IInv, Globals
<1>3. job[r].at = "judging" /\ UNCHANGED <<calls, rows, turn>> BY DEF Judge
<1>4. CASE Finish(r)
  <2>. HIDE DEF IInv
  <2>. QED BY <1>3, <1>4, FinishStep
<1>5. CASE ~ Finish(r)
  <2>. DEFINE at == IF job[r].spoken THEN "synthesizing" ELSE "translating"
              n == job[r].attempt + 1
              j == [job[r] EXCEPT !.attempt = n, !.at = at]
  <2>1. /\ job[r].attempt < MaxAttempts /\ UNCHANGED <<record, runner>>
        /\ job' = [job EXCEPT ![r] = j]
    BY <1>5 DEF Judge, AttemptsLeft
  <2>2. at \in {"synthesizing", "translating"} OBVIOUS
  <2>. HIDE DEF at
  <2>3. at \in Steps /\ at \in Rendering /\ at \notin {"done", "failed"}
    BY <2>2 DEF Steps, Rendering
  <2>4. n \in 1 .. MaxAttempts /\ n \in Nat /\ job[r].attempt \in Nat /\ job[r].attempt <= n
    BY <1>2, <2>1, CountsAssumption DEF Job
  <2>. HIDE DEF n
  <2>5. /\ j \in Job /\ j.at = at /\ j.attempt = n /\ j.line = job[r].line
        /\ j.takes = job[r].takes /\ j.busy = job[r].busy
    <3>1. PICK i \in Job : i = job[r] BY <1>2
    <3>2. j = [i EXCEPT !.attempt = n, !.at = at] BY <3>1
    <3>. HIDE DEF j
    <3>3. /\ j \in Job /\ j.at = at /\ j.attempt = n /\ j.line = i.line
          /\ j.takes = i.takes /\ j.busy = i.busy
      BY <2>3, <2>4, <3>2 DEF Job
    <3>. QED BY <3>1, <3>3
  <2>. HIDE DEF j
  <2>6. ASSUME r \in Runs, ~ j.busy PROVE CoveredBy(calls[r], j)
    <3>1. CoveredBy(calls[r], job[r]) BY <1>2, <1>3, <2>5, <2>6 DEF Fine
    <3>2. SUFFICES ASSUME NEW c \in calls[r], c.attempt > 0
                   PROVE  \/ j.at \in Rendering /\ c.line = j.line /\ c.attempt <= j.attempt
                          \/ \E k \in 1 .. Len(j.takes) :
                               j.takes[k].line = c.line /\ j.takes[k].attempt = c.attempt
      BY DEF CoveredBy
    <3>3. CASE \E k \in 1 .. Len(job[r].takes) :
                 job[r].takes[k].line = c.line /\ job[r].takes[k].attempt = c.attempt
      BY <2>5, <3>3
    <3>4. CASE c.line = job[r].line /\ c.attempt <= job[r].attempt
      <4>1. c.attempt \in Nat BY <1>2, CountsAssumption DEF Call
      <4>2. c.attempt <= n BY <2>4, <3>4, <4>1
      <4>. QED BY <2>3, <2>5, <3>4, <4>2
    <3>. QED BY <3>1, <3>2, <3>3, <3>4 DEF CoveredBy
  <2>7. j.line \in Lines BY <1>2, <1>3, <2>5 DEF Fine, Rendering
  <2>8. calls' = [calls EXCEPT ![r] = calls[r]] /\ rows' = rows
    BY <1>1, <1>2, <1>3 DEF Globals
  <2>9. /\ IsFiniteSet(calls[r])
        /\ r \in Runs => \A c \in calls[r] : c.attempt = 0 => c = Segmentation
        /\ r \in Rerenders => Len(j.takes) <= 1
    BY <1>2, <2>5 DEF Fine
  <2>10. /\ record' \in [Lines -> 0 .. MaxAttempts] /\ turn' \in Turns \union {NoRequest}
         /\ runner' \in Runs \union Rerenders \union {NoRequest}
    BY <1>2, <1>3, <2>1 DEF Globals
  <2>11. job[r].at \notin {"done", "failed"} /\ j.at # "done" BY <1>3, <2>3, <2>5
  <2>. HIDE DEF IInv
  <2>. QED BY <1>1, <1>2, <2>1, <2>5, <2>6, <2>7, <2>8, <2>9, <2>10, <2>11, Quiet
<1>. QED BY <1>4, <1>5

LEMMA StayBusyStep ==
  ASSUME IInv, NEW r \in Runs \union Rerenders, StayBusy(r) PROVE IInv'
<1>1. r \in Requests /\ r \notin Turns BY Kindred
<1>2. Fine(r) /\ Globals /\ job[r] \in Job /\ calls[r] \in SUBSET Call
  BY <1>1 DEF IInv, Globals
<1>3. /\ job[r].at \in {"translating", "synthesizing"} /\ job[r].at \notin {"done", "failed"}
      /\ UNCHANGED <<calls, rows, record, turn>>
  BY DEF StayBusy
<1>4. CASE r \notin Runs
  <2>1. Fail(r) BY <1>4 DEF StayBusy
  <2>. HIDE DEF IInv
  <2>. QED BY <1>1, <1>3, <2>1, FailStep
<1>5. CASE r \in Runs
  <2>. DEFINE line == job[r].line + 1
              j == [job[r] EXCEPT !.at = "opening", !.line = line,
                                  !.attempt = 1, !.busy = TRUE]
  <2>1. job' = [job EXCEPT ![r] = j] /\ runner' = runner BY <1>5 DEF StayBusy
  <2>2. line \in 1 .. LineCount + 1
    BY <1>2, <1>3, CountsAssumption DEF Fine, Rendering, Lines
  <2>. HIDE DEF line
  <2>3. j \in Job /\ j.at = "opening" /\ j.takes = job[r].takes /\ j.busy
    <3>. DEFINE busy == TRUE
    <3>1. PICK i \in Job : i = job[r] BY <1>2
    <3>2. j = [i EXCEPT !.at = "opening", !.line = line, !.attempt = 1, !.busy = busy]
      BY <3>1
    <3>3. busy \in BOOLEAN OBVIOUS
    <3>. HIDE DEF j, busy
    <3>8. 1 \in 1 .. MaxAttempts /\ "opening" \in Steps BY CountsAssumption DEF Steps
    <3>4. j \in Job BY <2>2, <3>2, <3>3, <3>8 DEF Job
    <3>5. j.at = "opening" BY <3>2 DEF Job
    <3>6. j.takes = i.takes BY <3>2 DEF Job
    <3>7. j.busy = busy BY <3>2 DEF Job
    <3>. QED BY <3>1, <3>4, <3>5, <3>6, <3>7 DEF busy
  <2>. HIDE DEF j
  <2>4. /\ calls' = [calls EXCEPT ![r] = calls[r]] /\ rows' = rows /\ IsFiniteSet(calls[r])
        /\ \A c \in calls[r] : c.attempt = 0 => c = Segmentation
    BY <1>1, <1>2, <1>3, <1>5 DEF Globals, Fine
  <2>5. j.at # "done" /\ j.at \notin Rendering /\ r \notin Rerenders
    BY <1>5, <2>3, Kindred DEF Rendering
  <2>6. /\ record' \in [Lines -> 0 .. MaxAttempts] /\ turn' \in Turns \union {NoRequest}
        /\ runner' \in Runs \union Rerenders \union {NoRequest}
    BY <1>2, <1>3, <2>1 DEF Globals
  <2>. HIDE DEF IInv
  <2>. QED BY <1>1, <1>2, <1>3, <2>1, <2>3, <2>4, <2>5, <2>6, Quiet
<1>. QED BY <1>4, <1>5

LEMMA RenderFailsStep ==
  ASSUME IInv, NEW r \in Runs \union Rerenders, RenderFails(r) PROVE IInv'
<1>1. r \in Requests BY Kindred
<1>2. job[r].at \notin {"done", "failed"} /\ Fail(r) /\ UNCHANGED <<calls, rows, record, turn>>
  BY DEF RenderFails
<1>. HIDE DEF IInv
<1>. QED BY <1>1, <1>2, FailStep

LEMMA AskStep ==
  ASSUME IInv, NEW r \in Turns, Ask(r) PROVE IInv'
<1>1. /\ r \in Requests /\ job[r].at \notin {"done", "failed"} /\ job[r].at \notin Rendering
      /\ Go(r, "asking") /\ UNCHANGED <<calls, rows, record>> /\ turn' \in Turns \union {NoRequest}
      /\ runner' \in Runs \union Rerenders \union {NoRequest}
  BY Kindred DEF Ask, Rendering, IInv, Globals
<1>. HIDE DEF IInv
<1>. QED BY <1>1, Moves

LEMMA AnswerStep ==
  ASSUME IInv, NEW r \in Turns, Answer(r) \/ TurnFails(r) PROVE IInv'
<1>1. /\ r \in Requests /\ job[r].at \notin {"done", "failed"} /\ job[r].at \notin Rendering
      /\ UNCHANGED <<calls, rows, record>> /\ turn' \in Turns \union {NoRequest}
      /\ runner' \in Runs \union Rerenders \union {NoRequest}
  BY Kindred DEF Answer, TurnFails, Rendering, IInv, Globals
<1>2. PICK at \in {"recording", "failed"} : Go(r, at) BY DEF Answer, TurnFails
<1>. HIDE DEF IInv
<1>. QED BY <1>1, <1>2, Moves

LEMMA AgentCallStep ==
  ASSUME IInv, NEW r \in Turns, AgentCall(r) PROVE IInv'
<1>. DEFINE n == Cardinality(calls[r])
            call == [kind |-> "agent", line |-> WholeFilm, attempt |-> 0, index |-> n]
            S == calls[r] \union {call}
<1>1. r \in Requests /\ r \notin Runs /\ r \notin Rerenders BY Kindred
<1>2. Fine(r) /\ Globals /\ job[r] \in Job /\ calls[r] \in SUBSET Call
  BY <1>1 DEF IInv, Globals
<1>3. /\ job[r].at = "asking" /\ n < MaxTurnCalls /\ Bill(r, call)
      /\ UNCHANGED <<rows, record, job, runner, turn>>
  BY DEF AgentCall
<1>4. n \in Nat BY <1>2, FS_CardinalityType DEF Fine
<1>. HIDE DEF n
<1>5. n \in 0 .. MaxTurnCalls BY <1>3, <1>4, CountsAssumption
<1>6. call \in Call BY <1>5, CountsAssumption DEF Call, Kinds, WholeFilm
<1>7. calls' = [calls EXCEPT ![r] = S] BY <1>3 DEF Bill
<1>. HIDE DEF call
<1>8. S \in SUBSET Call /\ IsFiniteSet(S) BY <1>2, <1>6, FS_AddElement DEF Fine
<1>9. job' = [job EXCEPT ![r] = job[r]] /\ rows' = rows BY <1>1, <1>2, <1>3 DEF Globals
<1>10. /\ job[r].at \notin {"done", "failed"} /\ job[r].at # "done" /\ job[r].at \notin Rendering
  BY <1>3 DEF Rendering
<1>11. /\ record' \in [Lines -> 0 .. MaxAttempts] /\ turn' \in Turns \union {NoRequest}
       /\ runner' \in Runs \union Rerenders \union {NoRequest}
  BY <1>2, <1>3 DEF Globals
<1>. HIDE DEF S, IInv
<1>. QED BY <1>1, <1>2, <1>7, <1>8, <1>9, <1>10, <1>11, Quiet

-----------------------------------------------------------------------------
(***************************************************************************)
(* Writing the rows of a result.                                           *)
(***************************************************************************)
\* A request that writes ends, with all its rows if it succeeds.
LEMMA Writes ==
  ASSUME IInv, NEW r \in Requests, job[r].at = "recording",
         NEW at \in {"done", "failed"}, Go(r, at),
         NEW W \in SUBSET AllRows(r), at = "done" => W = AllRows(r), rows' = rows \union W,
         UNCHANGED <<calls, record, runner, turn>>
  PROVE  IInv'
<1>. DEFINE j == [job[r] EXCEPT !.at = at]
<1>1. Fine(r) /\ Globals /\ job[r] \in Job /\ calls[r] \in SUBSET Call
  BY DEF IInv, Globals
<1>2. j \in Job /\ j.at = at /\ j.takes = job[r].takes /\ j.busy = job[r].busy
  BY <1>1 DEF Job, Steps
<1>3. job' = [job EXCEPT ![r] = j] BY DEF Go
<1>. HIDE DEF j
<1>4. job'[r] = j /\ calls'[r] = calls[r] /\ calls' = [calls EXCEPT ![r] = calls[r]]
  BY <1>1, <1>3 DEF Globals
<1>5. W \in SUBSET Key BY <1>1, RowsAreKeys
<1>6. ASSUME NEW k \in W PROVE k.commit = r
  <2>1. k \in {RowFor(r, c) : c \in calls[r]} BY <1>1, RowsPay
  <2>. QED BY <2>1 DEF RowFor
<1>7. RowsOf(r) = {} BY <1>1 DEF Fine, Written
<1>8. RowsOf(r)' = W BY <1>6, <1>7 DEF RowsOf
<1>9. AllRows(r)' = AllRows(r) BY <1>2, <1>4, SameRows
<1>10. Written(r)' BY <1>2, <1>4, <1>8, <1>9 DEF Written
<1>11. job[r].at # "failed" /\ job[r].at \notin Rendering /\ j.at \notin Rendering
  BY <1>2 DEF Rendering
<1>12. r \in Runs /\ ~ j.busy => CoveredBy(calls[r], j)
  BY <1>1, <1>2, <1>11 DEF Fine, CoveredBy
<1>13. Fine(r)'
  <2>1. CoveredBy(calls[r], job[r])' <=> CoveredBy(calls[r], j) BY <1>4 DEF CoveredBy
  <2>. QED BY <1>1, <1>2, <1>4, <1>10, <1>11, <1>12, <2>1 DEF Fine
<1>14. /\ record' \in [Lines -> 0 .. MaxAttempts] /\ turn' \in Turns \union {NoRequest}
       /\ runner' \in Runs \union Rerenders \union {NoRequest}
  BY <1>1 DEF Globals
<1>. HIDE DEF IInv
<1>. QED BY <1>1, <1>2, <1>3, <1>4, <1>5, <1>6, <1>13, <1>14, Preserved

LEMMA RecordStep ==
  ASSUME IInv, NEW r \in Runs \union Rerenders, Record(r) PROVE IInv'
<1>. DEFINE some(n) == UNION {RowsOfTake(r, k) : k \in 1 .. n}
            last == Len(job[r].takes)
<1>1. r \in Requests /\ r \notin Turns BY Kindred
<1>2. AllRows(r) = some(last) BY <1>1 DEF AllRows
<1>3. last \in Nat
  <2>1. job[r] \in Job BY <1>1 DEF IInv, Globals
  <2>2. job[r].takes \in Seq(Take) BY <2>1 DEF Job
  <2>. QED BY <2>2
<1>4. \A n \in 0 .. last : some(n) \subseteq some(last)
  <2>1. \A n \in 0 .. last : 1 .. n \subseteq 1 .. last BY <1>3
  <2>. QED BY <2>1
<1>5. job[r].at = "recording" /\ UNCHANGED <<calls, record, runner, turn>> BY DEF Record
<1>6. CASE rows' = rows \union some(last) /\ Go(r, "done")
  <2>. HIDE DEF IInv, some, last
  <2>. QED BY <1>1, <1>2, <1>5, <1>6, Writes
<1>7. CASE \E n \in 0 .. last : rows' = rows \union some(n) /\ Go(r, "failed")
  <2>1. PICK n \in 0 .. last : rows' = rows \union some(n) /\ Go(r, "failed") BY <1>7
  <2>2. some(n) \in SUBSET AllRows(r) BY <1>2, <1>4
  <2>. HIDE DEF IInv, some, last
  <2>. QED BY <1>1, <1>5, <2>1, <2>2, Writes
<1>. QED BY <1>6, <1>7 DEF Record

LEMMA RecordAgentTurnStep ==
  ASSUME IInv, NEW r \in Turns, RecordAgentTurn(r) PROVE IInv'
<1>. DEFINE some(n) == {k \in TurnRows(r) : k.call.index < n}
<1>1. r \in Requests BY Kindred
<1>2. AllRows(r) = TurnRows(r) BY DEF AllRows
<1>3. job[r].at = "recording" /\ UNCHANGED <<calls, record, runner, turn>>
  BY DEF RecordAgentTurn
<1>4. CASE rows' = rows \union TurnRows(r) /\ Go(r, "done")
  <2>. HIDE DEF IInv
  <2>. QED BY <1>1, <1>2, <1>3, <1>4, Writes
<1>5. CASE \E n \in 0 .. MaxTurnCalls : rows' = rows \union some(n) /\ Go(r, "failed")
  <2>1. PICK n \in 0 .. MaxTurnCalls : rows' = rows \union some(n) /\ Go(r, "failed")
    BY <1>5
  <2>2. some(n) \in SUBSET AllRows(r) BY <1>2
  <2>. HIDE DEF IInv, some
  <2>. QED BY <1>1, <1>3, <2>1, <2>2, Writes
<1>. QED BY <1>4, <1>5 DEF RecordAgentTurn

-----------------------------------------------------------------------------
(***************************************************************************)
(* The invariant and what it implies.                                      *)
(***************************************************************************)
LEMMA InitIInv == Init => IInv
<1>1. SUFFICES ASSUME Init PROVE IInv
  OBVIOUS
<1>2. /\ Idle \in Job /\ Idle.takes = <<>> /\ Idle.at = "idle"
  BY CountsAssumption DEF Idle, Job, Steps
<1>3. Globals BY <1>1, <1>2 DEF Init, Globals
<1>4. ASSUME NEW r \in Requests PROVE Fine(r)
  <2>1. job[r] = Idle /\ calls[r] = {} /\ rows = {} BY <1>1 DEF Init
  <2>2. Written(r) BY <1>2, <2>1 DEF Written, RowsOf
  <2>3. Idle.at \notin Rendering BY <1>2 DEF Rendering
  <2>4. CoveredBy(calls[r], job[r]) BY <2>1 DEF CoveredBy
  <2>5. Len(Idle.takes) <= 1 BY <1>2
  <2>. QED BY <1>2, <2>1, <2>2, <2>3, <2>4, <2>5, FS_EmptySet DEF Fine
<1>. QED BY <1>3, <1>4 DEF IInv

LEMMA NextIInv == IInv /\ [Next]_vars => IInv'
<1>1. SUFFICES ASSUME IInv, [Next]_vars PROVE IInv'
  OBVIOUS
<1>2. CASE UNCHANGED vars
  BY <1>1, <1>2 DEF vars, IInv, Globals, Fine, CoveredBy, Written, RowsOf, AllRows, TurnRows,
    RowsOfTake, TakeCharges, ChargesForAttempt, WholePass
<1>3. ASSUME NEW r \in Runs \union Rerenders, RenderStep(r) PROVE IInv'
  <2>. HIDE DEF IInv
  <2>. QED BY <1>1, <1>3, TranslateStep, SynthesizeStep, JudgeStep, StayBusyStep,
              RenderFailsStep, RecordStep DEF RenderStep
<1>4. ASSUME NEW r \in Runs, RunStart(r) \/ Segment(r) \/ OpenLine(r) PROVE IInv'
  <2>. HIDE DEF IInv
  <2>. QED BY <1>1, <1>4, RunStartStep, SegmentStep, OpenLineStep
<1>5. ASSUME NEW r \in Rerenders, NEW l \in Lines, NEW authoritative \in BOOLEAN,
             RerenderStart(r, l, authoritative)
      PROVE  IInv'
  <2>. HIDE DEF IInv
  <2>. QED BY <1>1, <1>5, RerenderStartStep
<1>6. ASSUME NEW r \in Turns,
             Ask(r) \/ AgentCall(r) \/ Answer(r) \/ TurnFails(r) \/ RecordAgentTurn(r)
      PROVE  IInv'
  <2>. HIDE DEF IInv
  <2>. QED BY <1>1, <1>6, AskStep, AgentCallStep, AnswerStep, RecordAgentTurnStep
<1>. HIDE DEF IInv
<1>. QED BY <1>1, <1>2, <1>3, <1>4, <1>5, <1>6 DEF Next

LEMMA AlwaysIInv == Spec => []IInv
BY InitIInv, NextIInv, PTL DEF Spec

LEMMA IInvTypes == IInv => TypeOK
<1>1. SUFFICES ASSUME IInv PROVE TypeOK
  OBVIOUS
<1>2. ASSUME NEW r \in Requests
      PROVE  /\ job[r].at \in Steps
             /\ job[r].line \in 1 .. LineCount + 1 /\ job[r].attempt \in 1 .. MaxAttempts
             /\ job[r].takes \in Seq(Take)
  <2>1. job[r] \in Job BY <1>1 DEF IInv, Globals
  <2>. QED BY <2>1 DEF Job
<1>. QED BY <1>1, <1>2 DEF IInv, Globals, TypeOK

\* Every variable of Charges stays within its type, for any number of requests.
THEOREM TypeCorrect == Spec => []TypeOK
BY AlwaysIInv, IInvTypes, PTL

\* However requests fail and interleave, a request has no more rows than calls
\* it was billed for.
THEOREM TotalsNeverExceedBills == Spec => []NothingCountsTwice
<1>1. IInv => NothingCountsTwice
  <2>1. SUFFICES ASSUME IInv, NEW r \in Requests
                 PROVE  Cardinality(RowsOf(r)) <= Cardinality(calls[r])
    BY DEF NothingCountsTwice
  <2>2. Fine(r) BY <2>1 DEF IInv
  <2>3. RowsOf(r) \subseteq AllRows(r) BY <2>2 DEF Fine, Written
  <2>. QED BY <2>2, <2>3, NoMoreRows
<1>. QED BY <1>1, AlwaysIInv, PTL

\* An answered agent turn has as many rows as model calls, for any number of them.
THEOREM AnsweredTurnsArePaid == Spec => []AnsweredTurnCounts
<1>1. IInv => AnsweredTurnCounts
  <2>1. SUFFICES ASSUME IInv, NEW r \in Turns, job[r].at = "done"
                 PROVE  Cardinality(RowsOf(r)) = Cardinality(calls[r])
    BY DEF AnsweredTurnCounts
  <2>2. r \in Requests /\ Fine(r) BY <2>1, Kindred DEF IInv
  <2>3. RowsOf(r) = AllRows(r) BY <2>1, <2>2 DEF Fine, Written
  <2>4. AllRows(r) = {RowFor(r, c) : c \in calls[r]} BY DEF AllRows, TurnRows, RowFor
  <2>. QED BY <2>2, <2>3, <2>4, AsManyRows
<1>. QED BY <1>1, AlwaysIInv, PTL

\* A run that reports success, gave no line up and has a take wrote a row for
\* each call it was billed for, under the attempt that made the call.
THEOREM FinishedRunsArePaid == Spec => []RunCountsEveryCall
<1>1. IInv => RunCountsEveryCall
  <2>1. SUFFICES ASSUME IInv, NEW r \in Runs, job[r].at = "done", ~ job[r].busy,
                        job[r].takes # <<>>
                 PROVE  /\ Cardinality(RowsOf(r)) = Cardinality(calls[r])
                        /\ \A c \in AttemptCalls(r) : [commit |-> r, call |-> c] \in rows
    BY DEF RunCountsEveryCall
  <2>2. r \in Requests /\ r \notin Turns /\ r \notin Rerenders /\ Fine(r) /\ job[r] \in Job
    BY <2>1, Kindred DEF IInv, Globals
  <2>3. RowsOf(r) = AllRows(r) /\ CoveredBy(calls[r], job[r])
    BY <2>1, <2>2 DEF Fine, Written
  <2>4. 1 \in 1 .. Len(job[r].takes)
    <3>1. job[r].takes \in Seq(Take) BY <2>2 DEF Job
    <3>. QED BY <2>1, <3>1
  <2>5. ASSUME NEW c \in calls[r] PROVE RowFor(r, c) \in AllRows(r)
    <3>1. c.attempt \in Nat BY <2>2, CountsAssumption DEF Fine, Call
    <3>2. CASE c.attempt = 0
      <4>1. [c EXCEPT !.line = job[r].takes[1].line] \in TakeCharges(r, 1)
        BY <2>1, <3>2 DEF TakeCharges, WholePass
      <4>2. RowFor(r, c) \in RowsOfTake(r, 1)
        BY <2>2, <3>2, <4>1 DEF RowFor, RowsOfTake
      <4>. QED BY <2>2, <2>4, <4>2 DEF AllRows
    <3>3. CASE c.attempt # 0
      <4>1. PICK k \in 1 .. Len(job[r].takes) :
              job[r].takes[k].line = c.line /\ job[r].takes[k].attempt = c.attempt
        <5>1. c.attempt > 0 /\ job[r].at \notin Rendering
          BY <2>1, <3>1, <3>3 DEF Rendering
        <5>. QED BY <2>3, <5>1 DEF CoveredBy
      <4>2. c \in TakeCharges(r, k) BY <2>1, <4>1 DEF TakeCharges, ChargesForAttempt
      <4>3. RowFor(r, c) \in RowsOfTake(r, k)
        BY <2>2, <3>3, <4>2 DEF RowFor, RowsOfTake
      <4>. QED BY <2>2, <4>3 DEF AllRows
    <3>. QED BY <3>2, <3>3
  <2>6. AllRows(r) = {RowFor(r, c) : c \in calls[r]} BY <2>2, <2>5, RowsPay
  <2>7. Cardinality(RowsOf(r)) = Cardinality(calls[r]) BY <2>2, <2>3, <2>6, AsManyRows
  <2>8. ASSUME NEW c \in AttemptCalls(r) PROVE [commit |-> r, call |-> c] \in rows
    <3>1. c \in calls[r] /\ c.attempt # 0 BY DEF AttemptCalls
    <3>2. RowFor(r, c) = [commit |-> r, call |-> c] BY <2>2, <3>1 DEF RowFor
    <3>3. RowFor(r, c) \in RowsOf(r) BY <2>3, <2>5, <3>1
    <3>. QED BY <3>2, <3>3 DEF RowsOf
  <2>. QED BY <2>7, <2>8
<1>. QED BY <1>1, AlwaysIInv, PTL
=============================================================================
