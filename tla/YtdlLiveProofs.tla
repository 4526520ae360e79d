--------------------------- MODULE YtdlLiveProofs ---------------------------
(***************************************************************************)
(* What a page that has caught up may rely on (YtdlLive), for any number   *)
(* of rows, pages, faults and whatever happens in between.                 *)
(*                                                                         *)
(* A page is told of a row by the list it read, by the frames it merged,   *)
(* by those that wait in its channel, by the batch the watch is putting    *)
(* together, or by the next watch.  The invariant follows a row through    *)
(* these five places: a row that somebody is left with as unfinished is    *)
(* still accounted for further down, and a row that somebody lacks is      *)
(* still to be announced to them.                                          *)
(***************************************************************************)
EXTENDS YtdlLive, SequenceTheorems, TLAPS

Fetch == {NoFetch, Due}
         \cup [state : {"read"}, again : BOOLEAN, rows : [Rows -> Shown \cup {NoRow}]]

Types == /\ TypeOK
         /\ ch \in [Clients -> [frames : Seq(Frames), open : BOOLEAN]]
         /\ fetch \in [Clients -> Fetch]

\* What a row says about its worker.
JobShape ==
  \A r \in Rows :
    /\ r \notin added => rec[r] = NoRow /\ job[r] = NoRow
    /\ rec[r] = "queued" => job[r] = NoRow
    /\ rec[r] \in Final => job[r] \notin {"pending", "running"}

\* What the watch holds of rows that are not there yet, and when it holds anything.
WatchShape ==
  /\ pc # "leave" => batch = Nothing /\ left = {}
  /\ \A r \in Rows \ added : seen[r] = NoRow /\ current[r] = NoRow
  /\ \A r \in left : seen[r] # NoRow

\* A row that ended while the listing still has its worker at work has slipped; nothing
\* unfinished has; and the watch knows of everything unfinished but the newest.
EndShape ==
  \A r \in Rows :
    /\ rec[r] \in Final /\ live[r] \in {"pending", "running"} => r \in slipped
    /\ r \in slipped => rec[r] \notin Waiting
    /\ rec[r] \in Waiting => Remembered(r) \/ r \in fresh

\* What a batch says, against what the watch will remember of it.
BatchShape ==
  pc = "leave" =>
    \A r \in Rows :
      /\ rec[r] \in Waiting /\ current[r] = NoRow => r \in fresh
      /\ batch[r].kind \in {"created", "changed"} /\ batch[r].shows \in Waiting =>
           current[r] # NoRow \/ r \in slipped \/ (rec[r] \in Waiting /\ r \in fresh)
      /\ batch[r].kind = "created" => seen[r] = NoRow /\ r \notin left
      /\ batch[r].kind = "removed" => rec[r] = NoRow /\ r \in added

Shared == Types /\ JobShape /\ WatchShape /\ EndShape /\ BatchShape

-----------------------------------------------------------------------------
\* Somebody will still speak of the row's ending, or nobody is bound to.
Accounted(r) == \/ Remembered(r) \/ batch[r] # NoChange \/ r \in slipped
                \/ rec[r] \in Waiting /\ r \in fresh

\* The row is still to be announced, or need not be.
Unspoken(r) == spoken /\ seen[r] = NoRow /\ (pc = "leave" => current[r] = NoRow)
Heard(r)    == r \in early \/ Unspoken(r) \/ batch[r].kind = "created"

Listening(c) == c \in conn /\ ch[c].open
Reading(c)   == fetch[c].state = "read" /\ ~fetch[c].again

\* No frame that waits for c says anything of r; the i-th is the last that does.
Silent(c, r) == \A i \in DOMAIN ch[c].frames : ch[c].frames[i][r] = NoChange
LastWord(c, r, i) == \A j \in DOMAIN ch[c].frames : j > i => ch[c].frames[j][r] = NoChange
ShowsWaiting(x) == x.kind \in {"created", "changed"} /\ x.shows \in Waiting

ChannelShape(c, r) ==
  \A i \in DOMAIN ch[c].frames :
    /\ ch[c].frames[i][r].kind = "removed" => rec[r] = NoRow /\ r \in added
    /\ Listening(c) /\ LastWord(c, r, i) /\ ShowsWaiting(ch[c].frames[i][r]) => Accounted(r)

Announced(c, r) == \E i \in DOMAIN ch[c].frames : ch[c].frames[i][r].kind = "created"
Coming(c, r)    == Heard(r) \/ Announced(c, r)

\* A read of the list that no frame has overtaken.
ReadShape(c, r) ==
  Listening(c) /\ Reading(c) /\ c \notin raced =>
    /\ Silent(c, r) /\ fetch[c].rows[r] # NoRow
         /\ (fetch[c].rows[r] \in Waiting \/ job[r] \in {"pending", "running"}) => Accounted(r)
    /\ rec[r] # NoRow => fetch[c].rows[r] # NoRow \/ Coming(c, r)

\* A page whose last read is over, and was overtaken by nothing.
ViewShape(c, r) ==
  Listening(c) /\ fetch[c] = NoFetch /\ c \notin raced =>
    /\ Silent(c, r) /\ view[c][r] \in Waiting => Accounted(r)
    /\ rec[r] # NoRow => view[c][r] # NoRow \/ Coming(c, r)

Told(c, r) == Visible(c, r) => ChannelShape(c, r) /\ ReadShape(c, r) /\ ViewShape(c, r)

Inv == Shared /\ \A c \in Clients, r \in Rows : Told(c, r)

-----------------------------------------------------------------------------
\* Types.

LEMMA PhaseNames ==
  /\ Phases = {"pending", "running", "succeeded", "failed"}
  /\ \A j \in Phases : StateOf[j] \in Shown
  /\ StateOf["pending"] = "scheduled" /\ StateOf["running"] = "downloading"
  /\ StateOf["succeeded"] = "completed" /\ StateOf["failed"] = "failed"
BY DEF Phases, StateOf, Shown, Waiting, Final

LEMMA StateNames ==
  /\ NoRow \notin Shown /\ NoRow \notin Waiting /\ NoRow \notin Final
  /\ Shown = Waiting \cup Final /\ Waiting \cap Final = {}
  /\ "queued" \in Waiting /\ "failed" \in Final
  /\ NoRow \notin Phases
BY PhaseNames DEF NoRow, Shown, Waiting, Final

\* What is shown of a row is a state, and an unfinished one only of an unfinished row or a
\* worker at work.
LEMMA LiveStates ==
  ASSUME NEW row \in Shown \cup {NoRow}, NEW j \in Phases \cup {NoRow}
  PROVE  /\ row # NoRow => LiveStateOf(row, j) \in Shown
         /\ row # NoRow /\ LiveStateOf(row, j) \in Waiting =>
              row \in Waiting \/ j \in {"pending", "running"}
         /\ j \in {"pending", "running"} => LiveStateOf(row, j) \in Waiting
<1>1. CASE j = NoRow
  BY <1>1, StateNames, PhaseNames DEF LiveStateOf
<1>2. CASE j \in Phases
  BY <1>2, StateNames, PhaseNames DEF LiveStateOf, Waiting, Final
<1> QED  BY <1>1, <1>2

LEMMA ChangeKinds ==
  ASSUME NEW x \in Changes \cup {NoChange}
  PROVE  /\ x.kind \in {"created", "changed", "removed", "none"}
         /\ x # NoChange <=> x.kind # "none"
         /\ x.kind \in {"created", "changed"} => x.shows \in Shown
BY DEF Changes, NoChange

LEMMA ChangeTypes ==
  /\ NoChange \in Changes \cup {NoChange} /\ NoChange.kind = "none"
  /\ \A k \in {"created", "changed"}, s \in Shown :
       /\ [kind |-> k, shows |-> s] \in Changes
       /\ [kind |-> k, shows |-> s].kind = k /\ [kind |-> k, shows |-> s].shows = s
       /\ [kind |-> k, shows |-> s] # NoChange
  /\ [kind |-> "removed"] \in Changes /\ [kind |-> "removed"].kind = "removed"
  /\ [kind |-> "removed"] # NoChange
BY DEF Changes, NoChange

LEMMA NothingFrame == Nothing \in Frames /\ \A r \in Rows : Nothing[r] = NoChange
BY DEF Nothing, Frames

LEMMA Typing ==
  ASSUME Types
  PROVE  /\ rec \in [Rows -> Shown \cup {NoRow}] /\ job \in [Rows -> Phases \cup {NoRow}]
         /\ live \in [Rows -> Phases \cup {NoRow}] /\ pc \in {"idle", "watch", "leave"}
         /\ seen \in [Rows -> Shown \cup {NoRow}] /\ current \in [Rows -> Shown \cup {NoRow}]
         /\ batch \in [Rows -> Changes \cup {NoChange}]
         /\ view \in [Clients -> [Rows -> Shown \cup {NoRow}]]
         /\ ch \in [Clients -> [frames : Seq(Frames), open : BOOLEAN]]
         /\ fetch \in [Clients -> Fetch]
         /\ conn \subseteq Clients /\ raced \subseteq Clients
         /\ left \subseteq Rows /\ slipped \subseteq Rows
BY DEF Types, TypeOK, Frames

\* A page's fetch is none, due, or a read with its rows.
LEMMA FetchCases ==
  ASSUME Types, NEW c \in Clients
  PROVE  /\ fetch[c] = NoFetch \/ fetch[c] = Due \/ fetch[c].state = "read"
         /\ fetch[c].state = "read" =>
              /\ fetch[c] \in [state : {"read"}, again : BOOLEAN, rows : [Rows -> Shown \cup {NoRow}]]
              /\ fetch[c].again \in BOOLEAN /\ fetch[c].rows \in [Rows -> Shown \cup {NoRow}]
              /\ fetch[c] # NoFetch
         /\ fetch[c] = NoFetch => fetch[c].state = "none"
         /\ fetch[c] = Due => fetch[c].state = "due" /\ fetch[c] # NoFetch
<1>1. fetch[c] \in Fetch  BY Typing
<1>2. NoFetch.state = "none" /\ Due.state = "due"  BY DEF NoFetch, Due
<1> HIDE DEF NoFetch, Due
<1>3. CASE fetch[c] \in [state : {"read"}, again : BOOLEAN, rows : [Rows -> Shown \cup {NoRow}]]
  <2>1. fetch[c].state = "read" /\ fetch[c].again \in BOOLEAN /\ fetch[c].rows \in [Rows -> Shown \cup {NoRow}]
    BY <1>3
  <2> QED  BY <1>2, <1>3, <2>1
<1>4. CASE fetch[c] = NoFetch \/ fetch[c] = Due  BY <1>2, <1>4
<1> QED  BY <1>1, <1>3, <1>4 DEF Fetch

-----------------------------------------------------------------------------
\* Steps that move rows and leave the watch's memory alone.

\* What such a step keeps of every row.
Carried(r) == /\ Accounted(r) => Accounted(r)'
              /\ Heard(r) => Heard(r)'
              /\ rec[r] = NoRow /\ r \in added => (rec[r] = NoRow /\ r \in added)'

SameWatch == /\ UNCHANGED <<seen, spoken, current, left, batch>>
             /\ pc' = pc \/ (pc = "idle" /\ pc' = "watch")

RowsTyped == /\ rec \in [Rows -> Shown \cup {NoRow}] /\ job \in [Rows -> Phases \cup {NoRow}]
             /\ live \in [Rows -> Phases \cup {NoRow}]

LEMMA GhostsMove ==
  ASSUME Shared, SameWatch, Note, NEW r \in Rows
  PROVE  /\ r \in fresh => r \in fresh'
         /\ Entering(r) => r \in fresh' /\ (~spoken => r \in early')
         /\ r \in early => r \in early'
         /\ Slips(r) => r \in slipped'
         /\ r \in slipped /\ rec'[r] \notin Waiting => r \in slipped'
         /\ r \in slipped' => rec'[r] \notin Waiting
<1>1. ~(pc = "watch" /\ pc' = "leave")  BY DEF SameWatch, Shared, Types, TypeOK
<1>2. fresh' = fresh \cup {q \in Rows : Entering(q)}  BY <1>1 DEF Note
<1>3. slipped' = {q \in Rows : Slips(q) \/ (q \in slipped /\ rec'[q] \notin Waiting)}  BY DEF Note
<1>4. early' = early \cup {q \in Rows : ~spoken /\ Entering(q)}  BY DEF Note
<1>5. Slips(r) => rec'[r] \notin Waiting  BY DEF Slips
<1> QED  BY <1>2, <1>3, <1>4, <1>5

LEMMA RowCarried ==
  ASSUME Shared, SameWatch, Note, RowsTyped', NEW r \in Rows,
         rec[r] = NoRow /\ r \in added => rec'[r] = NoRow,
         added \subseteq added'
  PROVE  Carried(r)
<1>1. Remembered(r)' <=> Remembered(r)
  BY DEF Remembered, SameWatch
<1>2. batch' = batch  BY DEF SameWatch
<1>3. rec[r] \in Shown \cup {NoRow} /\ rec'[r] \in Shown \cup {NoRow}
  BY Typing DEF Shared, RowsTyped
<1>4. Accounted(r) => Accounted(r)'
  <2>1. CASE r \in slipped
    <3>1. rec[r] \notin Waiting  BY <2>1 DEF Shared, EndShape
    <3> QED  BY <2>1, <3>1, GhostsMove DEF Accounted, Entering
  <2>2. CASE rec[r] \in Waiting /\ r \in fresh
    BY <2>2, GhostsMove DEF Accounted, Slips
  <2>3. CASE Remembered(r) \/ batch[r] # NoChange
    BY <1>1, <1>2, <2>3 DEF Accounted
  <2> QED  BY <2>1, <2>2, <2>3 DEF Accounted
<1>5. Heard(r) => Heard(r)'
  <2>1. Unspoken(r) => Unspoken(r)'  BY DEF Unspoken, SameWatch
  <2> QED  BY <1>2, <2>1, GhostsMove DEF Heard
<1> QED  BY <1>4, <1>5 DEF Carried

LEMMA RowsMove ==
  ASSUME Shared, SameWatch, Note, Types', JobShape', added \subseteq added',
         \A r \in Rows : rec[r] = NoRow /\ r \in added => rec'[r] = NoRow,
         \A r \in Rows : rec'[r] \in Final /\ live'[r] \in {"pending", "running"} =>
                           Slips(r) \/ r \in slipped
  PROVE  Shared' /\ \A r \in Rows : Carried(r)
<1>1. RowsTyped'  BY DEF RowsTyped, Types, TypeOK
<1>2. \A r \in Rows : Carried(r)  BY <1>1, RowCarried
<1>3. WatchShape'
  <2>1. pc' = "leave" <=> pc = "leave"  BY DEF SameWatch
  <2> QED  BY <2>1 DEF Shared, WatchShape, SameWatch
<1>4. EndShape'
  <2> SUFFICES ASSUME NEW r \in Rows
               PROVE  /\ rec'[r] \in Final /\ live'[r] \in {"pending", "running"} => r \in slipped'
                      /\ r \in slipped' => rec'[r] \notin Waiting
                      /\ rec'[r] \in Waiting => Remembered(r)' \/ r \in fresh'
    BY DEF EndShape
  <2>1. Remembered(r)' <=> Remembered(r)  BY DEF Remembered, SameWatch
  <2>2. rec[r] \in Waiting => Remembered(r) \/ r \in fresh  BY DEF Shared, EndShape
  <2>3. rec'[r] \in Waiting => Remembered(r)' \/ r \in fresh'
    BY <2>1, <2>2, GhostsMove DEF Entering
  <2>4. rec'[r] \in Final => rec'[r] \notin Waiting  BY StateNames
  <2> QED  BY <2>3, <2>4, GhostsMove
<1>5. BatchShape'
  <2> SUFFICES ASSUME pc' = "leave", NEW r \in Rows
               PROVE  /\ rec'[r] \in Waiting /\ current'[r] = NoRow => r \in fresh'
                      /\ batch'[r].kind \in {"created", "changed"} /\ batch'[r].shows \in Waiting =>
                           current'[r] # NoRow \/ r \in slipped' \/ (rec'[r] \in Waiting /\ r \in fresh')
                      /\ batch'[r].kind = "created" => seen'[r] = NoRow /\ r \notin left'
                      /\ batch'[r].kind = "removed" => rec'[r] = NoRow /\ r \in added'
    BY DEF BatchShape
  <2>1. UNCHANGED <<seen, spoken, current, left, batch>> /\ pc = "leave"  BY DEF SameWatch
  <2>2. /\ rec[r] \in Waiting /\ current[r] = NoRow => r \in fresh
        /\ batch[r].kind \in {"created", "changed"} /\ batch[r].shows \in Waiting =>
             current[r] # NoRow \/ r \in slipped \/ (rec[r] \in Waiting /\ r \in fresh)
        /\ batch[r].kind = "created" => seen[r] = NoRow /\ r \notin left
        /\ batch[r].kind = "removed" => rec[r] = NoRow /\ r \in added
    BY <2>1 DEF Shared, BatchShape
  <2>3. rec'[r] \in Waiting /\ current'[r] = NoRow => r \in fresh'
    BY <2>1, <2>2, GhostsMove DEF Entering
  <2>4. r \in slipped => r \in slipped' \/ (rec'[r] \in Waiting /\ r \in fresh')
    <3>1. r \in slipped => rec[r] \notin Waiting  BY DEF Shared, EndShape
    <3> QED  BY <3>1, GhostsMove DEF Entering
  <2>5. rec[r] \in Waiting /\ r \in fresh => r \in slipped' \/ (rec'[r] \in Waiting /\ r \in fresh')
    BY GhostsMove DEF Slips
  <2> QED  BY <2>1, <2>2, <2>3, <2>4, <2>5
<1> QED  BY <1>2, <1>3, <1>4, <1>5 DEF Shared

\* Nothing is recorded by a step that changes no row and leaves the notes alone.
LEMMA QuietNote ==
  ASSUME Shared, UNCHANGED <<rec, pc, fresh, slipped, early>>
  PROVE  Note
<1>1. \A r \in Rows : ~Entering(r) /\ ~Slips(r)  BY DEF Entering, Slips
<1>2. slipped = {r \in Rows : Slips(r) \/ (r \in slipped /\ rec'[r] \notin Waiting)}
  <2>1. slipped \subseteq Rows  BY Typing DEF Shared
  <2>2. \A r \in slipped : rec[r] \notin Waiting  BY <2>1 DEF Shared, EndShape
  <2> QED  BY <1>1, <2>1, <2>2
<1>3. fresh = fresh \cup {r \in Rows : Entering(r)}  BY <1>1
<1>4. early = early \cup {r \in Rows : ~spoken /\ Entering(r)}  BY <1>1
<1>5. ~(pc = "watch" /\ pc' = "leave")  BY DEF Shared, Types, TypeOK
<1> QED  BY <1>2, <1>3, <1>4, <1>5 DEF Note

\* What is recorded keeps its type.
LEMMA NoteTyped ==
  ASSUME Types, Note
  PROVE  /\ fresh' \subseteq Rows /\ slipped' \subseteq Rows /\ early' \subseteq Rows
BY DEF Types, TypeOK, Note

\* The type of everything, when the watch and the pages are left alone.
LEMMA TypesKept ==
  ASSUME Types, SameWatch, UNCHANGED <<conn, ch, fetch, view, raced>>,
         RowsTyped', missing' \subseteq Rows, added' \subseteq Rows,
         fresh' \subseteq Rows /\ slipped' \subseteq Rows /\ early' \subseteq Rows
  PROVE  Types'
<1>1. pc' \in {"idle", "watch", "leave"}  BY DEF SameWatch, Types, TypeOK
<1>2. TypeOK'  BY <1>1 DEF Types, TypeOK, SameWatch, RowsTyped
<1> QED  BY <1>2 DEF Types

-----------------------------------------------------------------------------
\* People and the cluster.

LEMMA SubmitShared ==
  ASSUME Shared, NEW r \in Rows, Submit(r)
  PROVE  /\ Shared' /\ (\A q \in Rows : Carried(q)) /\ Heard(r)'
         /\ \A q \in Rows : job'[q] = job[q] /\ (rec'[q] # NoRow => rec[q] # NoRow \/ q = r)
<1>0. Types /\ JobShape /\ WatchShape  BY DEF Shared
<1>1. /\ r \notin added /\ rec' = [rec EXCEPT ![r] = "queued"] /\ added' = added \cup {r}
      /\ UNCHANGED <<job, cycle, streams, pages, faults>> /\ Note
  BY DEF Submit
<1>2. \A q \in Rows : rec'[q] = IF q = r THEN "queued" ELSE rec[q]
  BY <1>0, <1>1, Typing
<1>3. SameWatch  BY <1>1 DEF SameWatch, cycle
<1>4. RowsTyped'
  BY <1>0, <1>1, Typing, StateNames DEF RowsTyped, cycle
<1>5. Types'
  <2>1. missing' \subseteq Rows /\ added' \subseteq Rows  BY <1>0, <1>1 DEF Types, TypeOK, cycle
  <2> QED  BY <1>0, <1>1, <1>3, <1>4, <2>1, NoteTyped, TypesKept DEF streams, pages
<1>6. JobShape'
  BY <1>0, <1>1, <1>2, StateNames DEF JobShape
<1>7. \A q \in Rows : rec[q] = NoRow /\ q \in added => rec'[q] = NoRow
  BY <1>1, <1>2
<1>8. ASSUME NEW q \in Rows, rec'[q] \in Final, live'[q] \in {"pending", "running"}
      PROVE  q \in slipped
  <2>1. q # r /\ rec[q] \in Final  BY <1>2, <1>8, StateNames
  <2> QED  BY <1>1, <1>8, <2>1 DEF Shared, EndShape, cycle
<1>9. Shared' /\ (\A q \in Rows : Carried(q))
  BY <1>1, <1>3, <1>5, <1>6, <1>7, <1>8, RowsMove
<1>10. Heard(r)'
  <2>1. seen[r] = NoRow /\ current[r] = NoRow  BY <1>0, <1>1 DEF WatchShape
  <2>2. Entering(r)  BY <1>0, <1>1, <1>2, StateNames DEF Entering, JobShape
  <2>3. ~spoken => r \in early'  BY <1>1, <1>3, <2>2, GhostsMove
  <2>4. spoken => Unspoken(r)'  BY <1>3, <2>1 DEF Unspoken, SameWatch
  <2> QED  BY <2>3, <2>4 DEF Heard
<1> QED  BY <1>1, <1>2, <1>9, <1>10

LEMMA RetryShared ==
  ASSUME Shared, NEW r \in Rows, Retry(r)
  PROVE  /\ Shared' /\ (\A q \in Rows : Carried(q))
         /\ \A q \in Rows : (job'[q] = job[q] \/ job'[q] = NoRow) /\ (rec'[q] # NoRow => rec[q] # NoRow)
<1>0. Types /\ JobShape  BY DEF Shared
<1>1. /\ rec[r] = "failed" /\ rec' = [rec EXCEPT ![r] = "queued"]
      /\ job' = [job EXCEPT ![r] = NoRow]
      /\ UNCHANGED <<cycle, streams, pages, faults, added>> /\ Note
  BY DEF Retry
<1>2. \A q \in Rows : /\ rec'[q] = IF q = r THEN "queued" ELSE rec[q]
                      /\ job'[q] = IF q = r THEN NoRow ELSE job[q]
  BY <1>0, <1>1, Typing
<1>3. SameWatch  BY <1>1 DEF SameWatch, cycle
<1>4. RowsTyped'
  BY <1>0, <1>1, Typing, StateNames DEF RowsTyped, cycle
<1>5. Types'
  <2>1. missing' \subseteq Rows /\ added' \subseteq Rows  BY <1>0, <1>1 DEF Types, TypeOK, cycle
  <2> QED  BY <1>0, <1>1, <1>3, <1>4, <2>1, NoteTyped, TypesKept DEF streams, pages
<1>6. JobShape'
  <2>1. r \in added  BY <1>0, <1>1, StateNames DEF JobShape, Final
  <2> QED  BY <1>0, <1>1, <1>2, <2>1, StateNames DEF JobShape
<1>7. \A q \in Rows : rec[q] = NoRow /\ q \in added => rec'[q] = NoRow
  BY <1>1, <1>2, StateNames
<1>8. ASSUME NEW q \in Rows, rec'[q] \in Final, live'[q] \in {"pending", "running"}
      PROVE  q \in slipped
  <2>1. q # r /\ rec[q] \in Final  BY <1>2, <1>8, StateNames
  <2> QED  BY <1>1, <1>8, <2>1 DEF Shared, EndShape, cycle
<1>9. Shared' /\ (\A q \in Rows : Carried(q))
  BY <1>1, <1>3, <1>5, <1>6, <1>7, <1>8, RowsMove
<1> QED  BY <1>1, <1>2, <1>9, StateNames

LEMMA DismissShared ==
  ASSUME Shared, NEW r \in Rows, Dismiss(r)
  PROVE  /\ Shared' /\ (\A q \in Rows : Carried(q))
         /\ \A q \in Rows : (job'[q] = job[q] \/ job'[q] = NoRow) /\ (rec'[q] # NoRow => rec[q] # NoRow)
<1>0. Types /\ JobShape  BY DEF Shared
<1>1. /\ rec[r] # NoRow /\ rec' = [rec EXCEPT ![r] = NoRow]
      /\ job' = [job EXCEPT ![r] = IF @ \in {"succeeded", "failed"} THEN NoRow ELSE @]
      /\ UNCHANGED <<cycle, streams, pages, faults, added>> /\ Note
  BY DEF Dismiss
<1>2. \A q \in Rows : /\ rec'[q] = IF q = r THEN NoRow ELSE rec[q]
                      /\ job'[q] = job[q] \/ job'[q] = NoRow
  BY <1>0, <1>1, Typing
<1>3. SameWatch  BY <1>1 DEF SameWatch, cycle
<1>4. RowsTyped'
  BY <1>0, <1>1, Typing, StateNames DEF RowsTyped, cycle
<1>5. Types'
  <2>1. missing' \subseteq Rows /\ added' \subseteq Rows  BY <1>0, <1>1 DEF Types, TypeOK, cycle
  <2> QED  BY <1>0, <1>1, <1>3, <1>4, <2>1, NoteTyped, TypesKept DEF streams, pages
<1>6. JobShape'
  <2>1. NoRow # "queued" /\ NoRow \notin {"pending", "running"}  BY DEF NoRow
  <2> QED  BY <1>0, <1>1, <1>2, <2>1, StateNames DEF JobShape
<1>7. \A q \in Rows : rec[q] = NoRow /\ q \in added => rec'[q] = NoRow
  BY <1>1, <1>2, StateNames
<1>8. ASSUME NEW q \in Rows, rec'[q] \in Final, live'[q] \in {"pending", "running"}
      PROVE  q \in slipped
  <2>1. q # r /\ rec[q] \in Final  BY <1>2, <1>8, StateNames
  <2> QED  BY <1>1, <1>8, <2>1 DEF Shared, EndShape, cycle
<1>9. Shared' /\ (\A q \in Rows : Carried(q))
  BY <1>1, <1>3, <1>5, <1>6, <1>7, <1>8, RowsMove
<1> QED  BY <1>1, <1>2, <1>9, StateNames

LEMMA ClusterShared ==
  ASSUME Shared, NEW r \in Rows, JobGone(r) \/ \E phase \in Phases : Work(r, phase)
  PROVE  /\ Shared' /\ (\A q \in Rows : Carried(q)) /\ rec' = rec
         /\ \A q \in Rows : job'[q] \in {"pending", "running"} => job[q] \in {"pending", "running"}
<1>0. Types /\ JobShape  BY DEF Shared
<1>1. UNCHANGED <<rec, cycle, streams, pages, ghosts, added>>
  BY DEF JobGone, Work
<1>2. PICK x \in Phases \cup {NoRow} :
        /\ job' = [job EXCEPT ![r] = x]
        /\ x = NoRow \/ job[r] \in {"pending", "running"}
  BY DEF JobGone, Work
<1>3. \A q \in Rows : job'[q] = IF q = r THEN x ELSE job[q]  BY <1>0, <1>2, Typing
<1>4. SameWatch  BY <1>1 DEF SameWatch, cycle
<1>5. RowsTyped'
  BY <1>0, <1>1, <1>2, Typing, StateNames DEF RowsTyped, cycle
<1>6. Note  BY <1>1, QuietNote DEF cycle, ghosts
<1>7. Types'
  <2>1. missing' \subseteq Rows /\ added' \subseteq Rows  BY <1>0, <1>1 DEF Types, TypeOK, cycle
  <2> QED  BY <1>0, <1>1, <1>4, <1>5, <1>6, <2>1, NoteTyped, TypesKept DEF streams, pages
<1>8. NoRow \notin {"pending", "running"}  BY DEF NoRow
<1>9. JobShape'
  <2> SUFFICES ASSUME NEW q \in Rows
               PROVE  /\ q \notin added' => rec'[q] = NoRow /\ job'[q] = NoRow
                      /\ rec'[q] = "queued" => job'[q] = NoRow
                      /\ rec'[q] \in Final => job'[q] \notin {"pending", "running"}
    BY DEF JobShape
  <2>1. job[q] = NoRow => job'[q] = NoRow  BY <1>2, <1>3, <1>8
  <2>2. job[q] \notin {"pending", "running"} => job'[q] \notin {"pending", "running"}
    BY <1>2, <1>3, <1>8
  <2> QED  BY <1>0, <1>1, <2>1, <2>2 DEF JobShape
<1>10. \A q \in Rows : rec'[q] \in Final /\ live'[q] \in {"pending", "running"} => q \in slipped
  BY <1>1 DEF Shared, EndShape, cycle
<1>11. Shared' /\ (\A q \in Rows : Carried(q))
  BY <1>1, <1>4, <1>6, <1>7, <1>9, <1>10, RowsMove
<1> QED  BY <1>1, <1>2, <1>3, <1>8, <1>11

-----------------------------------------------------------------------------
\* The cycle up to the watch, and what a page's read of the list records.

\* What a listing and an admission do to one row.
LEMMA ManageRows ==
  ASSUME Shared, NEW chosen \in SUBSET Rows, NEW failing \in SUBSET chosen, Manage(chosen, failing)
  PROVE  /\ SameWatch /\ Note /\ live' = job /\ missing' \subseteq Rows
         /\ UNCHANGED <<conn, ch, fetch, view, raced, added>>
         /\ rec' \in [Rows -> Shown \cup {NoRow}] /\ job' \in [Rows -> Phases \cup {NoRow}]
         /\ \A r \in Rows :
              /\ rec[r] \notin Waiting => rec'[r] = rec[r] /\ job'[r] = job[r]
              /\ rec'[r] = NoRow => rec[r] = NoRow
              /\ rec'[r] = "queued" => rec[r] = "queued" /\ job'[r] = job[r]
              /\ rec'[r] \in Final /\ rec[r] \in Waiting =>
                   job[r] \notin {"pending", "running"} /\ job'[r] = NoRow
              /\ job'[r] \in {"pending", "running"} =>
                   job[r] \in {"pending", "running"} \/ rec'[r] \in Waiting
<1> DEFINE ended   == {r \in Unfinished(rec) : job[r] \in {"succeeded", "failed"}}
           absent  == {r \in Rows : rec[r] \in {"scheduled", "downloading"} /\ job[r] = NoRow}
           lost    == absent \cap missing
           settled == [r \in Rows |-> IF r \in ended THEN StateOf[job[r]]
                                      ELSE IF r \in lost THEN "failed" ELSE rec[r]]
           queued  == {r \in Rows : settled[r] = "queued"}
<1>0. Types /\ JobShape  BY DEF Shared
<1>1. /\ pc = "idle" /\ pc' = "watch" /\ live' = job /\ missing' = absent \ lost
      /\ chosen \subseteq queued /\ failing \subseteq chosen /\ Note
      /\ rec' = [r \in Rows |-> IF r \in failing THEN "failed"
                                ELSE IF r \in chosen THEN "scheduled" ELSE settled[r]]
      /\ job' = [r \in Rows |-> IF r \in ended THEN NoRow
                                ELSE IF r \in chosen \ failing /\ job[r] = NoRow THEN "pending"
                                ELSE job[r]]
      /\ UNCHANGED <<seen, spoken, current, left, batch, streams, pages, events, added>>
  BY DEF Manage
<1>2. \A r \in Rows :
        /\ r \in ended <=> rec[r] \in Waiting /\ job[r] \in {"succeeded", "failed"}
        /\ r \in lost => rec[r] \in {"scheduled", "downloading"} /\ job[r] = NoRow
        /\ settled[r] = IF r \in ended THEN StateOf[job[r]]
                        ELSE IF r \in lost THEN "failed" ELSE rec[r]
        /\ r \in queued <=> settled[r] = "queued"
  BY DEF Unfinished
<1>3. missing' \subseteq Rows  BY <1>1
<1> HIDE DEF ended, absent, lost, settled, queued
<1>4. SameWatch  BY <1>1 DEF SameWatch
<1>5. ASSUME NEW r \in Rows
      PROVE  /\ rec'[r] \in Shown \cup {NoRow} /\ job'[r] \in Phases \cup {NoRow}
             /\ rec[r] \notin Waiting => rec'[r] = rec[r] /\ job'[r] = job[r]
             /\ rec'[r] = NoRow => rec[r] = NoRow
             /\ rec'[r] = "queued" => rec[r] = "queued" /\ job'[r] = job[r]
             /\ rec'[r] \in Final /\ rec[r] \in Waiting =>
                  job[r] \notin {"pending", "running"} /\ job'[r] = NoRow
             /\ job'[r] \in {"pending", "running"} =>
                  job[r] \in {"pending", "running"} \/ rec'[r] \in Waiting
    <2>0. /\ rec[r] \in Shown \cup {NoRow} /\ job[r] \in Phases \cup {NoRow}
          /\ rec'[r] = IF r \in failing THEN "failed"
                       ELSE IF r \in chosen THEN "scheduled" ELSE settled[r]
          /\ job'[r] = IF r \in ended THEN NoRow
                       ELSE IF r \in chosen \ failing /\ job[r] = NoRow THEN "pending" ELSE job[r]
          /\ rec[r] = "queued" => job[r] = NoRow
      BY <1>0, <1>1, Typing DEF JobShape
    <2>1. {"scheduled", "downloading", "queued"} = Waiting /\ Final = {"completed", "failed"}
          /\ NoRow = "none" /\ Shown = Waiting \cup Final
          /\ Phases = {"pending", "running", "succeeded", "failed"}
      BY PhaseNames DEF Waiting, Final, NoRow, Shown
    <2>2. CASE r \in ended
      <3>1. settled[r] \in Final  BY <1>2, <2>1, <2>2, PhaseNames
      <3>2. r \notin chosen  BY <1>1, <1>2, <2>1, <3>1
      <3> QED  BY <1>1, <1>2, <2>0, <2>1, <2>2, <3>1, <3>2
    <2>3. CASE r \notin ended /\ r \in lost
      <3>1. settled[r] = "failed"  BY <1>2, <2>3
      <3>2. r \notin chosen  BY <1>1, <1>2, <3>1
      <3> QED  BY <1>1, <1>2, <2>0, <2>1, <2>3, <3>1, <3>2
    <2>4. CASE r \notin ended /\ r \notin lost
      <3>1. settled[r] = rec[r]  BY <1>2, <2>4
      <3>2. r \in chosen => rec[r] = "queued"  BY <1>1, <1>2, <3>1
      <3> QED  BY <1>1, <2>0, <2>1, <2>4, <3>1, <3>2
    <2> QED  BY <2>2, <2>3, <2>4
<1>6. rec' \in [Rows -> Shown \cup {NoRow}] /\ job' \in [Rows -> Phases \cup {NoRow}]
  BY <1>1, <1>5
<1> QED  BY <1>1, <1>3, <1>4, <1>5, <1>6 DEF streams, pages

LEMMA ManageShared ==
  ASSUME Shared, NEW chosen \in SUBSET Rows, NEW failing \in SUBSET chosen, Manage(chosen, failing)
  PROVE  /\ Shared' /\ (\A q \in Rows : Carried(q))
         /\ \A q \in Rows : /\ rec'[q] # NoRow => rec[q] # NoRow
                            /\ job'[q] \in {"pending", "running"} =>
                                 job[q] \in {"pending", "running"} \/ rec'[q] \in Waiting
         /\ UNCHANGED <<conn, ch, fetch, view, raced>>
<1>0. Types /\ JobShape  BY DEF Shared
<1>1. /\ SameWatch /\ Note /\ live' = job /\ missing' \subseteq Rows
      /\ UNCHANGED <<conn, ch, fetch, view, raced, added>>
      /\ rec' \in [Rows -> Shown \cup {NoRow}] /\ job' \in [Rows -> Phases \cup {NoRow}]
  BY ManageRows
<1>2. \A r \in Rows :
        /\ rec[r] \notin Waiting => rec'[r] = rec[r] /\ job'[r] = job[r]
        /\ rec'[r] = NoRow => rec[r] = NoRow
        /\ rec'[r] = "queued" => rec[r] = "queued" /\ job'[r] = job[r]
        /\ rec'[r] \in Final /\ rec[r] \in Waiting =>
             job[r] \notin {"pending", "running"} /\ job'[r] = NoRow
        /\ job'[r] \in {"pending", "running"} =>
             job[r] \in {"pending", "running"} \/ rec'[r] \in Waiting
  BY ManageRows
<1>3. RowsTyped'  BY <1>0, <1>1, Typing DEF RowsTyped
<1>4. Types'
  <2>1. added' \subseteq Rows  BY <1>0, <1>1 DEF Types, TypeOK
  <2> QED  BY <1>0, <1>1, <1>3, <2>1, NoteTyped, TypesKept
<1>5. NoRow \notin {"pending", "running"} /\ NoRow \notin Waiting  BY DEF NoRow, Waiting
<1>6. JobShape'
  <2> SUFFICES ASSUME NEW q \in Rows
               PROVE  /\ q \notin added' => rec'[q] = NoRow /\ job'[q] = NoRow
                      /\ rec'[q] = "queued" => job'[q] = NoRow
                      /\ rec'[q] \in Final => job'[q] \notin {"pending", "running"}
    BY DEF JobShape
  <2>1. /\ q \notin added => rec[q] = NoRow /\ job[q] = NoRow
        /\ rec[q] = "queued" => job[q] = NoRow
        /\ rec[q] \in Final => job[q] \notin {"pending", "running"}
    BY <1>0 DEF JobShape
  <2> QED  BY <1>1, <1>2, <1>5, <2>1
<1>7. \A r \in Rows : rec[r] = NoRow /\ r \in added => rec'[r] = NoRow  BY <1>2, <1>5
<1>8. ASSUME NEW r \in Rows, rec'[r] \in Final, live'[r] \in {"pending", "running"}
      PROVE  FALSE
  <2>1. rec[r] \in Waiting  BY <1>0, <1>1, <1>2, <1>8 DEF JobShape
  <2> QED  BY <1>1, <1>2, <1>8, <2>1
<1>9. Shared' /\ (\A q \in Rows : Carried(q))
  BY <1>1, <1>4, <1>6, <1>7, <1>8, RowsMove
<1>10. \A q \in Rows : rec'[q] # NoRow => rec[q] # NoRow  BY <1>2, <1>5
<1> QED  BY <1>1, <1>2, <1>9, <1>10

\* What the answer to a read shows, and what it records.
AnswerShown(c, listed) ==
  [r \in Rows |-> IF fetch[c].rows[r] = NoRow THEN NoRow
                  ELSE LiveStateOf(fetch[c].rows[r], IF listed THEN job[r] ELSE NoRow)]

LEMMA AnswerRows ==
  ASSUME Shared, NEW c \in Clients, NEW listed \in BOOLEAN, fetch[c].state = "read"
  PROVE  /\ AnswerShown(c, listed) \in [Rows -> Shown \cup {NoRow}]
         /\ \A r \in Rows :
              LET shown == AnswerShown(c, listed)[r]
                  row   == fetch[c].rows[r]
              IN  /\ shown = NoRow <=> row = NoRow
                  /\ shown \in Waiting => row \in Waiting \/ job[r] \in {"pending", "running"}
                  /\ shown \in Final /\ row # shown => job[r] \notin {"pending", "running"} \cup {NoRow}
<1>0. /\ job \in [Rows -> Phases \cup {NoRow}] /\ fetch[c].rows \in [Rows -> Shown \cup {NoRow}]
  BY Typing, FetchCases DEF Shared
<1>1. ASSUME NEW r \in Rows
      PROVE  LET shown == AnswerShown(c, listed)[r]
                 row   == fetch[c].rows[r]
             IN  /\ shown = NoRow <=> row = NoRow
                 /\ shown \in Shown \cup {NoRow}
                 /\ shown \in Waiting => row \in Waiting \/ job[r] \in {"pending", "running"}
                 /\ shown \in Final /\ row # shown => job[r] \notin {"pending", "running"} \cup {NoRow}
  <2> DEFINE row == fetch[c].rows[r]
             j == IF listed THEN job[r] ELSE NoRow
             shown == AnswerShown(c, listed)[r]
  <2>1. shown = IF row = NoRow THEN NoRow ELSE LiveStateOf(row, j)  BY DEF AnswerShown
  <2>2. row \in Shown \cup {NoRow} /\ j \in Phases \cup {NoRow} /\ (j = job[r] \/ j = NoRow)
    BY <1>0
  <2>3. /\ row # NoRow => LiveStateOf(row, j) \in Shown
        /\ row # NoRow /\ LiveStateOf(row, j) \in Waiting =>
             row \in Waiting \/ j \in {"pending", "running"}
        /\ j \in {"pending", "running"} => LiveStateOf(row, j) \in Waiting
    BY <2>2, LiveStates
  <2>4. j = NoRow => LiveStateOf(row, j) = row  BY DEF LiveStateOf
  <2> HIDE DEF row, j, shown
  <2>5. NoRow \notin {"pending", "running"}  BY DEF NoRow
  <2>6. /\ shown = NoRow <=> row = NoRow
        /\ shown \in Shown \cup {NoRow}
        /\ shown \in Waiting => row \in Waiting \/ job[r] \in {"pending", "running"}
    BY <2>1, <2>2, <2>3, <2>5, StateNames
  <2>7. shown \in Final /\ row # shown => job[r] \notin {"pending", "running"} \cup {NoRow}
    BY <2>1, <2>2, <2>3, <2>4, StateNames
  <2> QED  BY <2>6, <2>7 DEF row, shown
<1>2. AnswerShown(c, listed) \in [Rows -> Shown \cup {NoRow}]
  <2>1. \A r \in Rows : AnswerShown(c, listed)[r] \in Shown \cup {NoRow}  BY <1>1
  <2>2. AnswerShown(c, listed) = [r \in Rows |-> AnswerShown(c, listed)[r]]  BY DEF AnswerShown
  <2> QED  BY <2>1, <2>2
<1> QED  BY <1>1, <1>2

LEMMA AnswerShared ==
  ASSUME Shared, NEW c \in Clients, NEW listed \in BOOLEAN, FetchAnswer(c, listed)
  PROVE  /\ Shared' /\ (\A q \in Rows : Carried(q)) /\ job' = job
         /\ \A q \in Rows : rec'[q] # NoRow => rec[q] # NoRow
         /\ view' = [view EXCEPT ![c] = AnswerShown(c, listed)]
         /\ fetch' = [fetch EXCEPT ![c] = IF fetch[c].again THEN Due ELSE NoFetch]
         /\ UNCHANGED <<conn, ch, raced>>
<1> DEFINE shown == AnswerShown(c, listed)
           row(r) == fetch[c].rows[r]
<1>0. Types /\ JobShape /\ fetch[c].state = "read"  BY DEF Shared, FetchAnswer
<1>1. /\ rec' = [r \in Rows |-> IF rec[r] # NoRow /\ shown[r] \in Final /\ row(r) # shown[r]
                                THEN shown[r] ELSE rec[r]]
      /\ view' = [view EXCEPT ![c] = shown]
      /\ fetch' = [fetch EXCEPT ![c] = IF fetch[c].again THEN Due ELSE NoFetch]
      /\ UNCHANGED <<job, cycle, streams, raced, events, added>> /\ Note
  BY <1>0, Typing DEF FetchAnswer, AnswerShown
<1>2. /\ shown \in [Rows -> Shown \cup {NoRow}]
      /\ \A r \in Rows : shown[r] \in Final /\ row(r) # shown[r] =>
                           job[r] \notin {"pending", "running"} \cup {NoRow}
  BY <1>0, AnswerRows
<1> HIDE DEF shown, row
<1>3. \A r \in Rows : \/ rec'[r] = rec[r]
                      \/ rec[r] # NoRow /\ rec'[r] \in Final /\ job[r] \notin {"pending", "running"} \cup {NoRow}
  BY <1>1, <1>2
<1>4. SameWatch  BY <1>1 DEF SameWatch, cycle
<1>5. RowsTyped'
  BY <1>0, <1>1, <1>2, Typing DEF RowsTyped, cycle
<1>6. Types'
  <2>1. fresh' \subseteq Rows /\ slipped' \subseteq Rows /\ early' \subseteq Rows
    BY <1>0, <1>1, NoteTyped
  <2>2. view' \in [Clients -> [Rows -> Shown \cup {NoRow}]]  BY <1>0, <1>1, <1>2, Typing
  <2>3. fetch' \in [Clients -> Fetch]  BY <1>0, <1>1, Typing DEF Fetch
  <2>4. TypeOK'  BY <1>0, <1>1, <1>5, <2>1, <2>2 DEF Types, TypeOK, cycle, streams, RowsTyped
  <2> QED  BY <1>0, <1>1, <2>3, <2>4 DEF Types, streams
<1>7. JobShape'
  <2> SUFFICES ASSUME NEW q \in Rows
               PROVE  /\ q \notin added' => rec'[q] = NoRow /\ job'[q] = NoRow
                      /\ rec'[q] = "queued" => job'[q] = NoRow
                      /\ rec'[q] \in Final => job'[q] \notin {"pending", "running"}
    BY DEF JobShape
  <2>1. /\ q \notin added => rec[q] = NoRow /\ job[q] = NoRow
        /\ rec[q] = "queued" => job[q] = NoRow
        /\ rec[q] \in Final => job[q] \notin {"pending", "running"}
    BY <1>0 DEF JobShape
  <2> QED  BY <1>1, <1>3, <2>1 DEF Final
<1>8. \A r \in Rows : rec[r] = NoRow /\ r \in added => rec'[r] = NoRow  BY <1>3
<1>9. ASSUME NEW r \in Rows, rec'[r] \in Final, live'[r] \in {"pending", "running"}
      PROVE  Slips(r) \/ r \in slipped
  <2>1. live[r] \in {"pending", "running"}  BY <1>1, <1>9 DEF cycle
  <2>2. rec[r] # NoRow  BY <1>3, <1>9, StateNames
  <2>3. CASE rec[r] \in Final  BY <2>1, <2>3 DEF Shared, EndShape
  <2>4. CASE rec[r] \in Waiting  BY <1>9, <2>1, <2>4, StateNames DEF Slips
  <2> QED  BY <1>0, <2>2, <2>3, <2>4, Typing, StateNames
<1>10. Shared' /\ (\A q \in Rows : Carried(q))
  BY <1>1, <1>4, <1>6, <1>7, <1>8, <1>9, RowsMove
<1>11. \A q \in Rows : rec'[q] # NoRow => rec[q] # NoRow  BY <1>3
<1> QED  BY <1>1, <1>10, <1>11 DEF shown, streams

-----------------------------------------------------------------------------
\* The watch.

\* The notes of a step that moves no row.
LEMMA NoteStill ==
  ASSUME Shared, Note, rec' = rec
  PROVE  /\ slipped' = slipped /\ early' = early
         /\ fresh' = IF pc = "watch" /\ pc' = "leave" THEN {} ELSE fresh
<1>1. \A r \in Rows : ~Entering(r) /\ ~Slips(r)  BY DEF Entering, Slips
<1>2. slipped = {r \in Rows : Slips(r) \/ (r \in slipped /\ rec'[r] \notin Waiting)}
  <2>1. slipped \subseteq Rows  BY Typing DEF Shared
  <2>2. \A r \in slipped : rec[r] \notin Waiting  BY <2>1 DEF Shared, EndShape
  <2> QED  BY <1>1, <2>1, <2>2
<1>3. fresh = fresh \cup {r \in Rows : Entering(r)}  BY <1>1
<1>4. early = early \cup {r \in Rows : ~spoken /\ Entering(r)}  BY <1>1
<1> QED  BY <1>2, <1>3, <1>4 DEF Note

\* What a watch reads of the unfinished rows.
Now == [r \in Rows |-> IF rec[r] \in Waiting THEN LiveStateOf(rec[r], live[r]) ELSE NoRow]

LEMMA NowRows ==
  ASSUME Shared
  PROVE  /\ Now \in [Rows -> Shown \cup {NoRow}]
         /\ \A r \in Rows : Now[r] # NoRow <=> rec[r] \in Waiting
<1>1. ASSUME NEW r \in Rows
      PROVE  Now[r] \in Shown \cup {NoRow} /\ (Now[r] # NoRow <=> rec[r] \in Waiting)
  <2>1. rec[r] \in Shown \cup {NoRow} /\ live[r] \in Phases \cup {NoRow}  BY Typing DEF Shared
  <2>2. Now[r] = IF rec[r] \in Waiting THEN LiveStateOf(rec[r], live[r]) ELSE NoRow  BY DEF Now
  <2>3. rec[r] # NoRow => LiveStateOf(rec[r], live[r]) \in Shown  BY <2>1, LiveStates
  <2> QED  BY <2>2, <2>3, StateNames
<1>2. Now = [r \in Rows |-> Now[r]]  BY DEF Now
<1> QED  BY <1>1, <1>2

LEMMA WatchFails ==
  ASSUME Shared, Watch(FALSE)
  PROVE  Shared' /\ \A r \in Rows : Carried(r)
<1>1. /\ pc = "watch" /\ pc' = "idle" /\ Note
      /\ UNCHANGED <<rec, job, live, missing, seen, spoken, current, left, batch, streams, pages, added>>
  BY DEF Watch
<1>2. UNCHANGED <<slipped, early, fresh>>  BY <1>1, NoteStill
<1>3. Types'  BY <1>1, <1>2 DEF Shared, Types, TypeOK, streams, pages
<1>4. JobShape' /\ WatchShape' /\ BatchShape'
  BY <1>1 DEF Shared, JobShape, WatchShape, BatchShape
<1>5. \A r \in Rows : Remembered(r)' <=> Remembered(r)  BY <1>1 DEF Remembered
<1>6. EndShape'  BY <1>1, <1>2, <1>5 DEF Shared, EndShape
<1>7. \A r \in Rows : Carried(r)
  BY <1>1, <1>2, <1>5 DEF Carried, Accounted, Heard, Unspoken
<1> QED  BY <1>3, <1>4, <1>6, <1>7 DEF Shared

LEMMA WatchReads ==
  ASSUME Shared, Watch(TRUE)
  PROVE  Shared' /\ \A r \in Rows : Carried(r)
<1>0. Types /\ JobShape /\ WatchShape  BY DEF Shared
<1>1. /\ pc = "watch" /\ pc' = "leave" /\ Note
      /\ current' = Now
      /\ batch' = [r \in Rows |->
           IF Now[r] = NoRow \/ Now[r] = seen[r] THEN NoChange
           ELSE [kind |-> IF seen[r] = NoRow /\ spoken THEN "created" ELSE "changed",
                 shows |-> Now[r]]]
      /\ left' = {r \in Rows : seen[r] # NoRow /\ Now[r] = NoRow}
      /\ UNCHANGED <<rec, job, live, missing, seen, spoken, streams, pages, added>>
  BY DEF Watch, Now
<1>2. slipped' = slipped /\ early' = early /\ fresh' = {}  BY <1>1, NoteStill
<1>3. /\ Now \in [Rows -> Shown \cup {NoRow}]
      /\ \A r \in Rows : Now[r] # NoRow <=> rec[r] \in Waiting
  BY NowRows
<1>4. ASSUME NEW r \in Rows
      PROVE  /\ batch'[r] \in Changes \cup {NoChange}
             /\ Now[r] = NoRow \/ Now[r] = seen[r] => batch'[r] = NoChange
             /\ batch'[r].kind \in {"created", "changed"} => Now[r] # NoRow
             /\ batch'[r].kind = "created" <=> Now[r] # NoRow /\ seen[r] = NoRow /\ spoken
             /\ batch'[r].kind # "removed"
  <2>1. batch'[r] = IF Now[r] = NoRow \/ Now[r] = seen[r] THEN NoChange
                    ELSE [kind |-> IF seen[r] = NoRow /\ spoken THEN "created" ELSE "changed",
                          shows |-> Now[r]]
    BY <1>1
  <2>2. Now[r] # NoRow => Now[r] \in Shown  BY <1>3
  <2>3. CASE Now[r] = NoRow \/ Now[r] = seen[r]
    <3>1. batch'[r] = NoChange  BY <2>1, <2>3
    <3> QED  BY <2>3, <3>1, ChangeTypes
  <2>4. CASE Now[r] # NoRow /\ Now[r] # seen[r] /\ seen[r] = NoRow /\ spoken
    <3>1. batch'[r] = [kind |-> "created", shows |-> Now[r]]  BY <2>1, <2>4
    <3> QED  BY <2>2, <2>4, <3>1, ChangeTypes
  <2>5. CASE Now[r] # NoRow /\ Now[r] # seen[r] /\ ~(seen[r] = NoRow /\ spoken)
    <3>1. batch'[r] = [kind |-> "changed", shows |-> Now[r]]  BY <2>1, <2>5
    <3> QED  BY <2>2, <2>5, <3>1, ChangeTypes
  <2> QED  BY <2>3, <2>4, <2>5
<1>5. batch' \in Frames  BY <1>1, <1>4 DEF Frames
<1>6. Types'
  BY <1>0, <1>1, <1>2, <1>3, <1>5 DEF Types, TypeOK, streams, pages
<1>7. JobShape'  BY <1>0, <1>1 DEF JobShape
<1>8. WatchShape'
  <2>1. \A r \in Rows \ added : Now[r] = NoRow  BY <1>0, <1>3, StateNames DEF JobShape
  <2> QED  BY <1>0, <1>1, <2>1 DEF WatchShape
<1>9. ASSUME NEW r \in Rows
      PROVE  (seen[r] # NoRow \/ rec[r] \in Waiting) => Remembered(r)'
  BY <1>1, <1>3 DEF Remembered
<1>10. EndShape'  BY <1>1, <1>2, <1>9 DEF Shared, EndShape
<1>11. BatchShape'  BY <1>1, <1>3, <1>4 DEF BatchShape
<1>12. ASSUME NEW r \in Rows
       PROVE  Carried(r)
  <2>1. batch[r] = NoChange /\ batch[r].kind = "none"
    BY <1>0, <1>1, NothingFrame, ChangeTypes DEF WatchShape
  <2>2. Accounted(r) => Accounted(r)'
    BY <1>1, <1>2, <1>9, <2>1 DEF Accounted, Remembered
  <2>3. Unspoken(r) => Heard(r)'
    <3>1. CASE Now[r] = NoRow  BY <1>1, <3>1 DEF Unspoken, Heard
    <3>2. CASE Now[r] # NoRow  BY <1>4, <3>2 DEF Unspoken, Heard
    <3> QED  BY <3>1, <3>2
  <2>4. Heard(r) => Heard(r)'  BY <1>2, <2>1, <2>3 DEF Heard
  <2> QED  BY <1>1, <2>2, <2>4 DEF Carried
<1> QED  BY <1>6, <1>7, <1>8, <1>10, <1>11, <1>12 DEF Shared

-----------------------------------------------------------------------------
\* The rows that left the unfinished set, one by one.

LEMMA LeftFails ==
  ASSUME Shared, NEW r \in Rows, Left(r, FALSE)
  PROVE  Shared' /\ \A q \in Rows : Carried(q)
<1>0. Types /\ JobShape /\ WatchShape  BY DEF Shared
<1>1. /\ pc = "leave" /\ r \in left /\ Note
      /\ left' = left \ {r} /\ current' = [current EXCEPT ![r] = seen[r]]
      /\ UNCHANGED <<rec, job, pc, live, missing, seen, spoken, batch, streams, pages, added>>
  BY DEF Left
<1>2. UNCHANGED <<slipped, early, fresh>>  BY <1>1, NoteStill
<1>3. /\ current' \in [Rows -> Shown \cup {NoRow}]
      /\ \A q \in Rows : current'[q] = IF q = r THEN seen[r] ELSE current[q]
  BY <1>0, <1>1, Typing
<1>4. seen[r] # NoRow /\ r \in added  BY <1>0, <1>1 DEF WatchShape
<1>5. Types'
  BY <1>0, <1>1, <1>2, <1>3 DEF Types, TypeOK, streams, pages
<1>6. JobShape'  BY <1>0, <1>1 DEF JobShape
<1>7. WatchShape'  BY <1>0, <1>1, <1>3, <1>4 DEF WatchShape
<1>8. \A q \in Rows : Remembered(q) => Remembered(q)'
  BY <1>1, <1>3, <1>4 DEF Remembered
<1>9. EndShape'  BY <1>1, <1>2, <1>8 DEF Shared, EndShape
<1>10. BatchShape'
  BY <1>1, <1>2, <1>3, <1>4 DEF Shared, BatchShape
<1>11. ASSUME NEW q \in Rows
       PROVE  Carried(q)
  <2>1. Accounted(q) => Accounted(q)'  BY <1>1, <1>2, <1>8 DEF Accounted
  <2>2. Unspoken(q) => Unspoken(q)'  BY <1>1, <1>3, <1>4 DEF Unspoken
  <2> QED  BY <1>1, <1>2, <2>1, <2>2 DEF Carried, Heard
<1> QED  BY <1>5, <1>6, <1>7, <1>9, <1>10, <1>11 DEF Shared

LEMMA LeftRead ==
  ASSUME Shared, NEW r \in Rows, Left(r, TRUE)
  PROVE  Shared' /\ \A q \in Rows : Carried(q)
<1> DEFINE said == IF rec[r] = NoRow THEN [kind |-> "removed"]
                   ELSE [kind |-> "changed", shows |-> LiveStateOf(rec[r], live[r])]
<1>0. Types /\ JobShape /\ WatchShape  BY DEF Shared
<1>1. /\ pc = "leave" /\ r \in left /\ Note
      /\ left' = left \ {r} /\ batch' = [batch EXCEPT ![r] = said]
      /\ UNCHANGED <<rec, job, pc, live, missing, seen, spoken, current, streams, pages, added>>
  BY DEF Left
<1>2. UNCHANGED <<slipped, early, fresh>>  BY <1>1, NoteStill
<1>3. seen[r] # NoRow /\ r \in added  BY <1>0, <1>1 DEF WatchShape
<1>4. /\ said \in Changes /\ said # NoChange /\ said.kind \in {"removed", "changed"}
      /\ said.kind = "removed" => rec[r] = NoRow
      /\ said.kind = "changed" /\ said.shows \in Waiting => r \in slipped \/ rec[r] \in Waiting
  <2>1. rec[r] \in Shown \cup {NoRow} /\ live[r] \in Phases \cup {NoRow}  BY <1>0, Typing
  <2>2. CASE rec[r] = NoRow
    <3>1. said = [kind |-> "removed"]  BY <2>2
    <3> HIDE DEF said
    <3> QED  BY <2>2, <3>1, ChangeTypes
  <2>3. CASE rec[r] # NoRow
    <3>1. said = [kind |-> "changed", shows |-> LiveStateOf(rec[r], live[r])]  BY <2>3
    <3>2. /\ LiveStateOf(rec[r], live[r]) \in Shown
          /\ LiveStateOf(rec[r], live[r]) \in Waiting =>
               rec[r] \in Waiting \/ live[r] \in {"pending", "running"}
      BY <2>1, <2>3, LiveStates
    <3>3. rec[r] \notin Waiting => rec[r] \in Final  BY <2>1, <2>3, StateNames
    <3>4. rec[r] \in Final /\ live[r] \in {"pending", "running"} => r \in slipped
      BY DEF Shared, EndShape
    <3> HIDE DEF said
    <3> QED  BY <3>1, <3>2, <3>3, <3>4, ChangeTypes
  <2> QED  BY <2>2, <2>3
<1> HIDE DEF said
<1>5. /\ batch' \in Frames
      /\ \A q \in Rows : batch'[q] = IF q = r THEN said ELSE batch[q]
  BY <1>0, <1>1, <1>4, Typing DEF Frames
<1>6. Types'
  BY <1>0, <1>1, <1>2, <1>5 DEF Types, TypeOK, streams, pages
<1>7. JobShape'  BY <1>0, <1>1 DEF JobShape
<1>8. WatchShape'  BY <1>0, <1>1 DEF WatchShape
<1>9. \A q \in Rows : q # r => (Remembered(q) => Remembered(q)')
  BY <1>1 DEF Remembered
<1>10. rec[r] \in Waiting => current[r] # NoRow \/ r \in fresh
  BY <1>1 DEF Shared, BatchShape
<1>11. EndShape'
  <2> SUFFICES ASSUME NEW q \in Rows
               PROVE  /\ rec'[q] \in Final /\ live'[q] \in {"pending", "running"} => q \in slipped'
                      /\ q \in slipped' => rec'[q] \notin Waiting
                      /\ rec'[q] \in Waiting => Remembered(q)' \/ q \in fresh'
    BY DEF EndShape
  <2>1. current[q] # NoRow => Remembered(q)'  BY <1>1 DEF Remembered
  <2> QED  BY <1>1, <1>2, <1>9, <1>10, <2>1 DEF Shared, EndShape
<1>12. BatchShape'
  <2> SUFFICES ASSUME NEW q \in Rows
               PROVE  /\ rec'[q] \in Waiting /\ current'[q] = NoRow => q \in fresh'
                      /\ batch'[q].kind \in {"created", "changed"} /\ batch'[q].shows \in Waiting =>
                           current'[q] # NoRow \/ q \in slipped' \/ (rec'[q] \in Waiting /\ q \in fresh')
                      /\ batch'[q].kind = "created" => seen'[q] = NoRow /\ q \notin left'
                      /\ batch'[q].kind = "removed" => rec'[q] = NoRow /\ q \in added'
    BY DEF BatchShape
  <2>1. CASE q # r  BY <1>1, <1>2, <1>5, <2>1 DEF Shared, BatchShape
  <2>2. CASE q = r  BY <1>1, <1>2, <1>3, <1>4, <1>5, <1>10, <2>2 DEF Shared, BatchShape
  <2> QED  BY <2>1, <2>2
<1>13. ASSUME NEW q \in Rows
       PROVE  Carried(q)
  <2>1. Accounted(q) => Accounted(q)'
    BY <1>1, <1>2, <1>4, <1>5, <1>9 DEF Accounted
  <2>2. Unspoken(q) => Unspoken(q)'  BY <1>1 DEF Unspoken
  <2>3. batch[q].kind = "created" => batch'[q].kind = "created"
    BY <1>1, <1>5 DEF Shared, BatchShape
  <2> QED  BY <1>1, <1>2, <2>1, <2>2, <2>3 DEF Carried, Heard
<1> QED  BY <1>6, <1>7, <1>8, <1>11, <1>12, <1>13 DEF Shared

-----------------------------------------------------------------------------
\* The end of the watch, and a start.

\* What a subscriber is sent.
LEMMA Sending ==
  ASSUME Types, NEW c \in Clients
  PROVE  /\ Mine(c) \in Frames
         /\ Sent(c) \in [frames : Seq(Frames), open : BOOLEAN]
         /\ \/ Sent(c) = ch[c] /\ (ch[c].open => Mine(c) = Nothing)
            \/ /\ ch[c].open /\ Sent(c).open /\ Len(ch[c].frames) < Buffer
               /\ Sent(c).frames = Append(ch[c].frames, Mine(c))
            \/ ~Sent(c).open /\ Sent(c).frames = ch[c].frames
<1> DEFINE mine == Mine(c)
           chan == ch[c]
<1>1. mine \in Frames
  <2>1. \A r \in Rows : (IF Visible(c, r) THEN batch[r] ELSE NoChange) \in Changes \cup {NoChange}
    BY Typing
  <2> QED  BY <2>1 DEF Mine, Frames
<1>2. chan \in [frames : Seq(Frames), open : BOOLEAN]  BY Typing
<1>3. Sent(c) = IF ~chan.open \/ mine = Nothing THEN chan
                ELSE IF Len(chan.frames) < Buffer THEN [chan EXCEPT !.frames = Append(chan.frames, mine)]
                ELSE [chan EXCEPT !.open = FALSE]
  BY DEF Sent
<1> HIDE DEF mine, chan
<1>4. Append(chan.frames, mine) \in Seq(Frames)  BY <1>1, <1>2
<1>5. CASE ~chan.open \/ mine = Nothing  BY <1>1, <1>2, <1>3, <1>5 DEF mine, chan
<1>6. CASE ~(~chan.open \/ mine = Nothing) /\ Len(chan.frames) < Buffer
  <2>1. Sent(c) = [chan EXCEPT !.frames = Append(chan.frames, mine)]  BY <1>3, <1>6
  <2>2. /\ Sent(c) \in [frames : Seq(Frames), open : BOOLEAN]
        /\ Sent(c).open = chan.open /\ Sent(c).frames = Append(chan.frames, mine)
    BY <1>2, <1>4, <2>1
  <2> QED  BY <1>1, <1>6, <2>2 DEF mine, chan
<1>7. CASE ~(~chan.open \/ mine = Nothing) /\ ~(Len(chan.frames) < Buffer)
  <2>1. Sent(c) = [chan EXCEPT !.open = FALSE]  BY <1>3, <1>7
  <2>2. /\ Sent(c) \in [frames : Seq(Frames), open : BOOLEAN]
        /\ ~Sent(c).open /\ Sent(c).frames = chan.frames
    BY <1>2, <2>1
  <2> QED  BY <1>1, <1>7, <2>2 DEF mine, chan
<1> QED  BY <1>5, <1>6, <1>7

\* A channel that is sent one frame more holds no more than there is room for.
LEMMA SentFits ==
  ASSUME Types, NEW c \in Clients
  PROVE  Len(Sent(c).frames) <= Buffer /\ ToSet(Sent(c).frames) \subseteq Frames
<1> DEFINE old == ch[c].frames
           new == Sent(c).frames
<1>1. /\ Sent(c) \in [frames : Seq(Frames), open : BOOLEAN]
      /\ new = old \/ (Len(old) < Buffer /\ \E f \in Frames : new = Append(old, f))
  BY Sending
<1>2. old \in Seq(Frames) /\ Len(old) <= Buffer /\ new \in Seq(Frames)
  BY <1>1, Typing DEF Types, TypeOK
<1>3. Buffer \in Nat  BY LiveAssumption
<1> HIDE DEF old, new
<1>4. Len(new) <= Buffer
  <2>1. CASE new = old  BY <1>2, <2>1
  <2>2. CASE Len(old) < Buffer /\ \E f \in Frames : new = Append(old, f)
    <3>1. PICK f \in Frames : new = Append(old, f)  BY <2>2
    <3>2. Len(new) = Len(old) + 1  BY <1>2, <3>1
    <3> QED  BY <1>2, <1>3, <2>2, <3>2
  <2> QED  BY <1>1, <2>1, <2>2
<1>5. ToSet(new) \subseteq Frames  BY <1>2 DEF ToSet
<1> QED  BY <1>4, <1>5 DEF new

LEMMA PublishShared ==
  ASSUME Shared, Publish
  PROVE  /\ Shared'
         /\ \A r \in Rows : Remembered(r)' <=> Remembered(r)
         /\ UNCHANGED <<rec, job, slipped, fresh, early, added, conn, pages>>
<1>0. Types /\ JobShape /\ WatchShape  BY DEF Shared
<1>1. /\ pc = "leave" /\ left = {} /\ pc' = "idle" /\ Note
      /\ seen' = current /\ spoken' = TRUE /\ ch' = [c \in Clients |-> Sent(c)]
      /\ current' = [r \in Rows |-> NoRow] /\ batch' = Nothing
      /\ live' = [r \in Rows |-> NoRow]
      /\ UNCHANGED <<rec, job, missing, left, conn, pages, budget, added>>
  BY DEF Publish
<1>2. UNCHANGED <<slipped, early, fresh>>  BY <1>1, NoteStill
<1>3. ch' \in [Clients -> [frames : Seq(Frames), open : BOOLEAN]]
  <2>1. \A c \in Clients : Sent(c) \in [frames : Seq(Frames), open : BOOLEAN]  BY <1>0, Sending
  <2> QED  BY <1>1, <2>1
<1>4. \A c \in Clients : Len(ch'[c].frames) <= Buffer /\ ToSet(ch'[c].frames) \subseteq Frames
  BY <1>0, <1>1, SentFits
<1>5. Types'
  BY <1>0, <1>1, <1>2, <1>3, <1>4, NothingFrame DEF Types, TypeOK, pages
<1>6. JobShape'  BY <1>0, <1>1 DEF JobShape
<1>7. WatchShape'  BY <1>0, <1>1 DEF WatchShape
<1>8. \A r \in Rows : Remembered(r)' <=> Remembered(r)
  BY <1>1 DEF Remembered
<1>9. EndShape'
  <2>1. \A r \in Rows : live'[r] \notin {"pending", "running"}  BY <1>1 DEF NoRow
  <2> QED  BY <1>1, <1>2, <1>8, <2>1 DEF Shared, EndShape
<1>10. BatchShape'  BY <1>1 DEF BatchShape
<1> QED  BY <1>1, <1>2, <1>5, <1>6, <1>7, <1>8, <1>9, <1>10 DEF Shared

\* A channel with nothing in it.
LEMMA EmptyChannel ==
  \A o \in BOOLEAN :
    /\ [frames |-> <<>>, open |-> o] \in [frames : Seq(Frames), open : BOOLEAN]
    /\ [frames |-> <<>>, open |-> o].frames = <<>> /\ [frames |-> <<>>, open |-> o].open = o
    /\ Len(<<>>) <= Buffer /\ ToSet(<<>>) \subseteq Frames /\ DOMAIN <<>> = {}
<1>1. <<>> \in Seq(Frames) /\ Len(<<>>) = 0 /\ DOMAIN <<>> = {}  OBVIOUS
<1>2. ToSet(<<>>) \subseteq Frames  BY <1>1 DEF ToSet
<1> QED  BY <1>1, <1>2, LiveAssumption

LEMMA RestartShared ==
  ASSUME Shared, Restart
  PROVE  Shared' /\ \A c \in Clients : c \notin conn' /\ ch'[c].frames = <<>>
<1>0. Types /\ JobShape /\ WatchShape  BY DEF Shared
<1>1. /\ pc' = "idle" /\ live' = [r \in Rows |-> NoRow] /\ missing' = {}
      /\ seen' = [r \in Rows |-> NoRow] /\ spoken' = FALSE
      /\ current' = [r \in Rows |-> NoRow] /\ left' = {} /\ batch' = Nothing
      /\ conn' = {} /\ ch' = [c \in Clients |-> NoChan]
      /\ fetch' = [c \in Clients |-> NoFetch]
      /\ UNCHANGED <<rec, job, view, raced, added, slipped, early>>
      /\ fresh' = Unfinished(rec)
  BY DEF Restart
<1>2. /\ NoChan \in [frames : Seq(Frames), open : BOOLEAN] /\ NoChan.frames = <<>>
      /\ Len(<<>>) <= Buffer /\ ToSet(<<>>) \subseteq Frames
  BY EmptyChannel DEF NoChan
<1> HIDE DEF NoChan
<1>3. \A c \in Clients : ch'[c] = NoChan /\ ch'[c].frames = <<>>  BY <1>1, <1>2
<1>4. Types'
  <2>1. fetch' \in [Clients -> Fetch]  BY <1>1 DEF Fetch
  <2>2. ch' \in [Clients -> [frames : Seq(Frames), open : BOOLEAN]]  BY <1>1, <1>2
  <2>3. \A c \in Clients : Len(ch'[c].frames) <= Buffer /\ ToSet(ch'[c].frames) \subseteq Frames
    BY <1>2, <1>3
  <2> QED  BY <1>0, <1>1, <2>1, <2>2, <2>3, NothingFrame DEF Types, TypeOK, Unfinished
<1>5. JobShape' /\ WatchShape' /\ BatchShape'
  BY <1>0, <1>1 DEF JobShape, WatchShape, BatchShape
<1>6. EndShape'
  <2>1. \A r \in Rows : live'[r] \notin {"pending", "running"}  BY <1>1 DEF NoRow
  <2> QED  BY <1>1, <2>1 DEF Shared, EndShape, Unfinished
<1> QED  BY <1>1, <1>3, <1>4, <1>5, <1>6 DEF Shared

-----------------------------------------------------------------------------
\* What a page is told, when rows move and the page itself does not.

PageStill(c) == /\ ch'[c] = ch[c] /\ fetch'[c] = fetch[c] /\ view'[c] = view[c]
                /\ c \in conn' <=> c \in conn
                /\ c \in raced' <=> c \in raced

\* A row found unfinished is one the watch knows of.
LEMMA WaitingAccounted ==
  ASSUME Shared, NEW r \in Rows, rec[r] \in Waiting
  PROVE  Accounted(r)
BY DEF Shared, EndShape, Accounted

LEMMA PageKept ==
  ASSUME NEW c \in Clients, NEW r \in Rows, Told(c, r), PageStill(c), Carried(r),
         rec'[r] \in Waiting => Accounted(r)',
         job'[r] \in {"pending", "running"} => job[r] \in {"pending", "running"} \/ rec'[r] \in Waiting,
         rec'[r] # NoRow => rec[r] # NoRow \/ Heard(r)'
  PROVE  Told(c, r)'
<1> SUFFICES ASSUME Visible(c, r)
             PROVE  ChannelShape(c, r)' /\ ReadShape(c, r)' /\ ViewShape(c, r)'
  BY DEF Told, Visible
<1>0. ChannelShape(c, r) /\ ReadShape(c, r) /\ ViewShape(c, r)  BY DEF Told
<1>1. Listening(c)' <=> Listening(c)  BY DEF PageStill, Listening
<1>2. Reading(c)' <=> Reading(c)  BY DEF PageStill, Reading
<1>3. Silent(c, r)' <=> Silent(c, r)  BY DEF PageStill, Silent
<1>4. Coming(c, r) => Coming(c, r)'
  BY DEF Coming, Announced, PageStill, Carried
<1>5. ChannelShape(c, r)'
  <2> SUFFICES ASSUME NEW i \in DOMAIN ch'[c].frames
               PROVE  /\ ch'[c].frames[i][r].kind = "removed" => rec'[r] = NoRow /\ r \in added'
                      /\ Listening(c)' /\ LastWord(c, r, i)' /\ ShowsWaiting(ch'[c].frames[i][r])
                           => Accounted(r)'
    BY DEF ChannelShape, ShowsWaiting
  <2>1. i \in DOMAIN ch[c].frames /\ ch'[c].frames[i][r] = ch[c].frames[i][r]
    BY DEF PageStill
  <2>2. LastWord(c, r, i)' => LastWord(c, r, i)  BY DEF LastWord, PageStill
  <2>3. /\ ch[c].frames[i][r].kind = "removed" => rec[r] = NoRow /\ r \in added
        /\ Listening(c) /\ LastWord(c, r, i) /\ ShowsWaiting(ch[c].frames[i][r]) => Accounted(r)
    BY <1>0, <2>1 DEF ChannelShape
  <2> QED  BY <1>1, <2>1, <2>2, <2>3 DEF Carried
<1>6. ReadShape(c, r)'
  <2> SUFFICES ASSUME Listening(c)', Reading(c)', c \notin raced'
               PROVE  /\ Silent(c, r)' /\ fetch'[c].rows[r] # NoRow
                           /\ (fetch'[c].rows[r] \in Waiting \/ job'[r] \in {"pending", "running"})
                             => Accounted(r)'
                      /\ rec'[r] # NoRow => fetch'[c].rows[r] # NoRow \/ Coming(c, r)'
    BY DEF ReadShape
  <2>1. /\ Silent(c, r) /\ fetch[c].rows[r] # NoRow
             /\ (fetch[c].rows[r] \in Waiting \/ job[r] \in {"pending", "running"}) => Accounted(r)
        /\ rec[r] # NoRow => fetch[c].rows[r] # NoRow \/ Coming(c, r)
    BY <1>0, <1>1, <1>2 DEF ReadShape, PageStill
  <2>2. fetch'[c] = fetch[c]  BY DEF PageStill
  <2> QED  BY <1>3, <1>4, <2>1, <2>2 DEF Carried, Coming
<1>7. ViewShape(c, r)'
  <2> SUFFICES ASSUME Listening(c)', fetch'[c] = NoFetch, c \notin raced'
               PROVE  /\ Silent(c, r)' /\ view'[c][r] \in Waiting => Accounted(r)'
                      /\ rec'[r] # NoRow => view'[c][r] # NoRow \/ Coming(c, r)'
    BY DEF ViewShape
  <2>1. /\ Silent(c, r) /\ view[c][r] \in Waiting => Accounted(r)
        /\ rec[r] # NoRow => view[c][r] # NoRow \/ Coming(c, r)
    BY <1>0, <1>1 DEF ViewShape, PageStill
  <2>2. view'[c] = view[c]  BY DEF PageStill
  <2> QED  BY <1>3, <1>4, <2>1, <2>2 DEF Carried, Coming
<1> QED  BY <1>5, <1>6, <1>7

\* Every page is kept by a step that moves rows and no page.
LEMMA PagesKept ==
  ASSUME Shared', UNCHANGED <<conn, ch, fetch, view, raced>>,
         \A r \in Rows : Carried(r),
         \A r \in Rows : job'[r] \in {"pending", "running"} =>
                           job[r] \in {"pending", "running"} \/ rec'[r] \in Waiting,
         \A r \in Rows : rec'[r] # NoRow => rec[r] # NoRow \/ Heard(r)',
         \A c \in Clients, r \in Rows : Told(c, r)
  PROVE  \A c \in Clients, r \in Rows : Told(c, r)'
<1> TAKE c \in Clients, r \in Rows
<1>1. rec'[r] \in Waiting => Accounted(r)'
  BY DEF Shared, EndShape, Accounted
<1>2. PageStill(c)  BY DEF PageStill
<1> QED  BY <1>1, <1>2, PageKept

-----------------------------------------------------------------------------
\* Steps of a page and its stream that move nothing else.

SharedStill == UNCHANGED <<rec, job, cycle, ghosts, added>>

LEMMA StillShared ==
  ASSUME Shared, SharedStill, Types'
  PROVE  /\ Shared'
         /\ \A r \in Rows : /\ Carried(r) /\ (Accounted(r)' <=> Accounted(r))
                            /\ Heard(r)' <=> Heard(r)
<1>1. /\ UNCHANGED <<rec, job, added, fresh, slipped, early>>
      /\ UNCHANGED <<pc, live, missing, seen, spoken, current, left, batch>>
  BY DEF SharedStill, cycle, ghosts
<1>2. JobShape' /\ WatchShape' /\ BatchShape'
  BY <1>1 DEF Shared, JobShape, WatchShape, BatchShape
<1>3. \A r \in Rows : Remembered(r)' <=> Remembered(r)  BY <1>1 DEF Remembered
<1>4. EndShape'  BY <1>1, <1>3 DEF Shared, EndShape
<1>5. \A r \in Rows : (Accounted(r)' <=> Accounted(r)) /\ (Heard(r)' <=> Heard(r))
  BY <1>1, <1>3 DEF Accounted, Heard, Unspoken
<1> QED  BY <1>1, <1>2, <1>4, <1>5 DEF Shared, Carried

\* The pages such a step is not about.
LEMMA OthersTold ==
  ASSUME Shared, SharedStill, Types', NEW d \in Clients, NEW r \in Rows, Told(d, r), PageStill(d)
  PROVE  Told(d, r)'
<1>1. Shared' /\ Carried(r) /\ (Accounted(r)' <=> Accounted(r)) /\ (Heard(r)' <=> Heard(r))
  BY StillShared
<1>2. rec' = rec /\ job' = job  BY DEF SharedStill
<1>3. rec'[r] \in Waiting => Accounted(r)'  BY <1>1, <1>2, WaitingAccounted
<1> QED  BY <1>1, <1>2, <1>3, PageKept

\* The type of everything, when only pages and streams move.
LEMMA PagesTyped ==
  ASSUME Types, SharedStill, conn' \subseteq Clients, raced' \subseteq Clients,
         ch' \in [Clients -> [frames : Seq(Frames), open : BOOLEAN]],
         \A c \in Clients : Len(ch'[c].frames) <= Buffer /\ ToSet(ch'[c].frames) \subseteq Frames,
         fetch' \in [Clients -> Fetch],
         view' \in [Clients -> [Rows -> Shown \cup {NoRow}]]
  PROVE  Types'
BY DEF Types, TypeOK, SharedStill, cycle, ghosts

\* A page that has been asked to read reads after the frames it has: nothing is said of it yet.
LEMMA RefreshedFetch ==
  ASSUME Types, NEW c \in Clients, Refresh(c)
  PROVE  /\ fetch' \in [Clients -> Fetch]
         /\ fetch'[c] # NoFetch /\ ~Reading(c)'
         /\ \A d \in Clients : d # c => fetch'[d] = fetch[d]
<1> DEFINE f == fetch[c]
           g == IF f = NoFetch THEN Due ELSE [f EXCEPT !.again = f.state = "read"]
<1>1. fetch' = [fetch EXCEPT ![c] = g]  BY Typing DEF Refresh
<1>2. Due = [state |-> "due", again |-> FALSE] /\ Due.state = "due" /\ NoFetch.state = "none"
  BY DEF Due, NoFetch
<1>3. g \in Fetch /\ g # NoFetch /\ ~(g.state = "read" /\ ~g.again)
  <2>1. CASE f = NoFetch
    <3>1. g = Due  BY <2>1
    <3> HIDE DEF g, Due, NoFetch
    <3> QED  BY <1>2, <3>1 DEF Fetch
  <2>2. CASE f = Due
    <3>1. f # NoFetch  BY <2>2, <1>2
    <3>2. g = [f EXCEPT !.again = FALSE]  BY <3>1, <2>2, <1>2
    <3>3. g = Due
      <4>1. Due \in [state : {"due"}, again : {FALSE}]  BY <1>2
      <4> HIDE DEF Due, g
      <4>2. g \in [state : {"due"}, again : {FALSE}]  BY <2>2, <3>2, <4>1
      <4>3. g = [state |-> "due", again |-> FALSE]  BY <4>2
      <4> QED  BY <1>2, <4>3
    <3> HIDE DEF g, Due, NoFetch
    <3> QED  BY <1>2, <3>3 DEF Fetch
  <2>3. CASE f.state = "read"
    <3>1. /\ f \in [state : {"read"}, again : BOOLEAN, rows : [Rows -> Shown \cup {NoRow}]]
          /\ f # NoFetch
      BY <2>3, FetchCases
    <3>2. g = [f EXCEPT !.again = TRUE]  BY <2>3, <3>1
    <3>3. /\ g \in [state : {"read"}, again : BOOLEAN, rows : [Rows -> Shown \cup {NoRow}]]
          /\ g.state = "read" /\ g.again = TRUE
      BY <3>1, <3>2
    <3> HIDE DEF g, NoFetch
    <3> QED  BY <1>2, <3>3 DEF Fetch
  <2> QED  BY <2>1, <2>2, <2>3, FetchCases
<1> HIDE DEF g, f
<1>4. fetch \in [Clients -> Fetch]  BY Typing
<1>5. fetch'[c] = g /\ (\A d \in Clients : d # c => fetch'[d] = fetch[d]) /\ fetch' \in [Clients -> Fetch]
  BY <1>1, <1>3, <1>4
<1> QED  BY <1>3, <1>5 DEF Reading

\* A stream that begins, or is over, says nothing.
LEMMA StreamTurns ==
  ASSUME Inv, NEW c \in Clients, Subscribe(c) \/ End(c)
  PROVE  Inv'
<1>0. Shared /\ Types  BY DEF Inv, Shared
<1>1. /\ SharedStill /\ UNCHANGED <<view, raced>> /\ Refresh(c)
      /\ conn' = conn \cup {c} \/ conn' = conn \ {c}
  BY DEF Subscribe, End, SharedStill, ghosts
<1>2. PICK o \in BOOLEAN : ch' = [ch EXCEPT ![c] = [frames |-> <<>>, open |-> o]]
  BY DEF Subscribe, End, NoChan
<1> DEFINE empty == [frames |-> <<>>, open |-> o]
<1>3. /\ empty \in [frames : Seq(Frames), open : BOOLEAN] /\ empty.frames = <<>>
      /\ Len(<<>>) <= Buffer /\ ToSet(<<>>) \subseteq Frames /\ DOMAIN <<>> = {}
  BY <1>2, EmptyChannel
<1> HIDE DEF empty
<1>4. /\ ch' \in [Clients -> [frames : Seq(Frames), open : BOOLEAN]]
      /\ ch'[c].frames = <<>> /\ \A d \in Clients : d # c => ch'[d] = ch[d]
  BY <1>0, <1>2, <1>3, Typing DEF empty
<1>5. /\ fetch' \in [Clients -> Fetch]
      /\ fetch'[c] # NoFetch /\ ~Reading(c)'
      /\ \A d \in Clients : d # c => fetch'[d] = fetch[d]
  BY <1>0, <1>1, RefreshedFetch
<1>6. Types'
  <2>1. \A d \in Clients : Len(ch'[d].frames) <= Buffer /\ ToSet(ch'[d].frames) \subseteq Frames
    BY <1>0, <1>3, <1>4 DEF Types, TypeOK
  <2>2. conn' \subseteq Clients /\ raced' \subseteq Clients
        /\ view' \in [Clients -> [Rows -> Shown \cup {NoRow}]]
    BY <1>0, <1>1, Typing
  <2> QED  BY <1>0, <1>1, <1>4, <1>5, <2>1, <2>2, PagesTyped
<1>7. Shared'  BY <1>0, <1>1, <1>6, StillShared
<1>8. ASSUME NEW d \in Clients, NEW r \in Rows
      PROVE  Told(d, r)'
  <2>1. CASE d # c
    <3>1. PageStill(d)  BY <1>1, <1>4, <1>5, <2>1 DEF PageStill
    <3> QED  BY <1>0, <1>1, <1>6, <3>1, OthersTold DEF Inv
  <2>2. CASE d = c
    <3>1. ChannelShape(c, r)'  BY <1>3, <1>4 DEF ChannelShape
    <3>2. ReadShape(c, r)' /\ ViewShape(c, r)'  BY <1>5 DEF ReadShape, ViewShape
    <3> QED  BY <2>2, <3>1, <3>2 DEF Told
  <2> QED  BY <2>1, <2>2
<1> QED  BY <1>7, <1>8 DEF Inv

\* A page that reads the rows has them as they are.
LEMMA FetchReads ==
  ASSUME Inv, NEW c \in Clients, FetchRead(c)
  PROVE  Inv'
<1> DEFINE rows == [r \in Rows |-> IF Visible(c, r) THEN rec[r] ELSE NoRow]
           read == [state |-> "read", again |-> FALSE, rows |-> rows]
<1>0. Shared /\ Types /\ JobShape  BY DEF Inv, Shared
<1>1. /\ SharedStill /\ UNCHANGED <<conn, ch, view>> /\ raced' = raced \ {c}
      /\ fetch' = [fetch EXCEPT ![c] = read]
  BY DEF FetchRead, SharedStill, streams
<1>2. rows \in [Rows -> Shown \cup {NoRow}] /\ \A r \in Rows : Visible(c, r) => rows[r] = rec[r]
  <2>1. \A r \in Rows : (IF Visible(c, r) THEN rec[r] ELSE NoRow) \in Shown \cup {NoRow}
    BY <1>0, Typing
  <2> QED  BY <2>1
<1> HIDE DEF rows
<1>3. /\ read \in [state : {"read"}, again : BOOLEAN, rows : [Rows -> Shown \cup {NoRow}]]
      /\ read.rows = rows /\ read.state = "read"
  BY <1>2
<1> HIDE DEF read
<1>4. /\ fetch' \in [Clients -> Fetch] /\ fetch'[c] = read
      /\ \A d \in Clients : d # c => fetch'[d] = fetch[d]
  BY <1>0, <1>1, <1>3, Typing DEF Fetch
<1>5. Types'
  <2>1. raced' \subseteq Clients  BY <1>0, <1>1, Typing
  <2> QED  BY <1>0, <1>1, <1>4, <2>1, Typing, PagesTyped DEF Types, TypeOK
<1>6. Shared' /\ (\A r \in Rows : Accounted(r)' <=> Accounted(r))  BY <1>0, <1>1, <1>5, StillShared
<1>7. ASSUME NEW d \in Clients, NEW r \in Rows
      PROVE  Told(d, r)'
  <2>1. CASE d # c
    <3>1. PageStill(d)  BY <1>1, <1>4, <2>1 DEF PageStill
    <3> QED  BY <1>0, <1>1, <1>5, <3>1, OthersTold DEF Inv
  <2>2. ASSUME Visible(c, r)
        PROVE  ChannelShape(c, r)' /\ ReadShape(c, r)' /\ ViewShape(c, r)'
    <3>0. ChannelShape(c, r)  BY <2>2 DEF Inv, Told
    <3>1. rec' = rec /\ job' = job /\ added' = added  BY <1>1 DEF SharedStill
    <3>2. ChannelShape(c, r)'
      BY <1>1, <1>6, <3>0, <3>1 DEF ChannelShape, Listening, LastWord, ShowsWaiting
    <3>3. rows[r] = rec[r]  BY <1>2, <2>2
    <3>4. rec[r] \in Waiting => Accounted(r)'  BY <1>0, <1>6, WaitingAccounted
    <3>5. rec[r] # NoRow /\ job[r] \in {"pending", "running"} => rec[r] \in Waiting
      BY <1>0, Typing, StateNames DEF JobShape
    <3>6. ReadShape(c, r)'
      BY <1>3, <1>4, <3>1, <3>3, <3>4, <3>5 DEF ReadShape
    <3>7. fetch'[c] # NoFetch  BY <1>3, <1>4 DEF NoFetch
    <3>8. ViewShape(c, r)'  BY <3>7 DEF ViewShape
    <3> QED  BY <3>2, <3>6, <3>8
  <2>3. CASE d = c  BY <2>2, <2>3 DEF Told, Visible
  <2> QED  BY <2>1, <2>3
<1> QED  BY <1>6, <1>7 DEF Inv

\* What a page shows once the answer is in is what it read, or a worker's word on it.
LEMMA FetchAnswers ==
  ASSUME Inv, NEW c \in Clients, NEW listed \in BOOLEAN, FetchAnswer(c, listed)
  PROVE  Inv'
<1>0. Shared /\ Types /\ fetch[c].state = "read"  BY DEF Inv, Shared, FetchAnswer
<1> DEFINE shown == AnswerShown(c, listed)
           next == IF fetch[c].again THEN Due ELSE NoFetch
<1>1. /\ Shared' /\ (\A q \in Rows : Carried(q)) /\ job' = job
      /\ \A q \in Rows : rec'[q] # NoRow => rec[q] # NoRow
      /\ view' = [view EXCEPT ![c] = shown] /\ fetch' = [fetch EXCEPT ![c] = next]
      /\ UNCHANGED <<conn, ch, raced>>
  BY <1>0, AnswerShared
<1>2. \A r \in Rows :
        /\ shown[r] = NoRow <=> fetch[c].rows[r] = NoRow
        /\ shown[r] \in Waiting => fetch[c].rows[r] \in Waiting \/ job[r] \in {"pending", "running"}
  BY <1>0, AnswerRows
<1> HIDE DEF shown
<1>3. /\ view'[c] = shown /\ fetch'[c] = next
      /\ \A d \in Clients : d # c => fetch'[d] = fetch[d] /\ view'[d] = view[d]
  BY <1>0, <1>1, Typing
<1>4. \A r \in Rows : rec'[r] \in Waiting => Accounted(r)'
  BY <1>1 DEF Shared, EndShape, Accounted
<1>5. ASSUME NEW d \in Clients, NEW r \in Rows
      PROVE  Told(d, r)'
  <2>1. CASE d # c
    <3>1. PageStill(d)  BY <1>1, <1>3, <2>1 DEF PageStill
    <3> QED  BY <1>1, <1>4, <3>1, PageKept DEF Inv
  <2>2. ASSUME Visible(c, r)
        PROVE  ChannelShape(c, r)' /\ ReadShape(c, r)' /\ ViewShape(c, r)'
    <3>0. ChannelShape(c, r) /\ ReadShape(c, r)  BY <2>2 DEF Inv, Told
    <3>1. Carried(r)  BY <1>1
    <3>2. ChannelShape(c, r)'
      BY <1>1, <3>0, <3>1 DEF ChannelShape, Listening, LastWord, ShowsWaiting, Carried
    <3>3. fetch'[c].state # "read"  BY <1>3 DEF Due, NoFetch
    <3>4. ReadShape(c, r)'  BY <3>3 DEF ReadShape, Reading
    <3>5. ViewShape(c, r)'
      <4> SUFFICES ASSUME Listening(c)', fetch'[c] = NoFetch, c \notin raced'
                   PROVE  /\ Silent(c, r)' /\ view'[c][r] \in Waiting => Accounted(r)'
                          /\ rec'[r] # NoRow => view'[c][r] # NoRow \/ Coming(c, r)'
        BY DEF ViewShape
      <4>1. Due # NoFetch  BY DEF Due, NoFetch
      <4>2. ~fetch[c].again  BY <1>3, <4>1
      <4>3. Listening(c) /\ Reading(c) /\ c \notin raced
        BY <1>0, <1>1, <4>2 DEF Listening, Reading
      <4>4. /\ Silent(c, r) /\ fetch[c].rows[r] # NoRow
                 /\ (fetch[c].rows[r] \in Waiting \/ job[r] \in {"pending", "running"}) => Accounted(r)
            /\ rec[r] # NoRow => fetch[c].rows[r] # NoRow \/ Coming(c, r)
        BY <3>0, <4>3 DEF ReadShape
      <4>5. Silent(c, r)' <=> Silent(c, r)  BY <1>1 DEF Silent
      <4>6. Coming(c, r) => Coming(c, r)'  BY <1>1, <3>1 DEF Coming, Announced, Carried
      <4> QED  BY <1>1, <1>2, <1>3, <3>1, <4>4, <4>5, <4>6, StateNames DEF Carried
    <3> QED  BY <3>2, <3>4, <3>5
  <2>3. CASE d = c  BY <2>2, <2>3 DEF Told, Visible
  <2> QED  BY <2>1, <2>3
<1> QED  BY <1>1, <1>5 DEF Inv

\* A frame that is merged: what it says of a row is said once no other frame does.
LEMMA Delivers ==
  ASSUME Inv, NEW c \in Clients, Deliver(c)
  PROVE  Inv'
<1> DEFINE old == ch[c].frames
           head == Head(old)
           merged == Merge(view[c], head)
<1>0. Shared /\ Types  BY DEF Inv, Shared
<1>1. /\ SharedStill /\ UNCHANGED <<conn, fetch>> /\ old # <<>>
      /\ ch' = [ch EXCEPT ![c].frames = Tail(old)]
      /\ view' = [view EXCEPT ![c] = merged]
      /\ raced' = IF fetch[c].state = "read" THEN raced \cup {c} ELSE raced
  BY <1>0, Typing DEF Deliver, SharedStill
<1>2. old \in Seq(Frames) /\ Len(old) <= Buffer /\ ToSet(old) \subseteq Frames /\ view[c] \in [Rows -> Shown \cup {NoRow}]
  BY <1>0, Typing DEF Types, TypeOK
<1>3. /\ head \in Frames /\ head = old[1] /\ 1 \in DOMAIN old
      /\ Tail(old) \in Seq(Frames) /\ Len(Tail(old)) = Len(old) - 1
      /\ \A i \in DOMAIN Tail(old) : i + 1 \in DOMAIN old /\ Tail(old)[i] = old[i + 1]
      /\ \A i \in DOMAIN old : i \in Nat /\ (i = 1 \/ (i - 1 \in DOMAIN Tail(old) /\ Tail(old)[i - 1] = old[i]))
  <2> HIDE DEF old
  <2>1. Len(old) \in Nat \ {0}  BY <1>1, <1>2
  <2>2. Len(Tail(old)) = Len(old) - 1 /\ \A i \in 1 .. Len(old) - 1 : Tail(old)[i] = old[i + 1]
    BY <1>1, <1>2
  <2> QED  BY <1>1, <1>2, <2>1, <2>2
<1>4. ASSUME NEW r \in Rows
      PROVE  /\ merged[r] \in Shown \cup {NoRow}
             /\ head[r].kind = "removed" => merged[r] = NoRow
             /\ head[r].kind = "created" => merged[r] = head[r].shows /\ merged[r] # NoRow
             /\ head[r].kind = "changed" =>
                  merged[r] = IF view[c][r] # NoRow THEN head[r].shows ELSE NoRow
             /\ head[r].kind = "none" => merged[r] = view[c][r]
             /\ head[r].kind = "none" <=> head[r] = NoChange
             /\ view[c][r] # NoRow /\ head[r].kind # "removed" => merged[r] # NoRow
             /\ head[r].kind \in {"created", "changed", "removed", "none"}
  <2>1. head[r] \in Changes \cup {NoChange} /\ view[c][r] \in Shown \cup {NoRow}
    BY <1>2, <1>3 DEF Frames
  <2> DEFINE x == head[r]
             held == view[c][r]
  <2>2. merged[r] = CASE x.kind = "removed" -> NoRow
                      [] x.kind = "created" -> x.shows
                      [] x.kind = "changed" /\ held # NoRow -> x.shows
                      [] OTHER -> held
    BY DEF Merge
  <2>3. /\ x.kind \in {"created", "changed", "removed", "none"}
        /\ x # NoChange <=> x.kind # "none"
        /\ x.kind \in {"created", "changed"} => x.shows \in Shown
    BY <2>1, ChangeKinds
  <2> HIDE DEF x, held, merged
  <2>4. CASE x.kind = "removed"  BY <2>2, <2>3, <2>4, StateNames DEF x, held
  <2>5. CASE x.kind = "created"
    <3>1. merged[r] = x.shows  BY <2>2, <2>5
    <3> QED  BY <2>3, <2>5, <3>1, StateNames DEF x, held
  <2>6. CASE x.kind = "changed"
    <3>1. merged[r] = IF held # NoRow THEN x.shows ELSE held  BY <2>2, <2>6
    <3> QED  BY <2>3, <2>6, <3>1, StateNames DEF x, held
  <2>7. CASE x.kind = "none"
    <3>1. merged[r] = held  BY <2>2, <2>7
    <3> QED  BY <2>1, <2>3, <2>7, <3>1 DEF x, held
  <2> QED  BY <2>3, <2>4, <2>5, <2>6, <2>7
<1>5. merged \in [Rows -> Shown \cup {NoRow}]
  <2>1. merged = [r \in Rows |-> merged[r]]  BY DEF Merge
  <2> HIDE DEF merged
  <2> QED  BY <1>4, <2>1
<1> HIDE DEF merged, head, old
<1>6. /\ ch' \in [Clients -> [frames : Seq(Frames), open : BOOLEAN]]
      /\ ch'[c].frames = Tail(old) /\ ch'[c].open = ch[c].open
      /\ \A d \in Clients : d # c => ch'[d] = ch[d]
  <2>1. ch \in [Clients -> [frames : Seq(Frames), open : BOOLEAN]]  BY <1>0, Typing
  <2> QED  BY <1>1, <1>3, <2>1
<1>7. /\ view' \in [Clients -> [Rows -> Shown \cup {NoRow}]] /\ view'[c] = merged
      /\ \A d \in Clients : d # c => view'[d] = view[d]
  BY <1>0, <1>1, <1>5, Typing
<1>8. Types'
  <2>1. Len(Tail(old)) <= Buffer /\ ToSet(Tail(old)) \subseteq Frames
    <3>1. Len(old) \in Nat /\ Buffer \in Nat  BY <1>2, LiveAssumption
    <3>2. ToSet(Tail(old)) \subseteq Frames  BY <1>3 DEF ToSet
    <3> QED  BY <1>2, <1>3, <3>1, <3>2
  <2>2. \A d \in Clients : Len(ch'[d].frames) <= Buffer /\ ToSet(ch'[d].frames) \subseteq Frames
    BY <1>0, <1>6, <2>1 DEF Types, TypeOK
  <2>3. raced' \subseteq Clients /\ conn' \subseteq Clients /\ fetch' \in [Clients -> Fetch]
    BY <1>0, <1>1, Typing
  <2> QED  BY <1>0, <1>1, <1>6, <1>7, <2>2, <2>3, PagesTyped
<1>9. Shared' /\ \A r \in Rows : (Accounted(r)' <=> Accounted(r)) /\ (Heard(r)' <=> Heard(r))
  BY <1>0, <1>1, <1>8, StillShared
<1>10. rec' = rec /\ job' = job /\ added' = added  BY <1>1 DEF SharedStill
<1>11. Listening(c)' <=> Listening(c)  BY <1>1, <1>6 DEF Listening
<1>12. ASSUME NEW r \in Rows, Visible(c, r)
       PROVE  ChannelShape(c, r)' /\ ReadShape(c, r)' /\ ViewShape(c, r)'
  <2>0. ChannelShape(c, r) /\ ViewShape(c, r)  BY <1>12 DEF Inv, Told
  <2>1. \A i \in DOMAIN old :
          /\ old[i][r].kind = "removed" => rec[r] = NoRow /\ r \in added
          /\ Listening(c) /\ LastWord(c, r, i) /\ ShowsWaiting(old[i][r]) => Accounted(r)
    BY <2>0 DEF ChannelShape, old
  <2>2. ChannelShape(c, r)'
    <3> SUFFICES ASSUME NEW i \in DOMAIN Tail(old)
                 PROVE  /\ Tail(old)[i][r].kind = "removed" => rec'[r] = NoRow /\ r \in added'
                        /\ Listening(c)' /\ LastWord(c, r, i)' /\ ShowsWaiting(Tail(old)[i][r])
                             => Accounted(r)'
      BY <1>6 DEF ChannelShape, ShowsWaiting
    <3>1. i + 1 \in DOMAIN old /\ Tail(old)[i] = old[i + 1]  BY <1>3
    <3>2. ASSUME LastWord(c, r, i)'
          PROVE  LastWord(c, r, i + 1)
      <4> SUFFICES ASSUME NEW j \in DOMAIN old, j > i + 1
                   PROVE  old[j][r] = NoChange
        BY DEF LastWord, old
      <4>1. i \in Nat /\ j \in Nat  BY <1>3, <3>1
      <4>2. j - 1 \in DOMAIN Tail(old) /\ Tail(old)[j - 1] = old[j] /\ j - 1 > i
        BY <1>3, <4>1
      <4>3. \A k \in DOMAIN Tail(old) : k > i => Tail(old)[k][r] = NoChange
        BY <1>6, <3>2 DEF LastWord
      <4> QED  BY <4>2, <4>3
    <3> QED  BY <1>9, <1>10, <1>11, <2>1, <3>1, <3>2
  <2>3. ReadShape(c, r)'
    <3>1. ~(Reading(c)' /\ c \notin raced')  BY <1>1 DEF Reading
    <3> QED  BY <3>1 DEF ReadShape
  <2>4. ViewShape(c, r)'
    <3> SUFFICES ASSUME Listening(c)', fetch'[c] = NoFetch, c \notin raced'
                 PROVE  /\ Silent(c, r)' /\ view'[c][r] \in Waiting => Accounted(r)'
                        /\ rec'[r] # NoRow => view'[c][r] # NoRow \/ Coming(c, r)'
      BY DEF ViewShape
    <3>1. Listening(c) /\ fetch[c] = NoFetch /\ c \notin raced  BY <1>1, <1>11
    <3>2. /\ Silent(c, r) /\ view[c][r] \in Waiting => Accounted(r)
          /\ rec[r] # NoRow => view[c][r] # NoRow \/ Coming(c, r)
      BY <2>0, <3>1 DEF ViewShape
    <3>3. ASSUME Silent(c, r)', view'[c][r] \in Waiting
          PROVE  Accounted(r)
      <4>1. \A i \in DOMAIN old : i # 1 => old[i][r] = NoChange
        <5>1. \A i \in DOMAIN Tail(old) : Tail(old)[i][r] = NoChange  BY <1>6, <3>3 DEF Silent
        <5>2. \A i \in DOMAIN old :
                i # 1 => i - 1 \in DOMAIN Tail(old) /\ Tail(old)[i - 1] = old[i]
          BY <1>3
        <5> HIDE DEF NoChange
        <5> QED  BY <5>1, <5>2
      <4>2. LastWord(c, r, 1)
        <5>1. \A j \in DOMAIN old : j > 1 => j # 1  BY <1>3
        <5> QED  BY <4>1, <5>1 DEF LastWord, old
      <4>3. merged[r] \in Waiting /\ merged[r] # NoRow  BY <1>7, <3>3, StateNames
      <4>4. CASE head[r].kind = "none"
        <5>1. Silent(c, r)  BY <1>3, <1>4, <4>1, <4>4 DEF Silent, old
        <5> QED  BY <1>4, <3>2, <4>3, <4>4, <5>1
      <4>5. CASE head[r].kind \in {"created", "changed"}
        <5>1. merged[r] = head[r].shows  BY <1>4, <4>3, <4>5
        <5>2. ShowsWaiting(old[1][r])  BY <1>3, <4>3, <4>5, <5>1 DEF ShowsWaiting
        <5> QED  BY <1>3, <2>1, <3>1, <4>2, <5>2
      <4> QED  BY <1>4, <4>3, <4>4, <4>5
    <3>4. ASSUME rec'[r] # NoRow
          PROVE  view'[c][r] # NoRow \/ Coming(c, r)'
      <4>1. head[r].kind # "removed"  BY <1>3, <1>10, <2>1, <3>4
      <4>2. CASE view[c][r] # NoRow  BY <1>4, <1>7, <4>1, <4>2
      <4>3. CASE Heard(r)  BY <1>9, <4>3 DEF Coming
      <4>4. CASE Announced(c, r)
        <5>1. PICK i \in DOMAIN old : old[i][r].kind = "created"  BY <4>4 DEF Announced, old
        <5>2. CASE i = 1  BY <1>3, <1>4, <1>7, <5>1, <5>2
        <5>3. CASE i # 1
          <6>1. i - 1 \in DOMAIN Tail(old) /\ Tail(old)[i - 1][r].kind = "created"  BY <1>3, <5>1, <5>3
          <6>2. Announced(c, r)'  BY <1>6, <6>1 DEF Announced
          <6> QED  BY <6>2 DEF Coming
        <5> QED  BY <5>2, <5>3
      <4> QED  BY <1>10, <3>2, <3>4, <4>2, <4>3, <4>4 DEF Coming
    <3> QED  BY <1>9, <3>3, <3>4
  <2> QED  BY <2>2, <2>3, <2>4
<1>13. ASSUME NEW d \in Clients, NEW r \in Rows
       PROVE  Told(d, r)'
  <2>1. CASE d # c
    <3>1. d \in raced' <=> d \in raced  BY <1>1, <2>1
    <3>2. PageStill(d)  BY <1>1, <1>6, <1>7, <2>1, <3>1 DEF PageStill
    <3> QED  BY <1>0, <1>1, <1>8, <3>2, OthersTold DEF Inv
  <2>2. CASE d = c  BY <1>12, <2>2 DEF Told, Visible
  <2> QED  BY <2>1, <2>2
<1> QED  BY <1>9, <1>13 DEF Inv

\* A batch that goes out: what it says is what the watch stops owing.
LEMMA Publishes ==
  ASSUME Inv, Publish
  PROVE  Inv'
<1>0. Shared /\ Types /\ WatchShape /\ BatchShape  BY DEF Inv, Shared
<1>1. /\ Shared' /\ \A r \in Rows : Remembered(r)' <=> Remembered(r)
      /\ UNCHANGED <<rec, job, slipped, fresh, early, added, conn, fetch, view, raced>>
  BY <1>0, PublishShared DEF pages
<1>2. /\ pc = "leave" /\ pc' = "idle" /\ left = {}
      /\ seen' = current /\ spoken' = TRUE /\ batch' = Nothing
      /\ ch' = [c \in Clients |-> Sent(c)]
  BY DEF Publish
<1>3. ASSUME NEW c \in Clients, NEW r \in Rows, Visible(c, r)
      PROVE  ChannelShape(c, r)' /\ ReadShape(c, r)' /\ ViewShape(c, r)'
  <2> DEFINE old == ch[c].frames
             new == ch'[c].frames
  <2>0. ChannelShape(c, r) /\ ReadShape(c, r) /\ ViewShape(c, r)  BY <1>3 DEF Inv, Told
  <2>1. /\ Mine(c) \in Frames /\ ch'[c] = Sent(c) /\ Mine(c)[r] = batch[r]
        /\ \/ Sent(c) = ch[c] /\ (ch[c].open => Mine(c) = Nothing)
           \/ /\ ch[c].open /\ Sent(c).open /\ new = Append(old, Mine(c))
           \/ ~Sent(c).open /\ new = old
    BY <1>0, <1>2, <1>3, Sending DEF Mine
  <2>2. /\ batch[r] \in Changes \cup {NoChange} /\ old \in Seq(Frames)
        /\ rec[r] \in Shown \cup {NoRow}
    BY <1>0, Typing
  <2>3. /\ batch[r].kind \in {"created", "changed"} /\ batch[r].shows \in Waiting => Accounted(r)'
        /\ batch[r].kind = "removed" => rec[r] = NoRow /\ r \in added
        /\ batch[r] = NoChange /\ Accounted(r) => Accounted(r)'
    BY <1>0, <1>1, <1>2 DEF BatchShape, Accounted, Remembered
  <2>4. Unspoken(r) => Heard(r)'
    BY <1>1, <1>2 DEF Unspoken, Heard
  <2>5. early' = early  BY <1>1
  <2>6. batch[r] # NoChange <=> batch[r].kind # "none"  BY <2>2, ChangeKinds
  <2>7. CASE ~ch'[c].open /\ new = old
    <3>1. ~Listening(c)'  BY <2>7 DEF Listening
    <3>2. ChannelShape(c, r)'  BY <1>1, <2>0, <2>7, <3>1 DEF ChannelShape
    <3>3. ReadShape(c, r)' /\ ViewShape(c, r)'  BY <3>1 DEF ReadShape, ViewShape
    <3> QED  BY <3>2, <3>3
  <2>8. CASE ch'[c] = ch[c] /\ batch[r] = NoChange
    <3>1. /\ Listening(c)' <=> Listening(c)
          /\ Silent(c, r)' <=> Silent(c, r)
          /\ \A i : LastWord(c, r, i)' <=> LastWord(c, r, i)
      BY <1>1, <2>8 DEF Listening, Silent, LastWord
    <3>2. Coming(c, r) => Coming(c, r)'
      <4>1. Announced(c, r) => Announced(c, r)'  BY <2>8 DEF Announced
      <4>2. Heard(r) => Heard(r)'
        BY <1>1, <2>4, <2>6, <2>8 DEF Heard
      <4> QED  BY <4>1, <4>2 DEF Coming
    <3>3. ChannelShape(c, r)'
      BY <1>1, <2>0, <2>3, <2>8, <3>1 DEF ChannelShape, ShowsWaiting
    <3>4. ReadShape(c, r)'
      BY <1>1, <2>0, <2>3, <2>8, <3>1, <3>2 DEF ReadShape, Reading
    <3>5. ViewShape(c, r)'
      BY <1>1, <2>0, <2>3, <2>8, <3>1, <3>2 DEF ViewShape
    <3> QED  BY <3>3, <3>4, <3>5
  <2>9. CASE ch[c].open /\ ch'[c].open /\ new = Append(old, Mine(c))
    <3>1. /\ \A i \in DOMAIN old : i \in DOMAIN new /\ new[i] = old[i] /\ Len(old) + 1 > i
          /\ Len(old) + 1 \in DOMAIN new /\ new[Len(old) + 1] = Mine(c)
          /\ \A i \in DOMAIN new : i \in DOMAIN old \/ i = Len(old) + 1
      <4> HIDE DEF old, new
      <4>1. new = Append(old, Mine(c))  BY <2>9
      <4>2. Len(new) = Len(old) + 1 /\ Len(old) \in Nat /\ new \in Seq(Frames)  BY <2>1, <2>2, <4>1
      <4>3. \A i \in 1 .. Len(old) : new[i] = old[i]  BY <2>1, <2>2, <4>1
      <4>4. new[Len(old) + 1] = Mine(c)  BY <2>1, <2>2, <4>1
      <4> QED  BY <2>2, <4>2, <4>3, <4>4
    <3>2. /\ Listening(c)' <=> Listening(c)
          /\ Silent(c, r)' => Silent(c, r) /\ batch[r] = NoChange
      <4>1. Listening(c)' <=> Listening(c)  BY <1>1, <2>9 DEF Listening
      <4>2. ASSUME Silent(c, r)'
            PROVE  Silent(c, r) /\ batch[r] = NoChange
        <5>1. \A i \in DOMAIN new : new[i][r] = NoChange  BY <4>2 DEF Silent
        <5>2. \A i \in DOMAIN old : old[i][r] = NoChange  BY <3>1, <5>1
        <5>3. batch[r] = NoChange  BY <2>1, <3>1, <5>1
        <5> QED  BY <5>2, <5>3 DEF Silent
      <4> QED  BY <4>1, <4>2
    <3>3. Coming(c, r) => Coming(c, r)'
      <4>1. ASSUME Announced(c, r) \/ batch[r].kind = "created"
            PROVE  Announced(c, r)'
        <5>1. \E i \in DOMAIN new : new[i][r].kind = "created"
          BY <2>1, <3>1, <4>1 DEF Announced
        <5> QED  BY <5>1 DEF Announced
      <4>2. r \in early => Heard(r)'  BY <1>1 DEF Heard
      <4> QED  BY <2>4, <4>1, <4>2 DEF Coming, Heard
    <3>4. ChannelShape(c, r)'
      <4> SUFFICES ASSUME NEW i \in DOMAIN new
                   PROVE  /\ new[i][r].kind = "removed" => rec'[r] = NoRow /\ r \in added'
                          /\ Listening(c)' /\ LastWord(c, r, i)' /\ ShowsWaiting(new[i][r])
                               => Accounted(r)'
        BY DEF ChannelShape, ShowsWaiting
      <4>1. CASE i = Len(old) + 1
        BY <1>1, <2>1, <2>3, <3>1, <4>1 DEF ShowsWaiting
      <4>2. CASE i \in DOMAIN old
        <5>1. /\ old[i][r].kind = "removed" => rec[r] = NoRow /\ r \in added
              /\ Listening(c) /\ LastWord(c, r, i) /\ ShowsWaiting(old[i][r]) => Accounted(r)
          BY <2>0, <4>2 DEF ChannelShape
        <5>2. ASSUME LastWord(c, r, i)'
              PROVE  LastWord(c, r, i) /\ batch[r] = NoChange
          <6>1. \A j \in DOMAIN new : j > i => new[j][r] = NoChange  BY <5>2 DEF LastWord
          <6>2. batch[r] = NoChange  BY <2>1, <3>1, <4>2, <6>1
          <6>3. \A j \in DOMAIN old : j > i => old[j][r] = NoChange  BY <3>1, <6>1
          <6> QED  BY <6>2, <6>3 DEF LastWord
        <5> QED  BY <1>1, <2>3, <3>1, <3>2, <4>2, <5>1, <5>2
      <4> QED  BY <3>1, <4>1, <4>2
    <3>5. ReadShape(c, r)'
      BY <1>1, <2>0, <2>3, <3>2, <3>3 DEF ReadShape, Reading
    <3>6. ViewShape(c, r)'
      BY <1>1, <2>0, <2>3, <3>2, <3>3 DEF ViewShape
    <3> QED  BY <3>4, <3>5, <3>6
  <2>10. CASE Sent(c) = ch[c] /\ (ch[c].open => Mine(c) = Nothing)
    <3>1. CASE ch[c].open
      <4>1. batch[r] = NoChange  BY <2>1, <2>10, <3>1, NothingFrame
      <4> QED  BY <2>1, <2>8, <2>10, <4>1
    <3>2. CASE ~ch[c].open  BY <2>1, <2>7, <2>10, <3>2
    <3> QED  BY <3>1, <3>2
  <2> QED  BY <2>1, <2>7, <2>9, <2>10
<1> QED  BY <1>1, <1>3 DEF Inv, Told, Visible

LEMMA Restarts ==
  ASSUME Inv, Restart
  PROVE  Inv'
<1>1. Shared' /\ \A c \in Clients : c \notin conn' /\ ch'[c].frames = <<>>
  BY RestartShared DEF Inv
<1>2. DOMAIN <<>> = {}  OBVIOUS
<1>3. ASSUME NEW c \in Clients, NEW r \in Rows
      PROVE  Told(c, r)'
  BY <1>1, <1>2 DEF Told, ChannelShape, ReadShape, ViewShape, Listening
<1> QED  BY <1>1, <1>3 DEF Inv

-----------------------------------------------------------------------------
LEMMA InitShaped == Init => Inv
<1> SUFFICES ASSUME Init PROVE Inv
  OBVIOUS
<1>1. NoRow \in Shown \cup {NoRow} /\ NoRow \in Phases \cup {NoRow} /\ NoRow \notin Waiting
      /\ NoRow \notin Final /\ NoRow # "queued" /\ NoRow \notin {"pending", "running"}
  BY StateNames DEF NoRow
<1>2. /\ NoChan \in [frames : Seq(Frames), open : BOOLEAN] /\ NoChan.frames = <<>>
      /\ Len(<<>>) <= Buffer /\ ToSet(<<>>) \subseteq Frames /\ DOMAIN <<>> = {}
  BY EmptyChannel DEF NoChan
<1> HIDE DEF NoRow, NoChan
<1>3. /\ \A r \in Rows : /\ rec[r] = NoRow /\ job[r] = NoRow /\ live[r] = NoRow
                         /\ seen[r] = NoRow /\ current[r] = NoRow
      /\ \A c \in Clients : ch[c] = NoChan /\ c \notin conn
  BY DEF Init
<1>4. Types
  <2>1. fetch \in [Clients -> Fetch]  BY DEF Init, Fetch
  <2>2. ch \in [Clients -> [frames : Seq(Frames), open : BOOLEAN]]  BY <1>2 DEF Init
  <2>3. \A c \in Clients : Len(ch[c].frames) <= Buffer /\ ToSet(ch[c].frames) \subseteq Frames
    BY <1>2, <1>3
  <2> QED  BY <1>1, <2>1, <2>2, <2>3, NothingFrame DEF Init, Types, TypeOK
<1>5. JobShape /\ EndShape  BY <1>1, <1>3 DEF JobShape, EndShape
<1>6. WatchShape /\ BatchShape  BY <1>3 DEF Init, WatchShape, BatchShape
<1>7. \A c \in Clients, r \in Rows : Told(c, r)
  BY <1>2, <1>3 DEF Told, ChannelShape, ReadShape, ViewShape, Listening
<1> QED  BY <1>4, <1>5, <1>6, <1>7 DEF Inv, Shared

LEMMA InvKept == Inv /\ [Next]_vars => Inv'
<1> SUFFICES ASSUME Inv, [Next]_vars PROVE Inv'
  OBVIOUS
<1>0. Shared /\ (\A c \in Clients, r \in Rows : Told(c, r))  BY DEF Inv
<1>1. ASSUME NEW chosen \in SUBSET Rows, NEW failing \in SUBSET chosen, Manage(chosen, failing)
      PROVE  Inv'
  <2>1. /\ Shared' /\ (\A q \in Rows : Carried(q))
        /\ \A q \in Rows : /\ rec'[q] # NoRow => rec[q] # NoRow
                           /\ job'[q] \in {"pending", "running"} =>
                                job[q] \in {"pending", "running"} \/ rec'[q] \in Waiting
        /\ UNCHANGED <<conn, ch, fetch, view, raced>>
    BY <1>0, <1>1, ManageShared
  <2> QED  BY <1>0, <2>1, PagesKept DEF Inv
<1>2. ASSUME NEW ok \in BOOLEAN, Watch(ok)
      PROVE  Inv'
  <2>1. Shared' /\ \A q \in Rows : Carried(q)
    <3>1. CASE ok  BY <1>0, <1>2, <3>1, WatchReads
    <3>2. CASE ~ok  BY <1>0, <1>2, <3>2, WatchFails
    <3> QED  BY <3>1, <3>2
  <2>2. UNCHANGED <<rec, job, conn, ch, fetch, view, raced>>
    BY <1>2 DEF Watch, streams, pages
  <2> QED  BY <1>0, <2>1, <2>2, PagesKept DEF Inv
<1>3. ASSUME NEW r \in Rows, NEW ok \in BOOLEAN, Left(r, ok)
      PROVE  Inv'
  <2>1. Shared' /\ \A q \in Rows : Carried(q)
    <3>1. CASE ok  BY <1>0, <1>3, <3>1, LeftRead
    <3>2. CASE ~ok  BY <1>0, <1>3, <3>2, LeftFails
    <3> QED  BY <3>1, <3>2
  <2>2. UNCHANGED <<rec, job, conn, ch, fetch, view, raced>>
    BY <1>3 DEF Left, streams, pages
  <2> QED  BY <1>0, <2>1, <2>2, PagesKept DEF Inv
<1>4. CASE Publish  BY <1>4, Publishes
<1>5. ASSUME NEW c \in Clients, Page(c)
      PROVE  Inv'
  <2>1. CASE Subscribe(c) \/ End(c)  BY <2>1, StreamTurns
  <2>2. CASE Deliver(c)  BY <2>2, Delivers
  <2>3. CASE FetchRead(c)  BY <2>3, FetchReads
  <2>4. CASE \E listed \in BOOLEAN : FetchAnswer(c, listed)  BY <2>4, FetchAnswers
  <2> QED  BY <1>5, <2>1, <2>2, <2>3, <2>4 DEF Page
<1>6. ASSUME NEW r \in Rows, Submit(r)
      PROVE  Inv'
  <2>1. /\ Shared' /\ (\A q \in Rows : Carried(q)) /\ Heard(r)'
        /\ \A q \in Rows : job'[q] = job[q] /\ (rec'[q] # NoRow => rec[q] # NoRow \/ q = r)
    BY <1>0, <1>6, SubmitShared
  <2>2. UNCHANGED <<conn, ch, fetch, view, raced>>  BY <1>6 DEF Submit, streams, pages
  <2>3. \A q \in Rows : rec'[q] # NoRow => rec[q] # NoRow \/ Heard(q)'
    <3> TAKE q \in Rows
    <3>1. CASE q = r  BY <2>1, <3>1
    <3>2. CASE q # r  BY <2>1, <3>2
    <3> QED  BY <3>1, <3>2
  <2>4. \A q \in Rows : job'[q] \in {"pending", "running"} =>
                          job[q] \in {"pending", "running"} \/ rec'[q] \in Waiting
    BY <2>1
  <2> QED  BY <1>0, <2>1, <2>2, <2>3, <2>4, PagesKept DEF Inv
<1>7. ASSUME NEW r \in Rows, Retry(r) \/ Dismiss(r)
      PROVE  Inv'
  <2>1. /\ Shared' /\ (\A q \in Rows : Carried(q))
        /\ \A q \in Rows : (job'[q] = job[q] \/ job'[q] = NoRow) /\ (rec'[q] # NoRow => rec[q] # NoRow)
    BY <1>0, <1>7, RetryShared, DismissShared
  <2>2. UNCHANGED <<conn, ch, fetch, view, raced>>  BY <1>7 DEF Retry, Dismiss, streams, pages
  <2>3. NoRow \notin {"pending", "running"}  BY DEF NoRow
  <2>4. \A q \in Rows : job'[q] \in {"pending", "running"} =>
                          job[q] \in {"pending", "running"} \/ rec'[q] \in Waiting
    BY <2>1, <2>3
  <2> QED  BY <1>0, <2>1, <2>2, <2>4, PagesKept DEF Inv
<1>8. ASSUME NEW r \in Rows, JobGone(r) \/ \E phase \in Phases : Work(r, phase)
      PROVE  Inv'
  <2>1. /\ Shared' /\ (\A q \in Rows : Carried(q)) /\ rec' = rec
        /\ \A q \in Rows : job'[q] \in {"pending", "running"} => job[q] \in {"pending", "running"}
    BY <1>0, <1>8, ClusterShared
  <2>2. UNCHANGED <<conn, ch, fetch, view, raced>>  BY <1>8 DEF JobGone, Work, streams, pages
  <2> QED  BY <1>0, <2>1, <2>2, PagesKept DEF Inv
<1>9. CASE Restart  BY <1>9, Restarts
<1>10. CASE UNCHANGED vars
  <2>1. SharedStill /\ UNCHANGED <<conn, ch, fetch, view, raced>>
    BY <1>10 DEF vars, SharedStill, streams, pages
  <2>2. Types'  BY <1>0, <2>1 DEF Shared, Types, TypeOK, SharedStill, cycle, ghosts
  <2>3. Shared'  BY <1>0, <2>1, <2>2, StillShared
  <2>4. \A c \in Clients, r \in Rows : Told(c, r)'
    BY <1>0, <2>1, <2>2, OthersTold DEF PageStill
  <2> QED  BY <2>3, <2>4 DEF Inv
<1> QED  BY <1>1, <1>2, <1>3, <1>4, <1>5, <1>6, <1>7, <1>8, <1>9, <1>10 DEF Next, Cycle, World

LEMMA InvHolds == Spec => []Inv
BY InitShaped, InvKept, PTL DEF Spec

\* The variables keep their types, whatever people, pages, the cluster and the process do
\* (watchYtdl, ytdlHub.publish, handleYtdlStream, handleYtdlList): no reader's channel holds
\* more than its buffer.
THEOREM TypeCorrect == Spec => []TypeOK
<1>1. Inv => TypeOK  BY DEF Inv, Shared, Types
<1> QED  BY <1>1, InvHolds, PTL

\* A page that has caught up is never left showing as unfinished a download that is over, unless
\* the watch will speak of it again or could not have noticed it (watchYtdl): a row it shows is
\* followed from the list it read and the frames it merged to what the watch remembers.
THEOREM EndingsAreTold == Spec => []EndingTold
<1>1. Inv => EndingTold
  <2> SUFFICES ASSUME Inv, NEW c \in Clients, NEW r \in Rows,
                      CaughtUp(c), Visible(c, r), view[c][r] \in Waiting, rec[r] \notin Waiting
               PROVE  Remembered(r) \/ batch[r] # NoChange \/ r \in slipped
    BY DEF EndingTold
  <2>1. ViewShape(c, r)  BY DEF Inv, Told
  <2>2. DOMAIN <<>> = {}  OBVIOUS
  <2>3. Silent(c, r)  BY <2>2 DEF CaughtUp, Silent
  <2>4. Accounted(r)  BY <2>1, <2>3 DEF ViewShape, CaughtUp, Listening
  <2> QED  BY <2>4 DEF Accounted
<1> QED  BY <1>1, InvHolds, PTL

\* A page that has caught up lacks no unfinished download of its account that the watch has
\* spoken of, but those added before anything was published (ytdlChange.Created,
\* mergeYtdlUpdate): what it lacks is announced in a frame it merged or by the next watch.
THEOREM NothingIsMissing == Spec => []NothingMissing
<1>1. Inv => NothingMissing
  <2> SUFFICES ASSUME Inv, NEW c \in Clients, NEW r \in Rows,
                      CaughtUp(c), Visible(c, r), rec[r] \in Waiting, seen[r] # NoRow
               PROVE  view[c][r] # NoRow \/ r \in early
    BY DEF NothingMissing
  <2>1. ViewShape(c, r) /\ WatchShape /\ BatchShape /\ Types  BY DEF Inv, Told, Shared
  <2>2. DOMAIN <<>> = {}  OBVIOUS
  <2>3. ~Announced(c, r)  BY <2>2 DEF CaughtUp, Announced
  <2>4. view[c][r] # NoRow \/ Heard(r)
    BY <2>1, <2>3, StateNames DEF ViewShape, CaughtUp, Listening, Coming
  <2>5. batch[r].kind # "created"
    <3>1. CASE pc = "leave"  BY <2>1, <3>1 DEF BatchShape
    <3>2. CASE pc # "leave"  BY <2>1, <3>2, NothingFrame, ChangeTypes DEF WatchShape
    <3> QED  BY <3>1, <3>2
  <2> QED  BY <2>4, <2>5 DEF Heard, Unspoken
<1> QED  BY <1>1, InvHolds, PTL
=============================================================================
