------------------------------ MODULE YtdlLive ------------------------------
(***************************************************************************)
(* YouTube downloads, live: the diff a reconcile cycle ends with           *)
(* (api/ytdl_watch.go), the hub that fans it out to bounded readers        *)
(* (api/ytdl_hub.go), the stream that forwards it (api/ytdl_stream.go),    *)
(* the list a page reads beside it (api/ytdl_handlers.go,                  *)
(* api/ytdl_records.go) and what the page does with both                   *)
(* (src/composables/useYtdl.ts).  Who may hold a stream, and for how long, *)
(* is Streams' subject.                                                    *)
(*                                                                         *)
(* The rest of a cycle is Ytdl's subject; here its phases are single steps *)
(* that change rows the way that module's do.  A reason, a title and a     *)
(* progress figure are parts of what is shown that no property looks at.   *)
(***************************************************************************)
EXTENDS Naturals, Sequences, FiniteSets, SequencesExt

CONSTANTS
  Rows,         \* request ids
  Clients,      \* open pages, each one account's
  Owner,        \* whose each row is: a client
  Admins,       \* the pages of administrators
  Buffer,       \* ytdlSubscriberBuffer
  Slots,        \* YTDL_MAX_PARALLEL
  MaxEvents,    \* what people and the cluster do in one behaviour
  MaxFaults     \* reads, writes and job creations that fail, and restarts

ASSUME LiveAssumption ==
  /\ Owner \in [Rows -> Clients] /\ Admins \subseteq Clients
  /\ Buffer \in Nat \ {0} /\ Slots \in Nat \ {0}
  /\ MaxEvents \in Nat /\ MaxFaults \in Nat

VARIABLES
  rec,      \* the stored state of each row
  job,      \* the phase of each row's worker
  pc,       \* where the reconciler is in its cycle
  live,     \* the listing the cycle began with
  missing,  \* rows whose worker was absent from the last listing (missingJobs)
  seen,     \* what was last said about each row (ytdlFingerprints.seen)
  spoken,   \* whether this process has published anything
  current,  \* the fingerprints this watch is building
  left,     \* rows of `seen` that are not among the unfinished, still to be asked about
  batch,    \* the changes of this watch
  conn,     \* pages whose stream is open
  ch,       \* each subscriber's channel: its frames and whether it is closed
  fetch,    \* each page's read of the list
  view,     \* what each page shows
  raced,    \* pages whose last read overlapped a frame
  fresh,    \* rows that became unfinished since the last watch
  slipped,  \* rows whose ending no watch will tell
  added,    \* request ids that have been given out: an id is never used again
  early,    \* rows that were added before this process first published
  events, faults

cycle   == <<pc, live, missing, seen, spoken, current, left, batch>>
streams == <<conn, ch>>
pages   == <<fetch, view, raced>>
ghosts  == <<fresh, slipped, early>>
budget  == <<events, faults>>
vars    == <<rec, job, cycle, streams, pages, ghosts, added, budget>>

Waiting == {"queued", "scheduled", "downloading"}
Final   == {"completed", "failed"}
Shown   == Waiting \cup Final
NoRow   == "none"

\* ytdl.StateOf, by a job's phase.
StateOf == [pending |-> "scheduled", running |-> "downloading",
            succeeded |-> "completed", failed |-> "failed"]
Phases  == DOMAIN StateOf

Changes  == [kind : {"created", "changed"}, shows : Shown] \cup {[kind |-> "removed"]}
NoChange == [kind |-> "none"]
Frames   == [Rows -> Changes \cup {NoChange}]
Nothing  == [r \in Rows |-> NoChange]
NoChan   == [frames |-> <<>>, open |-> FALSE]
NoFetch  == [state |-> "none", again |-> FALSE]
Due      == [state |-> "due", again |-> FALSE]

Init ==
  /\ rec = [r \in Rows |-> NoRow]
  /\ job = [r \in Rows |-> NoRow]
  /\ pc = "idle" /\ live = [r \in Rows |-> NoRow] /\ missing = {}
  /\ seen = [r \in Rows |-> NoRow] /\ spoken = FALSE
  /\ current = [r \in Rows |-> NoRow] /\ left = {} /\ batch = Nothing
  /\ conn = {} /\ ch = [c \in Clients |-> NoChan]
  /\ fetch = [c \in Clients |-> NoFetch]
  /\ view = [c \in Clients |-> [r \in Rows |-> NoRow]]
  /\ raced = {} /\ fresh = {} /\ slipped = {} /\ early = {} /\ added = {}
  /\ events = 0 /\ faults = 0

Event  == events < MaxEvents /\ events' = events + 1
Try(ok) == IF ok THEN UNCHANGED faults ELSE faults < MaxFaults /\ faults' = faults + 1

-----------------------------------------------------------------------------
\* liveStateOf: the worker while it is listed, the row when it is not.
LiveStateOf(row, j) == IF j # NoRow THEN StateOf[j] ELSE row

\* ytdlVisibleTo, and the same rule in ytdlChange.visibleTo and in the list's query.
Visible(c, r) == c \in Admins \/ Owner[r] = c

Unfinished(rows) == {r \in Rows : rows[r] \in Waiting}

\* Rows the watch will look at again, in this cycle or the next.
Remembered(r) == IF pc = "leave" THEN current[r] # NoRow \/ r \in left ELSE seen[r] # NoRow

\* Rows whose ending no watch will tell: they end, or go, before a watch has read them as
\* unfinished, or a page records their ending under a cycle whose listing still has their
\* worker at work.
Slips(r) ==
  /\ rec[r] \in Waiting /\ rec'[r] \notin Waiting
  /\ r \in fresh \/ (rec'[r] \in Final /\ live[r] \in {"pending", "running"})

Entering(r) == rec[r] \notin Waiting /\ rec'[r] \in Waiting

Note ==
  /\ fresh' = IF pc = "watch" /\ pc' = "leave" THEN {} ELSE fresh \cup {r \in Rows : Entering(r)}
  /\ slipped' = {r \in Rows : Slips(r) \/ (r \in slipped /\ rec'[r] \notin Waiting)}
  /\ early' = early \cup {r \in Rows : ~spoken /\ Entering(r)}

-----------------------------------------------------------------------------
\* The reconcile cycle up to the watch (reconcileYtdlOnce).  The listing settles what has ended
\* (captureFinished) or been lost (resolveVanished); then as many of the queued as there is room
\* for are admitted (admitQueued), and a job that cannot be created is a failure.
Manage(chosen, failing) ==
  LET ended   == {r \in Unfinished(rec) : job[r] \in {"succeeded", "failed"}}
      absent  == {r \in Rows : rec[r] \in {"scheduled", "downloading"} /\ job[r] = NoRow}
      lost    == absent \cap missing
      settled == [r \in Rows |-> IF r \in ended THEN StateOf[job[r]]
                                 ELSE IF r \in lost THEN "failed" ELSE rec[r]]
      queued  == {r \in Rows : settled[r] = "queued"}
      running == {r \in Rows : settled[r] \in {"scheduled", "downloading"}}
  IN  /\ pc = "idle" /\ pc' = "watch"
      /\ live' = job
      /\ missing' = absent \ lost
      /\ chosen \subseteq queued
      /\ Cardinality(chosen) <= Slots - Cardinality(running) \/ chosen = {}
      /\ chosen = queued \/ Cardinality(chosen) >= Slots - Cardinality(running)
      /\ failing \subseteq chosen /\ Try(failing = {})
      /\ rec' = [r \in Rows |-> IF r \in failing THEN "failed"
                                ELSE IF r \in chosen THEN "scheduled" ELSE settled[r]]
      /\ job' = [r \in Rows |-> IF r \in ended THEN NoRow
                                ELSE IF r \in chosen \ failing /\ job[r] = NoRow THEN "pending"
                                ELSE job[r]]
      /\ UNCHANGED <<seen, spoken, current, left, batch, streams, pages, events, added>>
      /\ Note

\* The watch that fingerprints only while somebody is listening.
WatchWhenWatched(ok) ==
  /\ pc = "watch" /\ pc' = IF ok THEN "leave" ELSE "idle"
  /\ Try(ok)
  /\ IF ok
     THEN LET now   == [r \in Rows |-> IF rec[r] \in Waiting /\ \E c \in Clients : ch[c].open
                                       THEN LiveStateOf(rec[r], live[r]) ELSE NoRow]
          IN  /\ current' = now
              /\ batch' = [r \in Rows |->
                   IF now[r] = NoRow \/ now[r] = seen[r] THEN NoChange
                   ELSE [kind |-> IF seen[r] = NoRow /\ spoken THEN "created" ELSE "changed",
                         shows |-> now[r]]]
              /\ left' = {r \in Rows : seen[r] # NoRow /\ now[r] = NoRow}
     ELSE UNCHANGED <<current, batch, left>>
  /\ UNCHANGED <<rec, job, live, missing, seen, spoken, streams, pages, events, added>>
  /\ Note

\* watchYtdl, up to the rows that left the unfinished set: read them all, project each, and
\* keep what differs from what was last said.
Watch(ok) ==
  /\ pc = "watch" /\ pc' = IF ok THEN "leave" ELSE "idle"
  /\ Try(ok)
  /\ IF ok
     THEN LET now == [r \in Rows |-> IF rec[r] \in Waiting THEN LiveStateOf(rec[r], live[r])
                                     ELSE NoRow]
          IN  /\ current' = now
              /\ batch' = [r \in Rows |->
                   IF now[r] = NoRow \/ now[r] = seen[r] THEN NoChange
                   ELSE [kind |-> IF seen[r] = NoRow /\ spoken THEN "created" ELSE "changed",
                         shows |-> now[r]]]
              /\ left' = {r \in Rows : seen[r] # NoRow /\ now[r] = NoRow}
     ELSE UNCHANGED <<current, batch, left>>
  /\ UNCHANGED <<rec, job, live, missing, seen, spoken, streams, pages, events, added>>
  /\ Note

\* One row that left the unfinished set: dismissed, ended, or not to be told today.
Left(r, ok) ==
  /\ pc = "leave" /\ r \in left
  /\ left' = left \ {r}
  /\ Try(ok)
  /\ IF ok
     THEN /\ batch' = [batch EXCEPT ![r] =
               IF rec[r] = NoRow THEN [kind |-> "removed"]
               ELSE [kind |-> "changed", shows |-> LiveStateOf(rec[r], live[r])]]
          /\ UNCHANGED current
     ELSE /\ current' = [current EXCEPT ![r] = seen[r]]
          /\ UNCHANGED batch
  /\ UNCHANGED <<rec, job, pc, live, missing, seen, spoken, streams, pages, events, added>>
  /\ Note

\* What of a batch one subscriber may see.
Mine(c) == [r \in Rows |-> IF Visible(c, r) THEN batch[r] ELSE NoChange]

\* hub.publish with no bound on what waits for one reader.
SentUnbounded(c) ==
  IF ~ch[c].open \/ Mine(c) = Nothing THEN ch[c]
  ELSE [ch[c] EXCEPT !.frames = Append(@, Mine(c))]

\* hub.publish to one subscriber: never blocking, a reader that is full is dropped.
Sent(c) ==
  IF ~ch[c].open \/ Mine(c) = Nothing THEN ch[c]
  ELSE IF Len(ch[c].frames) < Buffer THEN [ch[c] EXCEPT !.frames = Append(@, Mine(c))]
  ELSE [ch[c] EXCEPT !.open = FALSE]

\* The end of watchYtdl.
Publish ==
  /\ pc = "leave" /\ left = {}
  /\ pc' = "idle"
  /\ seen' = current /\ spoken' = TRUE
  /\ ch' = [c \in Clients |-> Sent(c)]
  /\ current' = [r \in Rows |-> NoRow] /\ batch' = Nothing
  /\ live' = [r \in Rows |-> NoRow]
  /\ UNCHANGED <<rec, job, missing, left, conn, pages, budget, added>>
  /\ Note

-----------------------------------------------------------------------------
\* The page asks for the list once it has heard `ready`, or that its stream is over.  Two reads
\* of one page are taken one after the other.
Refresh(c) ==
  fetch' = [fetch EXCEPT ![c] = IF @ = NoFetch THEN Due
                                ELSE [@ EXCEPT !.again = fetch[c].state = "read"]]

\* handleYtdlStream: subscribed before `ready` is written, so that the read it prompts overlaps
\* nothing.
Subscribe(c) ==
  /\ c \notin conn
  /\ conn' = conn \cup {c}
  /\ ch' = [ch EXCEPT ![c] = [frames |-> <<>>, open |-> TRUE]]
  /\ Refresh(c)
  /\ UNCHANGED <<rec, job, cycle, view, raced, ghosts, budget, added>>

\* A merge that only ever changes rows the page already shows.
MergeKnown(held, frame) ==
  [r \in Rows |-> CASE frame[r].kind = "removed" -> NoRow
                    [] frame[r].kind \in {"created", "changed"} /\ held[r] # NoRow -> frame[r].shows
                    [] OTHER -> held[r]]

\* mergeYtdlUpdate: created rows are added, changed ones are only merged, removed ones go.
Merge(held, frame) ==
  [r \in Rows |-> CASE frame[r].kind = "removed" -> NoRow
                    [] frame[r].kind = "created" -> frame[r].shows
                    [] frame[r].kind = "changed" /\ held[r] # NoRow -> frame[r].shows
                    [] OTHER -> held[r]]

\* One frame, written to the connection and merged by the page.
Deliver(c) ==
  /\ c \in conn /\ ch[c].frames # <<>>
  /\ ch' = [ch EXCEPT ![c].frames = Tail(@)]
  /\ view' = [view EXCEPT ![c] = Merge(@, Head(ch[c].frames))]
  /\ raced' = IF fetch[c].state = "read" THEN raced \cup {c} ELSE raced
  /\ UNCHANGED <<rec, job, cycle, conn, fetch, ghosts, budget, added>>

\* A handler that does not notice that its channel was closed.
EndOnLeaving(c) ==
  /\ c \in conn
  /\ Event
  /\ conn' = conn \ {c}
  /\ ch' = [ch EXCEPT ![c] = NoChan]
  /\ Refresh(c)
  /\ UNCHANGED <<rec, job, cycle, view, raced, ghosts, faults, added>>

\* The stream ends: its channel was closed under it because it fell behind, or the page was
\* hidden or the connection broke.
End(c) ==
  /\ c \in conn
  /\ \/ ~ch[c].open /\ ch[c].frames = <<>> /\ UNCHANGED events
     \/ Event
  /\ conn' = conn \ {c}
  /\ ch' = [ch EXCEPT ![c] = NoChan]
  /\ Refresh(c)
  /\ UNCHANGED <<rec, job, cycle, view, raced, ghosts, faults, added>>

-----------------------------------------------------------------------------
\* GET /v1/ytdl (handleYtdlList), read by a page: the rows first ...
FetchRead(c) ==
  /\ fetch[c].state = "due"
  /\ fetch' = [fetch EXCEPT ![c] = [state |-> "read", again |-> FALSE, rows |->
                 [r \in Rows |-> IF Visible(c, r) THEN rec[r] ELSE NoRow]]]
  /\ raced' = raced \ {c}
  /\ UNCHANGED <<rec, job, cycle, streams, view, ghosts, budget, added>>

\* ... then the jobs, if the cluster answers; what has ended is recorded on observation
\* (captureTerminal), and the answer replaces what the page shows.
FetchAnswer(c, listed) ==
  LET rows  == fetch[c].rows
      shown == [r \in Rows |-> IF rows[r] = NoRow THEN NoRow
                               ELSE LiveStateOf(rows[r], IF listed THEN job[r] ELSE NoRow)]
  IN  /\ fetch[c].state = "read"
      /\ Try(listed)
      /\ rec' = [r \in Rows |-> IF rec[r] # NoRow /\ shown[r] \in Final /\ rows[r] # shown[r]
                                THEN shown[r] ELSE rec[r]]
      /\ view' = [view EXCEPT ![c] = shown]
      /\ fetch' = [fetch EXCEPT ![c] = IF @.again THEN Due ELSE NoFetch]
      /\ UNCHANGED <<job, cycle, streams, raced, events, added>>
      /\ Note

-----------------------------------------------------------------------------
\* People.
Submit(r) ==
  /\ r \notin added
  /\ Event
  /\ rec' = [rec EXCEPT ![r] = "queued"]
  /\ added' = added \cup {r}
  /\ UNCHANGED <<job, cycle, streams, pages, faults>>
  /\ Note

Retry(r) ==
  /\ rec[r] = "failed"
  /\ Event
  /\ rec' = [rec EXCEPT ![r] = "queued"]
  /\ job' = [job EXCEPT ![r] = NoRow]
  /\ UNCHANGED <<cycle, streams, pages, faults, added>>
  /\ Note

Dismiss(r) ==
  /\ rec[r] # NoRow
  /\ Event
  /\ rec' = [rec EXCEPT ![r] = NoRow]
  /\ job' = [job EXCEPT ![r] = IF @ \in {"succeeded", "failed"} THEN NoRow ELSE @]
  /\ UNCHANGED <<cycle, streams, pages, faults, added>>
  /\ Note

\* The cluster: a worker moves, and a job can be lost.
Work(r, phase) ==
  /\ \/ job[r] = "pending" /\ phase \in {"running", "failed"}
     \/ job[r] = "running" /\ phase \in {"succeeded", "failed"}
  /\ job' = [job EXCEPT ![r] = phase]
  /\ UNCHANGED <<rec, cycle, streams, pages, ghosts, budget, added>>

JobGone(r) ==
  /\ job[r] # NoRow
  /\ Try(FALSE)
  /\ job' = [job EXCEPT ![r] = NoRow]
  /\ UNCHANGED <<rec, cycle, streams, pages, ghosts, events, added>>

\* The process starts again: the hub, the fingerprints and every connection are new.
Restart ==
  /\ Try(FALSE)
  /\ pc' = "idle" /\ live' = [r \in Rows |-> NoRow] /\ missing' = {}
  /\ seen' = [r \in Rows |-> NoRow] /\ spoken' = FALSE
  /\ current' = [r \in Rows |-> NoRow] /\ left' = {} /\ batch' = Nothing
  /\ conn' = {} /\ ch' = [c \in Clients |-> NoChan]
  /\ fetch' = [c \in Clients |-> NoFetch]
  /\ UNCHANGED <<rec, job, view, raced, events, added>>
  /\ fresh' = Unfinished(rec)
  /\ UNCHANGED <<slipped, early>>

-----------------------------------------------------------------------------
Cycle ==
  \/ \E chosen \in SUBSET Rows : \E failing \in SUBSET chosen : Manage(chosen, failing)
  \/ \E ok \in BOOLEAN : Watch(ok)
  \/ \E r \in Rows, ok \in BOOLEAN : Left(r, ok)
  \/ Publish

Page(c) ==
  \/ Subscribe(c) \/ Deliver(c) \/ End(c)
  \/ FetchRead(c)
  \/ \E listed \in BOOLEAN : FetchAnswer(c, listed)

World ==
  \/ \E r \in Rows : Submit(r) \/ Retry(r) \/ Dismiss(r) \/ JobGone(r)
  \/ \E r \in Rows, phase \in Phases : Work(r, phase)
  \/ Restart

Next == Cycle \/ (\E c \in Clients : Page(c)) \/ World

(***************************************************************************)
(* The reconciler is a ticker's loop and every page's handler goes on; the *)
(* page reconnects and reads again by its own timers.                      *)
(***************************************************************************)
Fairness == WF_vars(Cycle) /\ \A c \in Clients : WF_vars(Page(c))

Spec     == Init /\ [][Next]_vars
FairSpec == Spec /\ Fairness

-----------------------------------------------------------------------------
\* Every variable keeps its type.
TypeOK ==
  /\ rec \in [Rows -> Shown \cup {NoRow}]
  /\ job \in [Rows -> Phases \cup {NoRow}]
  /\ pc \in {"idle", "watch", "leave"}
  /\ live \in [Rows -> Phases \cup {NoRow}]
  /\ missing \subseteq Rows /\ left \subseteq Rows
  /\ seen \in [Rows -> Shown \cup {NoRow}] /\ current \in [Rows -> Shown \cup {NoRow}]
  /\ batch \in Frames
  /\ conn \subseteq Clients
  /\ \A c \in Clients : Len(ch[c].frames) <= Buffer /\ ToSet(ch[c].frames) \subseteq Frames
  /\ view \in [Clients -> [Rows -> Shown \cup {NoRow}]]
  /\ raced \subseteq Clients
  /\ added \subseteq Rows /\ fresh \subseteq Rows /\ slipped \subseteq Rows /\ early \subseteq Rows

\* A page that has caught up: its stream is healthy, nothing waits in it, its last read
\* of the list is over and did not cross a frame.
CaughtUp(c) ==
  /\ c \in conn /\ ch[c].open /\ ch[c].frames = <<>>
  /\ fetch[c] = NoFetch /\ c \notin raced

\* A row a caught-up page shows as unfinished, and that has ended or been dismissed, is one the
\* watch still remembers having spoken of and so will speak of again: the page is not left with
\* it.  Rows that came and went between two watches are the exception (watchYtdl).
EndingTold ==
  \A c \in Clients, r \in Rows :
    CaughtUp(c) /\ Visible(c, r) /\ view[c][r] \in Waiting /\ rec[r] \notin Waiting
      => Remembered(r) \/ batch[r] # NoChange \/ r \in slipped

\* No exception: a caught-up page never goes on showing as unfinished a download that has ended
\* and that no later cycle will speak of (the comment above watchYtdl says this gap is closed).
EndingAlwaysTold ==
  \A c \in Clients, r \in Rows :
    CaughtUp(c) /\ Visible(c, r) /\ view[c][r] \in Waiting /\ rec[r] \in Final
      => Remembered(r) \/ batch[r] # NoChange

\* An unfinished row the watch has spoken of is on every caught-up page that may see it, unless
\* it was added before this process had published anything (ytdlChange.Created).
NothingMissing ==
  \A c \in Clients, r \in Rows :
    CaughtUp(c) /\ Visible(c, r) /\ rec[r] \in Waiting /\ seen[r] # NoRow
      => view[c][r] # NoRow \/ r \in early

\* A page whose stream was closed because it fell behind reads the list again: nothing it
\* missed stays missed (ytdlHub.publish).
SlowReaderRecovers ==
  \A c \in Clients : (c \in conn /\ ~ch[c].open) ~> (fetch[c].state = "read")
=============================================================================
