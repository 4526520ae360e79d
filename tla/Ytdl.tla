-------------------------------- MODULE Ytdl --------------------------------
(***************************************************************************)
(* YouTube downloads: the durable records (store/ytdl_downloads.go), the   *)
(* reconcile cycle (api/ytdl_reconcile.go), the request handlers that run  *)
(* beside it (submit, list/detail/items, retry, dismiss, account deletion) *)
(* and the cluster that runs the workers.                                  *)
(*                                                                         *)
(* The reconciler is one goroutine that works through its phases in order; *)
(* each phase reads its list once and then treats one row at a time.  The  *)
(* handlers run at any moment in between.  A step here is one statement on *)
(* the store together with the calls to the cluster that follow it without *)
(* another read; wherever the code reads, calls out, and writes what it    *)
(* read, the read and the write are different steps.                       *)
(***************************************************************************)
EXTENDS YtdlAdmit

CONSTANTS Users,         \* the accounts
          Videos,        \* (video, mode) pairs: what a worker writes into one library folder
          Lists,         \* (playlist or channel, mode) pairs
          NoKey,         \* no link
          Links,         \* what users paste: any of the above
          Pages,         \* requests to show a row that may be in flight at the same time
          Causes,        \* what a failing worker may say
          MaxParallel,   \* YTDL_MAX_PARALLEL as the operator wrote it
          AutoAttempts,  \* YTDL_AUTO_RETRY_MAX_ATTEMPTS as the operator wrote it
          MaxRequests,   \* bound: request ids
          MaxAttempts,   \* bound: attempts a user's retry may reach
          MaxSeq,        \* bound: queue_seq
          MaxFaults      \* bound: failed calls, lost workers and restarts

ASSUME YtdlAssumption ==
  /\ NoUser \notin Users
  /\ NoKey \notin Videos \cup Lists
  /\ Videos \cap Lists = {}
  /\ IsFiniteSet(Videos)
  /\ Links \subseteq Videos \cup Lists
  /\ Causes \subseteq {"refused", "gone", "silent", "deadline"}
  /\ MaxParallel \in Int
  /\ AutoAttempts \in Int
  /\ MaxRequests \in Nat /\ MaxAttempts \in Nat /\ MaxSeq \in Nat /\ MaxFaults \in Nat

Keys == Videos \cup Lists
Ids  == 1..MaxRequests

\* The limit admission works to, and the attempts the reconciler may use up by itself.
Limit     == IF MaxParallel <= 0 THEN 4 ELSE MaxParallel
AutoLimit == IF AutoAttempts <= 1 THEN 0 ELSE AutoAttempts

VARIABLES
  \* the store
  rec,       \* rec[id]: the row of a request
  issued,    \* how many request ids have been handed out
  accounts,  \* the accounts that exist
  \* the cluster
  job,       \* job[id]: the worker that carries the request's id
  \* the reconciler
  pc,        \* the phase it is in
  live,      \* the jobs as listed when the cycle began
  todo,      \* the rows of this phase it has not treated yet
  held,      \* the row it has read and is about to write
  missing,   \* running downloads whose worker was absent once
  \* the handlers in flight
  viewer,    \* viewer[p]: a row being shown: read, then dressed in the live job, then captured
  submits,   \* submits[u]: the link whose duplicate check has passed, not yet recorded
  retries,   \* requests sent back to the queue whose old job is still to be deleted
  \* the world
  faults,    \* failures that may still happen
  saved,     \* requests whose worker finished successfully
  told       \* told[id]: what the owner has been told about this attempt

store      == <<rec, issued, accounts>>
reconciler == <<pc, live, todo, held, missing>>
handlers   == <<viewer, submits, retries>>
vars       == <<store, job, reconciler, handlers, faults, saved, told>>

-----------------------------------------------------------------------------
\* Rows and jobs.

Row == [kind     : {"none", "single", "group", "item"},
        user     : Users \cup {NoUser},
        key      : Keys \cup {NoKey},
        parent   : Ids \cup {0},
        state    : {"none", "resolving", "queued", "scheduled", "downloading", "completed", "failed"},
        reason   : {"", "generic", "refused", "retrying", "other"},
        attempts : Nat,
        seq      : 0..MaxSeq,
        finished : {"absent", "recent", "past"}]

NoRow == [kind |-> "none", user |-> NoUser, key |-> NoKey, parent |-> 0, state |-> "none",
          reason |-> "", attempts |-> 0, seq |-> 0, finished |-> "absent"]

Job == [kind  : {"none", "download", "expand"},
        phase : {"none", "pending", "running", "succeeded", "failed"},
        key   : Keys \cup {NoKey},
        why   : {""} \cup Causes]

NoJob == [kind |-> "none", phase |-> "none", key |-> NoKey, why |-> ""]

Held == [id : Ids \cup {0}, row : Row]
Nothing == [id |-> 0, row |-> NoRow]

View == [id : Ids \cup {0}, row : Row, job : Job]
NotViewing == [id |-> 0, row |-> NoRow, job |-> NoJob]

Terminal(j) == j.phase \in {"succeeded", "failed"}
Final(state) == state \in {"completed", "failed"}
Exists(id) == rec[id].kind # "none"
Items(g) == {id \in Ids : rec[id].kind = "item" /\ rec[id].parent = g}

\* How the readings below go wrong when any worker that has exited counts as a success, or
\* when the cluster's own word for a failure is passed on.
StateOfExited(j) ==
  CASE Terminal(j)         -> "completed"
    [] j.phase = "running" -> "downloading"
    [] OTHER               -> "scheduled"

FailureReasonRaw(j) == IF j.why = "deadline" THEN "other" ELSE "BackoffLimitExceeded"

\* StateOf: what a job says about itself, and the reason its status alone can give.
StateOf(j) ==
  CASE j.phase = "failed"    -> "failed"
    [] j.phase = "succeeded" -> "completed"
    [] j.phase = "running"   -> "downloading"
    [] OTHER                 -> "scheduled"

FailureReason(j) == IF j.why = "deadline" THEN "other" ELSE "generic"

\* FailureFromOutput: the cause a worker printed, when it printed one that is recognised.
FailureFromOutput(j, generic) ==
  CASE j.phase = "failed" /\ j.why = "refused" -> "refused"
    [] j.phase = "failed" /\ j.why = "gone"    -> "other"
    [] OTHER                                   -> generic

-----------------------------------------------------------------------------
\* Statements on the store.

\* A sequence number counted from the rows there are.
NextSeqCounted == Cardinality({id \in Ids : Exists(id)}) + 1

\* COALESCE(MAX(queue_seq), 0) + 1.
NextSeq == CHOOSE n \in 1..(MaxSeq + 1) :
             /\ \A id \in Ids : rec[id].seq < n
             /\ n = 1 \/ \E id \in Ids : rec[id].seq = n - 1

\* A row with its state written; finished_at is stamped on the way into a final state and
\* never cleared here.
Written(row, state, reason, stamp) ==
  [row EXCEPT !.state = state, !.reason = reason,
              !.finished = IF stamp THEN "recent" ELSE row.finished]

\* An update that expects the row to say downloading, which no statement ever makes a row say.
SetIfDownloading(id, state, reason, stamp) ==
  IF rec[id].state # "downloading" THEN rec
  ELSE [rec EXCEPT ![id] = Written(rec[id], state, reason, stamp)]

SetYtdlState(id, state, reason, stamp) ==
  IF ~Exists(id) THEN rec ELSE [rec EXCEPT ![id] = Written(rec[id], state, reason, stamp)]

\* A failed row as the next attempt finds it: at the back of the queue.
Requeued(row) ==
  [row EXCEPT !.state = "queued", !.reason = "", !.finished = "absent",
              !.attempts = row.attempts + 1, !.seq = NextSeq]

\* Conditional on the row being failed, so that two taps are one attempt.
RequeueYtdl(id) ==
  IF rec[id].state # "failed" THEN rec ELSE [rec EXCEPT ![id] = Requeued(rec[id])]

\* The claim of a slot, without and with its condition.
MarkAnyway(id) == IF Exists(id) THEN [rec EXCEPT ![id].state = "scheduled"] ELSE rec

MarkYtdlAdmitted(id) ==
  IF rec[id].state = "queued" THEN [rec EXCEPT ![id].state = "scheduled"] ELSE rec

\* The removal of a row, without and with its items (ON DELETE CASCADE).
DeleteRowOnly(id) == [rec EXCEPT ![id] = NoRow]

DeleteYtdlDownload(id) == [i \in Ids |-> IF i = id \/ i \in Items(id) THEN NoRow ELSE rec[i]]

\* Something in a finished group is running again.
ReopenYtdlGroup(g) ==
  [rec EXCEPT ![g] = [rec[g] EXCEPT !.state = "downloading", !.reason = "", !.finished = "absent"]]

InFlight(key) == \E id \in Ids : Exists(id) /\ rec[id].key = key /\ ~Final(rec[id].state)
AlreadyHeld(key) == \E id \in Ids : rec[id].key = key /\ rec[id].state = "completed"

Running == {id \in Ids : rec[id].kind # "group" /\ rec[id].state \in {"scheduled", "downloading"}}

\* The one thing every awaiting-retry query spells out.
AwaitingRetry(id) ==
  /\ rec[id].state = "failed" /\ rec[id].kind # "group"
  /\ rec[id].reason \in {"refused", "retrying"}
  /\ rec[id].attempts < AutoLimit

RetryDue == {id \in Ids : AwaitingRetry(id) /\ rec[id].finished # "recent"}

\* Groups whose state may no longer be what their items add up to, forgetting those whose
\* ending is no longer true, and all of them.
NotCorrectedGroups ==
  {g \in Ids :
     /\ rec[g].kind = "group" /\ rec[g].state # "resolving"
     /\ \/ ~Final(rec[g].state)
        \/ \E i \in Items(g) : ~Final(rec[i].state) \/ AwaitingRetry(i)}

ActiveGroups ==
  {g \in Ids :
     /\ rec[g].kind = "group" /\ rec[g].state # "resolving"
     /\ \/ ~Final(rec[g].state)
        \/ \E i \in Items(g) : ~Final(rec[i].state) \/ AwaitingRetry(i)
        \/ rec[g].state = "failed" /\ \A i \in Items(g) : rec[i].state # "failed"
        \/ rec[g].state = "completed" /\ \E i \in Items(g) : rec[i].state = "failed"}

QueuedCandidates ==
  {[id |-> id, user |-> rec[id].user, direct |-> rec[id].kind # "item", seq |-> rec[id].seq] :
     id \in {i \in Ids : rec[i].state = "queued"}}

-----------------------------------------------------------------------------
\* Failures: every call that may fail spends one of the faults when it does.

Try(ok) == IF ok THEN faults' = faults ELSE faults > 0 /\ faults' = faults - 1

\* DeleteJob removes whatever carries the name now; an absent job is success.
DeleteJob(id, ok) == job' = IF ok THEN [job EXCEPT ![id] = NoJob] ELSE job

\* notifyFinished: an item never speaks for itself.
Announce(id, kind, state) ==
  IF kind = "item" THEN told
  ELSE [told EXCEPT ![id] = state]
-----------------------------------------------------------------------------
\* Recording an outcome, as the reconciler and the pages that show a row do it.

\* captureTerminal as seen by the store: row is what was read, id where it is written.
CaptureTerminal(id, row, state, reason) ==
  IF ~Final(state) THEN rec
  ELSE IF row.state = state
  THEN IF reason # "" /\ reason # row.reason /\ row.reason = "generic"
       THEN SetYtdlState(id, state, reason, FALSE)
       ELSE rec
  ELSE SetYtdlState(id, state, reason, TRUE)

\* captureTerminal as heard by the owner: once, on the transition, unless it will be retried.
CaptureTold(id, row, state, reason) ==
  IF ~Final(state) \/ row.state = state \/ reason = "retrying" THEN told
  ELSE Announce(id, row.kind, state)

Init ==
  /\ rec = [id \in Ids |-> NoRow]
  /\ issued = 0
  /\ accounts = Users
  /\ job = [id \in Ids |-> NoJob]
  /\ pc = "idle"
  /\ live = [id \in Ids |-> NoJob]
  /\ todo = {}
  /\ held = Nothing
  /\ missing = {}
  /\ viewer = [p \in Pages |-> NotViewing]
  /\ submits = [u \in Users |-> NoKey]
  /\ retries = {}
  /\ faults = MaxFaults
  /\ saved = {}
  /\ told = [id \in Ids |-> "none"]

-----------------------------------------------------------------------------
\* The reconcile cycle.

\* What each phase sets out to treat, read from the store when the phase begins.
Agenda(phase) ==
  CASE phase = "vanish" -> Running
    [] phase = "expand" -> {g \in Ids : rec[g].kind = "group" /\ rec[g].state = "resolving"}
    [] phase = "retry"  -> RetryDue
    [] phase = "groups" -> ActiveGroups
    [] phase = "sweep"  -> {id \in Ids : Terminal(live[id])}
    [] phase = "admit"  -> {c.id : c \in Admit(QueuedCandidates, Limit - Cardinality(Running))}
    [] OTHER            -> {}

\* A cycle that never asks which workers are gone, and one that never clears up.
PhaseAfterNoVanish(phase) ==
  CASE phase = "capture" -> "expand"
    [] phase = "expand"  -> "retry"
    [] phase = "retry"   -> "groups"
    [] phase = "groups"  -> "sweep"
    [] phase = "sweep"   -> "admit"
    [] OTHER             -> "idle"

PhaseAfterNoSweep(phase) ==
  CASE phase = "capture" -> "vanish"
    [] phase = "vanish"  -> "expand"
    [] phase = "expand"  -> "retry"
    [] phase = "retry"   -> "groups"
    [] phase = "groups"  -> "admit"
    [] OTHER             -> "idle"

PhaseAfter(phase) ==
  CASE phase = "capture" -> "vanish"
    [] phase = "vanish"  -> "expand"
    [] phase = "expand"  -> "retry"
    [] phase = "retry"   -> "groups"
    [] phase = "groups"  -> "sweep"
    [] phase = "sweep"   -> "admit"
    [] OTHER             -> "idle"

\* ListJobs; an orchestrator that cannot be reached means no cycle at all.
CycleBegin ==
  /\ pc = "idle"
  /\ pc' = "capture"
  /\ live' = job
  /\ todo' = {id \in Ids : job[id].kind = "download" /\ Terminal(job[id])}
  /\ UNCHANGED <<store, job, held, missing, handlers, faults, saved, told>>

\* The next phase; when its list cannot be read it has nothing to do.
PhaseEnd(read) ==
  /\ pc # "idle" /\ todo = {} /\ held = Nothing
  /\ pc' = PhaseAfter(pc)
  /\ Try(read)
  /\ todo' = IF read THEN Agenda(pc') ELSE {}
  /\ live' = IF pc' = "idle" THEN [id \in Ids |-> NoJob] ELSE live
  /\ UNCHANGED <<store, job, held, missing, handlers, saved, told>>

Take(id) == id \in todo /\ held = Nothing /\ todo' = todo \ {id}

\* The store does not answer for one row: it is left to the next cycle.
Skip(id) ==
  /\ pc \in {"capture", "retry", "groups", "admit"} /\ Take(id)
  /\ Try(FALSE)
  /\ UNCHANGED <<store, job, pc, live, held, missing, handlers, saved, told>>

\* captureFinished, up to the read of the row.
CaptureRead(id) ==
  /\ pc = "capture" /\ Take(id)
  /\ held' = IF Exists(id) THEN [id |-> id, row |-> rec[id]] ELSE held
  /\ UNCHANGED <<store, job, pc, live, missing, handlers, faults, saved, told>>

\* The reason captureFinished settles on; `heard` is whether the worker's output could be read.
CaptureReason(id, row, heard) ==
  LET own   == FailureReason(live[id])
      asked == row.state # "failed" \/ row.reason = "generic"
      why   == IF asked /\ heard THEN FailureFromOutput(job[id], own) ELSE own
  IN  IF live[id].phase = "succeeded" THEN ""
      ELSE IF why = "refused" /\ row.attempts < AutoLimit THEN "retrying" ELSE why

\* The rest of captureFinished: record the outcome, then let go of the job.
CaptureWrite(heard, recorded, deleted) ==
  LET id     == held.id
      state  == StateOf(live[id])
      reason == CaptureReason(id, held.row, heard)
  IN  /\ pc = "capture" /\ id # 0
      /\ Try(heard /\ recorded /\ deleted)
      /\ heard \/ state = "failed"              \* only a failure asks for the output
      /\ recorded \/ held.row.state # state     \* only a transition is written
      /\ held' = Nothing
      /\ IF recorded
         THEN /\ rec' = CaptureTerminal(id, held.row, state, reason)
              /\ told' = CaptureTold(id, held.row, state, reason)
              /\ DeleteJob(id, deleted)
         ELSE UNCHANGED <<rec, told, job>>
      /\ UNCHANGED <<issued, accounts, pc, live, todo, missing, handlers, saved>>

\* resolveVanished: absent twice in a row is evidence, once is not.
VanishStep(id, recorded) ==
  /\ pc = "vanish" /\ Take(id)
  /\ \/ /\ live[id] # NoJob
        /\ missing' = missing \ {id}
        /\ UNCHANGED <<rec, faults>>
     \/ /\ live[id] = NoJob /\ id \notin missing
        /\ missing' = missing \cup {id}
        /\ UNCHANGED <<rec, faults>>
     \/ /\ live[id] = NoJob /\ id \in missing
        /\ missing' = missing \ {id}
        /\ Try(recorded)
        /\ rec' = IF recorded THEN SetYtdlState(id, "failed", "generic", TRUE) ELSE rec
  /\ UNCHANGED <<issued, accounts, job, pc, live, held, handlers, saved, told>>

\* resolveExpansions for one group that has no enumeration worker in the listing.
ExpandStart(g, created) ==
  /\ pc = "expand" /\ Take(g)
  /\ live[g] = NoJob
  /\ Try(created)
  /\ IF created
     THEN /\ job' = IF job[g] # NoJob THEN job
                    ELSE [job EXCEPT ![g] = [kind |-> "expand", phase |-> "pending",
                                             key |-> NoKey, why |-> ""]]
          /\ UNCHANGED rec
     ELSE /\ rec' = SetYtdlState(g, "failed", "other", TRUE)
          /\ UNCHANGED job
  /\ UNCHANGED <<issued, accounts, pc, live, held, missing, handlers, saved, told>>

\* The enumeration failed, so the request did.
ExpandFailed(g, deleted) ==
  /\ pc = "expand" /\ Take(g)
  /\ live[g].phase = "failed"
  /\ Try(deleted)
  /\ rec' = SetYtdlState(g, "failed", "other", TRUE)
  /\ DeleteJob(g, deleted)
  /\ UNCHANGED <<issued, accounts, pc, live, held, missing, handlers, saved, told>>

ExpandPending(g) ==
  /\ pc = "expand" /\ Take(g)
  /\ live[g].phase \in {"pending", "running"}
  /\ UNCHANGED <<store, job, pc, live, held, missing, handlers, faults, saved, told>>

\* expandInto, when the output could not be read: the job is left where it is.
ExpandUnreadable(g) ==
  /\ pc = "expand" /\ Take(g)
  /\ live[g].phase = "succeeded"
  /\ Try(job[g] = NoJob)
  /\ rec' = SetYtdlState(g, "failed", "other", TRUE)
  /\ UNCHANGED <<issued, accounts, job, pc, live, held, missing, handlers, saved, told>>

\* Items that all take the number the transaction began with.
NewItemNotCounted(g, key, seq) ==
  [kind |-> "item", user |-> rec[g].user, key |-> key, parent |-> g, state |-> "queued",
   reason |-> "", attempts |-> 1, seq |-> NextSeq, finished |-> "absent"]

NewItem(g, key, seq) ==
  [kind |-> "item", user |-> rec[g].user, key |-> key, parent |-> g, state |-> "queued",
   reason |-> "", attempts |-> 1, seq |-> seq, finished |-> "absent"]

\* CreateYtdlItems: the items and the group's way out of resolving, in one transaction.
CreateYtdlItems(g, place) ==
  [id \in Ids |->
     IF id = g /\ rec[g].state = "resolving" THEN [rec[g] EXCEPT !.state = "downloading"]
     ELSE IF \E key \in DOMAIN place : id = issued + place[key]
     THEN LET key == CHOOSE key \in DOMAIN place : id = issued + place[key]
          IN  NewItem(g, key, NextSeq + place[key] - 1)
     ELSE rec[id]]

\* expandInto, when the entries were read: one queued item for each that is not known to be
\* held already.  The entries, and the order they come in, are the source's.
ExpandInto(g, entries, known, deleted) ==
  LET fresh == {key \in entries : known => ~AlreadyHeld(key)}
      n     == Cardinality(fresh)
  IN  /\ pc = "expand" /\ Take(g)
      /\ live[g].phase = "succeeded" /\ job[g] # NoJob
      /\ issued + n <= MaxRequests /\ NextSeq + n <= MaxSeq + 1
      /\ \/ /\ Exists(g)
            /\ \E place \in [fresh -> 1..n] :
                 /\ \A k, l \in fresh : place[k] = place[l] => k = l
                 /\ rec' = CreateYtdlItems(g, place)
            /\ issued' = issued + n
            /\ Try(known /\ deleted)
            /\ DeleteJob(g, deleted)
         \/ \* The group is gone and its items have nowhere to hang: nothing is inserted.
            /\ ~Exists(g)
            /\ Try(known /\ deleted)
            /\ DeleteJob(g, deleted /\ fresh = {})
            /\ UNCHANGED <<rec, issued>>
         \/ \* The transaction failed: the group stays resolving.
            /\ Exists(g) /\ known /\ deleted
            /\ Try(FALSE)
            /\ UNCHANGED <<rec, issued, job>>
      /\ UNCHANGED <<accounts, pc, live, held, missing, handlers, saved, told>>

\* retryRefused: a due refusal joins the back of the queue.
RetryStep(id) ==
  /\ pc = "retry" /\ Take(id)
  /\ NextSeq <= MaxSeq
  /\ rec' = RequeueYtdl(id)
  /\ told' = IF rec[id].state = "failed" THEN [told EXCEPT ![id] = "none"] ELSE told
  /\ UNCHANGED <<issued, accounts, job, pc, live, held, missing, handlers, faults, saved>>

\* A verdict that calls a group saved as soon as anything in it was.
GroupVerdictLenient(g) ==
  IF \A i \in Items(g) : rec[i].state = "failed"
  THEN [rec[g] EXCEPT !.state = "failed", !.reason = "other"]
  ELSE [rec[g] EXCEPT !.state = "completed", !.reason = ""]

\* What a group's items add up to, once none of them can still change by itself.
GroupVerdict(g) ==
  IF \E i \in Items(g) : rec[i].state = "failed"
  THEN [rec[g] EXCEPT !.state = "failed", !.reason = "other"]
  ELSE [rec[g] EXCEPT !.state = "completed", !.reason = ""]

\* refreshGroups for one group, up to the decision.
GroupCount(g) ==
  LET unsettled == \E i \in Items(g) : ~Final(rec[i].state) \/ AwaitingRetry(i)
      verdict   == GroupVerdict(g)
      same      == verdict.state = rec[g].state /\ verdict.reason = rec[g].reason
  IN  /\ pc = "groups" /\ Take(g)
      /\ rec' = IF unsettled /\ Final(rec[g].state) THEN ReopenYtdlGroup(g) ELSE rec
      /\ held' = IF Items(g) = {} \/ unsettled \/ same THEN held
                 ELSE [id |-> g, row |-> verdict]
      /\ UNCHANGED <<issued, accounts, job, pc, live, missing, handlers, faults, saved, told>>

\* The rest of refreshGroups: write the ending and announce the group.
GroupWrite(recorded) ==
  LET g == held.id
  IN  /\ pc = "groups" /\ g # 0
      /\ Try(recorded)
      /\ held' = Nothing
      /\ IF recorded
         THEN /\ rec' = SetYtdlState(g, held.row.state, held.row.reason, TRUE)
              /\ told' = Announce(g, "group", held.row.state)
         ELSE /\ rec' = IF Final(rec[g].state) THEN ReopenYtdlGroup(g) ELSE rec
              /\ UNCHANGED told
      /\ UNCHANGED <<issued, accounts, job, pc, live, todo, missing, handlers, saved>>

\* sweepDismissed: a finished worker nobody's row belongs to.
SweepStep(id, deleted) ==
  /\ pc = "sweep" /\ Take(id)
  /\ deleted \/ ~Exists(id)
  /\ Try(deleted)
  /\ DeleteJob(id, deleted /\ ~Exists(id))
  /\ UNCHANGED <<store, pc, live, held, missing, handlers, saved, told>>

\* admitQueued for one chosen row: claim the slot before creating the job.
AdmitClaim(id) ==
  /\ pc = "admit" /\ Take(id)
  /\ rec' = MarkYtdlAdmitted(id)
  /\ held' = IF rec[id] = rec'[id] THEN held ELSE [id |-> id, row |-> rec[id]]
  /\ UNCHANGED <<issued, accounts, job, pc, live, missing, handlers, faults, saved, told>>

\* startYtdlJob: a name that is taken counts as started.
AdmitCreate(created) ==
  LET id == held.id
  IN  /\ pc = "admit" /\ id # 0
      /\ Try(created)
      /\ held' = Nothing
      /\ IF created
         THEN /\ job' = IF job[id] # NoJob THEN job
                        ELSE [job EXCEPT ![id] = [kind |-> "download", phase |-> "pending",
                                                  key |-> held.row.key, why |-> ""]]
              /\ UNCHANGED rec
         ELSE /\ rec' = SetYtdlState(id, "failed", "other", TRUE)
              /\ UNCHANGED job
      /\ UNCHANGED <<issued, accounts, pc, live, todo, missing, handlers, saved, told>>

-----------------------------------------------------------------------------
\* The request handlers.

\* handleYtdlSubmit up to the duplicate check, which reads the store; no answer is no duplicate.
SubmitCheck(u, key, read) ==
  /\ u \in accounts /\ submits[u] = NoKey
  /\ read => ~InFlight(key)
  /\ Try(read)
  /\ submits' = [submits EXCEPT ![u] = key]
  /\ UNCHANGED <<store, job, reconciler, viewer, retries, saved, told>>

\* The rest of handleYtdlSubmit: the link has been described, and the row is recorded.
SubmitRecord(u) ==
  LET id  == issued + 1
      key == submits[u]
  IN  /\ key # NoKey
      /\ submits' = [submits EXCEPT ![u] = NoKey]
      /\ IF u \in accounts
         THEN /\ issued < MaxRequests /\ NextSeq <= MaxSeq
              /\ issued' = id
              /\ rec' = [rec EXCEPT ![id] =
                   [kind |-> IF key \in Lists THEN "group" ELSE "single", user |-> u, key |-> key,
                    parent |-> 0, state |-> IF key \in Lists THEN "resolving" ELSE "queued",
                    reason |-> "", attempts |-> 1, seq |-> NextSeq, finished |-> "absent"]]
         ELSE UNCHANGED <<rec, issued>>
      /\ UNCHANGED <<accounts, job, reconciler, viewer, retries, faults, saved, told>>

\* handleYtdlList, handleYtdlDetail and handleYtdlItems show rows: first they are read ...
ViewRead(p, id) ==
  /\ viewer[p] = NotViewing
  /\ rec[id].kind \in {"single", "item"}
  /\ viewer' = [viewer EXCEPT ![p] = [id |-> id, row |-> rec[id], job |-> NoJob]]
  /\ UNCHANGED <<store, job, reconciler, submits, retries, faults, saved, told>>

\* ... then the jobs are listed; a row without a finished worker is only shown ...
ViewJobs(p) ==
  LET j == job[viewer[p].id]
  IN  /\ viewer[p] # NotViewing /\ viewer[p].job = NoJob
      /\ viewer' = [viewer EXCEPT ![p] = IF j.kind = "download" /\ Terminal(j)
                                         THEN [@ EXCEPT !.job = j] ELSE NotViewing]
      /\ UNCHANGED <<store, job, reconciler, submits, retries, faults, saved, told>>

\* ... and one that has finished is recorded on observation.
ViewCapture(p, recorded) ==
  LET id     == viewer[p].id
      row    == viewer[p].row
      state  == StateOf(viewer[p].job)
      reason == IF state = "failed" THEN FailureReason(viewer[p].job) ELSE ""
  IN  /\ viewer[p].job # NoJob
      /\ recorded \/ row.state # state
      /\ Try(recorded)
      /\ viewer' = [viewer EXCEPT ![p] = NotViewing]
      /\ IF recorded
         THEN /\ rec' = CaptureTerminal(id, row, state, reason)
              /\ told' = CaptureTold(id, row, state, reason)
         ELSE UNCHANGED <<rec, told>>
      /\ UNCHANGED <<issued, accounts, job, reconciler, submits, retries, saved>>

\* handleYtdlRetry (and each failed item of a group's retry): the row goes back to the queue ...
Retry(id) ==
  /\ rec[id].kind \in {"single", "item"} /\ rec[id].state = "failed"
  /\ rec[id].attempts < MaxAttempts /\ NextSeq <= MaxSeq
  /\ rec' = RequeueYtdl(id)
  /\ told' = [told EXCEPT ![id] = "none"]
  /\ retries' = retries \cup {id}
  /\ UNCHANGED <<issued, accounts, job, reconciler, viewer, submits, faults, saved>>

\* ... and then the job of the attempt before is removed by name.
RetryDelete(id, deleted) ==
  /\ id \in retries
  /\ retries' = retries \ {id}
  /\ Try(deleted)
  /\ DeleteJob(id, deleted)
  /\ UNCHANGED <<store, reconciler, viewer, submits, saved, told>>

\* A dismissal that takes the worker with it, whatever it is doing.
DismissKilling(id, deleted) ==
  /\ Exists(id)
  /\ deleted \/ job[id] # NoJob
  /\ Try(deleted)
  /\ rec' = DeleteYtdlDownload(id)
  /\ DeleteJob(id, deleted)
  /\ UNCHANGED <<issued, accounts, reconciler, handlers, saved, told>>

\* handleYtdlDismiss: the row and, for a group, its items go at once; a finished job of its
\* own goes with it, a running worker is left to finish.
Dismiss(id, deleted) ==
  /\ Exists(id)
  /\ deleted \/ Terminal(job[id])
  /\ Try(deleted)
  /\ rec' = DeleteYtdlDownload(id)
  /\ DeleteJob(id, deleted /\ Terminal(job[id]))
  /\ UNCHANGED <<issued, accounts, reconciler, handlers, saved, told>>

\* handleDeleteUser: ON DELETE SET NULL leaves the rows behind.
DeleteAccount(u) ==
  /\ u \in accounts
  /\ accounts' = accounts \ {u}
  /\ rec' = [id \in Ids |-> IF rec[id].user = u THEN [rec[id] EXCEPT !.user = NoUser] ELSE rec[id]]
  /\ UNCHANGED <<issued, job, reconciler, handlers, faults, saved, told>>

-----------------------------------------------------------------------------
\* The cluster, time, and a restart of the server.

JobStart(id) ==
  /\ job[id].phase = "pending"
  /\ job' = [job EXCEPT ![id].phase = "running"]
  /\ UNCHANGED <<store, reconciler, handlers, faults, saved, told>>

JobSucceed(id) ==
  /\ job[id].phase = "running"
  /\ job' = [job EXCEPT ![id].phase = "succeeded"]
  /\ saved' = IF job[id].kind = "download" THEN saved \cup {id} ELSE saved
  /\ UNCHANGED <<store, reconciler, handlers, faults, told>>

\* BackoffLimit is 0 and there is a deadline: a worker that does not succeed fails, once.
JobFail(id, why) ==
  /\ job[id].phase \in {"pending", "running"}
  /\ job' = [job EXCEPT ![id].phase = "failed", ![id].why = why]
  /\ UNCHANGED <<store, reconciler, handlers, faults, saved, told>>

\* The cluster's own sweep of a finished job (its TTL), or a job it loses.
JobGone(id) ==
  /\ job[id] # NoJob
  /\ Try(FALSE)
  /\ job' = [job EXCEPT ![id] = NoJob]
  /\ UNCHANGED <<store, reconciler, handlers, saved, told>>

\* The cool-down before an automatic retry has passed.
CoolDown(id) ==
  /\ AwaitingRetry(id) /\ rec[id].finished = "recent"
  /\ rec' = [rec EXCEPT ![id].finished = "past"]
  /\ UNCHANGED <<issued, accounts, job, reconciler, handlers, faults, saved, told>>

\* The process ends wherever it is; the store and the cluster survive.
Restart ==
  /\ Try(FALSE)
  /\ pc' = "idle" /\ todo' = {} /\ held' = Nothing /\ missing' = {}
  /\ live' = [id \in Ids |-> NoJob]
  /\ viewer' = [p \in Pages |-> NotViewing]
  /\ submits' = [u \in Users |-> NoKey]
  /\ retries' = {}
  /\ UNCHANGED <<store, job, saved, told>>

-----------------------------------------------------------------------------
Reconcile ==
  \/ CycleBegin
  \/ \E read \in BOOLEAN : PhaseEnd(read)
  \/ \E id \in Ids : Skip(id)
  \/ \E id \in Ids : CaptureRead(id)
  \/ \E heard, recorded, deleted \in BOOLEAN : CaptureWrite(heard, recorded, deleted)
  \/ \E id \in Ids, recorded \in BOOLEAN : VanishStep(id, recorded)
  \/ \E g \in Ids, created \in BOOLEAN : ExpandStart(g, created)
  \/ \E g \in Ids, deleted \in BOOLEAN : ExpandFailed(g, deleted)
  \/ \E g \in Ids : ExpandPending(g)
  \/ \E g \in Ids : ExpandUnreadable(g)
  \/ \E g \in Ids, entries \in SUBSET Videos, known, deleted \in BOOLEAN :
       ExpandInto(g, entries, known, deleted)
  \/ \E id \in Ids : RetryStep(id)
  \/ \E g \in Ids : GroupCount(g)
  \/ \E recorded \in BOOLEAN : GroupWrite(recorded)
  \/ \E id \in Ids, deleted \in BOOLEAN : SweepStep(id, deleted)
  \/ \E id \in Ids : AdmitClaim(id)
  \/ \E created \in BOOLEAN : AdmitCreate(created)

Serve ==
  \/ \E u \in Users : SubmitRecord(u)
  \/ \E p \in Pages : ViewJobs(p)
  \/ \E p \in Pages, recorded \in BOOLEAN : ViewCapture(p, recorded)
  \/ \E id \in Ids, deleted \in BOOLEAN : RetryDelete(id, deleted)

Request ==
  \/ \E u \in Users, key \in Links, read \in BOOLEAN : SubmitCheck(u, key, read)
  \/ \E p \in Pages, id \in Ids : ViewRead(p, id)
  \/ \E id \in Ids : Retry(id)
  \/ \E id \in Ids, deleted \in BOOLEAN : Dismiss(id, deleted)
  \/ \E u \in Users : DeleteAccount(u)

JobEnd(id) == JobSucceed(id) \/ \E why \in Causes : JobFail(id, why)

Cluster ==
  \/ \E id \in Ids : JobStart(id)
  \/ \E id \in Ids : JobEnd(id)
  \/ \E id \in Ids : JobGone(id)
  \/ \E id \in Ids : CoolDown(id)
  \/ Restart

Next == Reconcile \/ Serve \/ Request \/ Cluster

Spec == Init /\ [][Next]_vars

(***************************************************************************)
(* The reconciler's ticker keeps it going (a cycle runs every three        *)
(* seconds and nothing in it is fatal), a handler that has started         *)
(* finishes, the cluster starts and ends every worker (each job has an     *)
(* activeDeadlineSeconds), and time passes.  No user has to do anything.   *)
(***************************************************************************)
Fairness ==
  /\ WF_vars(Reconcile)
  /\ WF_vars(Serve)
  /\ \A id \in Ids : WF_vars(JobEnd(id) \/ JobStart(id)) /\ WF_vars(CoolDown(id))

FairSpec == Spec /\ Fairness

-----------------------------------------------------------------------------
\* Every variable holds a value of its kind (the columns of ytdl_downloads, the fields of a Job).
TypeOK ==
  /\ rec \in [Ids -> Row]
  /\ issued \in 0..MaxRequests
  /\ accounts \subseteq Users
  /\ job \in [Ids -> Job]
  /\ pc \in {"idle", "capture", "vanish", "expand", "retry", "groups", "sweep", "admit"}
  /\ live \in [Ids -> Job]
  /\ todo \subseteq Ids
  /\ held \in Held
  /\ missing \subseteq Ids
  /\ viewer \in [Pages -> View]
  /\ submits \in [Users -> Keys \cup {NoKey}]
  /\ retries \subseteq Ids
  /\ faults \in Nat
  /\ saved \subseteq Ids
  /\ told \in [Ids -> {"none", "completed", "failed"}]

(***************************************************************************)
(* Never more downloads are recorded as running than the limit allows,     *)
(* although admitQueued counts once and then claims its slots one by one   *)
(* while handlers change the rows it chose (FR-021).                       *)
(***************************************************************************)
SlotLimit == Cardinality(Running) <= Limit

(***************************************************************************)
(* queue_seq tells the rows apart, although MAX + 1 may hand out a number  *)
(* again after a dismissal: Admit's sorts and the cursor of ListYtdlItems  *)
(* both rest on it.                                                        *)
(***************************************************************************)
QueueSeqUnique ==
  \A a, b \in Ids : Exists(a) /\ Exists(b) /\ rec[a].seq = rec[b].seq => a = b

(***************************************************************************)
(* A row says completed only if a worker of that request finished          *)
(* successfully, and a group only if one did for each of its items: the    *)
(* one outcome 0012 FR-018 forbids, whoever writes it and however stale    *)
(* what they read (captureTerminal, refreshGroups).                        *)
(***************************************************************************)
NeverClaimsUnsaved ==
  \A id \in Ids : rec[id].state = "completed" =>
    IF rec[id].kind = "group" THEN Items(id) \subseteq saved ELSE id \in saved

(***************************************************************************)
(* No item outlives its group: a group dismissed while its expansion is    *)
(* being written leaves nothing behind that could still start (FR-005b).   *)
(***************************************************************************)
NoOrphanItems ==
  \A id \in Ids : rec[id].kind = "item" =>
    /\ rec[id].parent \in Ids /\ rec[rec[id].parent].kind = "group"
    /\ rec[rec[id].parent].state # "resolving"

\* A step removed the worker that carried the name `id`.
Removed(id) == job[id] # NoJob /\ job'[id] = NoJob

(***************************************************************************)
(* No worker is stranded mid-write by the reconciler or by a dismissal: a  *)
(* job that has not ended is removed only by the cluster losing it, or by  *)
(* the retry handler's deletion by name (FR-005b, sweepDismissed).         *)
(***************************************************************************)
NoWorkerStranded ==
  [][\A id \in Ids : Removed(id) /\ ~Terminal(job[id]) =>
        JobGone(id) \/ id \in retries \ retries']_vars

(***************************************************************************)
(* The job is the only evidence of how a download ended: while its row     *)
(* still says running, it is removed only in the step that records the     *)
(* ending (captureFinished, "Only once RECORDED").                         *)
(***************************************************************************)
EvidenceKept ==
  [][\A id \in Ids : Removed(id) /\ Terminal(job[id]) /\ id \in Running =>
        \/ Final(rec'[id].state) \/ rec'[id] = NoRow
        \/ JobGone(id) \/ id \in retries \ retries']_vars

\* What the slots look like to somebody who knows nothing of rows, jobs or cycles.
Slots == INSTANCE DownloadSlots
           WITH waiting <- {id \in Ids : rec[id].state = "queued"}, running <- Running

(***************************************************************************)
(* Only an admission ever puts a download into a slot, only one that was   *)
(* waiting, and only when a slot is free: module DownloadSlots.            *)
(***************************************************************************)
KeepsSlots == Slots!Spec

\* A group that was expanded into nothing: refreshGroups passes over it.
Empty(g) == rec[g].kind = "group" /\ rec[g].state # "resolving" /\ Items(g) = {}

Unsettled(id) == Exists(id) /\ ~Final(rec[id].state)

(***************************************************************************)
(* Nothing sits forever in resolving, queued, scheduled or downloading     *)
(* (FR-013d), whatever happens to its worker - apart from a row whose      *)
(* account was deleted and a group without items, which the next two       *)
(* properties are about.                                                   *)
(***************************************************************************)
Settles ==
  \A id \in Ids : Unsettled(id) ~>
    ~Unsettled(id) \/ Empty(id) \/ \E i \in Items(id) \cup {id} : Unsettled(i) /\ rec[i].user = NoUser

(***************************************************************************)
(* "An expansion that found NOTHING new is a success" (CreateYtdlItems),   *)
(* so its group reaches a final state (FR-013d).                           *)
(***************************************************************************)
EmptyGroupSettles == \A id \in Ids : Empty(id) /\ Unsettled(id) ~> ~Unsettled(id)

(***************************************************************************)
(* A download whose account was deleted leaves the queue (FR-006d): it     *)
(* does not sit in queued forever (FR-013d).                               *)
(***************************************************************************)
OrphanSettles ==
  \A id \in Ids : rec[id].kind = "single" /\ Unsettled(id) /\ rec[id].user = NoUser ~> ~Unsettled(id)

(***************************************************************************)
(* A group's ending agrees with its items in the end, whoever retried or   *)
(* recorded them while it was being decided (refreshGroups, "Correcting a  *)
(* stale ending").                                                         *)
(***************************************************************************)
GroupsAgree ==
  \A g \in Ids : rec[g].kind = "group" /\ Final(rec[g].state) /\ Items(g) # {} ~>
    \/ rec[g].kind # "group" \/ ~Final(rec[g].state) \/ Items(g) = {}
    \/ rec[g].state = GroupVerdict(g).state

(***************************************************************************)
(* A finished download's job goes, so the listing every cycle starts with  *)
(* cannot grow without end (captureFinished and sweepDismissed, spec 2034).*)
(***************************************************************************)
FinishedJobsGo == \A id \in Ids : job[id].kind = "download" /\ Terminal(job[id]) ~> job[id] = NoJob

\* The workers that are writing into a library.
Workers == {id \in Ids : job[id].kind = "download" /\ job[id].phase \in {"pending", "running"}}

(***************************************************************************)
(* "Two workers writing one folder concurrently is the failure this        *)
(* prevents" (handleYtdlSubmit): one worker for each (video, mode).        *)
(***************************************************************************)
OneWorkerPerVideo == \A a, b \in Workers : job[a].key = job[b].key => a = b

(***************************************************************************)
(* The only way on from queued is to be scheduled (FR-013c): a download    *)
(* that was sent back to the queue is not failed by the attempt before.    *)
(***************************************************************************)
QueuedIsThenScheduled ==
  [][\A id \in Ids : rec[id].state = "queued" =>
        rec'[id].state \in {"queued", "scheduled", "none"}]_vars

(***************************************************************************)
(* A failure that is about to be retried is not announced: "Telling        *)
(* somebody it failed now would be followed by telling them it saved"      *)
(* (captureTerminal).                                                      *)
(***************************************************************************)
NoFalseAlarm == \A id \in Ids : AwaitingRetry(id) => told[id] # "failed"

(***************************************************************************)
(* "A finished job is safe to remove; nothing is running to strand"        *)
(* (handleYtdlRetry): the deletion that follows a retry finds no worker    *)
(* that has not ended.                                                     *)
(***************************************************************************)
RetryStrandsNoWorker ==
  [][\A id \in retries \ retries' : job[id] # NoJob /\ job'[id] = NoJob => Terminal(job[id])]_vars
=============================================================================
