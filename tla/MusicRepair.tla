----------------------------- MODULE MusicRepair -----------------------------
(***************************************************************************)
(* The music library repair.  An administrator starts a check, an apply or *)
(* an undo (api/music_repair_handlers.go); the run is a row that holds the *)
(* single slot (store/music_repairs.go) and a Job of the cluster; the      *)
(* reconciler's tick and the page read the Job's ending and its report     *)
(* into the row (api/music_repair_reconcile.go); what may be asked for     *)
(* next is derived from the rows (musicrepair/state.go).  The worker       *)
(* carries a plan out under a lock and a journal on the share              *)
(* (scripts/music_repair/applier.py).                                      *)
(*                                                                         *)
(* A plan is the number of the check that made it, and has one song: its   *)
(* tags are rewritten and it is moved.  Plans do not overlap.  The         *)
(* history's limit of fifty and runs from the command line are left out.   *)
(***************************************************************************)
EXTENDS Integers, FiniteSets

CONSTANTS Reqs,    \* administrators' requests in flight
          Tick,    \* the reconciler's tick
          Pages,   \* pages that ask for the snapshot
          MaxRuns, \* bound: runs
          MaxTurns \* bound: kills, answers of the cluster that go astray, restarts

\* The first two runs are the past a behaviour starts from.
ASSUME MusicRepairAssumption == MaxRuns \in Nat /\ MaxRuns >= 2 /\ MaxTurns \in Nat

Ids     == 1..MaxRuns
Syncers == {Tick} \cup Pages

VARIABLES
  rows,    \* music_repairs
  expired, \* checks that finished a day ago
  late,    \* runs that started StartGrace ago
  next,    \* the next run's number
  req,     \* requests
  sync,    \* readings under way
  image,   \* repairState.image: what the server knows of the image it runs
  job,     \* the Jobs: where their worker is, how it ended, what it reported
  song,    \* by plan: its tags and its place
  log,     \* by plan: the journal
  lock,    \* .repair/lock: 0, or the run that took it
  turns,
  astray,  \* history: plans of runs whose creation was answered with an error although it was done
  gap      \* history: plans whose worker was killed between a move and its journal line

server == <<rows, expired, late, next, req, sync, image>>
share  == <<song, log, lock>>
hist   == <<astray, gap>>
vars   == <<server, job, share, turns, hist>>

States    == {"none", "running", "finished", "refused", "unfinished"}
Sums      == {"none", "ok", "failed", "refused"}  \* the report: its OK, and its reason if not
NoRow     == [kind |-> "none", plan |-> 0, state |-> "none", sum |-> "none"]
NoLog     == [tag |-> "", was |-> "", move |-> ""]
NoJob     == [pc |-> "none", kind |-> "none", plan |-> 0, saw |-> NoLog, out |-> "none"]
FreeReq   == [pc |-> "idle", kind |-> "none", plan |-> 0, id |-> 0]
FreeSync  == [id |-> 0, to |-> "none", sum |-> "none"]
Untouched == [tag |-> "old", at |-> "src"]
Turn      == turns < MaxTurns /\ turns' = turns + 1

-----------------------------------------------------------------------------
\* musicrepair/state.go: what the rows allow.  Rows are numbered in the order they started.
Active == \E i \in Ids : rows[i].state = "running"

Newest(S) == IF S = {} THEN 0 ELSE CHOOSE i \in S : \A j \in S : j <= i

Check(p)         == rows[p].kind = "check" /\ rows[p].state = "finished" /\ rows[p].sum = "ok"
AppliedEffect(p) == Newest({i \in Ids : /\ rows[i].kind = "apply" /\ rows[i].plan = p
                                        /\ rows[i].state \in {"finished", "unfinished"}})
UndoneAfter(p, since) == \E i \in Ids : /\ i >= since
                                        /\ rows[i].kind = "undo" /\ rows[i].plan = p
                                        /\ rows[i].state = "finished" /\ rows[i].sum = "ok"
CleanApply(i) == rows[i].state = "finished" /\ rows[i].sum = "ok"

CheckApply(p) ==
  /\ ~Active /\ Check(p)
  /\ LET e == AppliedEffect(p) IN
     IF e # 0 THEN ~UndoneAfter(p, e) /\ ~CleanApply(e) ELSE p \notin expired
CheckUndo(p) ==
  /\ ~Active
  /\ LET e == AppliedEffect(p) IN e # 0 /\ ~UndoneAfter(p, e)

\* What the page offers.  DerivePlan: of the newest good check; DeriveUndo: of the newest apply
\* that left anything behind, and of none if that one is undone.
NewestCheck == Newest({i \in Ids : Check(i)})
PlanStatus(p) ==
  LET e == AppliedEffect(p) IN
  CASE \E i \in Ids : rows[i] = [NoRow EXCEPT !.kind = "apply", !.plan = p, !.state = "running"]
                                    -> "applying"
    [] e # 0 /\ UndoneAfter(p, e)   -> "undone"
    [] e # 0 /\ ~UndoneAfter(p, e)  -> IF CleanApply(e) THEN "applied" ELSE "apply_unfinished"
    [] p \in expired                -> "expired"
    [] OTHER                        -> "ready"
DerivePlan ==
  LET p == NewestCheck IN
  IF p # 0 /\ ~Active /\ PlanStatus(p) \in {"ready", "apply_unfinished"} THEN {p} ELSE {}
DeriveUndo ==
  LET last == Newest({i \in Ids : /\ rows[i].kind = "apply"
                                  /\ rows[i].state \in {"finished", "unfinished"}})
  IN IF last = 0 \/ Active \/ UndoneAfter(rows[last].plan, last) THEN {} ELSE {rows[last].plan}

\* JobPhase, of what a listing shows.
Ended(i) == job[i].pc \in {"succeeded", "failed"}
Live(i)  == job[i].pc \notin {"none", "swept"} /\ ~Ended(i)
JobPhase(i) == IF job[i].pc \in {"none", "swept"} THEN "missing"
               ELSE IF Ended(i) THEN job[i].pc ELSE "running"

\* Mutant: a run without a Job is waited for.
NextStateWaits(i, phase, sum) ==
  CASE phase \in {"running", "missing"} -> "running"
    [] OTHER -> IF sum = "refused" THEN "refused" ELSE "finished"

\* Mutant: without a report, nothing was done.
NextStateDeclined(i, phase, sum) ==
  CASE phase = "running" -> "running"
    [] phase = "missing" -> IF i \in late THEN "unfinished" ELSE "running"
    [] OTHER -> IF sum \in {"ok", "failed"} \/ phase = "succeeded" THEN "finished" ELSE "refused"

\* NextState: the report decides, where there is one.
NextState(i, phase, sum) ==
  CASE phase = "running" -> "running"
    [] phase = "missing" -> IF i \in late THEN "unfinished" ELSE "running"
    [] OTHER -> CASE sum = "refused" -> "refused"
                  [] sum = "none"    -> IF phase = "succeeded" THEN "finished" ELSE "unfinished"
                  [] OTHER           -> "finished"

-----------------------------------------------------------------------------
\* selfImage: asked of the cluster once and kept; a failure is kept for imageRetryAfter.  Without
\* it the feature is not available.
Available == image = "known"

SelfImage ==
  /\ image = "unknown"
  /\ \/ image' = "known" /\ UNCHANGED turns
     \/ image' = "failed" /\ Turn
  /\ UNCHANGED <<rows, expired, late, next, req, sync, job, share, hist>>
ImageRetry ==
  /\ image = "failed" /\ image' = "unknown"
  /\ UNCHANGED <<rows, expired, late, next, req, sync, job, share, turns, hist>>

\* startRepair.

Guard(kind, p) == CASE kind = "check" -> ~Active
                    [] kind = "apply" -> CheckApply(p)
                    [] kind = "undo"  -> CheckUndo(p)

StartRepair(r, kind, p) ==
  /\ Available /\ req[r].pc = "idle" /\ next <= MaxRuns
  /\ Guard(kind, p)
  /\ req' = [req EXCEPT ![r] = [pc |-> "list", kind |-> kind, id |-> 0, plan |-> p]]
  /\ UNCHANGED <<rows, expired, late, next, sync, image, job, share, turns, hist>>

HandleCheck(r) == StartRepair(r, "check", 0)
HandleApply(r) == \E p \in Ids : StartRepair(r, "apply", p) \* of one who took a snapshot
HandleUndo(r)  == \E p \in Ids : StartRepair(r, "undo", p)

\* The cluster is asked for a run that goes on.
AskCluster(r) ==
  /\ req[r].pc = "list"
  /\ req' = [req EXCEPT ![r] =
       IF \E i \in Ids : Live(i) THEN FreeReq ELSE [@ EXCEPT !.pc = "insert"]]
  /\ UNCHANGED <<rows, expired, late, next, sync, image, job, share, turns, hist>>

\* StartMusicRepair: the unique index on the running state is the slot.
SlotFree == ~Active
Row(r) == [NoRow EXCEPT !.kind = req[r].kind, !.plan = req[r].plan, !.state = "running"]

StartMusicRepair(r) ==
  /\ req[r].pc = "insert"
  /\ IF next <= MaxRuns /\ SlotFree
     THEN /\ rows' = [rows EXCEPT ![next] = Row(r)] /\ next' = next + 1
          /\ req' = [req EXCEPT ![r].pc = "create", ![r].id = next]
     ELSE req' = [req EXCEPT ![r] = FreeReq] /\ UNCHANGED <<rows, next>>
  /\ UNCHANGED <<expired, late, sync, image, job, share, turns, hist>>

Args(r) == [NoJob EXCEPT !.kind = req[r].kind, !.plan = req[r].plan]
Made(r) == job' = [job EXCEPT ![req[r].id] = [Args(r) EXCEPT !.pc = "start"]]

\* CreateJob: it succeeds, it fails, or it fails as far as the server can tell.
CreateJob(r) ==
  /\ req[r].pc = "create"
  /\ \/ Made(r) /\ req' = [req EXCEPT ![r] = FreeReq] /\ UNCHANGED <<turns, astray>>
     \/ Turn /\ req' = [req EXCEPT ![r].pc = "discard"] /\ UNCHANGED <<job, astray>>
     \/ /\ Turn /\ Made(r) /\ req' = [req EXCEPT ![r].pc = "discard"]
        /\ astray' = astray \cup {req[r].plan}
  /\ UNCHANGED <<rows, expired, late, next, sync, image, share, gap>>

DiscardMusicRepair(r) ==
  /\ req[r].pc = "discard"
  /\ rows' = IF rows[req[r].id].state = "running"
             THEN [rows EXCEPT ![req[r].id] = NoRow] ELSE rows
  /\ req' = [req EXCEPT ![r] = FreeReq]
  /\ UNCHANGED <<expired, late, next, sync, image, job, share, turns, hist>>

-----------------------------------------------------------------------------
\* repairLog: the worker's lines, or nothing when they cannot be read just now.  A worker that
\* was killed has printed its progress only.
Lines(i)     == {"progress"} \cup (IF job[i].out = "none" THEN {} ELSE {job[i].out})
RepairLog(i) == IF Ended(i) THEN {{}, Lines(i)} ELSE {{}}
\* ParseLog, buildSummary: the last line that is a result.
ParseLog(lines) ==
  IF lines \subseteq {"progress"} THEN "none" ELSE CHOOSE s \in Sums : s \in lines

\* syncMusicRepair: the running row, its Job and, of one that ended, its report.  An ending goes
\* on to be written.
Look(y) ==
  /\ sync[y] = FreeSync
  /\ \E i \in Ids : \E lines \in RepairLog(i) :
       LET sum == ParseLog(lines)
           to  == NextState(i, JobPhase(i), sum)
       IN /\ rows[i].state = "running" /\ to # "running"
          /\ sync' = [sync EXCEPT ![y] = [id |-> i, to |-> to, sum |-> sum]]
  /\ UNCHANGED <<rows, expired, late, next, req, image, job, share, turns, hist>>

ReconcileMusicRepairs == Look(Tick)
HandleSnapshot(y)     == Available /\ Look(y)

\* FinishMusicRepair: of a run that is still running.
\* Mutant: of any run.
Record(y) == [rows EXCEPT ![sync[y].id].state = sync[y].to, ![sync[y].id].sum = sync[y].sum]
RecordOnce(y) == IF rows[sync[y].id].state = "running" THEN Record(y) ELSE rows
FinishMusicRepair(y) ==
  /\ sync[y] # FreeSync
  /\ rows' = RecordOnce(y) /\ sync' = [sync EXCEPT ![y] = FreeSync]
  /\ late' = late \ {sync[y].id}
  /\ UNCHANGED <<expired, next, req, image, job, share, turns, hist>>

-----------------------------------------------------------------------------
\* The worker (applier.py).

Goes(i, pc)    == job' = [job EXCEPT ![i].pc = pc]
Ends(i, out)   == job' = [job EXCEPT ![i].pc = IF out = "ok" THEN "succeeded" ELSE "failed",
                                     ![i].out = out]
Settled(entry) == entry \in {"done", "skipped"}
P(i)           == job[i].plan
Locks(i, then) ==
  IF lock # 0 THEN Ends(i, "refused") /\ UNCHANGED lock ELSE Goes(i, then) /\ lock' = i

\* Lock.acquire.  An undo reads the journal before it asks for the lock; the others hold it by then.
Begin(i) ==
  /\ job[i].pc = "start"
  /\ CASE job[i].kind = "check" -> Locks(i, "end")
       [] job[i].kind = "apply" -> Locks(i, "retag")
       [] job[i].kind = "undo"  ->
            /\ IF log[P(i)] = NoLog THEN Ends(i, "refused")
               ELSE job' = [job EXCEPT ![i].pc = "lock", ![i].saw = log[P(i)]]
            /\ UNCHANGED lock
  /\ UNCHANGED <<song, log>>
BeginUndo(i) == job[i].pc = "lock" /\ Locks(i, "unmove") /\ UNCHANGED <<song, log>>

\* do_retag: what is about to be overwritten is journalled first.  A run that finds its own tags
\* takes what they replaced from that line; a song that is not where it was is left alone.
\* Mutant: what the song carries now.
BegunNot(i)  == FALSE
Begun(i)     == log[P(i)].tag = "started" /\ song[P(i)].tag = "new"
Retag(i) ==
  /\ job[i].pc = "retag"
  /\ IF Settled(log[P(i)].tag) THEN Goes(i, "move") /\ UNCHANGED log
     ELSE IF song[P(i)].at # "src"
          THEN Goes(i, "move") /\ log' = [log EXCEPT ![P(i)].tag = "skipped"]
     ELSE IF Begun(i) THEN Goes(i, "move") /\ log' = [log EXCEPT ![P(i)].tag = "done"]
     ELSE /\ Goes(i, "write")
          /\ log' = [log EXCEPT ![P(i)].tag = "started", ![P(i)].was = song[P(i)].tag]
  /\ UNCHANGED <<song, lock>>
WriteTags(i) ==
  /\ job[i].pc = "write" /\ Goes(i, "tagged")
  /\ song' = [song EXCEPT ![P(i)].tag = "new"] /\ UNCHANGED <<log, lock>>
Tagged(i) ==
  /\ job[i].pc = "tagged" /\ Goes(i, "move")
  /\ log' = [log EXCEPT ![P(i)].tag = "done"] /\ UNCHANGED <<song, lock>>

\* do_move: renamed first, journalled after.  A destination that exists is a failure of the step.
Move(i) ==
  /\ job[i].pc = "move"
  /\ IF Settled(log[P(i)].move) THEN Goes(i, "end") /\ UNCHANGED <<song, log, lock>>
     ELSE IF song[P(i)].at # "src"
          THEN /\ Goes(i, "end") /\ log' = [log EXCEPT ![P(i)].move = "skipped"]
               /\ UNCHANGED <<song, lock>>
     ELSE \/ Goes(i, "moved") /\ song' = [song EXCEPT ![P(i)].at = "dst"] /\ UNCHANGED <<log, lock>>
          \/ Ends(i, "failed") /\ lock' = 0 /\ UNCHANGED <<song, log>>
Moved(i) ==
  /\ job[i].pc = "moved" /\ Goes(i, "end")
  /\ log' = [log EXCEPT ![P(i)].move = "done"] /\ UNCHANGED <<song, lock>>

\* restore: the journal it read, last line first, an edit that only started included.
\* Mutant: the finished steps only.
ReplayedDone(i) == job[i].saw.tag = "done"
Replayed(i)     == \/ job[i].saw.tag = "done"
                   \/ job[i].saw.tag = "started" /\ song[P(i)].tag = "new"
Unmove(i) ==
  /\ job[i].pc = "unmove" /\ Goes(i, "untag")
  /\ song' = IF job[i].saw.move = "done" THEN [song EXCEPT ![P(i)].at = "src"] ELSE song
  /\ UNCHANGED <<log, lock>>
Untag(i) ==
  /\ job[i].pc = "untag" /\ Goes(i, "end")
  /\ song' = IF Replayed(i) /\ song[P(i)].at = "src"
             THEN [song EXCEPT ![P(i)].tag = job[i].saw.was] ELSE song
  /\ UNCHANGED <<log, lock>>

\* The lock is released, the report printed.
End(i) == job[i].pc = "end" /\ Ends(i, "ok") /\ lock' = 0 /\ UNCHANGED <<song, log>>

Work(i) ==
  /\ \/ Begin(i) \/ BeginUndo(i) \/ Retag(i) \/ WriteTags(i) \/ Tagged(i) \/ Move(i) \/ Moved(i)
     \/ Unmove(i) \/ Untag(i) \/ End(i)
  /\ UNCHANGED <<server, turns, hist>>

-----------------------------------------------------------------------------
\* The cluster, the operator, time.

\* A deadline, an eviction: the lock is released unless the worker had no time for it.
Kill(i) ==
  /\ Live(i) /\ Turn
  /\ Ends(i, "none") /\ \E l \in {lock, 0} : lock' = IF lock = i THEN l ELSE lock
  /\ gap' = IF job[i].pc = "moved" THEN gap \cup {P(i)} ELSE gap
  /\ UNCHANGED <<server, song, log, astray>>

\* The operator removes the lock of a run that is gone.
Unlock ==
  /\ lock # 0 /\ ~Live(lock) /\ lock' = 0
  /\ UNCHANGED <<server, job, song, log, turns, hist>>

\* The cluster sweeps what ended a day ago.
Sweep(i) ==
  /\ Ended(i) /\ rows[i].state = "running" /\ Turn /\ Goes(i, "swept")
  /\ UNCHANGED <<server, share, hist>>

\* StartGrace is as long as the listing and the creation may take together.
GraceOver(i) ==
  /\ rows[i].state = "running" /\ i \notin late /\ \A r \in Reqs : req[r].id # i
  /\ late' = late \cup {i}
  /\ UNCHANGED <<rows, expired, next, req, sync, image, job, share, turns, hist>>

\* FreshSeconds; it does not matter any more once the plan was begun.
Expire(p) ==
  /\ Check(p) /\ p \notin expired /\ AppliedEffect(p) = 0 /\ expired' = expired \cup {p}
  /\ UNCHANGED <<rows, late, next, req, sync, image, job, share, turns, hist>>

Restart ==
  /\ Turn
  /\ req' = [r \in Reqs |-> FreeReq] /\ sync' = [y \in Syncers |-> FreeSync]
  /\ image' = "unknown"
  /\ UNCHANGED <<rows, expired, late, next, job, share, hist>>

\* A first check has been made, and perhaps its plan was begun and the worker killed on the way.
Stage(t, entry) == [song |-> [Untouched EXCEPT !.tag = t],
                    log |-> [NoLog EXCEPT !.tag = entry, !.was = "old"]]
Stages == {[song |-> Untouched, log |-> NoLog],
           Stage("old", "started"), Stage("new", "started"), Stage("new", "done")}

Init ==
  /\ \E begun \in BOOLEAN, stage \in Stages :
       /\ ~begun => stage.song = Untouched /\ stage.log = NoLog
       /\ rows = [i \in Ids |->
            CASE i = 1 -> [NoRow EXCEPT !.kind = "check", !.state = "finished", !.sum = "ok"]
              [] i = 2 /\ begun ->
                   [NoRow EXCEPT !.kind = "apply", !.plan = 1, !.state = "unfinished"]
              [] OTHER -> NoRow]
       /\ song = [p \in Ids |-> IF p = 1 THEN stage.song ELSE Untouched]
       /\ log = [p \in Ids |-> IF p = 1 THEN stage.log ELSE NoLog]
  /\ expired = {} /\ late = {} /\ next = 3
  /\ req = [r \in Reqs |-> FreeReq] /\ sync = [y \in Syncers |-> FreeSync] /\ image = "known"
  /\ job = [i \in Ids |-> NoJob] /\ lock = 0 /\ turns = 0 /\ astray = {} /\ gap = {}

Next ==
  \/ SelfImage \/ ImageRetry
  \/ \E r \in Reqs : \/ HandleCheck(r) \/ HandleApply(r) \/ HandleUndo(r) \/ AskCluster(r) 
                     \/ StartMusicRepair(r) \/ CreateJob(r) \/ DiscardMusicRepair(r)
  \/ ReconcileMusicRepairs
  \/ \E y \in Pages : HandleSnapshot(y)
  \/ \E y \in Syncers : FinishMusicRepair(y)
  \/ \E i \in Ids : Work(i) \/ Kill(i) \/ Sweep(i) \/ GraceOver(i) \/ Expire(i)
  \/ Unlock \/ Restart

Spec == Init /\ [][Next]_vars

\* The reconciler's tick, requests that time out, the cluster running what it accepted, and time.
FairSpec ==
  /\ Spec
  /\ WF_vars(ReconcileMusicRepairs \/ FinishMusicRepair(Tick))
  /\ WF_vars(\E r \in Reqs : CreateJob(r) \/ DiscardMusicRepair(r))
  /\ WF_vars(\E i \in Ids : Work(i)) /\ WF_vars(\E i \in Ids : GraceOver(i))

-----------------------------------------------------------------------------
TypeOK ==
  /\ \A i \in Ids : /\ rows[i].kind \in {"none", "check", "apply", "undo"}
                    /\ rows[i].plan \in 0..MaxRuns
                    /\ rows[i].state \in States /\ rows[i].sum \in Sums
                    /\ rows[i].state \in {"none", "running"} => rows[i].sum = "none"
                    /\ i >= next => rows[i] = NoRow
                    /\ log[i].tag \in {"started", "done"} => log[i].was \in {"old", "new"}
  /\ lock \in 0..MaxRuns /\ late \cup expired \cup astray \cup gap \subseteq Ids \cup {0}

\* What a run's ending was recorded as stays, whichever of the readers comes second.
OutcomeOnce ==
  [][\A i \in Ids :
       rows[i].state \in {"finished", "refused", "unfinished"} => rows'[i] = rows[i]]_vars

\* Whatever a plan has changed can be undone once nothing is running: the rows still say so.  And
\* what the page offers passes the guards of a request.
Changed(p) == song[p] # Untouched
UndoReachable ==
  /\ \A p \in Ids : Changed(p) /\ ~Active /\ p \notin astray \cup gap => CheckUndo(p)
  /\ \A p \in DerivePlan : CheckApply(p)
  /\ \A p \in DeriveUndo : CheckUndo(p)

\* An undo that reports success has put everything back, wherever the workers before it were
\* killed.  (A worker nobody knows of may write the journal the undo has just read.)
UndoIsWhole ==
  [][\A i \in Ids : /\ job[i].kind = "undo" /\ job[i].pc = "end" /\ job'[i].pc = "succeeded"
                    /\ P(i) \notin astray \cup gap
                    => ~Changed(P(i))]_vars

\* Every run comes to an ending: the slot is free again and again.
SlotComesFree == []<>~Active
=============================================================================
