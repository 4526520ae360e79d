-------------------------- MODULE MusicRepairProofs --------------------------
(***************************************************************************)
(* The safety properties of MusicRepair, for any number of runs, requests, *)
(* pages, kills and restarts.                                              *)
(*                                                                         *)
(* Only a running row's worker writes a plan's song and journal, as long   *)
(* as no creation went astray: the slot is what keeps the workers apart,   *)
(* although the row, the Job and the lock are three different things.      *)
(***************************************************************************)
EXTENDS MusicRepair, NaturalsInduction, WellFoundedInduction, TLAPS

Kinds  == {"check", "apply", "undo"}
Closed == {"finished", "refused", "unfinished"}
Entry  == {"", "started", "done", "skipped"}
Log    == [tag : Entry, was : {"", "old", "new"}, move : Entry]
Steps  == {"none", "start", "lock", "retag", "write", "tagged", "move", "moved", "unmove", "untag",
           "end", "succeeded", "failed", "swept"}

\* The forms of the records.
RowForm  == [kind : Kinds \cup {"none"}, plan : 0..MaxRuns, state : States, sum : Sums]
ReqForm  == [pc : {"idle", "list", "insert", "create", "discard"}, kind : Kinds \cup {"none"},
             plan : 0..MaxRuns, id : 0..MaxRuns]
SyncForm == [id : 0..MaxRuns, to : Closed \cup {"none"}, sum : Sums]
JobForm  == [pc : Steps, kind : Kinds \cup {"none"}, plan : 0..MaxRuns, saw : Log, out : Sums]
SongForm == [tag : {"old", "new"}, at : {"src", "dst"}]

Types ==
  /\ rows \in [Ids -> RowForm] /\ expired \subseteq Ids /\ late \subseteq Ids
  /\ next \in Nat \ {0}
  /\ req \in [Reqs -> ReqForm] /\ sync \in [Syncers -> SyncForm]
  /\ image \in {"unknown", "known", "failed"}
  /\ job \in [Ids -> JobForm] /\ song \in [Ids -> SongForm] /\ log \in [Ids -> Log]
  /\ lock \in 0..MaxRuns /\ turns \in Nat
  /\ astray \subseteq 0..MaxRuns /\ gap \subseteq 0..MaxRuns

\* The running row is the newest one, and nothing is ahead of it.
Slot ==
  \A i \in Ids : /\ rows[i].state = "running" => next = i + 1
                 /\ rows[i].state \in {"none", "running"} => rows[i].sum = "none"
                 /\ i >= next => rows[i] = NoRow /\ job[i] = NoJob /\ i \notin late
                 /\ rows[i].kind \in {"apply", "undo"} => rows[i].plan \in Ids

\* A request that has its row creates the one Job of it.
Requests ==
  /\ \A r \in Reqs :
       /\ req[r].pc # "idle" => req[r].kind \in Kinds
       /\ req[r].kind \in {"apply", "undo"} => req[r].plan \in Ids
       /\ req[r].pc \in {"create", "discard"} <=> req[r].id # 0
       /\ req[r].id # 0 => req[r].id < next /\ req[r].id \notin late
       /\ req[r].pc = "create" => /\ rows[req[r].id] = Row(r) /\ job[req[r].id] = NoJob
       /\ req[r].pc = "discard" => \/ job[req[r].id] = NoJob
                                   \/ job[req[r].id].plan \in astray
  /\ \A r, s \in Reqs : req[r].id = req[s].id /\ req[r].id # 0 => r = s

\* A reading of an ending stays true until it is written: its worker is gone, or was never made
\* and never will be.
Quiet(i) == ~Live(i) /\ \A r \in Reqs : req[r].pc = "create" => req[r].id # i
Readings ==
  \A y \in Syncers : sync[y] # FreeSync =>
    /\ sync[y].id \in Ids /\ sync[y].id < next /\ Quiet(sync[y].id)
    /\ sync[y].to \in Closed
    /\ sync[y].to = "refused" => job[sync[y].id].out = "refused"
    /\ sync[y].sum = "ok" => job[sync[y].id].out = "ok"

\* A worker has the row of its plan, and is at work only while the row is running; or the row is
\* discarded, and its creation went astray.
OwnedAt(i) ==
  /\ rows[i].state \in Closed => ~Live(i)
  /\ job[i].out # "none" => ~Live(i)
  /\ job[i].pc \in {"none", "start"} => job[i].out = "none"
  /\ Live(i) => job[i].kind \in Kinds
  /\ job[i].pc = "none" => job[i] = NoJob
  /\ job[i].pc \in {"retag", "write", "tagged", "move", "moved"} => job[i].kind = "apply"
  /\ job[i].pc \in {"lock", "unmove", "untag"} => job[i].kind = "undo"
  /\ job[i].kind \in {"apply", "undo"} => job[i].plan \in Ids
  /\ job[i].pc # "none" =>
       \/ /\ rows[i].kind = job[i].kind /\ rows[i].plan = job[i].plan
          /\ rows[i].state # "none"
       \/ rows[i].state = "none" /\ job[i].plan \in astray
Owned == \A i \in Ids : OwnedAt(i)

Sound(p) == p \notin astray \cup gap

\* A plan's journal says what has become of its song, or its one worker is about to.
JournalAt(p) ==
  /\ log[p].tag # "skipped" /\ log[p].move # "skipped"
  /\ log[p].tag = "" => song[p].tag = "old"
  /\ log[p].tag # "" => log[p].was = "old"
  /\ song[p].at = "dst" => /\ log[p].tag = "done"
                           /\ \/ log[p].move = "done"
                              \/ \E k \in Ids : job[k].pc = "moved" /\ P(k) = p
Journal == \A p \in Ids : Sound(p) => JournalAt(p)

\* Where a worker is, its plan's journal and song are as the steps before have left them.
CourseAt(i) ==
  /\ job[i].pc = "write" => log[P(i)].tag = "started" /\ song[P(i)] = Untouched
  /\ job[i].pc = "tagged" => log[P(i)].tag = "started" /\ song[P(i)].tag = "new"
  /\ job[i].pc \in {"move", "moved"} => log[P(i)].tag = "done"
  /\ job[i].pc \in {"lock", "unmove", "untag"} => job[i].saw = log[P(i)]
  /\ job[i].pc = "untag" => song[P(i)].at = "src"
  /\ job[i].kind = "undo" /\ job[i].pc = "end" => ~Changed(P(i))
  /\ job[i].kind = "undo" /\ job[i].out = "ok" /\ rows[i].state = "running" => ~Changed(P(i))
Course == \A i \in Ids : P(i) \in Ids /\ Sound(P(i)) => CourseAt(i)

\* What a plan has changed is on record: there is an apply that may have done it, and no undo after
\* it that succeeded.
Did(i) == /\ rows[i].kind = "apply"
          /\ \/ rows[i].state \in {"finished", "unfinished"}
             \/ /\ rows[i].state = "running"
                /\ job[i].pc \notin {"none", "start"} /\ job[i].out # "refused"
NotUndone(i, p) == \A u \in Ids : u > i =>
  ~(rows[u].kind = "undo" /\ rows[u].plan = p /\ CleanApply(u))
OnRecord ==
  \A p \in Ids : Sound(p) /\ Changed(p) =>
    \E i \in Ids : rows[i].plan = p /\ Did(i) /\ NotUndone(i, p)

\* A line that says a retag began names what it replaces, even where two workers share a journal.
WellWritten ==
  /\ \A p \in Ids : log[p].tag \in {"started", "done"} => log[p].was # ""
  /\ \A i \in Ids : /\ job[i].saw.tag \in {"started", "done"} => job[i].saw.was # ""
                    /\ job[i].pc \in {"write", "tagged"} => log[P(i)].was # ""

Inv == /\ Types /\ WellWritten /\ Slot /\ Requests /\ Readings /\ Owned
       /\ Journal /\ Course /\ OnRecord

-----------------------------------------------------------------------------
\* Steps of a worker write its own Job, and its own plan's song and journal.

LEMMA RunsExist == /\ Ids \subseteq Nat /\ 0 \notin Ids /\ Ids \subseteq 0..MaxRuns
                   /\ \A i \in Ids : i \in 1..MaxRuns
BY MusicRepairAssumption DEF Ids

LEMMA Constants ==
  /\ NoRow \in RowForm /\ FreeReq \in ReqForm /\ FreeSync \in SyncForm /\ NoLog \in Log
  /\ NoJob \in JobForm /\ Untouched \in SongForm
<1> USE MusicRepairAssumption
<1>1. NoLog \in Log  BY DEF NoLog, Log, Entry
<1>2. NoRow \in RowForm  BY DEF NoRow, RowForm, States, Sums
<1>3. FreeReq \in ReqForm /\ FreeSync \in SyncForm
  BY DEF FreeReq, ReqForm, FreeSync, SyncForm, Sums
<1>4. NoJob \in JobForm  BY <1>1 DEF NoJob, JobForm, Steps, Sums
<1>5. Untouched \in SongForm  BY DEF Untouched, SongForm
<1> QED  BY <1>1, <1>2, <1>3, <1>4, <1>5

LEMMA GoesTo ==
  ASSUME job \in [Ids -> JobForm], NEW i \in Ids, NEW pc \in Steps, Goes(i, pc)
  PROVE  /\ job' \in [Ids -> JobForm]
         /\ job'[i].pc = pc /\ job'[i].kind = job[i].kind /\ job'[i].plan = job[i].plan
         /\ job'[i].saw = job[i].saw /\ job'[i].out = job[i].out
         /\ \A j \in Ids \ {i} : job'[j] = job[j]
<1> DEFINE new == [job[i] EXCEPT !.pc = pc]
<1>1. job[i] \in JobForm  OBVIOUS
<1>2. /\ new \in JobForm /\ new.pc = pc /\ new.kind = job[i].kind
      /\ new.plan = job[i].plan /\ new.saw = job[i].saw /\ new.out = job[i].out
  BY <1>1 DEF JobForm
<1>3. job' = [job EXCEPT ![i] = new]  BY DEF Goes
<1> HIDE DEF new
<1> QED  BY <1>2, <1>3

LEMMA EndsWith ==
  ASSUME job \in [Ids -> JobForm], NEW i \in Ids, NEW out \in Sums, Ends(i, out)
  PROVE  /\ job' \in [Ids -> JobForm]
         /\ job'[i].pc = (IF out = "ok" THEN "succeeded" ELSE "failed")
         /\ job'[i].kind = job[i].kind /\ job'[i].plan = job[i].plan
         /\ job'[i].saw = job[i].saw /\ job'[i].out = out
         /\ \A j \in Ids \ {i} : job'[j] = job[j]
<1> DEFINE pc == IF out = "ok" THEN "succeeded" ELSE "failed"
           new == [job[i] EXCEPT !.pc = pc, !.out = out]
<1>1. job[i] \in JobForm /\ pc \in Steps  BY DEF Steps
<1>2. /\ new \in JobForm /\ new.pc = pc /\ new.kind = job[i].kind
      /\ new.plan = job[i].plan /\ new.saw = job[i].saw /\ new.out = out
  <2> HIDE DEF pc
  <2> QED  BY <1>1 DEF JobForm
<1>3. job' = [job EXCEPT ![i] = new]  BY DEF Ends
<1> HIDE DEF new
<1> QED  BY <1>2, <1>3


\* What every step of a worker leaves as it was, and how it can end.
Stepped(i) ==
  /\ Live(i)
  /\ job' \in [Ids -> JobForm]
  /\ job'[i].kind = job[i].kind /\ job'[i].plan = job[i].plan
  /\ \A j \in Ids \ {i} : job'[j] = job[j]
  /\ job'[i].pc \notin {"none", "start", "swept"}
  /\ \/ Live(i)' /\ job'[i].out = job[i].out
     \/ ~Live(i)' /\ job'[i].out \in {"ok", "failed", "refused"}
  /\ job'[i].out = "refused" => job[i].out = "refused" \/ job[i].pc \in {"start", "lock"}
  /\ song' \in [Ids -> SongForm] /\ log' \in [Ids -> Log] /\ lock' \in 0..MaxRuns
  /\ \A p \in Ids \ {P(i)} : song'[p] = song[p] /\ log'[p] = log[p]

Going == Steps \ {"none", "start", "swept", "succeeded", "failed"}

LEMMA WhenGoing ==
  ASSUME Types, NEW i \in Ids, NEW pc \in Going, Live(i), Goes(i, pc),
         song' \in [Ids -> SongForm], log' \in [Ids -> Log], lock' \in 0..MaxRuns,
         \A p \in Ids \ {P(i)} : song'[p] = song[p] /\ log'[p] = log[p]
  PROVE  Stepped(i)
<1>1. pc \in Steps /\ pc \notin {"none", "start", "swept", "succeeded", "failed"}
  BY DEF Going
<1>2. job'[i].pc = pc /\ job'[i].out = job[i].out /\ job' \in [Ids -> JobForm]
      /\ job'[i].kind = job[i].kind /\ job'[i].plan = job[i].plan
      /\ \A j \in Ids \ {i} : job'[j] = job[j]
  BY <1>1, GoesTo DEF Types
<1>3. Live(i)'  BY <1>1, <1>2 DEF Live, Ended
<1> QED  BY <1>1, <1>2, <1>3 DEF Stepped

LEMMA WhenEnding ==
  ASSUME Types, NEW i \in Ids, NEW out \in {"ok", "failed", "refused"}, Live(i), Ends(i, out),
         song' = song, log' = log, lock' \in 0..MaxRuns,
         out = "refused" => job[i].pc \in {"start", "lock"}
  PROVE  Stepped(i)
<1>1. out \in Sums  BY DEF Sums
<1>2. job'[i].pc \in {"succeeded", "failed"} /\ job'[i].out = out /\ job' \in [Ids -> JobForm]
      /\ job'[i].kind = job[i].kind /\ job'[i].plan = job[i].plan
      /\ \A j \in Ids \ {i} : job'[j] = job[j]
  BY <1>1, EndsWith DEF Types
<1>3. ~Live(i)'  BY <1>2 DEF Live, Ended
<1> QED  BY <1>2, <1>3 DEF Stepped, Types

\* A write of one plan's line or song.
LEMMA LogWritten ==
  ASSUME Types, NEW p \in Ids, NEW line \in Log
  PROVE  LET l == [log EXCEPT ![p] = line] IN
         l \in [Ids -> Log] /\ l[p] = line /\ \A q \in Ids \ {p} : l[q] = log[q]
BY DEF Types
LEMMA SongWritten ==
  ASSUME Types, NEW p \in Ids, NEW s \in SongForm
  PROVE  LET f == [song EXCEPT ![p] = s] IN
         f \in [Ids -> SongForm] /\ f[p] = s /\ \A q \in Ids \ {p} : f[q] = song[q]
BY DEF Types

LEMMA LocksStep ==
  ASSUME Types, NEW i \in Ids, NEW pc \in Going, Live(i), Locks(i, pc), UNCHANGED <<song, log>>,
         job[i].pc \in {"start", "lock"}
  PROVE  Stepped(i)
<1>1. song' \in [Ids -> SongForm] /\ log' \in [Ids -> Log] /\ lock' \in 0..MaxRuns
  BY RunsExist DEF Types, Locks
<1>2. CASE Goes(i, pc)  BY <1>1, <1>2, WhenGoing
<1>3. CASE Ends(i, "refused")  BY <1>1, <1>3, WhenEnding
<1> QED  BY <1>2, <1>3 DEF Locks

\* Where the worker is says that it is alive, and of which kind.
LEMMA AtWork ==
  ASSUME Types, Owned, NEW i \in Ids,
         job[i].pc \in {"retag", "write", "tagged", "move", "moved", "lock", "unmove", "untag"}
  PROVE  Live(i) /\ P(i) \in Ids
BY DEF Owned, OwnedAt, Live, Ended, P

LEMMA BeginStep ==
  ASSUME Types, Owned, NEW i \in Ids, Begin(i)
  PROVE  /\ Stepped(i) /\ song' = song /\ log' = log
         /\ \/ job'[i].pc = "failed" /\ job'[i].out = "refused" /\ job'[i].saw = job[i].saw
            \/ job[i].kind = "check" /\ job'[i].pc = "end" /\ job'[i].saw = job[i].saw
            \/ job[i].kind = "apply" /\ job'[i].pc = "retag" /\ job'[i].saw = job[i].saw
            \/ /\ job[i].kind = "undo" /\ job'[i].pc = "lock" /\ P(i) \in Ids
               /\ job'[i].saw = log[P(i)]
<1>1. Live(i) /\ job[i].kind \in Kinds  BY DEF Begin, Live, Ended, Owned, OwnedAt
<1>2. CASE job[i].kind \in {"check", "apply"}
  <2>1. \/ job[i].kind = "check" /\ Locks(i, "end")
        \/ job[i].kind = "apply" /\ Locks(i, "retag")
    BY <1>2 DEF Begin
  <2>2. {"end", "retag"} \subseteq Going /\ {"end", "retag"} \subseteq Steps /\ "refused" \in Sums
    BY DEF Going, Steps, Sums
  <2>3. \/ Ends(i, "refused")
        \/ job[i].kind = "check" /\ Goes(i, "end")
        \/ job[i].kind = "apply" /\ Goes(i, "retag")
    BY <2>1 DEF Locks
  <2>4. Stepped(i)  BY <1>1, <2>1, <2>2, LocksStep DEF Begin
  <2>5. CASE Ends(i, "refused")  BY <2>2, <2>4, <2>5, EndsWith DEF Types, Begin
  <2>6. CASE job[i].kind = "check" /\ Goes(i, "end")
    BY <2>2, <2>4, <2>6, GoesTo DEF Types, Begin
  <2>7. CASE job[i].kind = "apply" /\ Goes(i, "retag")
    BY <2>2, <2>4, <2>7, GoesTo DEF Types, Begin
  <2> QED  BY <2>3, <2>5, <2>6, <2>7
<1>3. CASE job[i].kind = "undo"
  <2>1. P(i) \in Ids  BY <1>3 DEF Owned, OwnedAt, P
  <2>2. UNCHANGED <<song, log, lock>>  BY <1>3 DEF Begin
  <2>3. CASE Ends(i, "refused")
    <3>1. Stepped(i)  BY <1>1, <2>2, <2>3, WhenEnding DEF Types, Begin
    <3> QED  BY <2>2, <2>3, <3>1, EndsWith DEF Types, Sums
  <2>4. CASE job' = [job EXCEPT ![i].pc = "lock", ![i].saw = log[P(i)]]
    <3> DEFINE new == [job[i] EXCEPT !.pc = "lock", !.saw = log[P(i)]]
    <3>1. job[i] \in JobForm /\ log[P(i)] \in Log /\ "lock" \in Steps  BY <2>1 DEF Types, Steps
    <3>2. /\ new \in JobForm /\ new.pc = "lock" /\ new.kind = job[i].kind
          /\ new.plan = job[i].plan /\ new.out = job[i].out /\ new.saw = log[P(i)]
      BY <3>1 DEF JobForm
    <3>3. job' = [job EXCEPT ![i] = new]  BY <2>4
    <3> HIDE DEF new
    <3>4. /\ job' \in [Ids -> JobForm] /\ job'[i] = new
          /\ \A j \in Ids \ {i} : job'[j] = job[j]
      BY <3>2, <3>3 DEF Types
    <3>5. Stepped(i)  BY <1>1, <2>2, <3>2, <3>4 DEF Stepped, Types, Live, Ended
    <3> QED  BY <1>3, <2>1, <2>2, <3>2, <3>4, <3>5
  <2> QED  BY <1>3, <2>3, <2>4 DEF Begin
<1> QED  BY <1>1, <1>2, <1>3 DEF Kinds

\* Of the other steps, what each writes of its plan.
LEMMA RetagStep ==
  ASSUME Types, Owned, NEW i \in Ids, Retag(i)
  PROVE  /\ Stepped(i) /\ song' = song /\ P(i) \in Ids
         /\ \/ /\ Settled(log[P(i)].tag) /\ job'[i].pc = "move" /\ log' = log
            \/ /\ song[P(i)].at # "src" /\ ~Settled(log[P(i)].tag) /\ job'[i].pc = "move"
               /\ log'[P(i)] = [log[P(i)] EXCEPT !.tag = "skipped"]
            \/ /\ Begun(i) /\ job'[i].pc = "move"
               /\ log'[P(i)] = [log[P(i)] EXCEPT !.tag = "done"]
            \/ /\ song[P(i)].at = "src" /\ ~Settled(log[P(i)].tag) /\ ~Begun(i)
               /\ job'[i].pc = "write"
               /\ log'[P(i)] = [log[P(i)] EXCEPT !.tag = "started", !.was = song[P(i)].tag]
<1> DEFINE p == P(i)
           L1 == [log[p] EXCEPT !.tag = "skipped"]
           L2 == [log[p] EXCEPT !.tag = "done"]
           L3 == [log[p] EXCEPT !.tag = "started", !.was = song[p].tag]
<1>1. Live(i) /\ p \in Ids /\ song' = song /\ lock' = lock /\ job \in [Ids -> JobForm]
  BY AtWork DEF Retag, Types
<1>2. log[p] \in Log /\ song[p] \in SongForm  BY <1>1 DEF Types
<1>3. L1 \in Log /\ L2 \in Log /\ L3 \in Log
  BY <1>2 DEF Log, Entry, SongForm
<1>4. \A l \in {L1, L2, L3} : LET f == [log EXCEPT ![p] = l] IN
        f \in [Ids -> Log] /\ f[p] = l /\ \A q \in Ids \ {p} : f[q] = log[q]
  BY <1>1, <1>3, LogWritten
<1>5. {"move", "write"} \subseteq Going  BY DEF Going, Steps
<1>6. ASSUME NEW pc \in {"move", "write"}, Goes(i, pc),
             log' = log \/ log' = [log EXCEPT ![p] = L1] \/ log' = [log EXCEPT ![p] = L2]
             \/ log' = [log EXCEPT ![p] = L3]
      PROVE  Stepped(i) /\ job'[i].pc = pc
  <2> HIDE DEF L1, L2, L3
  <2>1. log' \in [Ids -> Log] /\ \A q \in Ids \ {p} : log'[q] = log[q]  BY <1>4, <1>6 DEF Types
  <2>2. pc \in Going  BY <1>5, <1>6
  <2>3. Stepped(i)  BY <1>1, <1>6, <2>1, <2>2, WhenGoing DEF Types
  <2> QED  BY <1>1, <1>6, <2>3, <2>2, GoesTo DEF Going
<1>7. CASE Settled(log[p].tag)
  <2>1. Goes(i, "move") /\ log' = log  BY <1>7 DEF Retag
  <2> QED  BY <1>1, <1>6, <1>7, <2>1
<1>8. CASE ~Settled(log[p].tag) /\ song[p].at # "src"
  <2>1. Goes(i, "move") /\ log' = [log EXCEPT ![p] = L1]  BY <1>8 DEF Retag
  <2> QED  BY <1>1, <1>4, <1>6, <1>8, <2>1
<1>9. CASE ~Settled(log[p].tag) /\ song[p].at = "src" /\ Begun(i)
  <2>1. Goes(i, "move") /\ log' = [log EXCEPT ![p] = L2]  BY <1>9 DEF Retag
  <2> QED  BY <1>1, <1>4, <1>6, <1>9, <2>1
<1>10. CASE ~Settled(log[p].tag) /\ song[p].at = "src" /\ ~Begun(i)
  <2>1. Goes(i, "write") /\ log' = [log EXCEPT ![p] = L3]  BY <1>10 DEF Retag
  <2> QED  BY <1>1, <1>4, <1>6, <1>10, <2>1
<1> QED  BY <1>7, <1>8, <1>9, <1>10

LEMMA WriteTagsStep ==
  ASSUME Types, Owned, NEW i \in Ids, WriteTags(i)
  PROVE  /\ Stepped(i) /\ job'[i].pc = "tagged" /\ log' = log /\ P(i) \in Ids
         /\ song'[P(i)] = [song[P(i)] EXCEPT !.tag = "new"]
<1> DEFINE s == [song[P(i)] EXCEPT !.tag = "new"]
<1>1. Live(i) /\ P(i) \in Ids /\ UNCHANGED <<log, lock>> /\ Goes(i, "tagged")
  BY AtWork DEF WriteTags
<1>2. s \in SongForm  BY <1>1 DEF Types, SongForm
<1>3. song' = [song EXCEPT ![P(i)] = s]  BY DEF WriteTags
<1>4. /\ song' \in [Ids -> SongForm] /\ song'[P(i)] = s
      /\ \A q \in Ids \ {P(i)} : song'[q] = song[q]
  <2> HIDE DEF s
  <2> QED  BY <1>1, <1>2, <1>3, SongWritten
<1>5. "tagged" \in Going /\ "tagged" \in Steps  BY DEF Going, Steps
<1>6. Stepped(i)
  <2> HIDE DEF s
  <2> QED  BY <1>1, <1>4, <1>5, WhenGoing DEF Types
<1> QED  BY <1>1, <1>4, <1>5, <1>6, GoesTo DEF Types

LEMMA TaggedStep ==
  ASSUME Types, Owned, NEW i \in Ids, Tagged(i)
  PROVE  /\ Stepped(i) /\ job'[i].pc = "move" /\ song' = song /\ P(i) \in Ids
         /\ log'[P(i)] = [log[P(i)] EXCEPT !.tag = "done"]
<1> DEFINE l == [log[P(i)] EXCEPT !.tag = "done"]
<1>1. Live(i) /\ P(i) \in Ids /\ UNCHANGED <<song, lock>> /\ Goes(i, "move")
  BY AtWork DEF Tagged
<1>2. l \in Log  BY <1>1 DEF Types, Log, Entry
<1>3. log' = [log EXCEPT ![P(i)] = l]  BY DEF Tagged
<1>4. /\ log' \in [Ids -> Log] /\ log'[P(i)] = l /\ \A q \in Ids \ {P(i)} : log'[q] = log[q]
  <2> HIDE DEF l
  <2> QED  BY <1>1, <1>2, <1>3, LogWritten
<1>5. "move" \in Going /\ "move" \in Steps  BY DEF Going, Steps
<1>6. Stepped(i)
  <2> HIDE DEF l
  <2> QED  BY <1>1, <1>4, <1>5, WhenGoing DEF Types
<1> QED  BY <1>1, <1>4, <1>5, <1>6, GoesTo DEF Types

LEMMA MovedStep ==
  ASSUME Types, Owned, NEW i \in Ids, Moved(i)
  PROVE  /\ Stepped(i) /\ job'[i].pc = "end" /\ song' = song /\ P(i) \in Ids
         /\ log'[P(i)] = [log[P(i)] EXCEPT !.move = "done"]
<1> DEFINE l == [log[P(i)] EXCEPT !.move = "done"]
<1>1. Live(i) /\ P(i) \in Ids /\ UNCHANGED <<song, lock>> /\ Goes(i, "end")
  BY AtWork DEF Moved
<1>2. l \in Log  BY <1>1 DEF Types, Log, Entry
<1>3. log' = [log EXCEPT ![P(i)] = l]  BY DEF Moved
<1>4. /\ log' \in [Ids -> Log] /\ log'[P(i)] = l /\ \A q \in Ids \ {P(i)} : log'[q] = log[q]
  <2> HIDE DEF l
  <2> QED  BY <1>1, <1>2, <1>3, LogWritten
<1>5. "end" \in Going /\ "end" \in Steps  BY DEF Going, Steps
<1>6. Stepped(i)
  <2> HIDE DEF l
  <2> QED  BY <1>1, <1>4, <1>5, WhenGoing DEF Types
<1> QED  BY <1>1, <1>4, <1>5, <1>6, GoesTo DEF Types

LEMMA MoveStep ==
  ASSUME Types, Owned, NEW i \in Ids, Move(i)
  PROVE  /\ Stepped(i) /\ P(i) \in Ids
         /\ \/ song' = song /\ log' = log /\ job'[i].pc = "end" /\ Settled(log[P(i)].move)
            \/ /\ song' = song /\ song[P(i)].at # "src" /\ ~Settled(log[P(i)].move)
               /\ job'[i].pc = "end" /\ log'[P(i)] = [log[P(i)] EXCEPT !.move = "skipped"]
            \/ /\ log' = log /\ job'[i].pc = "moved"
               /\ song'[P(i)] = [song[P(i)] EXCEPT !.at = "dst"]
            \/ song' = song /\ log' = log /\ job'[i].pc = "failed"
<1> DEFINE l == [log[P(i)] EXCEPT !.move = "skipped"]
           s == [song[P(i)] EXCEPT !.at = "dst"]
<1>1. Live(i) /\ P(i) \in Ids  BY AtWork DEF Move
<1>2. l \in Log /\ s \in SongForm  BY <1>1 DEF Types, Log, Entry, SongForm
<1>3. /\ LET f == [log EXCEPT ![P(i)] = l] IN
         f \in [Ids -> Log] /\ f[P(i)] = l /\ \A q \in Ids \ {P(i)} : f[q] = log[q]
      /\ LET f == [song EXCEPT ![P(i)] = s] IN
         f \in [Ids -> SongForm] /\ f[P(i)] = s /\ \A q \in Ids \ {P(i)} : f[q] = song[q]
  <2> HIDE DEF l, s
  <2> QED  BY <1>1, <1>2, LogWritten, SongWritten
<1>4. {"end", "moved"} \subseteq Going /\ {"end", "moved"} \subseteq Steps
  BY DEF Going, Steps
<1>5. CASE Settled(log[P(i)].move)
  <2>1. Goes(i, "end") /\ UNCHANGED <<song, log, lock>>  BY <1>5 DEF Move
  <2>2. Stepped(i)  BY <1>1, <1>4, <2>1, WhenGoing DEF Types
  <2> QED  BY <1>1, <1>4, <1>5, <2>1, <2>2, GoesTo DEF Types
<1>6. CASE ~Settled(log[P(i)].move) /\ song[P(i)].at # "src"
  <2>1. Goes(i, "end") /\ log' = [log EXCEPT ![P(i)] = l] /\ UNCHANGED <<song, lock>>
    BY <1>6 DEF Move
  <2>2. Stepped(i)
    <3> HIDE DEF l, s
    <3> QED  BY <1>1, <1>3, <1>4, <2>1, WhenGoing DEF Types
  <2>3. job'[i].pc = "end"  BY <1>4, <2>1, GoesTo DEF Types
  <2>4. log'[P(i)] = l
    <3> HIDE DEF l, s
    <3> QED  BY <1>3, <2>1
  <2> QED  BY <1>1, <1>6, <2>1, <2>2, <2>3, <2>4
<1>7. CASE ~Settled(log[P(i)].move) /\ song[P(i)].at = "src"
  <2>1. \/ Goes(i, "moved") /\ song' = [song EXCEPT ![P(i)] = s] /\ UNCHANGED <<log, lock>>
        \/ Ends(i, "failed") /\ lock' = 0 /\ UNCHANGED <<song, log>>
    BY <1>7 DEF Move
  <2>2. CASE Goes(i, "moved") /\ song' = [song EXCEPT ![P(i)] = s] /\ UNCHANGED <<log, lock>>
    <3> HIDE DEF l, s
    <3>1. Stepped(i)  BY <1>1, <1>3, <1>4, <2>2, WhenGoing DEF Types
    <3>2. job'[i].pc = "moved"  BY <1>4, <2>2, GoesTo DEF Types
    <3>3. song'[P(i)] = s  BY <1>3, <2>2
    <3> QED  BY <1>1, <2>2, <3>1, <3>2, <3>3 DEF s
  <2>3. CASE Ends(i, "failed") /\ lock' = 0 /\ UNCHANGED <<song, log>>
    <3>1. 0 \in 0..MaxRuns /\ "failed" \in Sums  BY MusicRepairAssumption DEF Sums
    <3>2. Stepped(i)  BY <1>1, <2>3, <3>1, WhenEnding
    <3>3. job'[i].pc = "failed"  BY <2>3, <3>1, EndsWith DEF Types
    <3> QED  BY <1>1, <2>3, <3>2, <3>3
  <2> QED  BY <2>1, <2>2, <2>3
<1> QED  BY <1>5, <1>6, <1>7

LEMMA UndoStep ==
  ASSUME Types, Owned, NEW i \in Ids, BeginUndo(i)
  PROVE  /\ Stepped(i) /\ song' = song /\ log' = log /\ P(i) \in Ids
         /\ job'[i].pc \in {"unmove", "failed"} /\ job'[i].saw = job[i].saw
<1>1. Live(i) /\ P(i) \in Ids  BY AtWork DEF BeginUndo
<1>2. "unmove" \in Going /\ "unmove" \in Steps /\ "refused" \in Sums
  BY DEF Going, Steps, Sums
<1>3. Stepped(i)  BY <1>1, <1>2, LocksStep DEF BeginUndo
<1>4. Goes(i, "unmove") \/ Ends(i, "refused")  BY DEF BeginUndo, Locks
<1>5. job'[i].pc \in {"unmove", "failed"} /\ job'[i].saw = job[i].saw
  BY <1>2, <1>4, GoesTo, EndsWith DEF Types
<1> QED  BY <1>1, <1>3, <1>5 DEF BeginUndo

LEMMA UnmoveStep ==
  ASSUME Types, Owned, NEW i \in Ids, Unmove(i)
  PROVE  /\ Stepped(i) /\ log' = log /\ P(i) \in Ids
         /\ job'[i].pc = "untag" /\ job'[i].saw = job[i].saw
         /\ song'[P(i)] = IF job[i].saw.move = "done" THEN [song[P(i)] EXCEPT !.at = "src"]
                          ELSE song[P(i)]
<1> DEFINE s == [song[P(i)] EXCEPT !.at = "src"]
<1>1. Live(i) /\ P(i) \in Ids /\ UNCHANGED <<log, lock>> /\ Goes(i, "untag")
  BY AtWork DEF Unmove
<1>2. s \in SongForm  BY <1>1 DEF Types, SongForm
<1>3. LET f == [song EXCEPT ![P(i)] = s] IN
        f \in [Ids -> SongForm] /\ f[P(i)] = s /\ \A q \in Ids \ {P(i)} : f[q] = song[q]
  <2> HIDE DEF s
  <2> QED  BY <1>1, <1>2, SongWritten
<1>4. song' = IF job[i].saw.move = "done" THEN [song EXCEPT ![P(i)] = s] ELSE song
  BY DEF Unmove
<1>5. /\ song' \in [Ids -> SongForm] /\ \A q \in Ids \ {P(i)} : song'[q] = song[q]
      /\ song'[P(i)] = IF job[i].saw.move = "done" THEN s ELSE song[P(i)]
  <2> HIDE DEF s
  <2> QED  BY <1>3, <1>4 DEF Types
<1>6. "untag" \in Going /\ "untag" \in Steps  BY DEF Going, Steps
<1>7. Stepped(i)
  <2> HIDE DEF s
  <2> QED  BY <1>1, <1>5, <1>6, WhenGoing DEF Types
<1> QED  BY <1>1, <1>5, <1>6, <1>7, GoesTo DEF Types

LEMMA UntagStep ==
  ASSUME Types, Owned, NEW i \in Ids, Untag(i), job[i].saw.was \in {"old", "new"} \/ ~Replayed(i)
  PROVE  /\ Stepped(i) /\ log' = log /\ P(i) \in Ids /\ job'[i].pc = "end"
         /\ song'[P(i)] = IF Replayed(i) /\ song[P(i)].at = "src"
                          THEN [song[P(i)] EXCEPT !.tag = job[i].saw.was] ELSE song[P(i)]
<1> DEFINE s == [song[P(i)] EXCEPT !.tag = job[i].saw.was]
<1>1. Live(i) /\ P(i) \in Ids /\ UNCHANGED <<log, lock>> /\ Goes(i, "end")
  BY AtWork DEF Untag
<1>2. Replayed(i) => s \in SongForm  BY <1>1 DEF Types, SongForm
<1>3. Replayed(i) =>
      LET f == [song EXCEPT ![P(i)] = s] IN
        f \in [Ids -> SongForm] /\ f[P(i)] = s /\ \A q \in Ids \ {P(i)} : f[q] = song[q]
  <2> HIDE DEF s
  <2> QED  BY <1>1, <1>2, SongWritten
<1>4. song' = IF Replayed(i) /\ song[P(i)].at = "src" THEN [song EXCEPT ![P(i)] = s] ELSE song
  BY DEF Untag
<1>5. /\ song' \in [Ids -> SongForm] /\ \A q \in Ids \ {P(i)} : song'[q] = song[q]
      /\ song'[P(i)] = IF Replayed(i) /\ song[P(i)].at = "src" THEN s ELSE song[P(i)]
  <2> HIDE DEF s
  <2> QED  BY <1>3, <1>4 DEF Types
<1>6. "end" \in Going /\ "end" \in Steps  BY DEF Going, Steps
<1>7. Stepped(i)
  <2> HIDE DEF s
  <2> QED  BY <1>1, <1>5, <1>6, WhenGoing DEF Types
<1> QED  BY <1>1, <1>5, <1>6, <1>7, GoesTo DEF Types

LEMMA EndStep ==
  ASSUME Types, NEW i \in Ids, End(i)
  PROVE  Stepped(i) /\ song' = song /\ log' = log /\ job'[i].pc = "succeeded" /\ job'[i].out = "ok"
<1>1. Live(i) /\ Ends(i, "ok") /\ lock' = 0 /\ UNCHANGED <<song, log>>
  BY DEF End, Live, Ended
<1>2. 0 \in 0..MaxRuns /\ "ok" \in Sums  BY MusicRepairAssumption DEF Sums
<1>3. Stepped(i)  BY <1>1, <1>2, WhenEnding
<1> QED  BY <1>1, <1>2, <1>3, EndsWith DEF Types

-----------------------------------------------------------------------------
\* The steps of a worker keep the invariant.

LEMMA WorkSteps ==
  ASSUME Types, Owned, WellWritten, NEW i \in Ids, Work(i)
  PROVE  Stepped(i) /\ UNCHANGED <<server, turns, hist>>
<1>1. CASE Begin(i)  BY <1>1, BeginStep DEF Work
<1>2. CASE BeginUndo(i)  BY <1>2, UndoStep DEF Work
<1>3. CASE Retag(i)  BY <1>3, RetagStep DEF Work
<1>4. CASE WriteTags(i)  BY <1>4, WriteTagsStep DEF Work
<1>5. CASE Tagged(i)  BY <1>5, TaggedStep DEF Work
<1>6. CASE Move(i)  BY <1>6, MoveStep DEF Work
<1>7. CASE Moved(i)  BY <1>7, MovedStep DEF Work
<1>8. CASE Unmove(i)  BY <1>8, UnmoveStep DEF Work
<1>9. CASE Untag(i)
  <2>1. Replayed(i) => job[i].saw.was \in {"old", "new"}
    BY DEF Replayed, WellWritten, Types, JobForm, Log
  <2> QED  BY <1>9, <2>1, UntagStep DEF Work
<1>10. CASE End(i)  BY <1>10, EndStep DEF Work
<1> QED  BY <1>1, <1>2, <1>3, <1>4, <1>5, <1>6, <1>7, <1>8, <1>9, <1>10 DEF Work

LEMMA WorkKinds ==
  ASSUME Types, Owned, WellWritten, NEW i \in Ids, Work(i)
  PROVE  /\ job'[i].pc \in {"retag", "write", "tagged", "move", "moved"} => job[i].kind = "apply"
         /\ job'[i].pc \in {"lock", "unmove", "untag"} => job[i].kind = "undo"
<1>1. CASE Begin(i)  BY <1>1, BeginStep
<1>2. CASE BeginUndo(i)  BY <1>2, UndoStep DEF Owned, OwnedAt, BeginUndo
<1>3. CASE Retag(i)  BY <1>3, RetagStep DEF Owned, OwnedAt, Retag
<1>4. CASE WriteTags(i)  BY <1>4, WriteTagsStep DEF Owned, OwnedAt, WriteTags
<1>5. CASE Tagged(i)  BY <1>5, TaggedStep DEF Owned, OwnedAt, Tagged
<1>6. CASE Move(i)  BY <1>6, MoveStep DEF Owned, OwnedAt, Move
<1>7. CASE Moved(i)  BY <1>7, MovedStep DEF Owned, OwnedAt, Moved
<1>8. CASE Unmove(i)  BY <1>8, UnmoveStep DEF Owned, OwnedAt, Unmove
<1>9. CASE Untag(i)
  <2>1. Replayed(i) => job[i].saw.was \in {"old", "new"}
    BY DEF Replayed, WellWritten, Types, JobForm, Log
  <2> QED  BY <1>9, <2>1, UntagStep
<1>10. CASE End(i)  BY <1>10, EndStep
<1> QED  BY <1>1, <1>2, <1>3, <1>4, <1>5, <1>6, <1>7, <1>8, <1>9, <1>10 DEF Work

LEMMA WorkKeepsForms ==
  ASSUME Inv, NEW i \in Ids, Work(i)
  PROVE  Types' /\ Slot' /\ Requests' /\ Readings' /\ Owned'
<1>1. Types /\ Slot /\ Requests /\ Readings /\ Owned /\ WellWritten  BY DEF Inv
<1>2. Stepped(i) /\ UNCHANGED <<rows, expired, late, next, req, sync, image, turns, astray, gap>>
  BY <1>1, WorkSteps DEF server, hist
<1>3. Live(i) /\ job[i] # NoJob /\ job[i].pc # "none" /\ job[i].out = "none"
  BY <1>1, <1>2 DEF Stepped, Live, NoJob, Owned, OwnedAt
<1>4. Types'  BY <1>1, <1>2 DEF Types, Stepped
<1>5. Slot'  BY <1>1, <1>2, <1>3 DEF Slot, Stepped
<1>6. Requests'
  <2>1. ASSUME NEW r \in Reqs, req[r].id # 0, job[req[r].id] = NoJob
        PROVE  job'[req[r].id] = NoJob
    BY <1>1, <1>2, <1>3, <2>1 DEF Stepped, Types, ReqForm, Ids
  <2>2. ASSUME NEW r \in Reqs, req[r].id # 0
        PROVE  job'[req[r].id].plan = job[req[r].id].plan
    BY <1>1, <1>2, <2>2 DEF Stepped, Types, ReqForm, Ids
  <2>3. \A r \in Reqs : Row(r)' = Row(r)  BY <1>2 DEF Row
  <2> QED  BY <1>1, <1>2, <2>1, <2>2, <2>3 DEF Requests
<1>7. Readings'
  <2> SUFFICES ASSUME NEW y \in Syncers, sync[y] # FreeSync
               PROVE  /\ sync[y].id \in Ids /\ sync[y].id < next /\ Quiet(sync[y].id)'
                      /\ sync[y].to \in Closed
                      /\ sync[y].to = "refused" => job'[sync[y].id].out = "refused"
                      /\ sync[y].sum = "ok" => job'[sync[y].id].out = "ok"
    BY <1>2 DEF Readings
  <2>1. sync[y].id \in Ids /\ Quiet(sync[y].id)  BY <1>1 DEF Readings
  <2>2. sync[y].id # i  BY <1>3, <2>1 DEF Quiet
  <2>3. job'[sync[y].id] = job[sync[y].id]  BY <1>2, <2>1, <2>2 DEF Stepped
  <2>4. Quiet(sync[y].id)'  BY <1>2, <2>1, <2>3 DEF Quiet, Live, Ended
  <2> QED  BY <1>1, <2>3, <2>4 DEF Readings
<1>8. Owned'
  <2> SUFFICES ASSUME NEW j \in Ids PROVE OwnedAt(j)'  BY DEF Owned
  <2>1. CASE j # i
    <3>1. job'[j] = job[j]  BY <1>2, <2>1 DEF Stepped
    <3> QED  BY <1>1, <1>2, <3>1 DEF Owned, OwnedAt, Live, Ended
  <2>2. CASE j = i
    <3>1. rows[i].state \notin Closed  BY <1>1, <1>3 DEF Owned, OwnedAt
    <3>2. Live(i)' => job'[i].out = "none"  BY <1>2, <1>3 DEF Stepped
    <3>3. job[i].kind \in Kinds /\ job'[i].kind = job[i].kind /\ job'[i].plan = job[i].plan
      BY <1>1, <1>2, <1>3 DEF Owned, OwnedAt, Stepped
    <3>4. job'[i].pc \notin {"none", "start"}  BY <1>2 DEF Stepped
    <3>5. /\ job'[i].pc \in {"retag", "write", "tagged", "move", "moved"} => job[i].kind = "apply"
          /\ job'[i].pc \in {"lock", "unmove", "untag"} => job[i].kind = "undo"
      BY <1>1, WorkKinds
    <3>6. job[i].kind \in {"apply", "undo"} => job[i].plan \in Ids  BY <1>1 DEF Owned, OwnedAt
    <3>7. \/ /\ rows[i].kind = job[i].kind /\ rows[i].plan = job[i].plan /\ rows[i].state # "none"
          \/ rows[i].state = "none" /\ job[i].plan \in astray
      BY <1>1, <1>3 DEF Owned, OwnedAt
    <3> QED  BY <1>2, <2>2, <3>1, <3>2, <3>3, <3>4, <3>5, <3>6, <3>7 DEF OwnedAt
  <2> QED  BY <2>1, <2>2
<1> QED  BY <1>4, <1>5, <1>6, <1>7, <1>8

LEMMA WorkKeepsWritten ==
  ASSUME Inv, NEW i \in Ids, Work(i)
  PROVE  WellWritten'
<1>1. Types /\ Owned /\ WellWritten  BY DEF Inv
<1>2. Stepped(i)  BY <1>1, WorkSteps
\* Whatever a line said it replaces, it says something still.
<1>3. /\ \A p \in Ids : log'[p].tag \in {"started", "done"} => log'[p].was # ""
      /\ \A p \in Ids : log[p].was # "" => log'[p].was # ""
      /\ job'[i].saw.tag \in {"started", "done"} => job'[i].saw.was # ""
      /\ job'[i].pc \in {"write", "tagged"} => log'[P(i)].was # ""
  <2>1. \A p \in Ids \ {P(i)} : log'[p] = log[p]  BY <1>2 DEF Stepped
  <2>2. \A p \in Ids : log[p] \in Log /\ song[p].tag # ""  BY <1>1 DEF Types, SongForm
  <2>3. \A p \in Ids : log[p].tag \in {"started", "done"} => log[p].was # ""
    BY <1>1 DEF WellWritten
  <2>4. job[i].saw.tag \in {"started", "done"} => job[i].saw.was # ""  BY <1>1 DEF WellWritten
  <2>5. job[i].pc \in {"write", "tagged"} => log[P(i)].was # ""  BY <1>1 DEF WellWritten
  <2>6. CASE Begin(i)  BY <1>1, <2>1, <2>3, <2>4, <2>6, BeginStep
  <2>7. CASE BeginUndo(i)  BY <1>1, <2>1, <2>3, <2>4, <2>7, UndoStep
  <2>8. job'[i].saw = job[i].saw \/ Begin(i)
    <3>1. ASSUME NEW pc \in Steps, Goes(i, pc) PROVE job'[i].saw = job[i].saw
      BY <1>1, <3>1, GoesTo DEF Types
    <3>2. ASSUME NEW out \in Sums, Ends(i, out) PROVE job'[i].saw = job[i].saw
      BY <1>1, <3>2, EndsWith DEF Types
    <3>3. {"move", "write", "tagged", "moved", "end", "untag", "unmove"} \subseteq Steps
          /\ {"failed", "ok", "refused"} \subseteq Sums
      BY DEF Steps, Sums
    <3>4. CASE Retag(i)  BY <3>1, <3>3, <3>4 DEF Retag
    <3>5. CASE WriteTags(i)  BY <3>1, <3>3, <3>5 DEF WriteTags
    <3>6. CASE Tagged(i)  BY <3>1, <3>3, <3>6 DEF Tagged
    <3>7. CASE Move(i)  BY <3>1, <3>2, <3>3, <3>7 DEF Move
    <3>8. CASE Moved(i)  BY <3>1, <3>3, <3>8 DEF Moved
    <3>9. CASE Unmove(i)  BY <3>1, <3>3, <3>9 DEF Unmove
    <3>10. CASE Untag(i)  BY <3>1, <3>3, <3>10 DEF Untag
    <3>11. CASE End(i)  BY <3>2, <3>3, <3>11 DEF End
    <3>12. CASE BeginUndo(i)  BY <1>1, <3>12, UndoStep
    <3> QED  BY <3>4, <3>5, <3>6, <3>7, <3>8, <3>9, <3>10, <3>11, <3>12 DEF Work
  <2>9. CASE Retag(i)
    <3>1. P(i) \in Ids  BY <1>1, <2>9, RetagStep
    <3>2. /\ log'[P(i)].tag \in {"started", "done"} => log'[P(i)].was # ""
          /\ log[P(i)].was # "" => log'[P(i)].was # ""
          /\ job'[i].pc \in {"write", "tagged"} => log'[P(i)].was # ""
      BY <1>1, <2>2, <2>3, <2>9, <3>1, RetagStep DEF Log, Begun, Settled
    <3>3. job'[i].saw = job[i].saw  BY <2>8, <2>9 DEF Begin, Retag
    <3> QED  BY <2>1, <2>3, <2>4, <3>2, <3>3
  <2>10. CASE WriteTags(i)
    BY <1>1, <2>3, <2>4, <2>5, <2>8, <2>10, WriteTagsStep DEF WriteTags, Begin
  <2>11. CASE Tagged(i)
    <3>1. P(i) \in Ids /\ log[P(i)].was # ""  BY <1>1, <2>5, <2>11, TaggedStep DEF Tagged
    <3>2. log'[P(i)].was # "" /\ job'[i].pc = "move"
      BY <1>1, <2>2, <2>11, <3>1, TaggedStep DEF Log
    <3> QED  BY <2>1, <2>3, <2>4, <2>8, <2>11, <3>2 DEF Begin, Tagged
  <2>12. CASE Move(i)
    <3>1. P(i) \in Ids  BY <1>1, <2>12, MoveStep
    <3>2. /\ log'[P(i)].tag = log[P(i)].tag /\ log'[P(i)].was = log[P(i)].was
          /\ job'[i].pc \notin {"write", "tagged"}
      BY <1>1, <2>2, <2>12, <3>1, MoveStep DEF Log
    <3> QED  BY <2>1, <2>3, <2>4, <2>8, <2>12, <3>1, <3>2 DEF Begin, Move
  <2>13. CASE Moved(i)
    <3>1. P(i) \in Ids  BY <1>1, <2>13, MovedStep
    <3>2. /\ log'[P(i)].tag = log[P(i)].tag /\ log'[P(i)].was = log[P(i)].was
          /\ job'[i].pc \notin {"write", "tagged"}
      BY <1>1, <2>2, <2>13, <3>1, MovedStep DEF Log
    <3> QED  BY <2>1, <2>3, <2>4, <2>8, <2>13, <3>1, <3>2 DEF Begin, Moved
  <2>14. CASE Unmove(i) \/ Untag(i) \/ End(i)
    <3>1. log' = log  BY <2>14, <1>1 DEF Unmove, Untag, End
    <3>2. job'[i].pc \notin {"write", "tagged"} /\ job'[i].saw = job[i].saw
      <4>1. {"untag", "end"} \subseteq Steps /\ "ok" \in Sums  BY DEF Steps, Sums
      <4>2. CASE Unmove(i)  BY <1>1, <4>1, <4>2, GoesTo DEF Types, Unmove
      <4>3. CASE Untag(i)  BY <1>1, <4>1, <4>3, GoesTo DEF Types, Untag
      <4>4. CASE End(i)  BY <1>1, <4>1, <4>4, EndsWith DEF Types, End
      <4> QED  BY <2>14, <4>2, <4>3, <4>4
    <3> QED  BY <2>3, <2>4, <3>1, <3>2
  <2> QED  BY <2>6, <2>7, <2>9, <2>10, <2>11, <2>12, <2>13, <2>14 DEF Work
<1>4. \A j \in Ids \ {i} : job'[j] = job[j]  BY <1>2 DEF Stepped
<1>5. \A j \in Ids : job[j].pc \in {"write", "tagged"} => P(j) \in Ids
  BY <1>1, AtWork
<1>6. ASSUME NEW j \in Ids
      PROVE  /\ job'[j].saw.tag \in {"started", "done"} => job'[j].saw.was # ""
             /\ job'[j].pc \in {"write", "tagged"} => log'[P(j)'].was # ""
  <2>1. P(i)' = P(i)  BY <1>2 DEF Stepped, P
  <2>2. CASE j = i  BY <1>3, <2>1, <2>2
  <2>3. CASE j # i
    <3>1. job'[j] = job[j] /\ P(j)' = P(j)  BY <1>4, <2>3 DEF P
    <3>2. job[j].saw.tag \in {"started", "done"} => job[j].saw.was # ""
      BY <1>1 DEF WellWritten
    <3>3. job[j].pc \in {"write", "tagged"} => log[P(j)].was # "" /\ P(j) \in Ids
      BY <1>1, <1>5 DEF WellWritten
    <3> QED  BY <1>3, <3>1, <3>2, <3>3
  <2> QED  BY <2>2, <2>3
<1> QED  BY <1>3, <1>6 DEF WellWritten

\* Two live workers of one plan whose creation went as it seemed are one worker.
LEMMA Alone ==
  ASSUME Inv, NEW i \in Ids, Live(i), P(i) \notin astray
  PROVE  /\ rows[i].state = "running"
         /\ \A j \in Ids : Live(j) /\ P(j) = P(i) => j = i
<1>1. /\ Types /\ Slot /\ Owned  BY DEF Inv
<1>2. ASSUME NEW j \in Ids, Live(j), P(j) = P(i) PROVE rows[j].state = "running"
  <2>1. job[j].pc # "none" /\ rows[j].state \notin Closed  BY <1>1, <1>2 DEF Live, Owned, OwnedAt
  <2>2. rows[j].state # "none"  BY <1>1, <1>2, <2>1 DEF Owned, OwnedAt, P
  <2>3. rows[j].state \in States  BY <1>1 DEF Types, RowForm
  <2> QED  BY <2>1, <2>2, <2>3 DEF States, Closed
<1>3. rows[i].state = "running"  BY <1>2
<1>4. ASSUME NEW j \in Ids, Live(j), P(j) = P(i) PROVE j = i
  <2>1. next = j + 1 /\ next = i + 1  BY <1>1, <1>2, <1>3, <1>4 DEF Slot
  <2> QED  BY <2>1, RunsExist
<1> QED  BY <1>3, <1>4

LEMMA WorkKeepsPlan ==
  ASSUME Inv, NEW i \in Ids, Work(i), NEW p \in Ids, p = P(i), Sound(p)
  PROVE  JournalAt(p)' /\ CourseAt(i)'
<1>1. Types /\ Owned /\ WellWritten /\ Journal /\ Course  BY DEF Inv
<1>2. Stepped(i) /\ UNCHANGED <<rows, astray, gap>>  BY <1>1, WorkSteps DEF server, hist
<1>3. JournalAt(p) /\ CourseAt(i)  BY <1>1 DEF Journal, Course
<1>4. P(i)' = p /\ job'[i].kind = job[i].kind  BY <1>2 DEF Stepped, P
<1>5. Live(i)  BY <1>2 DEF Stepped
<1>6. \A k \in Ids : job[k].pc = "moved" /\ P(k) = p => k = i
  BY <1>5, Alone DEF Live, Ended, Sound
<1>7. job[i].out = "none"  BY <1>1, <1>5 DEF Owned, OwnedAt
<1>8. log[p] \in Log /\ song[p] \in SongForm  BY <1>1 DEF Types
<1>9. \A k \in Ids \ {i} : job'[k] = job[k]  BY <1>2 DEF Stepped
<1>10. job'[i].out \in {"none", "ok", "failed", "refused"} /\ (job'[i].out = "none" => Live(i)')
  BY <1>2, <1>7 DEF Stepped
<1>11. CASE Begin(i)
  <2>1. song' = song /\ log' = log /\ job[i].pc = "start"  BY <1>1, <1>11, BeginStep DEF Begin
  <2>2. JournalAt(p)'
    BY <1>3, <1>4, <1>6, <2>1 DEF JournalAt
  <2>3. /\ job'[i].pc \in {"failed", "end", "retag", "lock"}
        /\ job'[i].pc = "lock" => job'[i].saw = log[p]
        /\ job'[i].pc = "end" => job[i].kind = "check"
        /\ job'[i].out \in {"none", "refused"}
    BY <1>1, <1>2, <1>7, <1>11, BeginStep DEF Stepped, Live, Ended
  <2>4. CourseAt(i)'  BY <1>4, <2>1, <2>3 DEF CourseAt
  <2> QED  BY <1>4, <2>2, <2>4
<1>12. CASE BeginUndo(i)
  <2>1. song' = song /\ log' = log /\ job[i].pc = "lock" /\ job[i].saw = log[p]
    BY <1>1, <1>3, <1>12, UndoStep DEF BeginUndo, CourseAt
  <2>2. JournalAt(p)'
    BY <1>3, <1>4, <1>6, <2>1 DEF JournalAt
  <2>3. job'[i].pc \in {"unmove", "failed"} /\ job'[i].saw = job[i].saw
    BY <1>1, <1>12, UndoStep
  <2>4. job'[i].out # "ok"
    <3>1. "unmove" \in Steps /\ "refused" \in Sums  BY DEF Steps, Sums
    <3> QED  BY <1>1, <1>7, <1>12, <3>1, GoesTo, EndsWith DEF Types, BeginUndo, Locks
  <2>5. CourseAt(i)'  BY <1>4, <2>1, <2>3, <2>4 DEF CourseAt
  <2> QED  BY <1>4, <2>2, <2>5
<1>13. CASE Retag(i)
  <2>1. job[i].pc = "retag" /\ job[i].kind = "apply" /\ song' = song
    BY <1>1, <1>13, RetagStep DEF Retag, Owned, OwnedAt
  <2>2. song[p].at = "src" \/ log[p].tag = "done"
    BY <1>3, <1>8 DEF JournalAt, SongForm
  <2>3. \/ /\ log[p].tag = "done" /\ job'[i].pc = "move" /\ log'[p] = log[p]
        \/ /\ Begun(i) /\ job'[i].pc = "move" /\ log'[p] = [log[p] EXCEPT !.tag = "done"]
        \/ /\ song[p].at = "src" /\ log[p].tag # "done" /\ ~Begun(i) /\ job'[i].pc = "write"
           /\ log'[p] = [log[p] EXCEPT !.tag = "started", !.was = song[p].tag]
    BY <1>1, <1>3, <1>13, <2>2, RetagStep DEF Settled, JournalAt
  <2>4. ~Begun(i) /\ log[p].tag # "done" => song[p].tag = "old"
    BY <1>3, <1>8 DEF Begun, JournalAt, SongForm, Log, Entry
  <2>5. Begun(i) => log[p].tag = "started"  BY DEF Begun
  <2>6. /\ log'[p].tag \in {"started", "done"} /\ log'[p].was = "old"
        /\ log'[p].move = log[p].move
        /\ job'[i].pc = "move" => log'[p].tag = "done"
        /\ job'[i].pc = "write" => log'[p].tag = "started" /\ song[p].at = "src" /\ song[p].tag = "old"
        /\ job'[i].pc \in {"move", "write"}
        /\ log[p].tag = "done" => log'[p].tag = "done"
    BY <1>3, <1>8, <2>3, <2>4, <2>5 DEF JournalAt, Log
  <2>7. JournalAt(p)'
    BY <1>3, <1>4, <1>6, <2>1, <2>6 DEF JournalAt
  <2>8. job'[i].pc = "write" => song'[p] = Untouched
    BY <1>8, <2>1, <2>6 DEF Untouched, SongForm
  <2>9. CourseAt(i)'  BY <1>4, <2>1, <2>6, <2>8 DEF CourseAt
  <2> QED  BY <1>4, <2>7, <2>9
<1>14. CASE WriteTags(i)
  <2>1. /\ job[i].pc = "write" /\ job[i].kind = "apply" /\ log' = log /\ job'[i].pc = "tagged"
        /\ log[p].tag = "started" /\ song[p] = Untouched
        /\ song'[p] = [song[p] EXCEPT !.tag = "new"]
    BY <1>1, <1>3, <1>14, WriteTagsStep DEF WriteTags, Owned, OwnedAt, CourseAt
  <2>2. song'[p].tag = "new" /\ song'[p].at = "src"  BY <2>1 DEF Untouched
  <2>3. JournalAt(p)'  BY <1>3, <1>4, <2>1, <2>2 DEF JournalAt
  <2>4. CourseAt(i)'  BY <1>4, <2>1, <2>2 DEF CourseAt
  <2> QED  BY <1>4, <2>3, <2>4
<1>15. CASE Tagged(i)
  <2>1. /\ job[i].pc = "tagged" /\ job[i].kind = "apply" /\ song' = song /\ job'[i].pc = "move"
        /\ log[p].tag = "started" /\ song[p].tag = "new"
        /\ log'[p] = [log[p] EXCEPT !.tag = "done"]
    BY <1>1, <1>3, <1>15, TaggedStep DEF Tagged, Owned, OwnedAt, CourseAt
  <2>2. log'[p].tag = "done" /\ log'[p].was = log[p].was /\ log'[p].move = log[p].move
    BY <1>8, <2>1 DEF Log
  <2>3. JournalAt(p)'  BY <1>3, <1>4, <2>1, <2>2 DEF JournalAt
  <2>4. CourseAt(i)'  BY <1>4, <2>1, <2>2 DEF CourseAt
  <2> QED  BY <1>4, <2>3, <2>4
<1>16. CASE Move(i)
  <2>1. job[i].pc = "move" /\ job[i].kind = "apply" /\ log[p].tag = "done"
    BY <1>1, <1>3, <1>16 DEF Move, Owned, OwnedAt, CourseAt
  <2>2. song[p].at = "src" \/ log[p].move = "done"
    BY <1>3, <1>6, <1>8, <2>1 DEF JournalAt, SongForm
  <2>3. /\ log' = log
        /\ \/ song' = song /\ job'[i].pc \in {"end", "failed"}
           \/ job'[i].pc = "moved" /\ song'[p] = [song[p] EXCEPT !.at = "dst"]
    BY <1>1, <1>16, <2>2, MoveStep DEF Settled
  <2>4. JournalAt(p)'
    <3>1. CASE song' = song /\ job'[i].pc \in {"end", "failed"}
      BY <1>3, <1>6, <1>4, <2>1, <2>3, <3>1 DEF JournalAt
    <3>2. CASE job'[i].pc = "moved" /\ song'[p] = [song[p] EXCEPT !.at = "dst"]
      BY <1>3, <1>4, <2>1, <2>3, <3>2 DEF JournalAt
    <3> QED  BY <2>3, <3>1, <3>2
  <2>5. CourseAt(i)'  BY <1>4, <2>1, <2>3 DEF CourseAt
  <2> QED  BY <1>4, <2>4, <2>5
<1>17. CASE Moved(i)
  <2>1. /\ job[i].pc = "moved" /\ job[i].kind = "apply" /\ log[p].tag = "done" /\ song' = song
        /\ job'[i].pc = "end" /\ log'[p] = [log[p] EXCEPT !.move = "done"]
    BY <1>1, <1>3, <1>17, MovedStep DEF Moved, Owned, OwnedAt, CourseAt
  <2>2. log'[p].tag = "done" /\ log'[p].was = log[p].was /\ log'[p].move = "done"
    BY <1>8, <2>1 DEF Log
  <2>3. JournalAt(p)'  BY <1>3, <1>4, <2>1, <2>2 DEF JournalAt
  <2>4. CourseAt(i)'  BY <1>4, <2>1 DEF CourseAt
  <2> QED  BY <1>4, <2>3, <2>4
<1>18. CASE Unmove(i)
  <2>1. /\ job[i].pc = "unmove" /\ job[i].saw = log[p] /\ log' = log /\ job'[i].pc = "untag"
        /\ job'[i].saw = job[i].saw
        /\ song'[p] = IF log[p].move = "done" THEN [song[p] EXCEPT !.at = "src"] ELSE song[p]
    BY <1>1, <1>3, <1>18, UnmoveStep DEF Unmove, CourseAt
  <2>2. song[p].at = "dst" => log[p].move = "done"  BY <1>3, <1>6, <2>1 DEF JournalAt
  <2>3. song'[p].at = "src" /\ song'[p].tag = song[p].tag  BY <1>8, <2>1, <2>2 DEF SongForm
  <2>4. job'[i].out # "ok"
    <3>1. "untag" \in Steps  BY DEF Steps
    <3> QED  BY <1>1, <1>7, <1>18, <3>1, GoesTo DEF Types, Unmove
  <2>5. JournalAt(p)'  BY <1>3, <1>4, <2>1, <2>3 DEF JournalAt
  <2>6. CourseAt(i)'  BY <1>4, <2>1, <2>3, <2>4 DEF CourseAt
  <2> QED  BY <1>4, <2>5, <2>6
<1>19. CASE Untag(i)
  <2>1. job[i].pc = "untag" /\ job[i].saw = log[p] /\ song[p].at = "src"
    BY <1>3, <1>19 DEF Untag, CourseAt
  <2>2. Replayed(i) => log[p].was = "old"  BY <1>3, <2>1 DEF Replayed, JournalAt
  <2>3. /\ log' = log /\ job'[i].pc = "end"
        /\ song'[p] = IF Replayed(i) THEN [song[p] EXCEPT !.tag = "old"] ELSE song[p]
    <3>1. job[i].saw.was = "old" \/ ~Replayed(i)  BY <2>1, <2>2
    <3>2. /\ log' = log /\ job'[i].pc = "end"
          /\ song'[p] = IF Replayed(i) /\ song[p].at = "src"
                        THEN [song[p] EXCEPT !.tag = job[i].saw.was] ELSE song[p]
      BY <1>1, <1>19, <3>1, UntagStep
    <3> QED  BY <2>1, <3>1, <3>2
  <2>4. ~Replayed(i) => song[p].tag = "old"
    BY <1>3, <1>8, <2>1 DEF Replayed, JournalAt, SongForm, Log, Entry
  <2>5. song'[p] = Untouched
    BY <1>8, <2>1, <2>3, <2>4 DEF SongForm, Untouched
  <2>6. song'[p].tag = "old" /\ song'[p].at = "src"  BY <2>5 DEF Untouched
  <2>7. JournalAt(p)'  BY <1>3, <1>4, <2>3, <2>6 DEF JournalAt
  <2>8. CourseAt(i)'  BY <1>4, <2>3, <2>5 DEF CourseAt, Changed
  <2> QED  BY <1>4, <2>7, <2>8
<1>20. CASE End(i)
  <2>1. job[i].pc = "end" /\ song' = song /\ log' = log /\ job'[i].pc = "succeeded"
    BY <1>1, <1>20, EndStep DEF End
  <2>2. JournalAt(p)'  BY <1>3, <1>4, <1>6, <2>1 DEF JournalAt
  <2>3. job[i].kind = "undo" => ~Changed(p)  BY <1>3, <2>1 DEF CourseAt
  <2>4. CourseAt(i)'  BY <1>4, <2>1, <2>3 DEF CourseAt, Changed
  <2> QED  BY <1>4, <2>2, <2>4
<1> QED
  BY <1>11, <1>12, <1>13, <1>14, <1>15, <1>16, <1>17, <1>18, <1>19, <1>20 DEF Work

LEMMA WorkKeepsPlans ==
  ASSUME Inv, NEW i \in Ids, Work(i)
  PROVE  Journal' /\ Course' /\ OnRecord'
<1>1. Types /\ Slot /\ Owned /\ WellWritten /\ Journal /\ Course /\ OnRecord  BY DEF Inv
<1>2. Stepped(i) /\ UNCHANGED <<rows, next, astray, gap>>
  BY <1>1, WorkSteps DEF server, hist
<1>3. /\ \A j \in Ids \ {i} : job'[j] = job[j] /\ P(j)' = P(j)
      /\ P(i)' = P(i)
      /\ \A q \in Ids \ {P(i)} : song'[q] = song[q] /\ log'[q] = log[q]
      /\ Live(i)
  BY <1>2 DEF Stepped, P
<1>4. \A q \in Ids : Sound(q)' = Sound(q)  BY <1>2 DEF Sound
<1>5. \A p \in Ids : p = P(i) /\ Sound(p) => JournalAt(p)' /\ CourseAt(i)'  BY WorkKeepsPlan
<1>6. Journal'
  <2> SUFFICES ASSUME NEW q \in Ids, Sound(q) PROVE JournalAt(q)'  BY <1>4 DEF Journal
  <2>1. CASE q = P(i)  BY <1>5, <2>1
  <2>2. CASE q # P(i)
    <3>1. JournalAt(q) /\ song'[q] = song[q] /\ log'[q] = log[q]  BY <1>1, <1>3, <2>2 DEF Journal
    <3>2. \A k \in Ids : job[k].pc = "moved" /\ P(k) = q => job'[k].pc = "moved" /\ P(k)' = q
      BY <1>3, <2>2
    <3> QED  BY <3>1, <3>2 DEF JournalAt
  <2> QED  BY <2>1, <2>2
<1>7. Course'
  <2> SUFFICES ASSUME NEW j \in Ids, P(j)' \in Ids, Sound(P(j)') PROVE CourseAt(j)'
    BY <1>4 DEF Course, Sound
  <2>1. CASE j = i  BY <1>3, <1>5, <2>1
  <2>2. CASE j # i
    <3>1. job'[j] = job[j] /\ P(j)' = P(j) /\ P(j) \in Ids /\ Sound(P(j)) /\ CourseAt(j)
      BY <1>1, <1>3, <2>2 DEF Course
    <3>2. CASE P(j) # P(i)
      <4>1. song'[P(j)] = song[P(j)] /\ log'[P(j)] = log[P(j)]  BY <1>3, <3>1, <3>2
      <4> QED  BY <1>2, <3>1, <4>1 DEF CourseAt, Changed
    <3>3. CASE P(j) = P(i)
      <4>1. ~Live(j) /\ rows[i].state = "running"  BY <1>3, <2>2, <3>1, <3>3, Alone DEF Sound
      <4>2. rows[j].state # "running"
        <5> SUFFICES ASSUME rows[j].state = "running" PROVE j = i  BY <2>2
        <5>1. next = j + 1 /\ next = i + 1  BY <1>1, <4>1 DEF Slot
        <5>2. i \in Int /\ j \in Int  BY RunsExist
        <5> QED  BY <5>1, <5>2
      <4>3. job[j].pc \in {"none", "succeeded", "failed", "swept"}  BY <4>1 DEF Live, Ended
      <4> QED  BY <1>2, <3>1, <4>2, <4>3 DEF CourseAt
    <3> QED  BY <3>2, <3>3
  <2> QED  BY <2>1, <2>2
<1>8. OnRecord'
  \* What has left its mark before has left it still.
  <2>1. ASSUME NEW k \in Ids, Did(k) PROVE Did(k)'
    <3>1. CASE k # i  BY <1>2, <1>3, <2>1, <3>1 DEF Did
    <3>2. CASE k = i
      <4>1. rows[i].kind = "apply" /\ rows[i].state = "running"
        BY <1>1, <1>3, <2>1, <3>2 DEF Did, Owned, OwnedAt, Closed
      <4>2. job[i].pc \notin {"none", "start"} /\ job[i].out # "refused"
        BY <2>1, <3>2, <4>1 DEF Did
      <4>3. job[i].kind = "apply"  BY <1>1, <4>1, <4>2 DEF Owned, OwnedAt
      <4>4. job[i].pc # "lock"  BY <1>1, <4>3 DEF Owned, OwnedAt
      <4>5. job'[i].pc \notin {"none", "start"} /\ job'[i].out # "refused"
        BY <1>2, <4>2, <4>4 DEF Stepped
      <4> QED  BY <1>2, <3>2, <4>1, <4>5 DEF Did
    <3> QED  BY <3>1, <3>2
  <2>2. \A k, q \in Ids : NotUndone(k, q)' = NotUndone(k, q)  BY <1>2 DEF NotUndone, CleanApply
  <2> SUFFICES ASSUME NEW q \in Ids, Sound(q), Changed(q)'
               PROVE  \E k \in Ids : rows[k].plan = q /\ Did(k)' /\ NotUndone(k, q)
    BY <1>2, <1>4, <2>2 DEF OnRecord
  <2>3. CASE Changed(q)
    <3>1. PICK k \in Ids : rows[k].plan = q /\ Did(k) /\ NotUndone(k, q)
      BY <1>1, <2>3 DEF OnRecord
    <3> QED  BY <2>1, <3>1
  <2>4. CASE ~Changed(q)
    <3>1. q = P(i) /\ song'[q] # song[q]  BY <1>3, <2>4 DEF Changed
    <3>2. rows[i].state = "running"  BY <1>3, <3>1, Alone DEF Sound
    <3>3. CASE job[i].kind = "apply"
      <4>1. WriteTags(i) \/ Move(i)
        <5>1. job[i].pc \notin {"lock", "unmove", "untag"}  BY <1>1, <3>3 DEF Owned, OwnedAt
        <5>2. ~Retag(i) /\ ~Begin(i)  BY <3>1 DEF Retag, Begin
        <5> QED  BY <3>1, <5>1, <5>2 DEF Work, BeginUndo, Tagged, Moved, Unmove, Untag, End
      <4>2. job[i].pc \notin {"none", "start", "lock"} /\ job[i].out = "none"
        BY <1>1, <1>3, <4>1 DEF WriteTags, Move, Owned, OwnedAt
      <4>3. rows[i].kind = "apply" /\ rows[i].plan = q
        BY <1>1, <3>1, <3>2, <3>3, <4>2 DEF Owned, OwnedAt, P
      <4>4. Did(i)  BY <3>2, <4>2, <4>3 DEF Did
      <4>5. NotUndone(i, q)
        <5>1. ASSUME NEW u \in Ids, u > i PROVE rows[u] = NoRow
          <6>1. next = i + 1  BY <1>1, <3>2 DEF Slot
          <6>2. u >= next  BY <5>1, <6>1, RunsExist
          <6> QED  BY <1>1, <6>2 DEF Slot
        <5> QED  BY <5>1 DEF NotUndone, NoRow
      <4> QED  BY <2>1, <4>3, <4>4, <4>5
    <3>4. CASE job[i].kind # "apply"
      <4>1. ~WriteTags(i) /\ ~Move(i)  BY <1>1, <3>4 DEF Owned, OwnedAt, WriteTags, Move
      <4>2. Unmove(i) \/ Untag(i)
        BY <3>1, <4>1 DEF Work, Begin, BeginUndo, Retag, Tagged, Moved, End
      <4>3. song[q] = Untouched  BY <2>4 DEF Changed
      <4>4. song[q].at = "src" /\ song[q].tag = "old"  BY <4>3 DEF Untouched
      <4>5. q \in Ids /\ CourseAt(i) /\ JournalAt(q)
        BY <1>1, <3>1 DEF Course, Journal
      <4>6. CASE Unmove(i)
        <5>1. song'[q] = song[q]
          BY <1>1, <3>1, <4>3, <4>4, <4>6, UnmoveStep DEF Untouched
        <5> QED  BY <3>1, <5>1
      <4>7. CASE Untag(i)
        <5>1. job[i].saw = log[q]  BY <3>1, <4>5, <4>7 DEF Untag, CourseAt
        <5>2. Replayed(i) => log[q].was = "old"  BY <4>5, <5>1 DEF Replayed, JournalAt
        <5>3. song'[q] = song[q]
          BY <1>1, <3>1, <4>3, <4>4, <4>7, <5>1, <5>2, UntagStep DEF Untouched
        <5> QED  BY <3>1, <5>3
      <4> QED  BY <4>2, <4>6, <4>7
    <3> QED  BY <3>3, <3>4
  <2> QED  BY <2>3, <2>4
<1> QED  BY <1>6, <1>7, <1>8

-----------------------------------------------------------------------------
\* Workers that are gone, and the server's steps.

\* A kill or a sweep: the worker goes, and a plan it left between a move and its line is noted.
Halted(i) ==
  /\ job' \in [Ids -> JobForm] /\ job[i].pc # "none" /\ job'[i].pc \in {"failed", "swept"}
  /\ job'[i].kind = job[i].kind /\ job'[i].plan = job[i].plan /\ job'[i].saw = job[i].saw
  /\ job'[i].out = job[i].out
  /\ \A j \in Ids \ {i} : job'[j] = job[j]
  /\ lock' \in 0..MaxRuns /\ turns' \in Nat
  /\ gap' \subseteq 0..MaxRuns /\ gap \subseteq gap' /\ (job[i].pc = "moved" => P(i) \in gap')
  /\ UNCHANGED <<server, song, log, astray>>

LEMMA KillHalts == ASSUME Inv, NEW i \in Ids, Kill(i) PROVE Halted(i)
<1>1. Types /\ Owned  BY DEF Inv
<1>2. "none" \in Sums /\ 0 \in 0..MaxRuns  BY MusicRepairAssumption DEF Sums
<1>3. Ends(i, "none") /\ Live(i)  BY DEF Kill
<1>4. /\ job' \in [Ids -> JobForm] /\ job'[i].pc = "failed"
      /\ job'[i].kind = job[i].kind /\ job'[i].plan = job[i].plan /\ job'[i].saw = job[i].saw
      /\ job'[i].out = "none" /\ \A j \in Ids \ {i} : job'[j] = job[j]
  BY <1>1, <1>2, <1>3, EndsWith DEF Types
<1>5. job[i].out = "none" /\ job[i].pc # "none"  BY <1>1, <1>3 DEF Owned, OwnedAt, Live
<1>6. lock' \in 0..MaxRuns /\ turns' \in Nat  BY <1>1, <1>2 DEF Kill, Turn, Types
<1>7. P(i) \in 0..MaxRuns  BY <1>1 DEF Types, JobForm, P
<1>8. gap' \subseteq 0..MaxRuns /\ gap \subseteq gap' /\ (job[i].pc = "moved" => P(i) \in gap')
  BY <1>1, <1>7 DEF Kill, Types
<1> QED  BY <1>4, <1>5, <1>6, <1>8 DEF Halted, Kill

LEMMA SweepHalts == ASSUME Inv, NEW i \in Ids, Sweep(i) PROVE Halted(i)
<1>1. Types /\ Owned  BY DEF Inv
<1>2. "swept" \in Steps  BY DEF Steps
<1>3. Goes(i, "swept") /\ Ended(i)  BY DEF Sweep
<1>4. /\ job' \in [Ids -> JobForm] /\ job'[i].pc = "swept"
      /\ job'[i].kind = job[i].kind /\ job'[i].plan = job[i].plan /\ job'[i].saw = job[i].saw
      /\ job'[i].out = job[i].out /\ \A j \in Ids \ {i} : job'[j] = job[j]
  BY <1>1, <1>2, <1>3, GoesTo DEF Types
<1>5. job[i].pc \notin {"none", "moved"}  BY <1>3 DEF Ended
<1> QED  BY <1>1, <1>4, <1>5 DEF Halted, Sweep, Turn, Types, share, hist

LEMMA HaltKeeps == ASSUME Inv, NEW i \in Ids, Halted(i) PROVE Inv'
<1>1. /\ Types /\ WellWritten /\ Slot /\ Requests /\ Readings /\ Owned
      /\ Journal /\ Course /\ OnRecord
  BY DEF Inv
<1>2. /\ UNCHANGED <<rows, expired, late, next, req, sync, image, song, log, astray>>
      /\ job[i] # NoJob
  BY DEF Halted, server, NoJob
<1>3. \A j \in Ids : j # i => job'[j] = job[j]  BY DEF Halted
<1>4. \A j \in Ids : /\ job'[j].kind = job[j].kind /\ job'[j].plan = job[j].plan
                     /\ job'[j].saw = job[j].saw /\ job'[j].out = job[j].out /\ P(j)' = P(j)
  BY <1>3 DEF Halted, P
<1>5. \A j \in Ids : Live(j)' => Live(j)
  BY <1>3 DEF Halted, Live, Ended
<1>6. ~Live(i)' /\ job'[i].pc \in {"failed", "swept"}  BY DEF Halted, Live, Ended
<1>7. Types'  BY <1>1, <1>2 DEF Types, Halted
<1>8. WellWritten'
  <2>1. \A j \in Ids : job'[j].pc \in {"write", "tagged"} => job[j].pc \in {"write", "tagged"}
    BY <1>3, <1>6
  <2> QED  BY <1>1, <1>2, <1>4, <2>1 DEF WellWritten
<1>9. Slot'
  <2>1. \A j \in Ids : job[j] = NoJob => job'[j] = NoJob  BY <1>2, <1>3
  <2> QED  BY <1>1, <1>2, <2>1 DEF Slot
<1>10. Requests'
  <2>1. \A r \in Reqs : req[r].id # 0 => req[r].id \in Ids
    BY <1>1 DEF Types, ReqForm, Ids
  <2>2. ASSUME NEW j \in Ids
        PROVE  (job[j] = NoJob => job'[j] = NoJob) /\ job'[j].plan = job[j].plan
    BY <1>2, <1>3, <1>4
  <2>3. \A r \in Reqs : Row(r)' = Row(r)  BY <1>2 DEF Row
  <2>4. ASSUME NEW r \in Reqs
        PROVE  /\ req[r].pc = "create" => job'[req[r].id] = NoJob
               /\ req[r].pc = "discard" => \/ job'[req[r].id] = NoJob
                                           \/ job'[req[r].id].plan \in astray
    BY <1>1, <2>1, <2>2 DEF Requests
  <2> QED  BY <1>1, <1>2, <2>3, <2>4 DEF Requests
<1>11. Readings'
  <2>1. \A j \in Ids : Quiet(j) => Quiet(j)'  BY <1>2, <1>5 DEF Quiet
  <2> QED  BY <1>1, <1>2, <1>4, <2>1 DEF Readings
<1>12. Owned'
  <2> SUFFICES ASSUME NEW j \in Ids PROVE OwnedAt(j)'  BY DEF Owned
  <2>1. CASE j # i
    <3>1. job'[j] = job[j]  BY <1>3, <2>1
    <3> QED  BY <1>1, <1>2, <3>1 DEF Owned, OwnedAt, Live, Ended
  <2>2. CASE j = i
    <3>1. job[i].pc # "none"  BY DEF Halted
    <3> QED  BY <1>1, <1>2, <1>4, <1>6, <2>2, <3>1 DEF Owned, OwnedAt
  <2> QED  BY <2>1, <2>2
<1>13. \A q \in Ids : Sound(q)' => Sound(q)  BY <1>2 DEF Sound, Halted
<1>14. Journal'
  <2> SUFFICES ASSUME NEW q \in Ids, Sound(q)' PROVE JournalAt(q)'  BY DEF Journal
  <2>1. Sound(q) /\ JournalAt(q)  BY <1>1, <1>13 DEF Journal
  <2>2. ASSUME NEW k \in Ids, job[k].pc = "moved", P(k) = q
        PROVE  job'[k].pc = "moved" /\ P(k)' = q
    <3>1. k # i  BY <2>2 DEF Halted, Sound
    <3> QED  BY <1>3, <1>4, <2>2, <3>1
  <2> QED  BY <1>2, <2>1, <2>2 DEF JournalAt
<1>15. Course'
  <2> SUFFICES ASSUME NEW j \in Ids, P(j) \in Ids, Sound(P(j)) PROVE CourseAt(j)'
    BY <1>4, <1>13 DEF Course
  <2>1. CourseAt(j)  BY <1>1 DEF Course
  <2>2. CASE j = i  BY <1>2, <1>4, <1>6, <2>1, <2>2 DEF CourseAt, Changed
  <2>3. CASE j # i
    <3>1. job'[j] = job[j]  BY <1>3, <2>3
    <3> QED  BY <1>2, <1>4, <2>1, <3>1 DEF CourseAt, Changed
  <2> QED  BY <2>2, <2>3
<1>16. OnRecord'
  <2>1. \A k \in Ids : Did(k) => Did(k)'  BY <1>2, <1>3, <1>4, <1>6 DEF Did
  <2>2. \A k, q \in Ids : NotUndone(k, q) => NotUndone(k, q)'  BY <1>2 DEF NotUndone, CleanApply
  <2>3. \A q \in Ids : Changed(q)' = Changed(q)  BY <1>2 DEF Changed
  <2> QED  BY <1>1, <1>2, <1>13, <2>1, <2>2, <2>3 DEF OnRecord
<1> QED
  BY <1>7, <1>8, <1>9, <1>10, <1>11, <1>12, <1>14, <1>15, <1>16 DEF Inv

LEMMA JournalStays ==
  ASSUME Journal, UNCHANGED <<job, song, log, astray, gap>>
  PROVE  Journal'
<1> SUFFICES ASSUME NEW q \in Ids, Sound(q) PROVE JournalAt(q)'  BY DEF Journal, Sound
<1>1. JournalAt(q)  BY DEF Journal
<1>2. \A k \in Ids : P(k)' = P(k)  BY DEF P
<1> QED  BY <1>1, <1>2 DEF JournalAt

\* What the workers' part of the invariant is about stays as it is.
LEMMA PlansStay ==
  ASSUME Inv, UNCHANGED <<rows, job, song, log, astray, gap>>
  PROVE  WellWritten' /\ Owned' /\ Journal' /\ Course' /\ OnRecord'
<1>1. WellWritten /\ Owned /\ Journal /\ Course /\ OnRecord  BY DEF Inv
<1>2. \A i \in Ids : P(i)' = P(i) /\ Live(i)' = Live(i)  BY DEF P, Live, Ended
<1>3. \A q : Sound(q)' = Sound(q) /\ Changed(q)' = Changed(q)  BY DEF Sound, Changed
<1>4. WellWritten'  BY <1>1, <1>2 DEF WellWritten
<1>5. Owned'  BY <1>1, <1>2 DEF Owned, OwnedAt
<1>6. Journal'  BY <1>1, JournalStays
<1>7. Course'
  <2> SUFFICES ASSUME NEW i \in Ids, P(i) \in Ids, Sound(P(i)) PROVE CourseAt(i)'
    BY <1>2 DEF Course, Sound
  <2>1. CourseAt(i)  BY <1>1 DEF Course
  <2> QED  BY <1>2, <2>1 DEF CourseAt, Changed
<1>8. OnRecord'
  <2>1. \A k, q : NotUndone(k, q)' = NotUndone(k, q) /\ Did(k)' = Did(k)
    BY DEF NotUndone, CleanApply, Did
  <2> QED  BY <1>1, <1>3, <2>1 DEF OnRecord
<1> QED  BY <1>4, <1>5, <1>6, <1>7, <1>8

\* A request is another one, or none.
LEMMA ReqWritten ==
  ASSUME Types, NEW r \in Reqs, NEW q \in ReqForm, req' = [req EXCEPT ![r] = q]
  PROVE  /\ req' \in [Reqs -> ReqForm] /\ req'[r] = q
         /\ \A s \in Reqs \ {r} : req'[s] = req[s] /\ Row(s)' = Row(s)
<1>1. \A s \in Reqs \ {r} : req'[s] = req[s]  BY DEF Types
<1> QED  BY <1>1 DEF Types, Row

\* A request that gets no further than the slot.
LEMMA RequestMoves ==
  ASSUME Inv, NEW r \in Reqs, NEW q \in ReqForm, req' = [req EXCEPT ![r] = q],
         q.pc \in {"idle", "list", "insert"}, q.id = 0, q.pc # "idle" => q.kind \in Kinds,
         q.kind \in {"apply", "undo"} => q.plan \in Ids,
         UNCHANGED <<rows, expired, late, next, sync, image, job, share, turns, hist>>
  PROVE  Inv'
<1>1. Types /\ Slot /\ Requests /\ Readings  BY DEF Inv
<1>2. UNCHANGED <<rows, expired, late, next, sync, image, job, song, log, lock, turns, astray, gap>>
  BY DEF share, hist
<1>3. /\ req' \in [Reqs -> ReqForm] /\ req'[r] = q
      /\ \A s \in Reqs \ {r} : req'[s] = req[s] /\ Row(s)' = Row(s)
  BY <1>1, ReqWritten
<1>4. Types'  BY <1>1, <1>2, <1>3 DEF Types
<1>5. Slot'  BY <1>1, <1>2 DEF Slot
<1>6. Requests'  BY <1>1, <1>2, <1>3 DEF Requests
<1>7. Readings'
  <2>1. \A s \in Reqs : req'[s].pc = "create" => req[s].pc = "create" /\ req'[s].id = req[s].id
    BY <1>3
  <2>2. \A j \in Ids : Quiet(j) => Quiet(j)'  BY <1>2, <2>1 DEF Quiet, Live, Ended
  <2> QED  BY <1>1, <1>2, <2>2 DEF Readings
<1>8. WellWritten' /\ Owned' /\ Journal' /\ Course' /\ OnRecord'  BY <1>2, PlansStay
<1> QED  BY <1>4, <1>5, <1>6, <1>7, <1>8 DEF Inv

LEMMA StartRepairKeeps ==
  ASSUME Inv, NEW r \in Reqs, NEW kind \in Kinds, NEW p \in 0..MaxRuns,
         kind \in {"apply", "undo"} => p \in Ids, StartRepair(r, kind, p)
  PROVE  Inv'
<1> DEFINE q == [pc |-> "list", kind |-> kind, id |-> 0, plan |-> p]
<1>1. q \in ReqForm /\ q.pc = "list" /\ q.id = 0 /\ q.kind = kind /\ q.plan = p
  BY MusicRepairAssumption DEF ReqForm
<1>2. req' = [req EXCEPT ![r] = q]  BY DEF StartRepair
<1> HIDE DEF q
<1> QED  BY <1>1, <1>2, RequestMoves DEF StartRepair

LEMMA AskClusterKeeps == ASSUME Inv, NEW r \in Reqs, AskCluster(r) PROVE Inv'
<1> DEFINE q == [req[r] EXCEPT !.pc = "insert"]
<1>1. Types /\ Requests  BY DEF Inv
<1>2. req[r] \in ReqForm /\ req[r].pc = "list"  BY <1>1 DEF Types, AskCluster
<1>3. /\ q \in ReqForm /\ q.pc = "insert" /\ q.id = req[r].id
      /\ q.kind = req[r].kind /\ q.plan = req[r].plan
  BY <1>2 DEF ReqForm
<1>4. req[r].id = 0 /\ req[r].kind \in Kinds
      /\ (req[r].kind \in {"apply", "undo"} => req[r].plan \in Ids)
  BY <1>1, <1>2 DEF Requests
<1>5. /\ FreeReq \in ReqForm /\ FreeReq.pc = "idle" /\ FreeReq.id = 0
      /\ FreeReq.kind \notin {"apply", "undo"}
  BY Constants DEF FreeReq
<1>6. req' = [req EXCEPT ![r] = q] \/ req' = [req EXCEPT ![r] = FreeReq]  BY DEF AskCluster
<1> HIDE DEF q
<1>7. CASE req' = [req EXCEPT ![r] = q]
  BY <1>3, <1>4, <1>7, RequestMoves DEF AskCluster
<1>8. CASE req' = [req EXCEPT ![r] = FreeReq]
  BY <1>5, <1>8, RequestMoves DEF AskCluster
<1> QED  BY <1>6, <1>7, <1>8

LEMMA InsertKeeps == ASSUME Inv, NEW r \in Reqs, StartMusicRepair(r) PROVE Inv'
<1>1. /\ Types /\ Slot /\ Requests /\ Readings /\ WellWritten /\ Owned
      /\ Journal /\ Course /\ OnRecord
  BY DEF Inv
<1>2. UNCHANGED <<expired, late, sync, image, job, song, log, lock, turns, astray, gap>>
  BY DEF StartMusicRepair, share, hist
<1>3. req[r].pc = "insert" /\ req[r] \in ReqForm /\ req[r].kind \in Kinds
      /\ (req[r].kind \in {"apply", "undo"} => req[r].plan \in Ids)
  BY <1>1 DEF StartMusicRepair, Types, Requests
<1>4. CASE ~(next <= MaxRuns /\ SlotFree)
  <2>1. /\ FreeReq \in ReqForm /\ FreeReq.pc = "idle" /\ FreeReq.id = 0
        /\ FreeReq.kind \notin {"apply", "undo"}
    BY Constants DEF FreeReq
  <2>2. req' = [req EXCEPT ![r] = FreeReq] /\ UNCHANGED <<rows, next>>
    BY <1>4 DEF StartMusicRepair
  <2> QED  BY <1>2, <2>1, <2>2, RequestMoves DEF share, hist
<1>5. CASE next <= MaxRuns /\ SlotFree
  <2> DEFINE q == [req[r] EXCEPT !.pc = "create", !.id = next]
  <2>1. /\ rows' = [rows EXCEPT ![next] = Row(r)] /\ next' = next + 1
        /\ req' = [req EXCEPT ![r] = q]
    BY <1>5 DEF StartMusicRepair
  <2>2. next \in Ids /\ next \in 0..MaxRuns /\ next # 0 /\ next \in Nat
    BY <1>1, <1>5, MusicRepairAssumption DEF Types, Ids
  <2>3. /\ q \in ReqForm /\ q.pc = "create" /\ q.id = next /\ q.kind = req[r].kind
        /\ q.plan = req[r].plan
    BY <1>3, <2>2 DEF ReqForm
  <2>4. /\ Row(r) \in RowForm /\ Row(r).kind = req[r].kind /\ Row(r).plan = req[r].plan
        /\ Row(r).state = "running" /\ Row(r).sum = "none"
    BY <1>3 DEF Row, NoRow, RowForm, ReqForm, Kinds, States, Sums
  <2>5. /\ rows' \in [Ids -> RowForm] /\ rows'[next] = Row(r)
        /\ \A j \in Ids \ {next} : rows'[j] = rows[j]
    BY <1>1, <2>1, <2>2, <2>4 DEF Types
  <2>6. /\ req' \in [Reqs -> ReqForm] /\ req'[r] = q
        /\ \A s \in Reqs \ {r} : req'[s] = req[s] /\ Row(s)' = Row(s)
    <3> HIDE DEF q
    <3> QED  BY <1>1, <2>1, <2>3, ReqWritten
  <2>7. Row(r)' = Row(r)
    <3>1. req'[r].kind = req[r].kind /\ req'[r].plan = req[r].plan
      <4> HIDE DEF q
      <4> QED  BY <2>3, <2>6
    <3> QED  BY <3>1 DEF Row
  <2> HIDE DEF q
  <2>8. /\ rows[next] = NoRow /\ job[next] = NoJob /\ next \notin late
        /\ \A j \in Ids : rows[j].state # "running"
    BY <1>1, <1>5, <2>2 DEF Slot, SlotFree, Active
  <2>9. Types'
    <3>1. next' \in Nat \ {0}  BY <2>1, <2>2
    <3> QED  BY <1>1, <1>2, <2>5, <2>6, <3>1 DEF Types
  <2>10. Slot'
    <3> SUFFICES ASSUME NEW j \in Ids
                 PROVE  /\ rows'[j].state = "running" => next' = j + 1
                        /\ rows'[j].state \in {"none", "running"} => rows'[j].sum = "none"
                        /\ j >= next' => rows'[j] = NoRow /\ job'[j] = NoJob /\ j \notin late'
                        /\ rows'[j].kind \in {"apply", "undo"} => rows'[j].plan \in Ids
      BY DEF Slot
    <3>1. CASE j = next
      <4>1. ~(next >= next + 1)  BY <2>2
      <4> QED  BY <1>3, <2>1, <2>4, <2>5, <3>1, <4>1
    <3>2. CASE j # next
      <4>1. rows'[j] = rows[j]  BY <2>5, <3>2
      <4>2. j >= next' => j >= next  BY <2>1, <2>2, RunsExist
      <4> QED  BY <1>1, <1>2, <2>8, <4>1, <4>2 DEF Slot
    <3> QED  BY <3>1, <3>2
  <2>11. Requests'
    <3>1. ASSUME NEW s \in Reqs, s # r
          PROVE  /\ req'[s] = req[s] /\ Row(s)' = Row(s)
                 /\ req[s].id # 0 => /\ req[s].id \in Ids /\ req[s].id # next
                                     /\ req[s].id < next' /\ rows'[req[s].id] = rows[req[s].id]
      <4>1. req'[s] = req[s] /\ Row(s)' = Row(s)  BY <2>6, <3>1
      <4> SUFFICES ASSUME req[s].id # 0
                   PROVE  /\ req[s].id \in Ids /\ req[s].id # next
                          /\ req[s].id < next' /\ rows'[req[s].id] = rows[req[s].id]
        BY <4>1
      <4>2. req[s].id \in Ids /\ req[s].id < next  BY <1>1 DEF Types, ReqForm, Ids, Requests
      <4>3. req[s].id \in Nat  BY <4>2, RunsExist
      <4>4. req[s].id # next /\ req[s].id < next'  BY <2>1, <2>2, <4>2, <4>3
      <4> QED  BY <2>5, <4>2, <4>4
    <3>2. /\ req'[r].pc = "create" /\ req'[r].id = next /\ req'[r].kind = req[r].kind
          /\ req'[r].plan = req[r].plan /\ next < next'
      BY <2>1, <2>2, <2>3, <2>6
    <3>3. ASSUME NEW s \in Reqs
          PROVE  /\ req'[s].pc # "idle" => req'[s].kind \in Kinds
                 /\ req'[s].kind \in {"apply", "undo"} => req'[s].plan \in Ids
                 /\ req'[s].pc \in {"create", "discard"} <=> req'[s].id # 0
                 /\ req'[s].id # 0 => req'[s].id < next' /\ req'[s].id \notin late'
                 /\ req'[s].pc = "create" =>
                      rows'[req'[s].id] = Row(s)' /\ job'[req'[s].id] = NoJob
                 /\ req'[s].pc = "discard" => \/ job'[req'[s].id] = NoJob
                                              \/ job'[req'[s].id].plan \in astray'
      <4>1. CASE s = r  BY <1>2, <1>3, <2>2, <2>5, <2>7, <2>8, <3>2, <4>1
      <4>2. CASE s # r  BY <1>1, <1>2, <3>1, <4>2 DEF Requests
      <4> QED  BY <4>1, <4>2
    <3>4. ASSUME NEW s \in Reqs, NEW t \in Reqs, req'[s].id = req'[t].id, req'[s].id # 0
          PROVE  s = t
      BY <1>1, <3>1, <3>2, <3>4 DEF Requests
    <3> QED  BY <3>3, <3>4 DEF Requests
  <2>12. Readings'
    <3> SUFFICES ASSUME NEW y \in Syncers, sync[y] # FreeSync
                 PROVE  /\ sync[y].id \in Ids /\ sync[y].id < next' /\ Quiet(sync[y].id)'
                        /\ sync[y].to \in Closed
                        /\ sync[y].to = "refused" => job[sync[y].id].out = "refused"
                        /\ sync[y].sum = "ok" => job[sync[y].id].out = "ok"
      BY <1>2 DEF Readings
    <3>1. sync[y].id \in Ids /\ sync[y].id < next /\ Quiet(sync[y].id)  BY <1>1 DEF Readings
    <3>2. sync[y].id # next /\ sync[y].id < next'
      <4>1. sync[y].id \in Nat  BY <3>1, RunsExist
      <4> QED  BY <2>1, <2>2, <3>1, <4>1
    <3>3. Quiet(sync[y].id)'
      <4>1. \A s \in Reqs : req'[s].pc = "create" => req'[s].id # sync[y].id
        BY <2>3, <2>6, <3>1, <3>2 DEF Quiet
      <4> QED  BY <1>2, <3>1, <4>1 DEF Quiet, Live, Ended
    <3> QED  BY <1>1, <3>1, <3>2, <3>3 DEF Readings
  <2>13. WellWritten' /\ Journal'
    <3>1. \A i \in Ids : P(i)' = P(i)  BY <1>2 DEF P
    <3>2. WellWritten'  BY <1>1, <1>2, <3>1 DEF WellWritten
    <3>3. Journal'  BY <1>1, <1>2, JournalStays
    <3> QED  BY <3>2, <3>3
  <2>14. job[next].pc = "none" /\ job[next].kind = "none" /\ job[next].out = "none"
    BY <2>8 DEF NoJob
  <2>15. Owned'
    <3>1. \A j \in Ids : Live(j)' = Live(j)  BY <1>2 DEF Live, Ended
    <3>2. Row(r).state \notin Closed  BY <2>4 DEF Closed
    <3> QED  BY <1>1, <1>2, <2>5, <2>14, <3>1, <3>2 DEF Owned, OwnedAt
  <2>16. Course'
    <3> SUFFICES ASSUME NEW i \in Ids, P(i) \in Ids, Sound(P(i)) PROVE CourseAt(i)'
      BY <1>2 DEF Course, Sound, P
    <3>1. CourseAt(i) /\ P(i)' = P(i)  BY <1>1, <1>2 DEF Course, P
    <3>2. CASE i = next  BY <1>2, <2>14, <3>2 DEF CourseAt
    <3>3. CASE i # next
      <4>1. rows'[i] = rows[i]  BY <2>5, <3>3
      <4> QED  BY <1>2, <3>1, <4>1 DEF CourseAt, Changed
    <3> QED  BY <3>2, <3>3
  <2>17. OnRecord'
    <3>1. \A k \in Ids : Did(k) => k # next  BY <2>8 DEF Did, NoRow
    <3>2. \A k \in Ids : Did(k) => Did(k)' /\ rows'[k] = rows[k]  BY <1>2, <2>5, <3>1 DEF Did
    <3>3. \A k, p \in Ids : NotUndone(k, p) => NotUndone(k, p)'
      BY <2>4, <2>5 DEF NotUndone, CleanApply
    <3>4. \A p \in Ids : Sound(p)' = Sound(p) /\ Changed(p)' = Changed(p)
      BY <1>2 DEF Sound, Changed
    <3> QED  BY <1>1, <3>2, <3>3, <3>4 DEF OnRecord
  <2> QED
    BY <2>9, <2>10, <2>11, <2>12, <2>13, <2>15, <2>16, <2>17 DEF Inv
<1> QED  BY <1>4, <1>5

LEMMA CreateKeeps == ASSUME Inv, NEW r \in Reqs, CreateJob(r) PROVE Inv'
<1> DEFINE n == req[r].id
           made == [Args(r) EXCEPT !.pc = "start"]
           q == [req[r] EXCEPT !.pc = "discard"]
<1>1. /\ Types /\ Slot /\ Requests /\ Readings /\ WellWritten /\ Owned
      /\ Journal /\ Course /\ OnRecord
  BY DEF Inv
<1>2. UNCHANGED <<rows, expired, late, next, sync, image, song, log, lock, gap>>
  BY DEF CreateJob, share
<1>3. /\ req[r].pc = "create" /\ req[r] \in ReqForm /\ req[r].kind \in Kinds
      /\ (req[r].kind \in {"apply", "undo"} => req[r].plan \in Ids)
      /\ n # 0 /\ n < next /\ rows[n] = Row(r) /\ job[n] = NoJob
  BY <1>1 DEF CreateJob, Types, Requests
<1>4. n \in Ids  BY <1>3 DEF ReqForm, Ids
<1>5. /\ made \in JobForm /\ made.pc = "start" /\ made.kind = req[r].kind
      /\ made.plan = req[r].plan /\ made.saw = NoLog /\ made.out = "none"
  BY <1>3, Constants DEF Args, NoJob, JobForm, ReqForm, Kinds, Steps, Sums
<1>6. /\ q \in ReqForm /\ q.pc = "discard" /\ q.id = n /\ q.kind = req[r].kind
      /\ q.plan = req[r].plan
  BY <1>3 DEF ReqForm
<1>7. /\ FreeReq \in ReqForm /\ FreeReq.pc = "idle" /\ FreeReq.id = 0
      /\ FreeReq.kind \notin {"apply", "undo"}
  BY Constants DEF FreeReq
<1>8. /\ rows[n].kind = req[r].kind /\ rows[n].plan = req[r].plan
      /\ rows[n].state = "running" /\ rows[n].sum = "none"
  BY <1>3 DEF Row, NoRow
<1>9. job[n].pc = "none" /\ job[n].kind = "none" /\ job[n].out = "none"  BY <1>3 DEF NoJob
<1>10. \/ /\ job' = [job EXCEPT ![n] = made] /\ req' = [req EXCEPT ![r] = FreeReq]
          /\ UNCHANGED <<turns, astray>>
       \/ /\ job' = job /\ req' = [req EXCEPT ![r] = q] /\ turns' = turns + 1
          /\ astray' = astray
       \/ /\ job' = [job EXCEPT ![n] = made] /\ req' = [req EXCEPT ![r] = q]
          /\ turns' = turns + 1 /\ astray' = astray \cup {req[r].plan}
  BY DEF CreateJob, Made, Turn
<1>11. PICK w \in {q, FreeReq} : req' = [req EXCEPT ![r] = w]  BY <1>10
<1>12. /\ req' \in [Reqs -> ReqForm] /\ req'[r] \in {q, FreeReq}
       /\ \A s \in Reqs \ {r} : req'[s] = req[s] /\ Row(s)' = Row(s)
  <2>1. w \in ReqForm  BY <1>6, <1>7
  <2> HIDE DEF q
  <2> QED  BY <1>1, <1>11, <2>1, ReqWritten
<1> HIDE DEF made, q
<1>13. /\ job' \in [Ids -> JobForm] /\ job'[n] \in {job[n], made}
       /\ \A j \in Ids \ {n} : job'[j] = job[j]
  BY <1>1, <1>4, <1>5, <1>10 DEF Types
<1>14. /\ astray' \subseteq 0..MaxRuns /\ astray \subseteq astray'
       /\ req'[r].pc = "discard" => job'[n] = NoJob \/ req[r].plan \in astray'
  <2>1. req[r].plan \in 0..MaxRuns  BY <1>3 DEF ReqForm
  <2>2. job' = job => job'[n] = NoJob  BY <1>3
  <2>3. req' = [req EXCEPT ![r] = FreeReq] => req'[r].pc # "discard"  BY <1>1, <1>7 DEF Types
  <2> QED  BY <1>1, <1>10, <2>1, <2>2, <2>3 DEF Types
<1>15. Types'
  <2>1. turns' \in Nat  BY <1>1, <1>10 DEF Types
  <2> QED  BY <1>1, <1>2, <1>12, <1>13, <1>14, <2>1 DEF Types
<1>16. Slot'
  <2>1. \A j \in Ids : j >= next => j # n /\ job'[j] = NoJob
    <3> SUFFICES ASSUME NEW j \in Ids, j >= next PROVE j # n /\ job'[j] = NoJob  OBVIOUS
    <3>1. j \in Nat /\ n \in Nat /\ next \in Nat  BY <1>1, <1>4, RunsExist DEF Types
    <3>2. j # n  BY <1>3, <3>1
    <3> QED  BY <1>1, <1>13, <3>2 DEF Slot
  <2> QED  BY <1>1, <1>2, <2>1 DEF Slot
<1>17. Requests'
  <2>1. ASSUME NEW s \in Reqs, s # r
        PROVE  /\ req'[s] = req[s] /\ Row(s)' = Row(s)
               /\ req[s].id # 0 => job'[req[s].id] = job[req[s].id]
    <3> SUFFICES ASSUME req[s].id # 0 PROVE job'[req[s].id] = job[req[s].id]  BY <1>12, <2>1
    <3>1. req[s].id \in Ids  BY <1>1 DEF Types, ReqForm, Ids
    <3>2. req[s].id # n  BY <1>1, <1>3, <2>1 DEF Requests
    <3> QED  BY <1>13, <3>1, <3>2
  <2>2. ASSUME NEW s \in Reqs
        PROVE  /\ req'[s].pc # "idle" => req'[s].kind \in Kinds
               /\ req'[s].kind \in {"apply", "undo"} => req'[s].plan \in Ids
               /\ req'[s].pc \in {"create", "discard"} <=> req'[s].id # 0
               /\ req'[s].id # 0 => req'[s].id < next' /\ req'[s].id \notin late'
               /\ req'[s].pc = "create" =>
                    rows'[req'[s].id] = Row(s)' /\ job'[req'[s].id] = NoJob
               /\ req'[s].pc = "discard" => \/ job'[req'[s].id] = NoJob
                                            \/ job'[req'[s].id].plan \in astray'
    <3>1. CASE s # r
      <4>1. req'[s] = req[s] /\ Row(s)' = Row(s)  BY <2>1, <3>1
      <4>2. /\ req[s].pc # "idle" => req[s].kind \in Kinds
            /\ req[s].kind \in {"apply", "undo"} => req[s].plan \in Ids
            /\ req[s].pc \in {"create", "discard"} <=> req[s].id # 0
            /\ req[s].id # 0 => req[s].id < next /\ req[s].id \notin late
            /\ req[s].pc = "create" => rows[req[s].id] = Row(s) /\ job[req[s].id] = NoJob
            /\ req[s].pc = "discard" => \/ job[req[s].id] = NoJob
                                        \/ job[req[s].id].plan \in astray
        BY <1>1 DEF Requests
      <4>3. req[s].id # 0 => job'[req[s].id] = job[req[s].id]  BY <2>1, <3>1
      <4> QED  BY <1>2, <1>14, <4>1, <4>2, <4>3
    <3>2. CASE s = r /\ req'[r] = FreeReq  BY <1>7, <3>2
    <3>3. CASE s = r /\ req'[r] = q
      <4>1. n \notin late  BY <1>1, <1>3 DEF Requests
      <4>2. job'[n] = NoJob \/ job'[n].plan \in astray'
        BY <1>3, <1>5, <1>6, <1>13, <1>14, <3>3
      <4> QED  BY <1>2, <1>3, <1>6, <3>3, <4>1, <4>2
    <3> QED  BY <1>12, <3>1, <3>2, <3>3
  <2>3. ASSUME NEW s \in Reqs, NEW t \in Reqs, req'[s].id = req'[t].id, req'[s].id # 0
        PROVE  s = t
    <3>1. \A u \in Reqs : req'[u].id # 0 => req'[u].id = req[u].id
      BY <1>6, <1>7, <1>12
    <3> QED  BY <1>1, <2>3, <3>1 DEF Requests
  <2> QED  BY <2>2, <2>3 DEF Requests
<1>18. Readings'
  <2> SUFFICES ASSUME NEW y \in Syncers, sync[y] # FreeSync
               PROVE  /\ sync[y].id \in Ids /\ sync[y].id < next /\ Quiet(sync[y].id)'
                      /\ sync[y].to \in Closed
                      /\ sync[y].to = "refused" => job'[sync[y].id].out = "refused"
                      /\ sync[y].sum = "ok" => job'[sync[y].id].out = "ok"
    BY <1>2 DEF Readings
  <2>1. sync[y].id \in Ids /\ Quiet(sync[y].id)  BY <1>1 DEF Readings
  <2>2. sync[y].id # n  BY <1>3, <2>1 DEF Quiet
  <2>3. job'[sync[y].id] = job[sync[y].id]  BY <1>13, <2>1, <2>2
  <2>4. \A s \in Reqs : req'[s].pc = "create" => s # r /\ req'[s] = req[s]
    BY <1>6, <1>7, <1>12
  <2>5. Live(sync[y].id)' = Live(sync[y].id)  BY <1>2, <2>3 DEF Live, Ended
  <2>6. Quiet(sync[y].id)'  BY <1>2, <2>1, <2>4, <2>5 DEF Quiet
  <2> QED  BY <1>1, <2>3, <2>6 DEF Readings
<1>19. ASSUME NEW j \in Ids PROVE j # n => job'[j] = job[j] /\ P(j)' = P(j) /\ Live(j)' = Live(j)
  BY <1>13 DEF P, Live, Ended
<1>20. WellWritten'
  <2>1. NoLog.tag = ""  BY DEF NoLog
  <2>2. job'[n].pc \notin {"write", "tagged"}  BY <1>5, <1>9, <1>13
  <2>3. job'[n].saw = job[n].saw \/ job'[n].saw = NoLog  BY <1>5, <1>13
  <2> QED  BY <1>1, <1>2, <1>4, <1>19, <2>1, <2>2, <2>3 DEF WellWritten
<1>21. Owned'
  <2> SUFFICES ASSUME NEW j \in Ids PROVE OwnedAt(j)'  BY DEF Owned
  <2>1. CASE j # n
    <3>1. job'[j] = job[j] /\ Live(j)' = Live(j)  BY <1>19, <2>1
    <3>2. OwnedAt(j)  BY <1>1 DEF Owned
    <3> QED  BY <1>2, <1>14, <3>1, <3>2 DEF OwnedAt
  <2>2. CASE j = n /\ job'[n] = job[n]
    <3>1. Live(j)' = Live(j)  BY <2>2 DEF Live, Ended
    <3> QED  BY <1>1, <1>2, <1>14, <2>2, <3>1 DEF Owned, OwnedAt
  <2>3. CASE j = n /\ job'[n] = made
    <3>1. rows[n].state \notin Closed  BY <1>8 DEF Closed
    <3>2. job'[n].plan = rows'[n].plan /\ job'[n].kind = rows'[n].kind /\ rows'[n].state = "running"
      BY <1>2, <1>5, <1>8, <2>3
    <3>3. rows'[n].state \notin Closed /\ job'[n].kind \in Kinds /\ job'[n].out = "none"
      BY <1>2, <1>3, <1>5, <2>3, <3>1
    <3>4. job'[n].kind \in {"apply", "undo"} => job'[n].plan \in Ids  BY <1>3, <1>5, <2>3
    <3>5. job'[n].pc = "start"  BY <1>5, <2>3
    <3> QED  BY <2>3, <3>2, <3>3, <3>4, <3>5 DEF OwnedAt
  <2> QED  BY <1>13, <2>1, <2>2, <2>3
<1>22. \A p \in Ids : /\ Sound(p)' => Sound(p)
                      /\ Changed(p)' = Changed(p)
  BY <1>2, <1>14 DEF Sound, Changed
<1>23. Journal'
  <2> SUFFICES ASSUME NEW p \in Ids, Sound(p)' PROVE JournalAt(p)'  BY DEF Journal
  <2>1. JournalAt(p)  BY <1>1, <1>22 DEF Journal
  <2>2. \A k \in Ids : job[k].pc = "moved" => job'[k].pc = "moved" /\ P(k)' = P(k)
    BY <1>9, <1>19
  <2> QED  BY <1>2, <2>1, <2>2 DEF JournalAt
<1>24. Course'
  <2> SUFFICES ASSUME NEW j \in Ids, P(j)' \in Ids, Sound(P(j))' PROVE CourseAt(j)'
    BY DEF Course
  <2>1. CASE j = n
    <3>1. job'[n].pc \in {"none", "start"} /\ job'[n].out = "none"  BY <1>5, <1>9, <1>13
    <3> QED  BY <2>1, <3>1 DEF CourseAt
  <2>2. CASE j # n
    <3>1. job'[j] = job[j] /\ P(j)' = P(j)  BY <1>19, <2>2
    <3>2. P(j) \in Ids /\ Sound(P(j))  BY <1>2, <1>14, <3>1 DEF Sound
    <3>3. CourseAt(j)  BY <1>1, <3>2 DEF Course
    <3> QED  BY <1>2, <3>1, <3>3 DEF CourseAt, Changed
  <2> QED  BY <2>1, <2>2
<1>25. OnRecord'
  <2>1. \A k \in Ids : Did(k) => k # n  BY <1>8, <1>9 DEF Did
  <2>2. \A k \in Ids : Did(k) => Did(k)'  BY <1>2, <1>19, <2>1 DEF Did
  <2>3. \A k, p \in Ids : NotUndone(k, p) => NotUndone(k, p)'  BY <1>2 DEF NotUndone, CleanApply
  <2> QED  BY <1>1, <1>2, <1>22, <2>2, <2>3 DEF OnRecord
<1> QED
  BY <1>15, <1>16, <1>17, <1>18, <1>20, <1>21, <1>23, <1>24, <1>25 DEF Inv

LEMMA DiscardKeeps == ASSUME Inv, NEW r \in Reqs, DiscardMusicRepair(r) PROVE Inv'
<1> DEFINE n == req[r].id
<1>1. /\ Types /\ Slot /\ Requests /\ Readings /\ WellWritten /\ Owned
      /\ Journal /\ Course /\ OnRecord
  BY DEF Inv
<1>2. UNCHANGED <<expired, late, next, sync, image, job, song, log, lock, turns, astray, gap>>
  BY DEF DiscardMusicRepair, share, hist
<1>3. n # 0 /\ (job[n] = NoJob \/ job[n].plan \in astray)
  BY <1>1 DEF DiscardMusicRepair, Requests
<1>4. n \in Ids  BY <1>1, <1>3 DEF Types, ReqForm, Ids
<1>5. /\ FreeReq \in ReqForm /\ FreeReq.pc = "idle" /\ FreeReq.id = 0
      /\ FreeReq.kind \notin {"apply", "undo"} /\ NoRow \in RowForm
  BY Constants DEF FreeReq
<1>6. /\ req' \in [Reqs -> ReqForm] /\ req'[r] = FreeReq
      /\ \A s \in Reqs \ {r} : req'[s] = req[s] /\ Row(s)' = Row(s)
  BY <1>1, <1>5, ReqWritten DEF DiscardMusicRepair
<1>7. NoRow.kind = "none" /\ NoRow.state = "none" /\ NoRow.sum = "none"  BY DEF NoRow
<1>8. CASE rows[n].state # "running"
  <2>1. rows' = rows  BY <1>8 DEF DiscardMusicRepair
  <2> QED  BY <1>2, <1>5, <2>1, RequestMoves DEF DiscardMusicRepair, share, hist
<1>9. CASE rows[n].state = "running"
  <2>1. rows' = [rows EXCEPT ![n] = NoRow]  BY <1>9 DEF DiscardMusicRepair
  <2>2. /\ rows' \in [Ids -> RowForm] /\ rows'[n] = NoRow
        /\ \A j \in Ids \ {n} : rows'[j] = rows[j]
    BY <1>1, <1>4, <1>5, <2>1 DEF Types
  <2>3. Types'  BY <1>1, <1>2, <1>6, <2>2 DEF Types
  <2>4. Slot'  BY <1>1, <1>2, <1>7, <2>2 DEF Slot
  <2>5. Requests'
    <3>1. ASSUME NEW s \in Reqs, s # r
          PROVE  /\ req'[s] = req[s] /\ Row(s)' = Row(s)
                 /\ req[s].id # 0 => rows'[req[s].id] = rows[req[s].id]
      <4> SUFFICES ASSUME req[s].id # 0 PROVE rows'[req[s].id] = rows[req[s].id]  BY <1>6, <3>1
      <4>1. req[s].id \in Ids  BY <1>1 DEF Types, ReqForm, Ids
      <4>2. req[s].id # n  BY <1>1, <1>3, <3>1 DEF Requests
      <4> QED  BY <2>2, <4>1, <4>2
    <3>2. ASSUME NEW s \in Reqs
          PROVE  /\ req'[s].pc # "idle" => req'[s].kind \in Kinds
                 /\ req'[s].kind \in {"apply", "undo"} => req'[s].plan \in Ids
                 /\ req'[s].pc \in {"create", "discard"} <=> req'[s].id # 0
                 /\ req'[s].id # 0 => req'[s].id < next' /\ req'[s].id \notin late'
                 /\ req'[s].pc = "create" =>
                      rows'[req'[s].id] = Row(s)' /\ job'[req'[s].id] = NoJob
                 /\ req'[s].pc = "discard" => \/ job'[req'[s].id] = NoJob
                                              \/ job'[req'[s].id].plan \in astray'
      <4>1. CASE s # r  BY <1>1, <1>2, <3>1, <4>1 DEF Requests
      <4>2. CASE s = r  BY <1>5, <1>6, <4>2
      <4> QED  BY <4>1, <4>2
    <3>3. ASSUME NEW s \in Reqs, NEW t \in Reqs, req'[s].id = req'[t].id, req'[s].id # 0
          PROVE  s = t
      BY <1>1, <1>5, <1>6, <3>3 DEF Requests
    <3> QED  BY <3>2, <3>3 DEF Requests
  <2>6. Readings'
    <3>1. \A s \in Reqs : req'[s].pc = "create" => req[s].pc = "create" /\ req'[s].id = req[s].id
      BY <1>5, <1>6
    <3>2. \A j \in Ids : Quiet(j) => Quiet(j)'  BY <1>2, <3>1 DEF Quiet, Live, Ended
    <3> QED  BY <1>1, <1>2, <3>2 DEF Readings
  <2>7. WellWritten' /\ Journal'
    <3>1. \A i \in Ids : P(i)' = P(i)  BY <1>2 DEF P
    <3>2. WellWritten'  BY <1>1, <1>2, <3>1 DEF WellWritten
    <3>3. Journal'  BY <1>1, <1>2, JournalStays
    <3> QED  BY <3>2, <3>3
  <2>8. Owned'
    <3>1. \A j \in Ids : Live(j)' = Live(j)  BY <1>2 DEF Live, Ended
    <3>2. NoRow.state \notin Closed  BY <1>7 DEF Closed
    <3>3. job[n].pc # "none" => job[n].plan \in astray  BY <1>3 DEF NoJob
    <3> QED  BY <1>1, <1>2, <1>7, <2>2, <3>1, <3>2, <3>3 DEF Owned, OwnedAt
  <2>9. Course'
    <3> SUFFICES ASSUME NEW i \in Ids, P(i) \in Ids, Sound(P(i)) PROVE CourseAt(i)'
      BY <1>2 DEF Course, Sound, P
    <3>1. CourseAt(i) /\ P(i)' = P(i)  BY <1>1, <1>2 DEF Course, P
    <3>2. rows'[i].state = "running" => rows[i].state = "running"  BY <1>7, <2>2
    <3> QED  BY <1>2, <3>1, <3>2 DEF CourseAt, Changed
  <2>10. OnRecord'
    <3> SUFFICES ASSUME NEW p \in Ids, Sound(p), Changed(p)
                 PROVE  \E k \in Ids : rows'[k].plan = p /\ Did(k)' /\ NotUndone(k, p)'
      BY <1>2 DEF OnRecord, Sound, Changed
    <3>1. PICK k \in Ids : rows[k].plan = p /\ Did(k) /\ NotUndone(k, p)
      BY <1>1 DEF OnRecord
    <3>2. k # n
      <4> SUFFICES ASSUME k = n PROVE FALSE  OBVIOUS
      <4>1. job[n].pc # "none" /\ job[n].plan \in astray
        BY <1>3, <1>9, <3>1 DEF Did, NoJob
      <4>2. job[n].plan = p  BY <1>1, <1>4, <1>9, <3>1, <4>1 DEF Owned, OwnedAt
      <4> QED  BY <4>1, <4>2 DEF Sound
    <3>3. rows'[k] = rows[k]  BY <2>2, <3>2
    <3>4. Did(k)'  BY <1>2, <3>1, <3>3 DEF Did
    <3>5. NotUndone(k, p)'  BY <1>7, <2>2, <3>1 DEF NotUndone, CleanApply
    <3> QED  BY <3>1, <3>3, <3>4, <3>5
  <2> QED  BY <2>3, <2>4, <2>5, <2>6, <2>7, <2>8, <2>9, <2>10 DEF Inv
<1> QED  BY <1>8, <1>9

\* A reading of an ending is right about it.
LEMMA LookKeeps == ASSUME Inv, NEW y \in Syncers, Look(y) PROVE Inv'
<1>1. Types /\ Slot /\ Requests /\ Readings /\ Owned  BY DEF Inv
<1>2. UNCHANGED <<rows, expired, late, next, req, image, job, song, log, lock, turns, astray, gap>>
  BY DEF Look, share, hist
<1>3. PICK i \in Ids : \E lines \in RepairLog(i) :
        /\ rows[i].state = "running" /\ NextState(i, JobPhase(i), ParseLog(lines)) # "running"
        /\ sync' = [sync EXCEPT ![y] =
             [id |-> i, to |-> NextState(i, JobPhase(i), ParseLog(lines)), sum |-> ParseLog(lines)]]
  BY DEF Look
<1>4. PICK lines \in RepairLog(i) :
        /\ rows[i].state = "running" /\ NextState(i, JobPhase(i), ParseLog(lines)) # "running"
        /\ sync' = [sync EXCEPT ![y] =
             [id |-> i, to |-> NextState(i, JobPhase(i), ParseLog(lines)), sum |-> ParseLog(lines)]]
  BY <1>3
<1> DEFINE sum == ParseLog(lines)
           to == NextState(i, JobPhase(i), sum)
           s == [id |-> i, to |-> to, sum |-> sum]
<1>5. sum = "none" \/ (Ended(i) /\ sum = job[i].out)
  <2>1. CASE ~Ended(i)
    <3>1. lines = {}  BY <2>1 DEF RepairLog
    <3> QED  BY <3>1 DEF ParseLog
  <2>2. CASE Ended(i) /\ lines \subseteq {"progress"}  BY <2>2 DEF ParseLog
  <2>3. CASE Ended(i) /\ ~(lines \subseteq {"progress"})
    <3>1. lines = Lines(i) /\ job[i].out # "none" /\ lines = {"progress", job[i].out}
      BY <2>3 DEF RepairLog, Lines
    <3>2. job[i].out \in Sums /\ "progress" \notin Sums  BY <1>1 DEF Types, JobForm, Sums
    <3>3. sum = CHOOSE t \in Sums : t \in lines  BY <2>3 DEF ParseLog
    <3>4. \E t \in Sums : t \in lines  BY <3>1, <3>2
    <3>5. sum \in Sums /\ sum \in lines
      <4> HIDE DEF sum
      <4> QED  BY <3>3, <3>4
    <3> QED  BY <2>3, <3>1, <3>2, <3>5
  <2> QED  BY <2>1, <2>2, <2>3
<1>6. sum \in Sums
  <2> HIDE DEF sum
  <2> QED  BY <1>1, <1>5 DEF Types, JobForm, Sums
<1>7. /\ to \in Closed
      /\ to = "refused" => sum = "refused"
      /\ Ended(i) \/ (JobPhase(i) = "missing" /\ i \in late)
  <2>1. JobPhase(i) \in {"missing", "running", "succeeded", "failed"}
        /\ (JobPhase(i) \in {"succeeded", "failed"} => Ended(i))
    BY DEF JobPhase, Ended
  <2>2. to # "running"  BY <1>4
  <2> HIDE DEF sum
  <2>3. CASE JobPhase(i) = "running"  BY <2>2, <2>3 DEF NextState
  <2>4. CASE JobPhase(i) = "missing"
    <3>1. i \in late /\ to = "unfinished"  BY <2>2, <2>4 DEF NextState
    <3> QED  BY <2>4, <3>1 DEF Closed
  <2>5. CASE JobPhase(i) \in {"succeeded", "failed"}
    <3>1. to = (CASE sum = "refused" -> "refused"
                  [] sum = "none" -> IF JobPhase(i) = "succeeded" THEN "finished" ELSE "unfinished"
                  [] OTHER -> "finished")
      BY <2>5 DEF NextState
    <3>2. CASE sum = "refused"  BY <2>1, <2>5, <3>1, <3>2 DEF Closed
    <3>3. CASE sum = "none"  BY <2>1, <2>5, <3>1, <3>3 DEF Closed
    <3>4. CASE sum \notin {"refused", "none"}  BY <2>1, <2>5, <3>1, <3>4 DEF Closed
    <3> QED  BY <3>2, <3>3, <3>4
  <2> QED  BY <2>1, <2>3, <2>4, <2>5
<1> HIDE DEF sum, to
<1>8. Quiet(i)
  <2>1. ~Live(i)  BY <1>7 DEF Live, JobPhase
  <2> SUFFICES ASSUME NEW r \in Reqs, req[r].pc = "create", req[r].id = i PROVE FALSE
    BY <2>1 DEF Quiet
  <2>2. i # 0 /\ job[i] = NoJob /\ i \notin late  BY <1>1, RunsExist DEF Requests
  <2> QED  BY <1>7, <2>2 DEF Ended, NoJob
<1>9. i < next
  <2>1. rows[i] # NoRow  BY <1>4 DEF NoRow
  <2>2. ~(i >= next) /\ i \in Nat /\ next \in Nat  BY <1>1, <2>1, RunsExist DEF Slot, Types
  <2> QED  BY <2>2
<1>10. /\ sum = "ok" => job[i].out = "ok"
       /\ to = "refused" => job[i].out = "refused"
  BY <1>5, <1>7
<1>11. s \in SyncForm /\ s.id = i /\ s.to = to /\ s.sum = sum
  BY <1>6, <1>7, RunsExist DEF SyncForm
<1>12. sync' = [sync EXCEPT ![y] = s]  BY <1>4 DEF s, sum, to
<1> HIDE DEF s
<1>13. sync' \in [Syncers -> SyncForm] /\ sync'[y] = s /\ \A z \in Syncers \ {y} : sync'[z] = sync[z]
  BY <1>1, <1>11, <1>12 DEF Types
<1>14. Types'  BY <1>1, <1>2, <1>13 DEF Types
<1>15. Slot'  BY <1>1, <1>2 DEF Slot
<1>16. Requests'
  <2>1. \A r \in Reqs : Row(r)' = Row(r)  BY <1>2 DEF Row
  <2> QED  BY <1>1, <1>2, <2>1 DEF Requests
<1>17. Readings'
  <2>1. \A j \in Ids : Quiet(j)' = Quiet(j)  BY <1>2 DEF Quiet, Live, Ended
  <2> SUFFICES ASSUME NEW z \in Syncers, sync'[z] # FreeSync
               PROVE  /\ sync'[z].id \in Ids /\ sync'[z].id < next /\ Quiet(sync'[z].id)
                      /\ sync'[z].to \in Closed
                      /\ sync'[z].to = "refused" => job[sync'[z].id].out = "refused"
                      /\ sync'[z].sum = "ok" => job[sync'[z].id].out = "ok"
    BY <1>2, <2>1 DEF Readings
  <2>2. CASE z = y  BY <1>7, <1>8, <1>9, <1>10, <1>11, <1>13, <2>2
  <2>3. CASE z # y  BY <1>1, <1>13, <2>3 DEF Readings
  <2> QED  BY <2>2, <2>3
<1>18. WellWritten' /\ Owned' /\ Journal' /\ Course' /\ OnRecord'  BY <1>2, PlansStay
<1> QED  BY <1>14, <1>15, <1>16, <1>17, <1>18 DEF Inv

\* The ending of an undo that succeeded is recorded while its plan is whole.
LEMMA FinishKeeps == ASSUME Inv, NEW y \in Syncers, FinishMusicRepair(y) PROVE Inv'
<1> DEFINE n == sync[y].id
           row == [rows[n] EXCEPT !.state = sync[y].to, !.sum = sync[y].sum]
<1>1. /\ Types /\ Slot /\ Requests /\ Readings /\ WellWritten /\ Owned
      /\ Journal /\ Course /\ OnRecord
  BY DEF Inv
<1>2. UNCHANGED <<expired, next, req, image, job, song, log, lock, turns, astray, gap>>
      /\ sync' = [sync EXCEPT ![y] = FreeSync] /\ late' \subseteq late
  BY DEF FinishMusicRepair, share, hist
<1>3. /\ n \in Ids /\ n < next /\ Quiet(n) /\ sync[y].to \in Closed /\ sync[y].sum \in Sums
      /\ sync[y].to = "refused" => job[n].out = "refused"
      /\ sync[y].sum = "ok" => job[n].out = "ok"
  BY <1>1 DEF FinishMusicRepair, Readings, Types, SyncForm
<1>4. /\ row \in RowForm /\ row.kind = rows[n].kind /\ row.plan = rows[n].plan
      /\ row.state = sync[y].to /\ row.sum = sync[y].sum
  BY <1>1, <1>3 DEF Types, RowForm, Closed, States
<1>5. rows' = IF rows[n].state = "running" THEN [rows EXCEPT ![n] = row] ELSE rows
  BY DEF FinishMusicRepair, RecordOnce, Record
<1> HIDE DEF row
<1>6. /\ rows' \in [Ids -> RowForm]
      /\ \A j \in Ids : j # n \/ rows[j].state # "running" => rows'[j] = rows[j]
      /\ rows[n].state = "running" => rows'[n] = row
  BY <1>1, <1>3, <1>4, <1>5 DEF Types
<1>7. /\ sync' \in [Syncers -> SyncForm] /\ sync'[y] = FreeSync
      /\ \A z \in Syncers \ {y} : sync'[z] = sync[z]
  BY <1>1, <1>2, Constants DEF Types
<1>8. \A j \in Ids : /\ rows'[j].kind = rows[j].kind /\ rows'[j].plan = rows[j].plan
                     /\ rows'[j].state = "none" <=> rows[j].state = "none"
                     /\ rows'[j].state = "running" => rows'[j] = rows[j]
                     /\ rows'[j] = rows[j] \/ (j = n /\ rows'[j].state \in Closed)
  BY <1>3, <1>4, <1>6 DEF Closed
<1>9. Types'  BY <1>1, <1>2, <1>6, <1>7 DEF Types
<1>10. Slot'
  <2> SUFFICES ASSUME NEW j \in Ids
               PROVE  /\ rows'[j].state = "running" => next = j + 1
                      /\ rows'[j].state \in {"none", "running"} => rows'[j].sum = "none"
                      /\ j >= next => rows'[j] = NoRow /\ job[j] = NoJob /\ j \notin late'
                      /\ rows'[j].kind \in {"apply", "undo"} => rows'[j].plan \in Ids
    BY <1>2 DEF Slot
  <2>1. j >= next => j # n
    <3>1. j \in Nat /\ n \in Nat /\ next \in Nat  BY <1>1, <1>3, RunsExist DEF Types
    <3> QED  BY <1>3, <3>1
  <2> QED  BY <1>1, <1>2, <1>8, <2>1 DEF Slot, Closed
<1>11. Requests'
  <2>1. ASSUME NEW r \in Reqs, req[r].pc = "create" PROVE rows'[req[r].id] = rows[req[r].id]
    <3>1. req[r].id # n  BY <1>3, <2>1 DEF Quiet
    <3>2. req[r].id \in Ids  BY <1>1, <2>1 DEF Types, ReqForm, Ids, Requests
    <3> QED  BY <1>6, <3>1, <3>2
  <2>2. \A r \in Reqs : Row(r)' = Row(r)  BY <1>2 DEF Row
  <2> QED  BY <1>1, <1>2, <2>1, <2>2 DEF Requests
<1>12. Readings'
  <2>1. \A j \in Ids : Quiet(j)' = Quiet(j)  BY <1>2 DEF Quiet, Live, Ended
  <2>2. \A z \in Syncers : sync'[z] # FreeSync => sync'[z] = sync[z]  BY <1>7
  <2> QED  BY <1>1, <1>2, <2>1, <2>2 DEF Readings
<1>13. WellWritten'
  <2>1. \A j \in Ids : P(j)' = P(j)  BY <1>2 DEF P
  <2> QED  BY <1>1, <1>2, <2>1 DEF WellWritten
<1>14. Journal'  BY <1>1, <1>2, JournalStays
<1>15. Owned'
  <2> SUFFICES ASSUME NEW j \in Ids PROVE OwnedAt(j)'  BY DEF Owned
  <2>1. OwnedAt(j) /\ Live(j)' = Live(j)  BY <1>1, <1>2 DEF Owned, Live, Ended
  <2>2. rows'[j].state \in Closed => ~Live(j)
    BY <1>3, <1>8, <2>1 DEF OwnedAt, Quiet
  <2> QED  BY <1>2, <1>8, <2>1, <2>2 DEF OwnedAt
<1>16. Course'
  <2> SUFFICES ASSUME NEW j \in Ids, P(j) \in Ids, Sound(P(j)) PROVE CourseAt(j)'
    BY <1>2 DEF Course, Sound, P
  <2>1. CourseAt(j) /\ P(j)' = P(j)  BY <1>1, <1>2 DEF Course, P
  <2> QED  BY <1>2, <1>8, <2>1 DEF CourseAt, Changed
<1>17. OnRecord'
  <2> SUFFICES ASSUME NEW p \in Ids, Sound(p), Changed(p)
               PROVE  \E k \in Ids : rows'[k].plan = p /\ Did(k)' /\ NotUndone(k, p)'
    BY <1>2 DEF OnRecord, Sound, Changed
  <2>1. PICK k \in Ids : rows[k].plan = p /\ Did(k) /\ NotUndone(k, p)
    BY <1>1 DEF OnRecord
  <2>2. Did(k)'
    <3>1. CASE rows'[k] = rows[k]  BY <1>2, <2>1, <3>1 DEF Did
    <3>2. CASE rows'[k] # rows[k]
      <4>1. k = n /\ rows[n].state = "running" /\ rows'[n] = row  BY <1>6, <3>2
      <4>2. job[n].out # "refused"  BY <2>1, <4>1 DEF Did
      <4>3. row.state \in {"finished", "unfinished"}  BY <1>3, <1>4, <4>2 DEF Closed
      <4> QED  BY <1>8, <2>1, <4>1, <4>3 DEF Did
    <3> QED  BY <3>1, <3>2
  <2>3. NotUndone(k, p)'
    <3> SUFFICES ASSUME NEW u \in Ids, u > k, rows'[u].kind = "undo", rows'[u].plan = p,
                        rows'[u].state = "finished", rows'[u].sum = "ok"
                 PROVE  FALSE
      BY DEF NotUndone, CleanApply
    <3>1. rows'[u] # rows[u]  BY <2>1 DEF NotUndone, CleanApply
    <3>2. u = n /\ rows[n].state = "running" /\ rows'[n] = row  BY <1>6, <3>1
    <3>3. job[n].out = "ok"  BY <1>3, <1>4, <3>2
    <3>4. job[n].pc # "none"  BY <1>1, <1>3, <3>3 DEF Owned, OwnedAt
    <3>5. rows[n].kind = "undo" /\ rows[n].plan = p  BY <1>8, <3>2
    <3>6. job[n].kind = "undo" /\ job[n].plan = p
      BY <1>1, <1>3, <3>2, <3>4, <3>5 DEF Owned, OwnedAt
    <3>7. P(n) = p  BY <3>6 DEF P
    <3>8. CourseAt(n)  BY <1>1, <1>3, <3>7 DEF Course
    <3> QED  BY <3>2, <3>3, <3>6, <3>7, <3>8 DEF CourseAt
  <2> QED  BY <1>8, <2>1, <2>2, <2>3
<1> QED
  BY <1>9, <1>10, <1>11, <1>12, <1>13, <1>14, <1>15, <1>16, <1>17 DEF Inv

\* Time, and a restart, which forgets what was under way.
LEMMA GraceKeeps == ASSUME Inv, NEW i \in Ids, GraceOver(i) PROVE Inv'
<1>1. Types /\ Slot /\ Requests /\ Readings /\ Owned  BY DEF Inv
<1>2. UNCHANGED <<rows, expired, next, req, sync, image, job, song, log, lock, turns, astray, gap>>
      /\ late' = late \cup {i} /\ rows[i].state = "running" /\ \A r \in Reqs : req[r].id # i
  BY DEF GraceOver, share, hist
<1>3. Types'  BY <1>1, <1>2 DEF Types
<1>4. rows[i] # NoRow  BY <1>2 DEF NoRow
<1>5. Slot'  BY <1>1, <1>2, <1>4 DEF Slot
<1>6. Requests'
  <2>1. \A r \in Reqs : Row(r)' = Row(r)  BY <1>2 DEF Row
  <2> QED  BY <1>1, <1>2, <2>1 DEF Requests
<1>7. Readings'
  <2>1. \A j \in Ids : Quiet(j)' = Quiet(j)  BY <1>2 DEF Quiet, Live, Ended
  <2> QED  BY <1>1, <1>2, <2>1 DEF Readings
<1>8. WellWritten' /\ Owned' /\ Journal' /\ Course' /\ OnRecord'  BY <1>2, PlansStay
<1> QED  BY <1>3, <1>5, <1>6, <1>7, <1>8 DEF Inv

LEMMA RestartKeeps == ASSUME Inv, Restart PROVE Inv'
<1>1. Types /\ Slot /\ Requests /\ Readings /\ Owned  BY DEF Inv
<1>2. /\ UNCHANGED <<rows, expired, late, next, job, song, log, lock, astray, gap>>
      /\ req' = [r \in Reqs |-> FreeReq] /\ sync' = [y \in Syncers |-> FreeSync]
      /\ image' = "unknown" /\ turns' = turns + 1
  BY DEF Restart, Turn, share, hist
<1>3. /\ FreeReq \in ReqForm /\ FreeSync \in SyncForm /\ FreeReq.pc = "idle" /\ FreeReq.id = 0
      /\ FreeReq.kind \notin {"apply", "undo"}
  BY Constants DEF FreeReq
<1>4. Types'
  <2>1. turns' \in Nat  BY <1>1, <1>2 DEF Types
  <2> QED  BY <1>1, <1>2, <1>3, <2>1 DEF Types
<1>5. Slot'  BY <1>1, <1>2 DEF Slot
<1>6. Requests'
  <2>1. \A r \in Reqs : req'[r] = FreeReq  BY <1>2
  <2> QED  BY <1>3, <2>1 DEF Requests
<1>7. Readings'  BY <1>2 DEF Readings
<1>8. WellWritten' /\ Owned' /\ Journal' /\ Course' /\ OnRecord'  BY <1>2, PlansStay
<1> QED  BY <1>4, <1>5, <1>6, <1>7, <1>8 DEF Inv

\* What neither the slot nor a worker has to do with.
LEMMA AsideKeeps ==
  ASSUME Inv, image' \in {"unknown", "known", "failed"}, turns' \in Nat, expired' \subseteq Ids,
         lock' \in 0..MaxRuns,
         UNCHANGED <<rows, late, next, req, sync, job, song, log, astray, gap>>
  PROVE  Inv'
<1>1. Types /\ Slot /\ Requests /\ Readings /\ Owned  BY DEF Inv
<1>2. Types'  BY <1>1 DEF Types
<1>3. Slot'  BY <1>1 DEF Slot
<1>4. Requests'
  <2>1. \A r \in Reqs : Row(r)' = Row(r)  BY DEF Row
  <2> QED  BY <1>1, <2>1 DEF Requests
<1>5. Readings'
  <2>1. \A j \in Ids : Quiet(j)' = Quiet(j)  BY DEF Quiet, Live, Ended
  <2> QED  BY <1>1, <2>1 DEF Readings
<1>6. WellWritten' /\ Owned' /\ Journal' /\ Course' /\ OnRecord'  BY PlansStay
<1> QED  BY <1>2, <1>3, <1>4, <1>5, <1>6 DEF Inv

-----------------------------------------------------------------------------
\* The invariant, and what follows from it.

\* The past a behaviour starts from is sound.
LEMMA InitInv == Init => Inv
<1> SUFFICES ASSUME Init PROVE Inv  OBVIOUS
<1>1. PICK begun \in BOOLEAN, stage \in Stages :
       /\ ~begun => stage.song = Untouched /\ stage.log = NoLog
       /\ rows = [i \in Ids |->
            CASE i = 1 -> [NoRow EXCEPT !.kind = "check", !.state = "finished", !.sum = "ok"]
              [] i = 2 /\ begun ->
                   [NoRow EXCEPT !.kind = "apply", !.plan = 1, !.state = "unfinished"]
              [] OTHER -> NoRow]
       /\ song = [p \in Ids |-> IF p = 1 THEN stage.song ELSE Untouched]
       /\ log = [p \in Ids |-> IF p = 1 THEN stage.log ELSE NoLog]
  BY DEF Init
<1>2. /\ expired = {} /\ late = {} /\ next = 3
      /\ req = [r \in Reqs |-> FreeReq] /\ sync = [y \in Syncers |-> FreeSync]
      /\ image = "known" /\ job = [i \in Ids |-> NoJob] /\ lock = 0 /\ turns = 0
      /\ astray = {} /\ gap = {}
  BY DEF Init
<1>3. 1 \in Ids /\ 2 \in Ids /\ 0 \in 0..MaxRuns /\ 1 \in 0..MaxRuns
  BY MusicRepairAssumption DEF Ids
<1> DEFINE first == [NoRow EXCEPT !.kind = "check", !.state = "finished", !.sum = "ok"]
           second == [NoRow EXCEPT !.kind = "apply", !.plan = 1, !.state = "unfinished"]
<1>0. /\ first \in RowForm /\ first.kind = "check" /\ first.state = "finished"
      /\ second \in RowForm /\ second.kind = "apply" /\ second.plan = 1
      /\ second.state = "unfinished" /\ second.sum = "none"
  BY <1>3, Constants DEF NoRow, RowForm, Kinds, States, Sums
<1> HIDE DEF first, second
<1>4. /\ rows[1] = first
      /\ rows[2] = IF begun THEN second ELSE NoRow
      /\ \A i \in Ids : i \notin {1, 2} => rows[i] = NoRow
      /\ rows \in [Ids -> RowForm]
  <2>1. \A i \in Ids : rows[i] = IF i = 1 THEN first ELSE IF i = 2 /\ begun THEN second ELSE NoRow
    BY <1>1 DEF first, second
  <2> QED  BY <1>0, <1>1, <1>3, <2>1, Constants
\* The stages: what the song and the journal of the first plan are.
<1>5. /\ stage.song \in SongForm /\ stage.song.at = "src"
      /\ stage.log \in Log /\ stage.log.tag \in {"", "started", "done"} /\ stage.log.move = ""
      /\ stage.log.tag = "" => stage.song.tag = "old"
      /\ stage.log.tag # "" => stage.log.was = "old"
      /\ stage.song # Untouched => begun
  <2>1. ASSUME NEW t \in {"old", "new"}, NEW entry \in {"started", "done"}
        PROVE  /\ Stage(t, entry).song = [tag |-> t, at |-> "src"]
               /\ Stage(t, entry).log = [tag |-> entry, was |-> "old", move |-> ""]
    BY DEF Stage, Untouched, NoLog
  <2>2. CASE stage = [song |-> Untouched, log |-> NoLog]
    BY <2>2, Constants DEF Untouched, NoLog
  <2>3. ASSUME NEW t \in {"old", "new"}, NEW entry \in {"started", "done"}, stage = Stage(t, entry)
        PROVE  /\ stage.song \in SongForm /\ stage.song.at = "src"
               /\ stage.log \in Log /\ stage.log.tag \in {"", "started", "done"}
               /\ stage.log.move = ""
               /\ stage.log.tag = "" => stage.song.tag = "old"
               /\ stage.log.tag # "" => stage.log.was = "old"
               /\ stage.song # Untouched => begun
    <3>1. /\ stage.song = [tag |-> t, at |-> "src"]
          /\ stage.log = [tag |-> entry, was |-> "old", move |-> ""]
      BY <2>1, <2>3
    <3>2. /\ [tag |-> t, at |-> "src"] \in SongForm
          /\ [tag |-> entry, was |-> "old", move |-> ""] \in Log
      BY DEF SongForm, Log, Entry
    <3>3. stage.song \in SongForm /\ stage.log \in Log  BY <3>1, <3>2
    <3>4. stage.song # Untouched => begun  BY <1>1
    <3> DEFINE line == [tag |-> entry, was |-> "old", move |-> ""]
               place == [tag |-> t, at |-> "src"]
    <3>6. /\ line.tag = entry /\ line.was = "old" /\ line.move = "" /\ place.at = "src"
      OBVIOUS
    <3>7. stage.song = place /\ stage.log = line  BY <3>1
    <3> HIDE DEF line, place
    <3>5. /\ stage.song.at = "src" /\ stage.log.tag = entry /\ stage.log.was = "old"
          /\ stage.log.move = ""
      BY <3>6, <3>7
    <3> QED  BY <3>3, <3>4, <3>5
  <2>4. \/ stage = [song |-> Untouched, log |-> NoLog]
        \/ \E t \in {"old", "new"}, entry \in {"started", "done"} : stage = Stage(t, entry)
    BY DEF Stages
  <2> QED  BY <2>2, <2>3, <2>4
<1>6. /\ \A p \in Ids : /\ song[p] = IF p = 1 THEN stage.song ELSE Untouched
                        /\ log[p] = IF p = 1 THEN stage.log ELSE NoLog
      /\ \A i \in Ids : job[i] = NoJob
      /\ \A r \in Reqs : req[r] = FreeReq
      /\ \A y \in Syncers : sync[y] = FreeSync
  BY <1>1, <1>2
<1>7. /\ NoJob.pc = "none" /\ NoJob.kind = "none" /\ NoJob.plan = 0 /\ NoJob.out = "none"
      /\ NoJob.saw = NoLog /\ NoLog.tag = "" /\ NoLog.move = ""
      /\ Untouched.tag = "old" /\ Untouched.at = "src"
      /\ FreeReq.pc = "idle" /\ FreeReq.id = 0 /\ FreeReq.kind = "none"
      /\ NoRow.kind = "none" /\ NoRow.state = "none" /\ NoRow.sum = "none"
  BY DEF NoJob, NoLog, Untouched, FreeReq, NoRow
<1>8. Types
  <2>1. song \in [Ids -> SongForm] /\ log \in [Ids -> Log]
    BY <1>1, <1>5, Constants
  <2> QED  BY <1>2, <1>3, <1>4, <2>1, Constants DEF Types
<1>9. WellWritten
  BY <1>5, <1>6, <1>7 DEF WellWritten
<1>10. Slot
  <2> SUFFICES ASSUME NEW i \in Ids
               PROVE  /\ rows[i].state # "running"
                      /\ rows[i].state \in {"none", "running"} => rows[i].sum = "none"
                      /\ i >= next => rows[i] = NoRow /\ job[i] = NoJob /\ i \notin late
                      /\ rows[i].kind \in {"apply", "undo"} => rows[i].plan \in Ids
    BY DEF Slot
  <2>1. job[i] = NoJob /\ i \notin late /\ next = 3  BY <1>2, <1>6
  <2>2. CASE i = 1
    <3>1. rows[i] = first /\ ~(i >= next)  BY <1>4, <2>1, <2>2
    <3> QED  BY <1>0, <3>1
  <2>3. CASE i = 2
    <3>1. ~(i >= next)  BY <2>1, <2>3
    <3>2. rows[i] = IF begun THEN second ELSE NoRow  BY <1>4, <2>3
    <3>3. CASE begun  BY <1>0, <1>3, <3>1, <3>2, <3>3
    <3>4. CASE ~begun  BY <1>7, <3>1, <3>2, <3>4
    <3> QED  BY <3>3, <3>4
  <2>4. CASE i \notin {1, 2}
    <3>1. rows[i] = NoRow  BY <1>4, <2>4
    <3> QED  BY <1>7, <2>1, <3>1
  <2> QED  BY <2>2, <2>3, <2>4
<1>11. Requests  BY <1>6, <1>7 DEF Requests
<1>12. Readings  BY <1>6 DEF Readings
<1>13. Owned
  <2>1. \A i \in Ids : ~Live(i)  BY <1>6, <1>7 DEF Live
  <2> QED  BY <1>6, <1>7, <2>1 DEF Owned, OwnedAt
<1>14. Journal
  <2> SUFFICES ASSUME NEW p \in Ids PROVE JournalAt(p)  BY DEF Journal
  <2> QED  BY <1>5, <1>6, <1>7 DEF JournalAt
<1>15. Course
  <2> SUFFICES ASSUME NEW i \in Ids PROVE CourseAt(i)  BY DEF Course
  <2> QED  BY <1>6, <1>7 DEF CourseAt
<1>16. OnRecord
  <2> SUFFICES ASSUME NEW p \in Ids, Changed(p)
               PROVE  \E i \in Ids : rows[i].plan = p /\ Did(i) /\ NotUndone(i, p)
    BY DEF OnRecord
  <2>1. p = 1 /\ begun  BY <1>5, <1>6 DEF Changed
  <2>2. rows[2] = second  BY <1>4, <2>1
  <2>3. Did(2) /\ rows[2].plan = p  BY <1>0, <2>1, <2>2 DEF Did
  <2>4. NotUndone(2, p)
    <3>1. \A u \in Ids : u > 2 => u \notin {1, 2}  OBVIOUS
    <3> QED  BY <1>4, <1>7, <3>1 DEF NotUndone
  <2> QED  BY <1>3, <2>3, <2>4
<1> QED
  BY <1>8, <1>9, <1>10, <1>11, <1>12, <1>13, <1>14, <1>15, <1>16 DEF Inv

LEMMA NextInv == Inv /\ [Next]_vars => Inv'
<1> SUFFICES ASSUME Inv, [Next]_vars PROVE Inv'  OBVIOUS
<1>1. Types  BY DEF Inv
<1>2. CASE \E i \in Ids : Work(i)
  <2>1. PICK i \in Ids : Work(i)  BY <1>2
  <2> QED  BY <2>1, WorkKeepsForms, WorkKeepsWritten, WorkKeepsPlans DEF Inv
<1>3. CASE \E i \in Ids : Kill(i) \/ Sweep(i)  BY <1>3, KillHalts, SweepHalts, HaltKeeps
<1>4. CASE \E r \in Reqs : HandleCheck(r) \/ HandleApply(r) \/ HandleUndo(r)
  <2>1. PICK r \in Reqs : HandleCheck(r) \/ HandleApply(r) \/ HandleUndo(r)  BY <1>4
  <2>2. 0 \in 0..MaxRuns  BY MusicRepairAssumption
  <2>3. CASE HandleCheck(r)
    BY <2>2, <2>3, StartRepairKeeps DEF HandleCheck, Kinds
  <2>4. CASE HandleApply(r)
    <3>1. PICK p \in Ids : StartRepair(r, "apply", p)  BY <2>4 DEF HandleApply
    <3> QED  BY <3>1, RunsExist, StartRepairKeeps DEF Kinds
  <2>5. CASE HandleUndo(r)
    <3>1. PICK p \in Ids : StartRepair(r, "undo", p)  BY <2>5 DEF HandleUndo
    <3> QED  BY <3>1, RunsExist, StartRepairKeeps DEF Kinds
  <2> QED  BY <2>1, <2>3, <2>4, <2>5
<1>5. CASE \E r \in Reqs : AskCluster(r) \/ StartMusicRepair(r) \/ CreateJob(r)
                           \/ DiscardMusicRepair(r)
  BY <1>5, AskClusterKeeps, InsertKeeps, CreateKeeps, DiscardKeeps
<1>6. CASE ReconcileMusicRepairs \/ \E y \in Pages : HandleSnapshot(y)
  <2>1. \E y \in Syncers : Look(y)
    BY <1>6 DEF ReconcileMusicRepairs, HandleSnapshot, Syncers
  <2> QED  BY <2>1, LookKeeps
<1>7. CASE \E y \in Syncers : FinishMusicRepair(y)  BY <1>7, FinishKeeps
<1>8. CASE \E i \in Ids : GraceOver(i)  BY <1>8, GraceKeeps
<1>9. CASE Restart  BY <1>9, RestartKeeps
<1>10. CASE SelfImage
  <2>1. turns' \in Nat  BY <1>1, <1>10 DEF SelfImage, Turn, Types
  <2> QED  BY <1>1, <1>10, <2>1, AsideKeeps DEF SelfImage, Types, share, hist
<1>11. CASE ImageRetry
  BY <1>1, <1>11, AsideKeeps DEF ImageRetry, Types, share, hist
<1>12. CASE \E i \in Ids : Expire(i)
  BY <1>1, <1>12, AsideKeeps DEF Expire, Types, share, hist
<1>13. CASE Unlock
  <2>1. 0 \in 0..MaxRuns  BY MusicRepairAssumption
  <2> QED  BY <1>1, <1>13, <2>1, AsideKeeps DEF Unlock, Types, server, hist
<1>14. CASE UNCHANGED vars
  BY <1>1, <1>14, AsideKeeps DEF vars, Types, server, share, hist
<1> QED
  BY <1>2, <1>3, <1>4, <1>5, <1>6, <1>7, <1>8, <1>9, <1>10, <1>11, <1>12, <1>13, <1>14 DEF Next

THEOREM Invariant == Spec => []Inv
BY InitInv, NextInv, PTL DEF Spec

\* The newest of some runs.
LEMMA NewestIsLast ==
  ASSUME NEW S \in SUBSET Ids, S # {}
  PROVE  Newest(S) \in S /\ Newest(S) # 0 /\ \A j \in S : j <= Newest(S)
<1> DEFINE After == {n \in Nat : \A j \in S : j <= n}
           Less == {ss \in Nat \X Nat : ss[1] < ss[2]}
<1>1. MaxRuns \in After  BY MusicRepairAssumption DEF Ids
<1>2. IsWellFoundedOn(Less, Nat)
  <2>1. OpToRel(<, Nat) = Less  BY DEF OpToRel
  <2> QED  BY <2>1, NatLessThanWellFounded
<1>3. PICK m \in After : \A n \in After : ~(<<n, m>> \in Less)
  <2>1. After \subseteq Nat /\ After # {}  BY <1>1
  <2> HIDE DEF Less, After
  <2> QED  BY <1>2, <2>1, WFMin
<1>4. m \in Nat /\ \A j \in S : j <= m  OBVIOUS
<1>5. m \in S
  <2> SUFFICES ASSUME m \notin S PROVE FALSE  OBVIOUS
  <2>1. PICK s \in S : TRUE  OBVIOUS
  <2>2. s \in Nat /\ s # 0 /\ s <= m  BY <1>4, <2>1, RunsExist
  <2>3. m - 1 \in Nat /\ m - 1 < m  BY <1>4, <2>2
  <2>4. ASSUME NEW j \in S PROVE j <= m - 1
    <3>1. j \in Nat /\ j <= m /\ j # m  BY <1>4, <2>4, RunsExist
    <3> QED  BY <1>4, <3>1
  <2>5. m - 1 \in After  BY <2>3, <2>4
  <2> QED  BY <1>3, <1>4, <2>3, <2>5
<1>6. \E i \in S : \A j \in S : j <= i  BY <1>4, <1>5
<1>7. Newest(S) = CHOOSE i \in S : \A j \in S : j <= i  BY DEF Newest
<1>8. Newest(S) \in S /\ \A j \in S : j <= Newest(S)  BY <1>6, <1>7
<1> QED  BY <1>8, RunsExist

\* UndoReachable, from what is on record.
LEMMA RecordIsEnough == Inv => UndoReachable
<1> SUFFICES ASSUME Inv PROVE UndoReachable  OBVIOUS
<1>1. Types /\ OnRecord  BY DEF Inv
<1> DEFINE Effects(p) == {i \in Ids : /\ rows[i].kind = "apply" /\ rows[i].plan = p
                                      /\ rows[i].state \in {"finished", "unfinished"}}
<1>2. ASSUME NEW p \in Ids, Changed(p), ~Active, p \notin astray \cup gap PROVE CheckUndo(p)
  <2>1. PICK k \in Ids : rows[k].plan = p /\ Did(k) /\ NotUndone(k, p)
    BY <1>1, <1>2 DEF OnRecord, Sound
  <2>2. rows[k].state # "running"  BY <1>2 DEF Active
  <2>3. k \in Effects(p)  BY <2>1, <2>2 DEF Did
  <2>4. AppliedEffect(p) = Newest(Effects(p))  BY DEF AppliedEffect
  <2>5. Effects(p) \in SUBSET Ids /\ Effects(p) # {}  BY <2>3
  <2>6. PICK e \in Ids : e = AppliedEffect(p)  BY <2>4, <2>5, NewestIsLast
  <2>7. e \in Effects(p) /\ e # 0 /\ k <= e
    <3> HIDE DEF Effects
    <3> QED  BY <2>3, <2>4, <2>5, <2>6, NewestIsLast
  <2>8. ASSUME NEW u \in Ids, u >= e, rows[u].kind = "undo", rows[u].plan = p,
               rows[u].state = "finished", rows[u].sum = "ok"
        PROVE  FALSE
    <3>1. u # e  BY <2>7, <2>8
    <3>2. u \in Int /\ e \in Int /\ k \in Int  BY RunsExist
    <3>3. u > k  BY <2>7, <2>8, <3>1, <3>2
    <3> QED  BY <2>1, <2>8, <3>3 DEF NotUndone, CleanApply
  <2>9. ~UndoneAfter(p, e)  BY <2>8 DEF UndoneAfter
  <2> QED  BY <1>2, <2>6, <2>7, <2>9 DEF CheckUndo
<1>3. ASSUME NEW p \in DerivePlan PROVE CheckApply(p)
  <2>1. p = NewestCheck /\ p # 0 /\ ~Active /\ PlanStatus(p) \in {"ready", "apply_unfinished"}
    BY <1>3 DEF DerivePlan
  <2>2. Check(p)
    <3> DEFINE Checks == {i \in Ids : Check(i)}
    <3>1. p = Newest(Checks)  BY <2>1 DEF NewestCheck
    <3>2. Checks # {}  BY <2>1, <3>1 DEF Newest
    <3>3. Checks \in SUBSET Ids  OBVIOUS
    <3>4. p \in Checks
      <4> HIDE DEF Checks
      <4> QED  BY <3>1, <3>2, <3>3, NewestIsLast
    <3> QED  BY <3>4
  <2> DEFINE e == AppliedEffect(p)
             applying == \E i \in Ids : rows[i] = [NoRow EXCEPT !.kind = "apply", !.plan = p,
                                                                !.state = "running"]
  <2>3. ~applying  BY <2>1 DEF Active, NoRow
  <2>4. PlanStatus(p) = (CASE applying -> "applying"
                           [] e # 0 /\ UndoneAfter(p, e)  -> "undone"
                           [] e # 0 /\ ~UndoneAfter(p, e) ->
                                IF CleanApply(e) THEN "applied" ELSE "apply_unfinished"
                           [] p \in expired -> "expired"
                           [] OTHER -> "ready")
    BY DEF PlanStatus
  <2> HIDE DEF applying, e
  <2>5. CASE e # 0 /\ UndoneAfter(p, e)
    <3>1. PlanStatus(p) \in {"undone", "expired"}  BY <2>3, <2>4, <2>5
    <3> QED  BY <2>1, <3>1
  <2>6. CASE e # 0 /\ ~UndoneAfter(p, e)
    <3>1. ~CleanApply(e)
      <4> SUFFICES ASSUME CleanApply(e) PROVE FALSE  OBVIOUS
      <4>1. PlanStatus(p) \in {"applied", "expired"}  BY <2>3, <2>4, <2>6
      <4> QED  BY <2>1, <4>1
    <3> QED  BY <2>1, <2>2, <2>6, <3>1 DEF CheckApply, e
  <2>7. CASE e = 0
    <3>1. p \notin expired
      <4> SUFFICES ASSUME p \in expired PROVE FALSE  OBVIOUS
      <4>1. PlanStatus(p) = "expired"  BY <2>3, <2>4, <2>7
      <4> QED  BY <2>1, <4>1
    <3> QED  BY <2>1, <2>2, <2>7, <3>1 DEF CheckApply, e
  <2> QED  BY <2>5, <2>6, <2>7
<1>4. ASSUME NEW p \in DeriveUndo PROVE CheckUndo(p)
  <2> DEFINE All == {i \in Ids : /\ rows[i].kind = "apply"
                                 /\ rows[i].state \in {"finished", "unfinished"}}
             last == Newest(All)
  <2>1. last # 0 /\ ~Active /\ ~UndoneAfter(rows[last].plan, last) /\ p = rows[last].plan
    BY <1>4 DEF DeriveUndo
  <2>2. All # {} /\ All \in SUBSET Ids  BY <2>1 DEF Newest
  <2>3. last \in All /\ \A j \in All : j <= last
    <3> HIDE DEF All
    <3> QED  BY <2>2, NewestIsLast
  <2>4. last \in Effects(p) /\ Effects(p) \subseteq All  BY <2>1, <2>3
  <2>5. AppliedEffect(p) = Newest(Effects(p))  BY DEF AppliedEffect
  <2>6. Newest(Effects(p)) \in Effects(p) /\ \A j \in Effects(p) : j <= Newest(Effects(p))
    <3>1. Effects(p) \in SUBSET Ids /\ Effects(p) # {}  BY <2>4
    <3> HIDE DEF Effects
    <3> QED  BY <3>1, NewestIsLast
  <2>7. AppliedEffect(p) = last
    <3> DEFINE e == Newest(Effects(p))
    <3>1. e <= last /\ last <= e /\ e \in Ids /\ last \in Ids  BY <2>3, <2>4, <2>6
    <3> HIDE DEF e, last
    <3>2. e \in Int /\ last \in Int  BY <3>1, RunsExist
    <3>3. e = last  BY <3>1, <3>2
    <3> QED  BY <2>5, <3>3 DEF e
  <2> QED  BY <2>1, <2>7 DEF CheckUndo
<1> QED  BY <1>2, <1>3, <1>4 DEF UndoReachable

\* Whatever a plan has changed can be undone once nothing is running, and the page offers only what
\* a request may ask for: the rows are enough, although they are written by other steps, at other
\* times and by other processes than the share.
THEOREM UndoIsReachable == Spec => []UndoReachable
BY Invariant, RecordIsEnough, PTL

\* A row that has its outcome is written by nobody: the slot's next row is a new one, a creation
\* that failed takes back a running one, and a reading is written into a running one.
LEMMA OutcomeStep ==
  ASSUME Inv, [Next]_vars, NEW i \in Ids, rows[i].state \in Closed
  PROVE  rows'[i] = rows[i]
<1>1. Types /\ Slot /\ rows[i].state # "running" /\ rows[i].state # "none"
  BY DEF Inv, Closed
<1>2. CASE \E r \in Reqs : StartMusicRepair(r)
  <2>1. PICK r \in Reqs : StartMusicRepair(r)  BY <1>2
  <2>2. CASE rows' = [rows EXCEPT ![next] = Row(r)]
    <3>1. ~(i >= next)  BY <1>1 DEF Slot, NoRow
    <3>2. i \in Int /\ next \in Int  BY <1>1, RunsExist DEF Types
    <3>3. i # next  BY <3>1, <3>2
    <3> QED  BY <1>1, <2>2, <3>3 DEF Types
  <2>3. CASE UNCHANGED rows  BY <2>3
  <2> QED  BY <2>1, <2>2, <2>3 DEF StartMusicRepair
<1>3. CASE \E r \in Reqs : DiscardMusicRepair(r)
  <2>1. PICK r \in Reqs : DiscardMusicRepair(r)  BY <1>3
  <2>2. CASE rows[req[r].id].state = "running"
    <3>1. req[r].id # i  BY <1>1, <2>2
    <3>2. rows' = [rows EXCEPT ![req[r].id] = NoRow]  BY <2>1, <2>2 DEF DiscardMusicRepair
    <3> QED  BY <1>1, <3>1, <3>2 DEF Types
  <2>3. CASE rows[req[r].id].state # "running"
    <3>1. rows' = rows  BY <2>1, <2>3 DEF DiscardMusicRepair
    <3> QED  BY <3>1
  <2> QED  BY <2>2, <2>3
<1>4. CASE \E y \in Syncers : FinishMusicRepair(y)
  <2>1. PICK y \in Syncers : FinishMusicRepair(y)  BY <1>4
  <2>2. CASE rows[sync[y].id].state = "running"
    <3>1. sync[y].id # i  BY <1>1, <2>2
    <3>2. rows' = [rows EXCEPT ![sync[y].id].state = sync[y].to, ![sync[y].id].sum = sync[y].sum]
      BY <2>1, <2>2 DEF FinishMusicRepair, RecordOnce, Record
    <3> QED  BY <1>1, <3>1, <3>2 DEF Types
  <2>3. CASE rows[sync[y].id].state # "running"
    <3>1. rows' = rows  BY <2>1, <2>3 DEF FinishMusicRepair, RecordOnce
    <3> QED  BY <3>1
  <2> QED  BY <2>2, <2>3
<1>5. CASE UNCHANGED rows  BY <1>5
<1>6. \/ UNCHANGED rows
      \/ \E r \in Reqs : StartMusicRepair(r)
      \/ \E r \in Reqs : DiscardMusicRepair(r)
      \/ \E y \in Syncers : FinishMusicRepair(y)
  <2>1. CASE SelfImage \/ ImageRetry \/ Unlock \/ Restart \/ UNCHANGED vars
    BY <2>1 DEF SelfImage, ImageRetry, Unlock, Restart, vars, server
  <2>2. CASE \E r \in Reqs : \/ HandleCheck(r) \/ HandleApply(r) \/ HandleUndo(r)
                             \/ AskCluster(r) \/ CreateJob(r)
    BY <2>2 DEF HandleCheck, HandleApply, HandleUndo, StartRepair, AskCluster, CreateJob
  <2>3. CASE ReconcileMusicRepairs \/ \E y \in Pages : HandleSnapshot(y)
    BY <2>3 DEF ReconcileMusicRepairs, HandleSnapshot, Look
  <2>4. CASE \E k \in Ids : Work(k) \/ Kill(k) \/ Sweep(k) \/ GraceOver(k) \/ Expire(k)
    BY <2>4 DEF Work, Kill, Sweep, GraceOver, Expire, server
  <2> QED  BY <2>1, <2>2, <2>3, <2>4 DEF Next
<1> QED  BY <1>2, <1>3, <1>4, <1>5, <1>6

\* What a run's ending was recorded as stays, whichever of the readers comes second.
THEOREM OutcomeIsFinal == Spec => OutcomeOnce
<1>1. Inv /\ [Next]_vars
      => [\A i \in Ids : rows[i].state \in {"finished", "refused", "unfinished"}
                         => rows'[i] = rows[i]]_vars
  BY OutcomeStep DEF Closed
<1> QED  BY <1>1, Invariant, PTL DEF Spec, OutcomeOnce

\* An undo that reports success has put everything back: the journal it read at its start is still
\* the plan's, and every earlier worker has left what that journal says.
LEMMA UndoStepWhole ==
  ASSUME Inv, NEW i \in Ids, job[i].kind = "undo", job[i].pc = "end", P(i) \notin astray \cup gap
  PROVE  ~Changed(P(i))
<1>1. P(i) \in Ids  BY DEF Inv, Owned, OwnedAt, P
<1>2. CourseAt(i)  BY <1>1 DEF Inv, Course, Sound
<1> QED  BY <1>2 DEF CourseAt

THEOREM UndoRestores == Spec => UndoIsWhole
<1>1. Inv /\ [Next]_vars
      => [\A i \in Ids : /\ job[i].kind = "undo" /\ job[i].pc = "end" /\ job'[i].pc = "succeeded"
                         /\ P(i) \notin astray \cup gap
                         => ~Changed(P(i))]_vars
  BY UndoStepWhole
<1> QED  BY <1>1, Invariant, PTL DEF Spec, UndoIsWhole
=============================================================================
