------------------------------ MODULE PushWatch ------------------------------
(***************************************************************************)
(* The download watcher (push/watcher.go) beside the handlers that create  *)
(* tasks (api/stateful_handlers.go) and the NAS that runs them.  The       *)
(* watcher learns of everything by polling the task list: it tells         *)
(* subscribers what has begun, finished and failed, stamps a task with the *)
(* user who added it, fills in the download history and says which folder  *)
(* must be read again.                                                     *)
(*                                                                         *)
(* DSM's create call returns no id, so a handler leaves a claim (user and  *)
(* task name) after the call and the watcher matches it by name.  A poll   *)
(* treats the tasks of one listing in turn; a step here is one write to    *)
(* the store or one round of sends, and a restart may fall between any     *)
(* two.                                                                    *)
(***************************************************************************)
EXTENDS Naturals, Sequences, FiniteSets

CONSTANTS Users, AdminUsers, None,
          Names,      \* what DSM may call a task
          Folders,    \* destinations
          MaxTasks,   \* bound: tasks the NAS ever holds
          MaxEvents,  \* bound: what befalls them
          MaxFaults   \* bound: failed polls and restarts

Statuses == {"unborn", "downloading", "paused", "error", "finished", "deleted"}
Watched  == [last : Statuses, notified : BOOLEAN, owner : Users \cup {None}]

ASSUME PushAssumption ==
  /\ AdminUsers \subseteq Users
  /\ None \notin Users \cup Watched
  /\ {MaxTasks, MaxEvents, MaxFaults} \subseteq Nat

Tasks == 1..MaxTasks

VARIABLES
  \* the NAS
  task,      \* task[t]: name, destination, status, and who really asked for it
  \* the store
  watched,   \* watched_tasks: last status, notified, owner
  claims,    \* task_claims, oldest first
  media,     \* source_downloads: who sent a title to this folder from Discover
  rows,      \* download_history, oldest first
  \* the watcher
  pc, todo, seen, found, primed,
  \* the handlers
  sending,   \* sending[u]: a created task whose claim is still to be written
  \* the world
  events, faults,
  told,      \* told[t]: how often its beginning and its completion were announced
  refreshed, \* tasks whose folder was reported for reading
  early,     \* tasks that were on the NAS before the watcher first looked
  cut        \* restarts that fell between an announcement and its record

nas     == <<task>>
store   == <<watched, claims, media, rows>>
watcher == <<pc, todo, seen, found, primed>>
world   == <<events, faults, told, refreshed, early, cut>>
vars    == <<nas, store, watcher, sending, world>>

-----------------------------------------------------------------------------
Listed == {t \in Tasks : task[t].st \notin {"unborn", "deleted"}}
Unborn == {t \in Tasks : task[t].st = "unborn"}

FirstOf(S) == CHOOSE t \in S : \A s \in S : t <= s
Current    == FirstOf(todo)

Drop(s, i) == SubSeq(s, 1, i - 1) \o SubSeq(s, i + 1, Len(s))

\* ownerOf: the stamped owner, else whoever sent a title to the folder.
OwnerOf(t) == IF watched[t] # None /\ watched[t].owner # None THEN watched[t].owner
              ELSE media[task[t].folder]

\* EffectiveNotificationScope, with an administrator's default of everybody's.
Scope(u) == IF u \in AdminUsers THEN "any" ELSE "own"
Audience(t) == {u \in Users : Scope(u) = "any" \/ u = OwnerOf(t)}

\* decorateTasks: the folder's sender comes before the stamped owner.
ListOwner(t) == IF media[task[t].folder] # None THEN media[task[t].folder]
                ELSE IF watched[t] # None THEN watched[t].owner ELSE None
PendingNames(u) ==
  {claims[i].name : i \in {j \in DOMAIN claims : claims[j].user = u /\ ~claims[j].old}}
Shown(u, t) == Scope(u) = "any" \/ ListOwner(t) = u \/ task[t].name \in PendingNames(u)

-----------------------------------------------------------------------------
\* What users do.

\* DSM takes the task first ...
Create(u) ==
  /\ sending[u] = None /\ Unborn # {}
  /\ LET t == FirstOf(Unborn) IN
       \E n \in Names, f \in Folders :
         /\ task' = [task EXCEPT ![t] = [st |-> "downloading", name |-> n, folder |-> f, by |-> u]]
         /\ sending' = [sending EXCEPT ![u] = [name |-> n, folder |-> f]]
  /\ UNCHANGED <<store, watcher, world>>

\* ... and then the claim and the history row are written.
Record(u) ==
  /\ sending[u] # None
  /\ claims' = Append(claims, [user |-> u, name |-> sending[u].name, old |-> FALSE])
  /\ rows' = Append(rows, [name |-> sending[u].name, folder |-> sending[u].folder, done |-> FALSE])
  /\ sending' = [sending EXCEPT ![u] = None]
  /\ UNCHANGED <<nas, watched, media, watcher, world>>

\* A title sent from Discover is known by its folder; its claim is made by the folder's name
\* and matches no task.
SendTitle(u) ==
  /\ Unborn # {}
  /\ LET t == FirstOf(Unborn) IN
       \E n \in Names, f \in Folders :
         /\ task' = [task EXCEPT ![t] = [st |-> "downloading", name |-> n, folder |-> f, by |-> u]]
         /\ media' = [media EXCEPT ![f] = u]
         /\ rows' = Append(rows, [name |-> n, folder |-> f, done |-> FALSE])
  /\ UNCHANGED <<watched, claims, watcher, sending, world>>

\* What the NAS and its users do to a task: pause, resume, fail, finish, delete.
After(st) == CASE st = "downloading" -> {"paused", "error", "finished", "deleted"}
               [] st = "paused"      -> {"downloading", "deleted"}
               [] st = "error"       -> {"downloading", "deleted"}
               [] st = "finished"    -> {"deleted"}
               [] OTHER              -> {}
Happen ==
  /\ events > 0 /\ events' = events - 1
  /\ \E t \in Listed : \E st \in After(task[t].st) : task' = [task EXCEPT ![t].st = st]
  /\ UNCHANGED <<store, watcher, sending, faults, told, refreshed, early, cut>>

\* Half an hour goes by: claims written so far match nothing any more.
ClaimsAge ==
  /\ events > 0 /\ events' = events - 1
  /\ claims # <<>>
  /\ claims' = [i \in DOMAIN claims |-> [claims[i] EXCEPT !.old = TRUE]]
  /\ UNCHANGED <<nas, watched, media, rows, watcher, sending, faults, told, refreshed, early, cut>>

-----------------------------------------------------------------------------
\* One poll.

\* A poll that cannot list the tasks is skipped; the first one ends the baseline all the same
\* (a later one changes nothing).
PollFails ==
  /\ pc = "idle" /\ ~primed /\ faults > 0
  /\ faults' = faults - 1
  /\ primed' = TRUE
  /\ UNCHANGED <<nas, store, pc, todo, seen, found, sending, events, told, refreshed, early, cut>>

Poll ==
  /\ pc = "idle"
  /\ todo' = Listed
  /\ seen' = [t \in Tasks |-> IF t \in Listed THEN task[t].st ELSE "unborn"]
  /\ pc' = "look"
  /\ UNCHANGED <<nas, store, found, primed, sending, world>>

PollEnds ==
  /\ pc = "look" /\ todo = {}
  /\ pc' = "idle" /\ primed' = TRUE
  /\ UNCHANGED <<nas, store, todo, seen, found, sending, world>>

NextTask == /\ pc' = "look" /\ todo' = todo \ {Current} /\ found' = None
            /\ seen' = [seen EXCEPT ![Current] = "unborn"]

At(phase) == pc = phase /\ (phase = "look" => todo # {})
St        == seen[Current]
Row       == watched[Current]

\* First sight: the row is the baseline; one that has finished already is never announced.
BaselineOfFinished(st) == IF st = "finished" THEN [last |-> st, notified |-> TRUE, owner |-> None]
                          ELSE None
Baseline(st)           == [last |-> st, notified |-> st = "finished", owner |-> None]
FirstSight ==
  /\ At("look") /\ Row = None
  /\ watched' = [watched EXCEPT ![Current] = Baseline(St)]
  /\ pc' = "claim"
  /\ UNCHANGED <<nas, claims, media, rows, todo, seen, found, primed, sending, world>>

\* ClaimOwner: the oldest claim of that name is used up ...
Matching == {i \in DOMAIN claims : claims[i].name = task[Current].name /\ ~claims[i].old}
KeepClaim(i) == i \in DOMAIN claims /\ UNCHANGED claims
UseUp(i)     == claims' = Drop(claims, i)
ClaimOwner ==
  /\ pc = "claim"
  /\ IF Matching = {} THEN found' = None /\ UNCHANGED claims
     ELSE found' = claims[FirstOf(Matching)].user /\ UseUp(FirstOf(Matching))
  /\ pc' = "stamp"
  /\ UNCHANGED <<nas, watched, media, rows, todo, seen, primed, sending, world>>

\* ... and its user becomes the owner.
Stamp ==
  /\ pc = "stamp"
  /\ watched' = IF found = None THEN watched ELSE [watched EXCEPT ![Current].owner = found]
  /\ pc' = "begun"
  /\ found' = None
  /\ UNCHANGED <<nas, claims, media, rows, todo, seen, primed, sending, world>>

\* The first open row of the same name and folder gets the size.
Open(t)     == {i \in DOMAIN rows : /\ rows[i].name = task[t].name
                                    /\ rows[i].folder = task[t].folder
                                    /\ ~rows[i].done}
FillAll(t)  == rows' = [i \in DOMAIN rows |-> IF i \in Open(t) THEN [rows[i] EXCEPT !.done = TRUE]
                                              ELSE rows[i]]
Backfill(t) == IF Open(t) = {} THEN UNCHANGED rows
               ELSE rows' = [rows EXCEPT ![FirstOf(Open(t))].done = TRUE]

\* "Download added" only after the baseline, and only for a task that is in flight.
Begun ==
  /\ pc = "begun"
  /\ told' = IF primed /\ St \notin {"finished", "error"}
             THEN [told EXCEPT ![Current].added = @ + 1] ELSE told
  /\ IF St = "finished" THEN Backfill(Current) ELSE UNCHANGED rows
  /\ NextTask
  /\ UNCHANGED <<nas, watched, claims, media, primed, sending, events, faults, refreshed,
                 early, cut>>

CompletingAtOnce == St = "finished" /\ Row.last = "downloading" /\ ~Row.notified
Completing == St = "finished" /\ Row.last # "finished" /\ ~Row.notified
Failing    == St = "error" /\ Row.last # "error"

\* A completion: the subscribers, then the history and the folder, and the row last of all.
Announce ==
  /\ At("look") /\ Row # None /\ Completing
  /\ told' = [told EXCEPT ![Current].completed = @ + 1]
  /\ pc' = "settle"
  /\ UNCHANGED <<nas, store, todo, seen, found, primed, sending, events, faults, refreshed,
                 early, cut>>
Settle ==
  /\ pc = "settle"
  /\ Backfill(Current)
  /\ refreshed' = refreshed \cup {Current}
  /\ pc' = "note"
  /\ UNCHANGED <<nas, watched, claims, media, todo, seen, found, primed, sending, events, faults,
                 told, early, cut>>
InsertOnly(last, notified) == /\ last \in STRING /\ notified \in BOOLEAN
                              /\ UNCHANGED watched
Upsert(last, notified) ==
  watched' = [watched EXCEPT ![Current].last = last, ![Current].notified = notified]
NoteCompleted ==
  /\ pc = "note"
  /\ Upsert(St, TRUE)
  /\ NextTask
  /\ UNCHANGED <<nas, claims, media, rows, primed, sending, world>>

\* A failure and every other change: the row follows, and "notified" stays what it was.
Settled(notified) == notified \in BOOLEAN
Kept(notified)    == notified
NoteOther ==
  /\ At("look") /\ Row # None /\ ~Completing
  /\ watched' = IF Failing \/ St # Row.last
                THEN [watched EXCEPT ![Current].last = St, ![Current].notified = Kept(Row.notified)]
                ELSE watched
  /\ NextTask
  /\ UNCHANGED <<nas, claims, media, rows, primed, sending, world>>

\* The server starts again; what a handler or a poll had in hand is lost.
Restart ==
  /\ faults > 0 /\ faults' = faults - 1
  /\ cut' = IF pc \in {"settle", "note"} THEN cut + 1 ELSE cut
  /\ pc' = "idle" /\ todo' = {} /\ found' = None /\ primed' = FALSE
  /\ seen' = [t \in Tasks |-> "unborn"]
  /\ sending' = [u \in Users |-> None]
  /\ UNCHANGED <<nas, store, events, told, refreshed, early>>

Fresh == /\ pc = "idle" /\ todo = {} /\ found = None /\ primed = FALSE
         /\ seen = [t \in Tasks |-> "unborn"]
Blank == [st |-> "unborn", name |-> None, folder |-> None, by |-> None]
Init ==
  /\ \E n \in {0, 1} :
       /\ early = {t \in Tasks : t <= n}
       /\ \E name \in Names, f \in Folders :
            task = [t \in Tasks |->
                      IF t > n THEN Blank
                      ELSE [st |-> "downloading", name |-> name, folder |-> f, by |-> None]]
  /\ watched = [t \in Tasks |-> None] /\ claims = <<>>
  /\ media = [f \in Folders |-> None] /\ rows = <<>>
  /\ Fresh
  /\ sending = [u \in Users |-> None]
  /\ events = MaxEvents /\ faults = MaxFaults
  /\ told = [t \in Tasks |-> [added |-> 0, completed |-> 0]]
  /\ refreshed = {} /\ cut = 0

Step == Poll \/ PollEnds \/ FirstSight \/ ClaimOwner \/ Stamp \/ Begun \/ Announce \/ Settle
        \/ NoteCompleted \/ NoteOther

Next == \/ \E u \in Users : Create(u) \/ Record(u) \/ SendTitle(u)
        \/ Happen \/ ClaimsAge
        \/ Step \/ PollFails \/ Restart

Spec == Init /\ [][Next]_vars

\* The ticker polls every thirty seconds and a poll goes through its list.
FairSpec == Spec /\ WF_vars(Step)

-----------------------------------------------------------------------------
(***************************************************************************)
(* Types; a row exists for the task a poll has got past its first sight,   *)
(* and only tasks of the listing in hand are treated.                      *)
(***************************************************************************)
TypeOK ==
  /\ \A t \in Tasks : /\ task[t].by \in Users \cup {None}
                      /\ watched[t] # None => watched[t].owner \in Users \cup {None}
                      /\ told[t].added \in 0..1 /\ told[t].completed \in Nat
  /\ pc \in {"idle", "look", "claim", "stamp", "begun", "settle", "note"}
  /\ todo \subseteq {t \in Tasks : seen[t] # "unborn"}
  /\ pc \notin {"idle", "look"} => todo # {} /\ Row # None
  /\ found \in Users \cup {None}
  /\ Len(claims) <= MaxTasks /\ Len(rows) <= MaxTasks

(***************************************************************************)
(* A restart never loses a completion: a row says "notified" for a task    *)
(* first seen unfinished only after its subscribers were told and its      *)
(* folder was reported for reading.                                        *)
(***************************************************************************)
CompletionNeverLost ==
  \A t \in Tasks :
    (watched[t] # None /\ watched[t].notified /\ watched[t].last = "finished") =>
       \/ t \in refreshed /\ told[t].completed > 0
       \/ told[t].completed = 0 /\ t \notin refreshed /\ told[t].added = 0

(***************************************************************************)
(* A completion is announced once; again only for a restart that fell      *)
(* between the announcement and the row that records it.                   *)
(***************************************************************************)
AnnouncedOnce ==
  /\ \A t \in Tasks : told[t].completed <= 1 + cut
  /\ \A t \in Tasks : told[t].added <= 1

(***************************************************************************)
(* A claim makes one task its user's: owners stamped and claims left never *)
(* outnumber the tasks this user created under that name.                  *)
(***************************************************************************)
ClaimUsedOnce ==
  \A u \in Users, n \in Names :
    Cardinality({t \in Tasks : watched[t] # None /\ watched[t].owner = u /\ task[t].name = n})
      + Cardinality({i \in DOMAIN claims : claims[i].user = u /\ claims[i].name = n})
    <= Cardinality({t \in Tasks : task[t].by = u /\ task[t].name = n})

(***************************************************************************)
(* "Matching the OLDEST open row keeps multi-episode sends from            *)
(* double-assigning": rows that got a size never outnumber the tasks of    *)
(* that name and folder the watcher saw finished, a restart between the    *)
(* size and the record apart.                                              *)
(***************************************************************************)
SizesNotDoubled ==
  \A n \in Names, f \in Folders :
    Cardinality({i \in DOMAIN rows : rows[i].name = n /\ rows[i].folder = f /\ rows[i].done})
    <= cut + Cardinality({t \in Tasks : /\ task[t].name = n /\ task[t].folder = f
                                        /\ watched[t] # None
                                        /\ \/ watched[t].notified
                                           \/ pc = "note" /\ t = Current})

(***************************************************************************)
(* A task that was seen under way, finishes and stays on the NAS is told   *)
(* to its subscribers in the end, whatever it went through before: it may  *)
(* have failed, been paused and resumed.                                   *)
(***************************************************************************)
FinishIsTold ==
  \A t \in Tasks :
    (watched[t] # None /\ ~watched[t].notified /\ task[t].st = "finished")
      ~> (told[t].completed > 0 \/ task[t].st # "finished")

(***************************************************************************)
(* watcher.go: "Prime the baseline immediately so existing tasks aren't    *)
(* announced as newly added".                                              *)
(***************************************************************************)
BaselineNotAnnounced == \A t \in early : told[t].added = 0

(***************************************************************************)
(* The scope of a user "governs BOTH which tasks a user sees in the list   *)
(* and which they're notified about" (notif_repos.go): who is told of a    *)
(* completion sees the task.                                               *)
(***************************************************************************)
HearsWhatItSees ==
  [][\A t \in Tasks : (told'[t].completed > told[t].completed) =>
       \A u \in Audience(t) : Shown(u, t)]_vars
=============================================================================
