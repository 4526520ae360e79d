--------------------------- MODULE PushWatchProofs ---------------------------
(***************************************************************************)
(* The three safety properties of PushWatch, for any tasks, users, names,  *)
(* events, failed polls and restarts.                                      *)
(*                                                                         *)
(* A completion passes from the listing through announcement, size and     *)
(* folder to the row, and the row is written last.  Course says what has   *)
(* been done of that at each point; Unseen, that nothing has for a task    *)
(* without a row.  What a restart leaves half done is paid for by `cut`.   *)
(***************************************************************************)
EXTENDS PushWatch, FiniteSetTheorems, SequenceTheorems, WellFoundedInduction, TLAPS

Task  == [st : Statuses, name : Names \cup {None}, folder : Folders \cup {None},
          by : Users \cup {None}]
Claim == [user : Users, name : Names, old : BOOLEAN]
Sent  == [name : Names, folder : Folders, done : BOOLEAN]

Types ==
  /\ task \in [Tasks -> Task]
  /\ watched \in [Tasks -> Watched \cup {None}]
  /\ claims \in Seq(Claim)
  /\ rows \in Seq(Sent)
  /\ sending \in [Users -> [name : Names, folder : Folders] \cup {None}]
  /\ pc \in {"idle", "look", "claim", "stamp", "begun", "settle", "note"}
  /\ todo \subseteq Tasks
  /\ seen \in [Tasks -> Statuses]
  /\ found \in Users \cup {None}
  /\ faults \in Nat /\ cut \in Nat
  /\ told \in [Tasks -> [added : Nat, completed : Nat]]

\* A listing shows tasks that exist, and one that has finished stays so until it is deleted.
Over(t) == task[t].st \in {"finished", "deleted"}
Listing ==
  \A t \in todo : /\ seen[t] # "unborn" /\ task[t].st # "unborn"
                  /\ seen[t] = "finished" => Over(t)

\* A row says notified exactly when it says finished, and then the task has finished.
Recorded ==
  \A t \in Tasks : watched[t] # None =>
    /\ task[t].st # "unborn"
    /\ watched[t].notified <=> watched[t].last = "finished"
    /\ watched[t].notified => Over(t)
    /\ watched[t].notified /\ t \in todo => seen[t] = "finished"

\* Nothing has been said or done about a task without a row.
Unseen ==
  \A t \in Tasks : watched[t] = None =>
    told[t].added = 0 /\ told[t].completed = 0 /\ t \notin refreshed

\* The task in hand, by how far the poll has got with it.
Beginning(phase) == phase \in {"claim", "stamp", "begun"}
Course ==
  /\ pc \notin {"idle", "look"} => todo # {} /\ Row # None
  /\ Beginning(pc) => Row.last = St /\ told[Current].added = 0
  /\ pc \in {"settle", "note"} => St = "finished" /\ ~Row.notified /\ told[Current].completed > 0
  /\ pc = "note" => Current \in refreshed

\* A completion is announced once, and once more for each restart that cut one off.
InHand(t) == pc \in {"settle", "note"} /\ t = Current
Said(t)   == watched[t] # None /\ watched[t].notified
Told ==
  \A t \in Tasks :
    /\ told[t].completed <= cut + 1
    /\ ~Said(t) /\ ~InHand(t) => told[t].completed <= cut
    /\ told[t].added <= 1

\* The tasks whose size has been written, and the rows that have one.
Sized(n, f) ==
  {t \in Tasks : /\ task[t].name = n /\ task[t].folder = f /\ watched[t] # None
                 /\ \/ watched[t].notified /\ ~(Beginning(pc) /\ t = Current)
                    \/ pc = "note" /\ t = Current}
Done(n, f) == {i \in DOMAIN rows : rows[i].name = n /\ rows[i].folder = f /\ rows[i].done}
Sizes == \A n \in Names, f \in Folders : Cardinality(Done(n, f)) <= cut + Cardinality(Sized(n, f))

Inv ==
  /\ Types
  /\ Listing
  /\ Recorded
  /\ Unseen
  /\ Course
  /\ CompletionNeverLost
  /\ Told
  /\ Sizes

-----------------------------------------------------------------------------
\* A set of naturals that is not empty has a least element.
LEMMA LeastIsThere ==
  ASSUME NEW S \in SUBSET Nat, S # {}
  PROVE  FirstOf(S) \in S
<1> DEFINE Less == {ss \in Nat \X Nat : ss[1] < ss[2]}
<1>1. IsWellFoundedOn(Less, Nat)
  <2>1. OpToRel(<, Nat) = Less  BY DEF OpToRel
  <2> QED  BY <2>1, NatLessThanWellFounded
<1>2. PICK m \in S : \A n \in S : ~(<<n, m>> \in Less)
  <2> HIDE DEF Less
  <2> QED  BY <1>1, WFMin
<1>3. \A n \in S : m <= n
  <2> SUFFICES ASSUME NEW n \in S PROVE m <= n  OBVIOUS
  <2>1. ~(<<n, m>> \in Less)  BY <1>2
  <2> QED  BY <2>1
<1> QED  BY <1>2, <1>3 DEF FirstOf

LEMMA TasksAreNumbers == Tasks \in SUBSET Nat /\ IsFiniteSet(Tasks)
<1>1. MaxTasks \in Nat  BY PushAssumption
<1>2. IsFiniteSet(1..MaxTasks)  BY <1>1, FS_Interval
<1> QED  BY <1>1, <1>2 DEF Tasks

LEMMA CurrentIsTask == ASSUME Types, todo # {} PROVE Current \in todo /\ Current \in Tasks
<1>1. todo \subseteq Tasks  BY DEF Types
<1> QED  BY <1>1, TasksAreNumbers, LeastIsThere DEF Current

LEMMA UnbornIsTask == ASSUME Unborn # {} PROVE FirstOf(Unborn) \in Tasks /\ task[FirstOf(Unborn)].st = "unborn"
<1>1. Unborn \subseteq Tasks  BY DEF Unborn
<1>2. FirstOf(Unborn) \in Unborn  BY <1>1, TasksAreNumbers, LeastIsThere
<1> QED  BY <1>2 DEF Unborn

\* One write to a row of watched_tasks.
LEMMA RowIsWatched == ASSUME Types, todo # {}, Row # None PROVE Row \in Watched
BY CurrentIsTask DEF Types, Row

LEMMA RowWritten ==
  ASSUME Types, todo # {}, Row # None, NEW last \in Statuses, NEW notified \in BOOLEAN,
         watched' = [watched EXCEPT ![Current].last = last, ![Current].notified = notified]
  PROVE  /\ watched'[Current] \in Watched
         /\ watched'[Current].last = last /\ watched'[Current].notified = notified
         /\ \A t \in Tasks : t # Current => watched'[t] = watched[t]
         /\ watched' \in [Tasks -> Watched \cup {None}]
<1> DEFINE r == watched[Current]
           w == [[r EXCEPT !.last = last] EXCEPT !.notified = notified]
<1>1. r \in Watched /\ Current \in Tasks  BY RowIsWatched, CurrentIsTask DEF Row
<1>2. watched \in [Tasks -> Watched \cup {None}]  BY DEF Types
<1>3. watched' = [watched EXCEPT ![Current] = w]  BY <1>1, <1>2 DEF Watched
<1>4. w \in Watched /\ w.last = last /\ w.notified = notified
  <2> HIDE DEF r
  <2> QED  BY <1>1 DEF Watched
<1> HIDE DEF w
<1> QED  BY <1>1, <1>2, <1>3, <1>4

LEMMA OwnerWritten ==
  ASSUME Types, todo # {}, Row # None, NEW owner \in Users,
         watched' = [watched EXCEPT ![Current].owner = owner]
  PROVE  /\ watched'[Current] \in Watched
         /\ watched'[Current].last = Row.last /\ watched'[Current].notified = Row.notified
         /\ \A t \in Tasks : t # Current => watched'[t] = watched[t]
         /\ watched' \in [Tasks -> Watched \cup {None}]
<1> DEFINE r == watched[Current]
           w == [r EXCEPT !.owner = owner]
<1>1. r \in Watched /\ Current \in Tasks  BY RowIsWatched, CurrentIsTask DEF Row
<1>2. watched \in [Tasks -> Watched \cup {None}]  BY DEF Types
<1>3. watched' = [watched EXCEPT ![Current] = w]  BY <1>1, <1>2 DEF Watched
<1>4. w \in Watched /\ w.last = r.last /\ w.notified = r.notified
  <2> HIDE DEF r
  <2> QED  BY <1>1 DEF Watched
<1> HIDE DEF w
<1> QED  BY <1>1, <1>2, <1>3, <1>4 DEF Row

\* One announcement.
LEMMA AddedTold ==
  ASSUME Types, todo # {}, told' = [told EXCEPT ![Current].added = @ + 1]
  PROVE  /\ told'[Current].added = told[Current].added + 1
         /\ told'[Current].completed = told[Current].completed
         /\ \A t \in Tasks : t # Current => told'[t] = told[t]
         /\ told' \in [Tasks -> [added : Nat, completed : Nat]]
<1> DEFINE r == told[Current]
           n == r.added + 1
           w == [r EXCEPT !.added = n]
<1>1. told \in [Tasks -> [added : Nat, completed : Nat]] /\ Current \in Tasks
  BY CurrentIsTask DEF Types
<1>2. r \in [added : Nat, completed : Nat] /\ n \in Nat  BY <1>1
<1>3. told' = [told EXCEPT ![Current] = w]  BY <1>1
<1>4. w \in [added : Nat, completed : Nat] /\ w.added = n /\ w.completed = r.completed
  <2> HIDE DEF r, n
  <2> QED  BY <1>2
<1> HIDE DEF w
<1> QED  BY <1>1, <1>3, <1>4

LEMMA CompletedTold ==
  ASSUME Types, todo # {}, told' = [told EXCEPT ![Current].completed = @ + 1]
  PROVE  /\ told'[Current].completed = told[Current].completed + 1
         /\ told'[Current].added = told[Current].added
         /\ \A t \in Tasks : t # Current => told'[t] = told[t]
         /\ told' \in [Tasks -> [added : Nat, completed : Nat]]
<1> DEFINE r == told[Current]
           n == r.completed + 1
           w == [r EXCEPT !.completed = n]
<1>1. told \in [Tasks -> [added : Nat, completed : Nat]] /\ Current \in Tasks
  BY CurrentIsTask DEF Types
<1>2. r \in [added : Nat, completed : Nat] /\ n \in Nat  BY <1>1
<1>3. told' = [told EXCEPT ![Current] = w]  BY <1>1
<1>4. w \in [added : Nat, completed : Nat] /\ w.completed = n /\ w.added = r.added
  <2> HIDE DEF r, n
  <2> QED  BY <1>2
<1> HIDE DEF w
<1> QED  BY <1>1, <1>3, <1>4

\* A size goes into at most one row, and into one of the task's own name and folder.
LEMMA DoneIsFinite ==
  ASSUME Types, NEW n, NEW f
  PROVE  IsFiniteSet(Done(n, f)) /\ Cardinality(Done(n, f)) \in Nat
<1>1. DOMAIN rows = 1..Len(rows) /\ Len(rows) \in Nat  BY DEF Types
<1>2. IsFiniteSet(DOMAIN rows)  BY <1>1, FS_Interval
<1>3. Done(n, f) \subseteq DOMAIN rows  BY DEF Done
<1> QED  BY <1>2, <1>3, FS_Subset, FS_CardinalityType

LEMMA OneRowFilled ==
  ASSUME Types, NEW t \in Tasks, Backfill(t)
  PROVE  /\ rows' \in Seq(Sent)
         /\ \A n, f : /\ Cardinality(Done(n, f)') <= Cardinality(Done(n, f)) + 1
                      /\ task[t].name # n \/ task[t].folder # f => Done(n, f)' = Done(n, f)
<1>1. CASE Open(t) = {}
  <2>1. rows' = rows  BY <1>1 DEF Backfill
  <2>2. \A n, f : Done(n, f)' = Done(n, f)  BY <2>1 DEF Done
  <2>3. \A n, f : Cardinality(Done(n, f)) \in Nat  BY DoneIsFinite
  <2> QED  BY <2>1, <2>2, <2>3 DEF Types
<1>2. CASE Open(t) # {}
  <2> DEFINE i == FirstOf(Open(t))
             r == rows[i]
             w == [r EXCEPT !.done = TRUE]
  <2>1. DOMAIN rows = 1..Len(rows) /\ Len(rows) \in Nat /\ rows \in Seq(Sent)  BY DEF Types
  <2>2. Open(t) \in SUBSET Nat  BY <2>1 DEF Open
  <2>3. i \in Open(t)  BY <1>2, <2>2, LeastIsThere
  <2>4. i \in DOMAIN rows /\ r \in Sent /\ r.name = task[t].name /\ r.folder = task[t].folder
    BY <2>1, <2>3 DEF Open
  <2>5. w \in Sent /\ w.name = r.name /\ w.folder = r.folder /\ w.done
    <3> HIDE DEF r
    <3> QED  BY <2>4 DEF Sent
  <2>6. rows' = [rows EXCEPT ![i] = w]  BY <1>2, <2>1, <2>3 DEF Backfill, Open
  <2> HIDE DEF w
  <2>7. rows' \in Seq(Sent) /\ DOMAIN rows' = DOMAIN rows
    BY <2>1, <2>4, <2>5, <2>6, ExceptSeq
  <2>8. \A j \in DOMAIN rows : rows'[j] = IF j = i THEN w ELSE rows[j]  BY <2>6
  <2>9. ASSUME NEW n, NEW f
        PROVE  /\ Cardinality(Done(n, f)') <= Cardinality(Done(n, f)) + 1
               /\ task[t].name # n \/ task[t].folder # f => Done(n, f)' = Done(n, f)
    <3>1. Done(n, f)' \subseteq Done(n, f) \cup {i}  BY <2>7, <2>8 DEF Done
    <3>2. task[t].name # n \/ task[t].folder # f => Done(n, f)' = Done(n, f)
      BY <2>4, <2>5, <2>7, <2>8 DEF Done
    <3>3. IsFiniteSet(Done(n, f)) /\ Cardinality(Done(n, f)) \in Nat  BY DoneIsFinite
    <3>4. /\ IsFiniteSet(Done(n, f) \cup {i})
          /\ Cardinality(Done(n, f) \cup {i}) <= Cardinality(Done(n, f)) + 1
          /\ Cardinality(Done(n, f) \cup {i}) \in Nat
      BY <3>3, FS_AddElement, FS_CardinalityType
    <3>5. /\ Cardinality(Done(n, f)') <= Cardinality(Done(n, f) \cup {i})
          /\ Cardinality(Done(n, f)') \in Nat
      BY <3>1, <3>4, FS_Subset, FS_CardinalityType
    <3> QED  BY <3>2, <3>3, <3>4, <3>5
  <2> QED  BY <2>7, <2>9
<1> QED  BY <1>1, <1>2

-----------------------------------------------------------------------------
\* Types.
LEMMA Dropped ==
  ASSUME NEW S, NEW s \in Seq(S), NEW i \in DOMAIN s
  PROVE  Drop(s, i) \in Seq(S)
<1>1. i \in 1..Len(s) /\ Len(s) \in Nat  OBVIOUS
<1>2. \A j \in 1..(i - 1) : s[j] \in S  BY <1>1
<1>3. \A j \in (i + 1)..Len(s) : s[j] \in S  BY <1>1
<1>4. SubSeq(s, 1, i - 1) \in Seq(S)  BY <1>1, <1>2, SubSeqProperties
<1>5. SubSeq(s, i + 1, Len(s)) \in Seq(S)  BY <1>1, <1>3, SubSeqProperties
<1> QED  BY <1>4, <1>5, ConcatProperties DEF Drop

LEMMA MatchingClaim == ASSUME Types, Matching # {} PROVE FirstOf(Matching) \in DOMAIN claims
<1>1. DOMAIN claims \in SUBSET Nat  BY DEF Types
<1>2. Matching \in SUBSET Nat  BY <1>1 DEF Matching
<1>3. FirstOf(Matching) \in Matching  BY <1>2, LeastIsThere
<1> QED  BY <1>3 DEF Matching

LEMMA TInit == Init => Types
<1> SUFFICES ASSUME Init PROVE Types  OBVIOUS
<1>1. task \in [Tasks -> Task]
  <2>1. Blank \in Task  BY DEF Blank, Task, Statuses
  <2>2. \A name \in Names, f \in Folders :
          [st |-> "downloading", name |-> name, folder |-> f, by |-> None] \in Task
    BY DEF Task, Statuses
  <2> QED  BY <2>1, <2>2 DEF Init
<1>2. claims \in Seq(Claim) /\ rows \in Seq(Sent)  BY DEF Init
<1>3. watched \in [Tasks -> Watched \cup {None}]  BY DEF Init
<1>4. /\ sending \in [Users -> [name : Names, folder : Folders] \cup {None}]
      /\ pc = "idle" /\ todo = {} /\ found = None
      /\ seen \in [Tasks -> Statuses]
  BY DEF Init, Fresh, Statuses
<1>5. faults \in Nat /\ cut \in Nat  BY PushAssumption DEF Init
<1>6. told \in [Tasks -> [added : Nat, completed : Nat]]  BY DEF Init
<1> QED  BY <1>1, <1>2, <1>3, <1>4, <1>5, <1>6 DEF Types

LEMMA THandlers ==
  ASSUME Types,
         (\E u \in Users : Create(u) \/ Record(u) \/ SendTitle(u)) \/ Happen \/ ClaimsAge \/ PollFails
  PROVE  Types'
<1> USE DEF store, watcher, world, nas
<1>1. ASSUME NEW u \in Users, Create(u) PROVE Types'
  <2> DEFINE t == FirstOf(Unborn)
  <2>1. PICK n \in Names, f \in Folders :
          /\ task' = [task EXCEPT ![t] = [st |-> "downloading", name |-> n, folder |-> f, by |-> u]]
          /\ sending' = [sending EXCEPT ![u] = [name |-> n, folder |-> f]]
    BY <1>1 DEF Create
  <2>2. [st |-> "downloading", name |-> n, folder |-> f, by |-> u] \in Task  BY DEF Task, Statuses
  <2> HIDE DEF t
  <2>3. task' \in [Tasks -> Task]  BY <2>1, <2>2 DEF Types
  <2>4. [name |-> n, folder |-> f] \in [name : Names, folder : Folders]  OBVIOUS
  <2>5. sending' \in [Users -> [name : Names, folder : Folders] \cup {None}]
    BY <2>1, <2>4 DEF Types
  <2> QED  BY <1>1, <2>3, <2>5 DEF Create, Types
<1>2. ASSUME NEW u \in Users, Record(u) PROVE Types'
  <2> DEFINE s == sending[u]
             c == [user |-> u, name |-> s.name, old |-> FALSE]
             r == [name |-> s.name, folder |-> s.folder, done |-> FALSE]
  <2>1. /\ s # None /\ claims' = Append(claims, c) /\ rows' = Append(rows, r)
        /\ sending' = [sending EXCEPT ![u] = None]
    BY <1>2 DEF Record
  <2>2. s \in [name : Names, folder : Folders]  BY <2>1 DEF Types
  <2> HIDE DEF s
  <2>3. c \in Claim /\ r \in Sent  BY <2>2 DEF Claim, Sent
  <2> HIDE DEF c, r
  <2>4. claims' \in Seq(Claim) /\ rows' \in Seq(Sent)  BY <2>1, <2>3 DEF Types
  <2>5. sending' \in [Users -> [name : Names, folder : Folders] \cup {None}]  BY <2>1 DEF Types
  <2> QED  BY <1>2, <2>4, <2>5 DEF Record, Types
<1>3. ASSUME NEW u \in Users, SendTitle(u) PROVE Types'
  <2> DEFINE t == FirstOf(Unborn)
  <2>1. PICK n \in Names, f \in Folders :
          /\ task' = [task EXCEPT ![t] = [st |-> "downloading", name |-> n, folder |-> f, by |-> u]]
          /\ rows' = Append(rows, [name |-> n, folder |-> f, done |-> FALSE])
    BY <1>3 DEF SendTitle
  <2>2. [st |-> "downloading", name |-> n, folder |-> f, by |-> u] \in Task  BY DEF Task, Statuses
  <2> HIDE DEF t
  <2>3. task' \in [Tasks -> Task]  BY <2>1, <2>2 DEF Types
  <2>4. [name |-> n, folder |-> f, done |-> FALSE] \in Sent  BY DEF Sent
  <2>5. rows' \in Seq(Sent)  BY <2>1, <2>4 DEF Types
  <2> QED  BY <1>3, <2>3, <2>5 DEF SendTitle, Types
<1>4. CASE Happen
  <2>1. PICK t \in Listed : \E st \in After(task[t].st) : task' = [task EXCEPT ![t].st = st]
    BY <1>4 DEF Happen
  <2>2. PICK st \in After(task[t].st) : task' = [task EXCEPT ![t].st = st]  BY <2>1
  <2> DEFINE r == task[t]
             w == [r EXCEPT !.st = st]
  <2>3. t \in Tasks /\ r \in Task  BY DEF Listed, Types
  <2>4. st \in Statuses  BY DEF After, Statuses
  <2>5. w \in Task
    <3> HIDE DEF r
    <3> QED  BY <2>3, <2>4 DEF Task
  <2>6. task' = [task EXCEPT ![t] = w]  BY <2>2, <2>3 DEF Types
  <2> HIDE DEF w
  <2>7. task' \in [Tasks -> Task]  BY <2>5, <2>6 DEF Types
  <2> QED  BY <1>4, <2>7 DEF Happen, Types
<1>5. CASE ClaimsAge
  <2>1. DOMAIN claims = 1..Len(claims) /\ Len(claims) \in Nat /\ \A i \in DOMAIN claims : claims[i] \in Claim
    BY DEF Types
  <2>2. \A c \in Claim : [c EXCEPT !.old = TRUE] \in Claim  BY DEF Claim
  <2>3. claims' = [i \in 1..Len(claims) |-> [claims[i] EXCEPT !.old = TRUE]]
    BY <1>5, <2>1 DEF ClaimsAge
  <2>4. claims' \in [1..Len(claims) -> Claim]  BY <2>1, <2>2, <2>3
  <2>5. claims' \in Seq(Claim)  BY <2>1, <2>4
  <2> QED  BY <1>5, <2>5 DEF ClaimsAge, Types
<1>6. CASE PollFails  BY <1>6 DEF PollFails, Types
<1> QED  BY <1>1, <1>2, <1>3, <1>4, <1>5, <1>6

LEMMA TPolls ==
  ASSUME Types, Course, Step \/ Restart
  PROVE  Types'
<1> USE DEF store, watcher, world, nas
<1>0. ASSUME todo # {} PROVE Current \in todo /\ Current \in Tasks /\ St \in Statuses
  BY <1>0, CurrentIsTask DEF Types, St
<1>n. ASSUME NextTask, todo # {} PROVE /\ todo' \subseteq Tasks /\ seen' \in [Tasks -> Statuses]
                                       /\ pc' = "look" /\ found' = None
  BY <1>n DEF NextTask, Types, Statuses
<1>1. CASE Poll
  <2>1. todo' \subseteq Tasks  BY <1>1 DEF Poll, Listed
  <2>2. seen' \in [Tasks -> Statuses]  BY <1>1 DEF Poll, Types, Task, Statuses
  <2> QED  BY <1>1, <2>1, <2>2 DEF Poll, Types
<1>2. CASE PollEnds  BY <1>2 DEF PollEnds, Types
<1>3. CASE FirstSight
  <2>1. todo # {}  BY <1>3 DEF FirstSight, At
  <2>2. Baseline(St) \in Watched  BY <1>0, <2>1 DEF Baseline, Watched
  <2>3. watched' \in [Tasks -> Watched \cup {None}]  BY <1>3, <2>2 DEF FirstSight, Types
  <2> QED  BY <1>3, <2>3 DEF FirstSight, Types
<1>4. CASE ClaimOwner
  <2>1. CASE Matching = {}  BY <1>4, <2>1 DEF ClaimOwner, Types
  <2>2. CASE Matching # {}
    <3> DEFINE i == FirstOf(Matching)
    <3>1. i \in DOMAIN claims  BY <2>2, MatchingClaim
    <3>2. claims \in Seq(Claim) /\ claims[i] \in Claim  BY <3>1 DEF Types
    <3>3. claims' = Drop(claims, i) /\ found' = claims[i].user
      BY <1>4, <2>2 DEF ClaimOwner, UseUp
    <3> HIDE DEF i
    <3>4. claims' \in Seq(Claim)  BY <3>1, <3>2, <3>3, Dropped
    <3>5. found' \in Users  BY <3>2, <3>3 DEF Claim
    <3> QED  BY <1>4, <3>4, <3>5 DEF ClaimOwner, Types
  <2> QED  BY <2>1, <2>2
<1>5. CASE Stamp
  <2>1. todo # {} /\ Row # None  BY <1>5 DEF Stamp, Course
  <2>2. watched' \in [Tasks -> Watched \cup {None}]
    <3>1. CASE found = None  BY <1>5, <3>1 DEF Stamp, Types
    <3>2. CASE found # None
      <4>1. found \in Users  BY <3>2 DEF Types
      <4> QED  BY <1>5, <2>1, <3>2, <4>1, OwnerWritten DEF Stamp
    <3> QED  BY <3>1, <3>2
  <2> QED  BY <1>5, <2>2 DEF Stamp, Types
<1>6. CASE Begun
  <2>1. todo # {}  BY <1>6 DEF Begun, Course
  <2>2. told' \in [Tasks -> [added : Nat, completed : Nat]]
    <3>1. told' = told \/ told' = [told EXCEPT ![Current].added = @ + 1]  BY <1>6 DEF Begun
    <3> QED  BY <2>1, <3>1, AddedTold DEF Types
  <2>3. rows' \in Seq(Sent)
    <3>1. rows' = rows \/ Backfill(Current)  BY <1>6 DEF Begun
    <3> QED  BY <1>0, <2>1, <3>1, OneRowFilled DEF Types
  <2>4. NextTask  BY <1>6 DEF Begun
  <2> QED  BY <1>6, <1>n, <2>1, <2>2, <2>3, <2>4 DEF Begun, Types
<1>7. CASE Announce
  <2>1. todo # {} /\ told' = [told EXCEPT ![Current].completed = @ + 1]  BY <1>7 DEF Announce, At
  <2> QED  BY <1>7, <2>1, CompletedTold DEF Announce, Types
<1>8. CASE Settle
  <2>1. todo # {} /\ Backfill(Current)  BY <1>8 DEF Settle, Course
  <2> QED  BY <1>0, <1>8, <2>1, OneRowFilled DEF Settle, Types
<1>9. CASE NoteCompleted
  <2>1. todo # {} /\ Row # None /\ NextTask  BY <1>9 DEF NoteCompleted, Course
  <2>2. watched' \in [Tasks -> Watched \cup {None}]
    BY <1>0, <1>9, <2>1, RowWritten DEF NoteCompleted, Upsert
  <2> QED  BY <1>9, <1>n, <2>1, <2>2 DEF NoteCompleted, Types
<1>10. CASE NoteOther
  <2>1. todo # {} /\ Row # None /\ NextTask  BY <1>10 DEF NoteOther, At
  <2>2. watched' \in [Tasks -> Watched \cup {None}]
    <3>1. Row.notified \in BOOLEAN  BY <2>1, RowIsWatched DEF Watched
    <3>2. watched' = watched \/ watched' =
            [watched EXCEPT ![Current].last = St, ![Current].notified = Row.notified]
      BY <1>10 DEF NoteOther, Kept
    <3> QED  BY <1>0, <2>1, <3>1, <3>2, RowWritten DEF Types
  <2> QED  BY <1>10, <1>n, <2>1, <2>2 DEF NoteOther, Types
<1>11. CASE Restart
  <2>1. faults' \in Nat /\ cut' \in Nat  BY <1>11 DEF Restart, Types
  <2>2. seen' \in [Tasks -> Statuses]  BY <1>11 DEF Restart, Statuses
  <2>3. sending' \in [Users -> [name : Names, folder : Folders] \cup {None}]  BY <1>11 DEF Restart
  <2> QED  BY <1>11, <2>1, <2>2, <2>3 DEF Restart, Types
<1> QED
  BY <1>1, <1>2, <1>3, <1>4, <1>5, <1>6, <1>7, <1>8, <1>9, <1>10, <1>11 DEF Step

-----------------------------------------------------------------------------
\* What users and the NAS do leaves everything the watcher keeps as it is: tasks are born and
\* move on, and rows of the history are added open.
Grown(t) ==
  \/ task'[t] = task[t]
  \/ task[t].st = "unborn" /\ task'[t].st # "unborn"
  \/ /\ task[t].st # "unborn" /\ task'[t].st # "unborn"
     /\ task'[t].name = task[t].name /\ task'[t].folder = task[t].folder
     /\ Over(t) => Over(t)'

Quiet ==
  /\ UNCHANGED <<watched, pc, todo, seen, told, refreshed, cut>>
  /\ \A t \in Tasks : Grown(t)
  /\ \A n, f : Done(n, f)' = Done(n, f)

LEMMA OpenAdded ==
  ASSUME Types, NEW r \in Sent, ~r.done, rows' = Append(rows, r), NEW n, NEW f
  PROVE  Done(n, f)' = Done(n, f)
<1>1. rows \in Seq(Sent) /\ DOMAIN rows = 1..Len(rows) /\ Len(rows) \in Nat  BY DEF Types
<1>2. DOMAIN rows' = 1..(Len(rows) + 1)  BY <1>1
<1>3. \A i \in 1..Len(rows) : rows'[i] = rows[i]  BY <1>1
<1>4. rows'[Len(rows) + 1] = r  BY <1>1
<1>5. \A i \in DOMAIN rows' : i \in DOMAIN rows \/ i = Len(rows) + 1  BY <1>1, <1>2
<1>6. DOMAIN rows \subseteq DOMAIN rows'  BY <1>1, <1>2
<1> HIDE DEF Types
<1> QED  BY <1>1, <1>3, <1>4, <1>5, <1>6 DEF Done

LEMMA TaskCreated ==
  ASSUME Types, Unborn # {}, NEW u, NEW n, NEW f, NEW t \in Tasks,
         task' = [task EXCEPT ![FirstOf(Unborn)] =
                    [st |-> "downloading", name |-> n, folder |-> f, by |-> u]]
  PROVE  Grown(t)
<1> DEFINE b == [st |-> "downloading", name |-> n, folder |-> f, by |-> u]
<1>1. FirstOf(Unborn) \in Tasks /\ task[FirstOf(Unborn)].st = "unborn"  BY UnbornIsTask
<1>2. b.st # "unborn"  OBVIOUS
<1>3. task \in [Tasks -> Task]  BY DEF Types
<1> HIDE DEF b
<1> QED  BY <1>1, <1>2, <1>3 DEF Grown, b

LEMMA HandlersAreQuiet ==
  ASSUME Types,
         (\E u \in Users : Create(u) \/ Record(u) \/ SendTitle(u)) \/ Happen \/ ClaimsAge \/ PollFails
  PROVE  Quiet
<1> USE DEF store, watcher, world, nas
<1>0. (rows' = rows => \A n, f : Done(n, f)' = Done(n, f)) /\ (task' = task => \A t \in Tasks : Grown(t))
  BY DEF Done, Grown
<1>1. ASSUME NEW u \in Users, Create(u) PROVE Quiet
  <2>1. Unborn # {} /\ \E n, f :
          task' = [task EXCEPT ![FirstOf(Unborn)] =
                     [st |-> "downloading", name |-> n, folder |-> f, by |-> u]]
    BY <1>1 DEF Create
  <2>2. \A t \in Tasks : Grown(t)  BY <2>1, TaskCreated
  <2> QED  BY <1>0, <1>1, <2>2 DEF Create, Quiet
<1>2. ASSUME NEW u \in Users, Record(u) PROVE Quiet
  <2> DEFINE s == sending[u]
             r == [name |-> s.name, folder |-> s.folder, done |-> FALSE]
  <2>1. s # None /\ rows' = Append(rows, r)  BY <1>2 DEF Record
  <2>2. s \in [name : Names, folder : Folders]  BY <2>1 DEF Types
  <2> HIDE DEF s
  <2>3. r \in Sent /\ ~r.done  BY <2>2 DEF Sent
  <2> HIDE DEF r
  <2>4. \A n, f : Done(n, f)' = Done(n, f)  BY <2>1, <2>3, OpenAdded
  <2> QED  BY <1>0, <1>2, <2>4 DEF Record, Quiet
<1>3. ASSUME NEW u \in Users, SendTitle(u) PROVE Quiet
  <2>1. PICK name \in Names, folder \in Folders :
          /\ task' = [task EXCEPT ![FirstOf(Unborn)] =
                        [st |-> "downloading", name |-> name, folder |-> folder, by |-> u]]
          /\ rows' = Append(rows, [name |-> name, folder |-> folder, done |-> FALSE])
    BY <1>3 DEF SendTitle
  <2>2. Unborn # {}  BY <1>3 DEF SendTitle
  <2>3. \A t \in Tasks : Grown(t)  BY <2>1, <2>2, TaskCreated
  <2> DEFINE r == [name |-> name, folder |-> folder, done |-> FALSE]
  <2>4. r \in Sent /\ ~r.done  BY DEF Sent
  <2>5. rows' = Append(rows, r)  BY <2>1
  <2> HIDE DEF r
  <2>6. \A n, f : Done(n, f)' = Done(n, f)  BY <2>4, <2>5, OpenAdded
  <2> QED  BY <1>3, <2>3, <2>6 DEF SendTitle, Quiet
<1>4. CASE Happen
  <2>1. PICK t \in Listed : \E st \in After(task[t].st) : task' = [task EXCEPT ![t].st = st]
    BY <1>4 DEF Happen
  <2>2. PICK st \in After(task[t].st) : task' = [task EXCEPT ![t].st = st]  BY <2>1
  <2> DEFINE r == task[t]
             w == [r EXCEPT !.st = st]
  <2>3. t \in Tasks /\ r \in Task /\ r.st # "unborn" /\ r.st # "deleted"  BY DEF Listed, Types
  <2>4. st # "unborn" /\ (r.st = "finished" => st = "deleted")  BY DEF After
  <2>5. task' = [task EXCEPT ![t] = w]  BY <2>2, <2>3 DEF Types
  <2>6. w.st = st /\ w.name = r.name /\ w.folder = r.folder
    <3> HIDE DEF r
    <3> QED  BY <2>3 DEF Task
  <2> HIDE DEF w
  <2>7. \A i \in Tasks : task'[i] = IF i = t THEN w ELSE task[i]  BY <2>5 DEF Types
  <2>8. \A i \in Tasks : Grown(i)  BY <2>3, <2>4, <2>6, <2>7 DEF Grown, Over
  <2> QED  BY <1>0, <1>4, <2>8 DEF Happen, Quiet
<1>5. CASE ClaimsAge  BY <1>0, <1>5 DEF ClaimsAge, Quiet
<1>6. CASE PollFails  BY <1>0, <1>6 DEF PollFails, Quiet
<1> QED  BY <1>1, <1>2, <1>3, <1>4, <1>5, <1>6

LEMMA SizedIsFinite ==
  ASSUME NEW S \in SUBSET Tasks
  PROVE  IsFiniteSet(S) /\ Cardinality(S) \in Nat
BY TasksAreNumbers, FS_Subset, FS_CardinalityType

LEMMA OneMore ==
  ASSUME NEW S, IsFiniteSet(S), NEW x
  PROVE  /\ IsFiniteSet(S \cup {x}) /\ Cardinality(S \cup {x}) \in Nat
         /\ Cardinality(S \cup {x}) <= Cardinality(S) + 1
<1>1. Cardinality(S) \in Nat  BY FS_CardinalityType
<1>2. IsFiniteSet(S \cup {x}) /\ Cardinality(S \cup {x}) \in {Cardinality(S), Cardinality(S) + 1}
  BY FS_AddElement
<1> QED  BY <1>1, <1>2

\* Sizes stays true when the rows do and no task that had its size loses it.
LEMMA SizesStay ==
  ASSUME Types, Sizes, cut' = cut,
         \A n \in Names, f \in Folders : Done(n, f)' = Done(n, f) /\ Sized(n, f) \subseteq Sized(n, f)'
  PROVE  Sizes'
<1> SUFFICES ASSUME NEW n \in Names, NEW f \in Folders
             PROVE  Cardinality(Done(n, f)') <= cut' + Cardinality(Sized(n, f)')
  BY DEF Sizes
<1>1. Sized(n, f)' \subseteq Tasks /\ Sized(n, f) \subseteq Tasks  BY DEF Sized
<1>2. Cardinality(Sized(n, f)) <= Cardinality(Sized(n, f)')
  BY <1>1, SizedIsFinite, FS_Subset
<1>3. Cardinality(Done(n, f)) <= cut + Cardinality(Sized(n, f))  BY DEF Sizes
<1>4. Cardinality(Done(n, f)) \in Nat /\ cut \in Nat  BY DoneIsFinite DEF Types
<1> QED  BY <1>1, <1>2, <1>3, <1>4, SizedIsFinite

LEMMA QuietKeeps == ASSUME Inv, Quiet, Types' PROVE Inv'
<1> USE DEF Quiet
<1>t. Types  BY DEF Inv
<1>1. Listing'
  <2>1. \A t \in todo : t \in Tasks /\ Grown(t)  BY <1>t DEF Types
  <2> QED  BY <2>1 DEF Inv, Listing, Grown, Over
<1>2. Recorded'  BY DEF Inv, Recorded, Grown, Over
<1>3. Unseen' /\ CompletionNeverLost'  BY DEF Inv, Unseen, CompletionNeverLost
<1>4. Current' = Current  BY DEF Current
<1>5. Course'  BY <1>4 DEF Inv, Course, Row, St
<1>6. Told'  BY <1>4 DEF Inv, Told, Said, InHand
<1>7. Sizes'
  <2>1. \A n, f : Sized(n, f) \subseteq Sized(n, f)'
    BY <1>4 DEF Inv, Recorded, Sized, Grown
  <2> QED  BY <1>t, <2>1, SizesStay DEF Inv
<1> QED  BY <1>1, <1>2, <1>3, <1>5, <1>6, <1>7 DEF Inv

-----------------------------------------------------------------------------
\* A poll begins and ends without writing anything.
LEMMA PollsKeep == ASSUME Inv, Poll \/ PollEnds, Types' PROVE Inv'
<1> USE DEF store, world, nas
<1>t. Types  BY DEF Inv
<1>0. /\ UNCHANGED <<task, watched, rows, told, refreshed, cut>>
      /\ pc \in {"idle", "look"} /\ pc' \in {"idle", "look"}
  BY DEF Poll, PollEnds
<1>1. Listing'
  <2>1. CASE Poll
    <3>1. todo' = Listed /\ \A t \in Listed : t \in Tasks /\ seen'[t] = task[t].st
      BY <2>1 DEF Poll, Listed
    <3>2. \A t \in Listed : task[t].st # "unborn"  BY DEF Listed
    <3> QED  BY <1>0, <3>1, <3>2 DEF Listing, Over
  <2>2. CASE PollEnds  BY <1>0, <2>2 DEF PollEnds, Inv, Listing, Over
  <2> QED  BY <2>1, <2>2
<1>2. Recorded'
  <2>1. CASE Poll
    <3>1. todo' = Listed /\ \A t \in Listed : seen'[t] = task[t].st /\ task[t].st # "deleted"
      BY <2>1 DEF Poll, Listed
    <3> QED  BY <1>0, <3>1 DEF Inv, Recorded, Over
  <2>2. CASE PollEnds  BY <1>0, <2>2 DEF PollEnds, Inv, Recorded, Over
  <2> QED  BY <2>1, <2>2
<1>3. Unseen' /\ CompletionNeverLost'  BY <1>0 DEF Inv, Unseen, CompletionNeverLost
<1>4. Course'  BY <1>0 DEF Course, Beginning
<1>5. Told'  BY <1>0 DEF Inv, Told, Said, InHand
<1>6. Sizes'
  <2>1. \A n, f : Sized(n, f) \subseteq Sized(n, f)'  BY <1>0 DEF Sized, Beginning
  <2>2. \A n, f : Done(n, f)' = Done(n, f)  BY <1>0 DEF Done
  <2> QED  BY <1>t, <1>0, <2>1, <2>2, SizesStay DEF Inv
<1> QED  BY <1>1, <1>2, <1>3, <1>4, <1>5, <1>6 DEF Inv

\* A restart loses what was in hand; if it was a completion between its announcement and its
\* row, `cut` says so.
LEMMA RestartKeeps == ASSUME Inv, Restart, Types' PROVE Inv'
<1>t. Types  BY DEF Inv
<1>0. /\ UNCHANGED <<task, watched, rows, told, refreshed>>
      /\ pc' = "idle" /\ todo' = {}
      /\ cut' = IF pc \in {"settle", "note"} THEN cut + 1 ELSE cut
  BY DEF Restart, nas, store
<1>c. cut \in Nat  BY <1>t DEF Types
<1>1. Listing'  BY <1>0 DEF Listing
<1>2. Recorded'  BY <1>0 DEF Inv, Recorded, Over
<1>3. Unseen' /\ CompletionNeverLost'  BY <1>0 DEF Inv, Unseen, CompletionNeverLost
<1>4. Course'  BY <1>0 DEF Course, Beginning
<1>5. Told'
  <2> SUFFICES ASSUME NEW t \in Tasks
               PROVE  /\ told'[t].completed <= cut' + 1
                      /\ ~Said(t)' => told'[t].completed <= cut'
                      /\ told'[t].added <= 1
    BY DEF Told
  <2>1. told[t].completed \in Nat  BY <1>t DEF Types
  <2> QED  BY <1>0, <1>c, <2>1 DEF Inv, Told, Said, InHand
<1>6. Sizes'
  <2> SUFFICES ASSUME NEW n \in Names, NEW f \in Folders
               PROVE  Cardinality(Done(n, f)') <= cut' + Cardinality(Sized(n, f)')
    BY DEF Sizes
  <2>1. Done(n, f)' = Done(n, f)  BY <1>0 DEF Done
  <2>2. Cardinality(Done(n, f)) \in Nat /\ Cardinality(Done(n, f)) <= cut + Cardinality(Sized(n, f))
    BY <1>t, DoneIsFinite DEF Inv, Sizes
  <2>3. Sized(n, f) \in SUBSET Tasks /\ Sized(n, f)' \in SUBSET Tasks  BY DEF Sized
  <2>4. /\ IsFiniteSet(Sized(n, f)') /\ Cardinality(Sized(n, f)') \in Nat
        /\ IsFiniteSet(Sized(n, f)) /\ Cardinality(Sized(n, f)) \in Nat
    BY <2>3, SizedIsFinite
  <2>5. CASE pc = "note"
    <3>1. Sized(n, f) \subseteq Sized(n, f)' \cup {Current}  BY <1>0 DEF Sized, Beginning
    <3>2. /\ IsFiniteSet(Sized(n, f)' \cup {Current})
          /\ Cardinality(Sized(n, f)' \cup {Current}) \in Nat
          /\ Cardinality(Sized(n, f)' \cup {Current}) <= Cardinality(Sized(n, f)') + 1
      <4> DEFINE S == Sized(n, f)'
      <4>1. IsFiniteSet(S)  BY <2>4
      <4> HIDE DEF S
      <4>2. /\ IsFiniteSet(S \cup {Current}) /\ Cardinality(S \cup {Current}) \in Nat
            /\ Cardinality(S \cup {Current}) <= Cardinality(S) + 1
        BY <4>1, OneMore
      <4> QED  BY <4>2 DEF S
    <3>4. Cardinality(Sized(n, f)) <= Cardinality(Sized(n, f)' \cup {Current})
      BY <3>1, <3>2, FS_Subset
    <3>5. cut' = cut + 1  BY <1>0, <2>5
    <3> QED  BY <1>c, <2>1, <2>2, <2>4, <3>2, <3>4, <3>5
  <2>6. CASE pc # "note"
    <3>1. Sized(n, f) \subseteq Sized(n, f)'  BY <1>0, <2>6 DEF Sized, Beginning
    <3>2. Cardinality(Sized(n, f)) <= Cardinality(Sized(n, f)')  BY <2>4, <3>1, FS_Subset
    <3>3. cut' \in Nat /\ cut <= cut'  BY <1>0, <1>c
    <3> QED  BY <1>c, <2>1, <2>2, <2>4, <3>2, <3>3
  <2> QED  BY <2>5, <2>6
<1> QED  BY <1>1, <1>2, <1>3, <1>4, <1>5, <1>6 DEF Inv

-----------------------------------------------------------------------------
\* A task seen for the first time.
LEMMA FirstSightKeeps == ASSUME Inv, FirstSight, Types' PROVE Inv'
<1> USE DEF store, world, nas
<1>t. Types  BY DEF Inv
<1>0. /\ UNCHANGED <<task, rows, told, refreshed, cut, todo, seen>>
      /\ pc = "look" /\ todo # {} /\ Row = None /\ pc' = "claim"
      /\ watched' = [watched EXCEPT ![Current] = Baseline(St)]
  BY DEF FirstSight, At
<1>c. Current \in todo /\ Current \in Tasks /\ Current' = Current
  BY <1>t, <1>0, CurrentIsTask DEF Current
<1>b. Baseline(St).last = St /\ (Baseline(St).notified <=> St = "finished")  BY DEF Baseline
<1>w. /\ watched'[Current] = Baseline(St) /\ watched[Current] = None
      /\ \A t \in Tasks : t # Current => watched'[t] = watched[t]
  BY <1>t, <1>0, <1>c DEF Types, Row
<1>s. St = seen[Current]  BY DEF St
<1>n. watched'[Current] # None
  <2>1. St \in Statuses  BY <1>t, <1>c, <1>s DEF Types
  <2>2. Baseline(St) \in Watched  BY <2>1 DEF Baseline, Watched
  <2> QED  BY <1>w, <2>2, PushAssumption
<1>1. Listing'  BY <1>0 DEF Inv, Listing, Over
<1>2. Recorded'
  <2> SUFFICES ASSUME NEW t \in Tasks, watched'[t] # None
               PROVE  /\ task'[t].st # "unborn"
                      /\ watched'[t].notified <=> watched'[t].last = "finished"
                      /\ watched'[t].notified => task'[t].st \in {"finished", "deleted"}
                      /\ watched'[t].notified /\ t \in todo' => seen'[t] = "finished"
    BY DEF Recorded, Over
  <2>1. CASE t # Current  BY <1>0, <1>w, <2>1 DEF Inv, Recorded, Over
  <2>2. CASE t = Current  BY <1>0, <1>b, <1>c, <1>s, <1>w, <2>2 DEF Inv, Listing, Over
  <2> QED  BY <2>1, <2>2
<1>u. told[Current].added = 0 /\ told[Current].completed = 0 /\ Current \notin refreshed
  BY <1>c, <1>w DEF Inv, Unseen
<1>3. Unseen' /\ CompletionNeverLost'
  BY <1>0, <1>u, <1>w DEF Inv, Unseen, CompletionNeverLost
<1>4. Course'
  <2>1. Row' = Baseline(St) /\ Row' # None  BY <1>c, <1>w, <1>n DEF Row
  <2>2. St' = St  BY <1>0, <1>c DEF St
  <2> QED  BY <1>0, <1>b, <1>c, <1>u, <2>1, <2>2 DEF Course, Beginning
<1>5. Told'
  <2> SUFFICES ASSUME NEW t \in Tasks
               PROVE  /\ told'[t].completed <= cut' + 1
                      /\ ~Said(t)' => told'[t].completed <= cut'
                      /\ told'[t].added <= 1
    BY DEF Told
  <2>1. CASE t = Current
    <3>1. cut \in Nat  BY <1>t DEF Types
    <3> QED  BY <1>0, <1>u, <2>1, <3>1
  <2>2. CASE t # Current  BY <1>0, <1>w, <2>2 DEF Inv, Told, Said, InHand
  <2> QED  BY <2>1, <2>2
<1>6. Sizes'
  <2>1. \A n, f : Sized(n, f) \subseteq Sized(n, f)'
    BY <1>0, <1>c, <1>w DEF Sized, Beginning
  <2>2. \A n, f : Done(n, f)' = Done(n, f)  BY <1>0 DEF Done
  <2> QED  BY <1>t, <1>0, <2>1, <2>2, SizesStay DEF Inv
<1> QED  BY <1>1, <1>2, <1>3, <1>4, <1>5, <1>6 DEF Inv

\* Its claim is looked up and its owner stamped.
LEMMA OwnerKeeps == ASSUME Inv, ClaimOwner \/ Stamp, Types' PROVE Inv'
<1> USE DEF store, world, nas
<1>t. Types  BY DEF Inv
<1>0. /\ UNCHANGED <<task, rows, told, refreshed, cut, todo, seen>>
      /\ pc \in {"claim", "stamp"} /\ pc' \in {"stamp", "begun"}
  BY DEF ClaimOwner, Stamp
<1>1. todo # {} /\ Row # None  BY <1>0 DEF Inv, Course
<1>c. Current \in todo /\ Current \in Tasks /\ Current' = Current
  BY <1>t, <1>0, <1>1, CurrentIsTask DEF Current
<1>w. ASSUME NEW t \in Tasks
      PROVE  /\ watched'[t] = None <=> watched[t] = None
             /\ watched[t] # None => /\ watched'[t].last = watched[t].last
                                     /\ watched'[t].notified = watched[t].notified
  <2>1. CASE watched' = watched  BY <2>1
  <2>2. ASSUME Stamp, found # None
        PROVE  /\ watched'[t] = None <=> watched[t] = None
               /\ watched[t] # None => /\ watched'[t].last = watched[t].last
                                       /\ watched'[t].notified = watched[t].notified
    <3>1. found \in Users /\ watched' = [watched EXCEPT ![Current].owner = found]
      BY <1>t, <2>2 DEF Stamp, Types
    <3>2. /\ watched'[Current] \in Watched
          /\ watched'[Current].last = Row.last /\ watched'[Current].notified = Row.notified
          /\ \A i \in Tasks : i # Current => watched'[i] = watched[i]
      BY <1>t, <1>1, <3>1, OwnerWritten
    <3>3. watched'[Current] # None /\ watched[Current] # None  BY <1>1, <3>2, PushAssumption DEF Row
    <3> QED  BY <3>2, <3>3 DEF Row
  <2> QED  BY <2>1, <2>2 DEF ClaimOwner, Stamp
<1>2. Listing'  BY <1>0 DEF Inv, Listing, Over
<1>3. Recorded'  BY <1>0, <1>w DEF Inv, Recorded, Over
<1>4. Unseen' /\ CompletionNeverLost'  BY <1>0, <1>w DEF Inv, Unseen, CompletionNeverLost
<1>5. Course'
  <2>1. Row' # None /\ Row'.last = Row.last  BY <1>1, <1>c, <1>w DEF Row
  <2>2. St' = St  BY <1>0, <1>c DEF St
  <2> QED  BY <1>0, <1>1, <1>c, <2>1, <2>2 DEF Inv, Course, Beginning
<1>6. Told'
  <2>1. \A t \in Tasks : Said(t)' <=> Said(t)  BY <1>w DEF Said
  <2>2. \A t : ~InHand(t) /\ ~InHand(t)'  BY <1>0 DEF InHand
  <2> QED  BY <1>0, <2>1, <2>2 DEF Inv, Told
<1>7. Sizes'
  <2>1. \A n, f : Sized(n, f) \subseteq Sized(n, f)'
    BY <1>0, <1>c, <1>w DEF Sized, Beginning
  <2>2. \A n, f : Done(n, f)' = Done(n, f)  BY <1>0 DEF Done
  <2> QED  BY <1>t, <1>0, <2>1, <2>2, SizesStay DEF Inv
<1> QED  BY <1>2, <1>3, <1>4, <1>5, <1>6, <1>7 DEF Inv

\* One more size is in order when one more task has come to an end.
LEMMA OneSized ==
  ASSUME Types, Sizes, cut' = cut, NEW t \in Tasks, Backfill(t), NEW n \in Names, NEW f \in Folders,
         t \notin Sized(n, f), Sized(n, f) \subseteq Sized(n, f)',
         task[t].name = n /\ task[t].folder = f => t \in Sized(n, f)'
  PROVE  Cardinality(Done(n, f)') <= cut' + Cardinality(Sized(n, f)')
<1> DEFINE S == Sized(n, f)
           T == Sized(n, f)'
<1>1. S \in SUBSET Tasks /\ T \in SUBSET Tasks  BY DEF Sized
<1>2. cut \in Nat /\ Cardinality(Done(n, f)) \in Nat /\ Cardinality(Done(n, f)) <= cut + Cardinality(S)
  BY DoneIsFinite DEF Types, Sizes
<1>3. /\ Cardinality(Done(n, f)') <= Cardinality(Done(n, f)) + 1
      /\ task[t].name # n \/ task[t].folder # f => Done(n, f)' = Done(n, f)
  BY OneRowFilled
<1>4. IsFiniteSet(S) /\ IsFiniteSet(T) /\ Cardinality(S) \in Nat /\ Cardinality(T) \in Nat
  BY <1>1, SizedIsFinite
<1>5. Cardinality(Done(n, f)') \in Nat
  <2>1. rows' \in Seq(Sent)  BY OneRowFilled
  <2>2. DOMAIN rows' = 1..Len(rows') /\ Len(rows') \in Nat  BY <2>1
  <2>3. IsFiniteSet(DOMAIN rows')  BY <2>2, FS_Interval
  <2>4. Done(n, f)' \subseteq DOMAIN rows'  BY DEF Done
  <2> QED  BY <2>3, <2>4, FS_Subset, FS_CardinalityType
<1>6. CASE task[t].name = n /\ task[t].folder = f
  <2>1. S \cup {t} \subseteq T /\ t \notin S  BY <1>6
  <2> HIDE DEF S, T
  <2>2. IsFiniteSet(S \cup {t}) /\ Cardinality(S \cup {t}) = Cardinality(S) + 1
    BY <1>4, <2>1, FS_AddElement
  <2>3. Cardinality(S \cup {t}) <= Cardinality(T)  BY <1>4, <2>1, <2>2, FS_Subset
  <2>4. Cardinality(Done(n, f)') <= cut + Cardinality(T)  BY <1>2, <1>3, <1>4, <1>5, <2>2, <2>3
  <2> QED  BY <2>4 DEF T
<1>7. CASE task[t].name # n \/ task[t].folder # f
  <2>1. S \subseteq T  OBVIOUS
  <2>2. Done(n, f)' = Done(n, f)  BY <1>3, <1>7
  <2> HIDE DEF S, T
  <2>3. Cardinality(S) <= Cardinality(T)  BY <1>4, <2>1, FS_Subset
  <2>4. Cardinality(Done(n, f)') <= cut + Cardinality(T)  BY <1>2, <1>4, <2>2, <2>3
  <2> QED  BY <2>4 DEF T
<1> QED  BY <1>6, <1>7

\* The poll goes on to the next task.
LEMMA GoesOn ==
  ASSUME Types, todo # {}, NextTask, UNCHANGED task, Listing
  PROVE  /\ todo' = todo \ {Current} /\ pc' = "look" /\ Listing'
         /\ \A t \in todo' : seen'[t] = seen[t]
<1>1. todo' = todo \ {Current} /\ pc' = "look" /\ seen' = [seen EXCEPT ![Current] = "unborn"]
  BY DEF NextTask
<1>2. \A t \in todo' : t \in Tasks /\ t \in todo /\ seen'[t] = seen[t]  BY <1>1 DEF Types
<1> QED  BY <1>1, <1>2 DEF Listing, Over

\* Its beginning is announced, unless it has ended already; then its size is written at once.
LEMMA BegunKeeps == ASSUME Inv, Begun, Types' PROVE Inv'
<1>t. Types /\ cut \in Nat  BY DEF Inv, Types
<1>0. UNCHANGED <<task, watched, refreshed, cut>> /\ pc = "begun" /\ NextTask
  BY DEF Begun, nas
<1>1. todo # {} /\ Row # None /\ Row.last = St /\ told[Current].added = 0
  BY <1>0 DEF Inv, Course, Beginning
<1>c. Current \in todo /\ Current \in Tasks  BY <1>t, <1>1, CurrentIsTask
<1>n. todo' = todo \ {Current} /\ pc' = "look" /\ Listing' /\ \A t \in todo' : seen'[t] = seen[t]
  BY <1>t, <1>0, <1>1, GoesOn DEF Inv
<1>w. /\ told'[Current].completed = told[Current].completed
      /\ told'[Current].added \in {0, 1} /\ (St = "finished" => told'[Current].added = 0)
      /\ \A t \in Tasks : t # Current => told'[t] = told[t]
  <2>1. CASE told' = told  BY <1>1, <2>1
  <2>2. CASE told' # told
    <3>1. told' = [told EXCEPT ![Current].added = @ + 1] /\ St # "finished"  BY <2>2 DEF Begun
    <3>2. told'[Current].added = told[Current].added + 1  BY <1>t, <1>1, <3>1, AddedTold
    <3> QED  BY <1>t, <1>1, <3>1, <3>2, AddedTold
  <2> QED  BY <2>1, <2>2
<1>2. Recorded'  BY <1>0, <1>n DEF Inv, Recorded, Over
<1>3. Unseen'
  <2>1. watched[Current] # None  BY <1>1 DEF Row
  <2> QED  BY <1>0, <1>w, <2>1 DEF Inv, Unseen
<1>4. CompletionNeverLost'
  <2>1. watched[Current].last = "finished" => told'[Current] .added = told[Current].added
    BY <1>1, <1>w DEF Row
  <2> QED  BY <1>0, <1>w, <2>1 DEF Inv, CompletionNeverLost
<1>5. Course'  BY <1>n DEF Course, Beginning
<1>6. Told'
  <2>1. ASSUME NEW t \in Tasks
        PROVE  told'[t].completed = told[t].completed /\ told'[t].added <= 1
    <3>1. CASE t = Current  BY <1>w, <3>1
    <3>2. CASE t # Current  BY <1>w, <3>2 DEF Inv, Told
    <3> QED  BY <3>1, <3>2
  <2>2. \A t : ~InHand(t) /\ ~InHand(t)'  BY <1>0, <1>n DEF InHand
  <2>3. \A t : Said(t)' <=> Said(t)  BY <1>0 DEF Said
  <2> QED  BY <1>0, <2>1, <2>2, <2>3 DEF Inv, Told
<1>7. Sizes'
  <2>1. CASE St # "finished"
    <3>1. rows' = rows  BY <2>1 DEF Begun
    <3>2. \A n, f : Done(n, f)' = Done(n, f)  BY <3>1 DEF Done
    <3>3. \A n, f : Sized(n, f) \subseteq Sized(n, f)'
      BY <1>0, <1>n DEF Sized, Beginning
    <3> QED  BY <1>t, <1>0, <3>2, <3>3, SizesStay DEF Inv
  <2>2. CASE St = "finished"
    <3> SUFFICES ASSUME NEW n \in Names, NEW f \in Folders
                 PROVE  Cardinality(Done(n, f)') <= cut' + Cardinality(Sized(n, f)')
      BY DEF Sizes
    <3>1. Backfill(Current)  BY <2>2 DEF Begun
    <3>2. Current \notin Sized(n, f)  BY <1>0 DEF Sized, Beginning
    <3>3. Sized(n, f) \subseteq Sized(n, f)'  BY <1>0, <1>n DEF Sized, Beginning
    <3>4. task[Current].name = n /\ task[Current].folder = f => Current \in Sized(n, f)'
      <4>1. watched[Current] # None /\ watched[Current].notified
        BY <1>1, <1>c, <2>2 DEF Inv, Recorded, Row
      <4> QED  BY <1>0, <1>c, <1>n, <4>1 DEF Sized, Beginning
    <3> QED  BY <1>t, <1>0, <1>c, <3>1, <3>2, <3>3, <3>4, OneSized DEF Inv
  <2> QED  BY <2>1, <2>2
<1> QED  BY <1>n, <1>2, <1>3, <1>4, <1>5, <1>6, <1>7 DEF Inv

-----------------------------------------------------------------------------
\* A completion, step by step.
LEMMA AnnounceKeeps == ASSUME Inv, Announce, Types' PROVE Inv'
<1> USE DEF nas, store
<1>t. Types /\ cut \in Nat  BY DEF Inv, Types
<1>0. /\ UNCHANGED <<task, watched, rows, refreshed, cut, todo, seen>>
      /\ pc = "look" /\ pc' = "settle" /\ todo # {} /\ Row # None /\ Completing
      /\ told' = [told EXCEPT ![Current].completed = @ + 1]
  BY DEF Announce, At
<1>c. Current \in todo /\ Current \in Tasks /\ Current' = Current
  BY <1>t, <1>0, CurrentIsTask DEF Current
<1>w. /\ told'[Current].completed = told[Current].completed + 1
      /\ told'[Current].added = told[Current].added
      /\ \A t \in Tasks : t # Current => told'[t] = told[t]
  BY <1>t, <1>0, CompletedTold
<1>r. watched[Current] # None /\ ~watched[Current].notified /\ told[Current].completed \in Nat
  BY <1>0, <1>c, <1>t DEF Row, Completing, Types
<1>1. Listing' /\ Recorded'  BY <1>0 DEF Inv, Listing, Recorded, Over
<1>2. Unseen' /\ CompletionNeverLost'
  BY <1>0, <1>r, <1>w DEF Inv, Unseen, CompletionNeverLost
<1>3. Course'
  <2>1. Row' = Row /\ St' = St  BY <1>0, <1>c DEF Row, St
  <2> QED  BY <1>0, <1>c, <1>r, <1>w, <2>1 DEF Course, Beginning, Completing
<1>4. Told'
  <2> SUFFICES ASSUME NEW t \in Tasks
               PROVE  /\ told'[t].completed <= cut' + 1
                      /\ ~Said(t)' /\ ~InHand(t)' => told'[t].completed <= cut'
                      /\ told'[t].added <= 1
    BY DEF Told
  <2>1. CASE t = Current
    <3>1. ~Said(t) /\ ~InHand(t) /\ InHand(t)'
      BY <1>0, <1>c, <1>r, <2>1 DEF Said, InHand
    <3>2. told[t].completed <= cut /\ told[t].added <= 1  BY <1>c, <2>1, <3>1 DEF Inv, Told
    <3> QED  BY <1>t, <1>0, <1>r, <1>w, <2>1, <3>1, <3>2
  <2>2. CASE t # Current  BY <1>0, <1>w, <2>2 DEF Inv, Told, Said, InHand
  <2> QED  BY <2>1, <2>2
<1>5. Sizes'
  <2>1. \A n, f : Sized(n, f) \subseteq Sized(n, f)'  BY <1>0 DEF Sized, Beginning
  <2>2. \A n, f : Done(n, f)' = Done(n, f)  BY <1>0 DEF Done
  <2> QED  BY <1>t, <1>0, <2>1, <2>2, SizesStay DEF Inv
<1> QED  BY <1>1, <1>2, <1>3, <1>4, <1>5 DEF Inv

LEMMA SettleKeeps == ASSUME Inv, Settle, Types' PROVE Inv'
<1>t. Types /\ cut \in Nat  BY DEF Inv, Types
<1>0. /\ UNCHANGED <<task, watched, told, cut, todo, seen>>
      /\ pc = "settle" /\ pc' = "note" /\ Backfill(Current)
      /\ refreshed' = refreshed \cup {Current}
  BY DEF Settle, nas
<1>r. todo # {} /\ Row # None /\ St = "finished" /\ ~Row.notified /\ told[Current].completed > 0
  BY <1>0 DEF Inv, Course
<1>c. Current \in todo /\ Current \in Tasks /\ Current' = Current
  BY <1>t, <1>0, <1>r, CurrentIsTask DEF Current
<1>1. Listing' /\ Recorded'  BY <1>0 DEF Inv, Listing, Recorded, Over
<1>2. Unseen' /\ CompletionNeverLost'
  BY <1>0, <1>r DEF Inv, Unseen, CompletionNeverLost, Row
<1>3. Course'
  <2>1. Row' = Row /\ St' = St  BY <1>0, <1>c DEF Row, St
  <2> QED  BY <1>0, <1>c, <1>r, <2>1 DEF Course, Beginning
<1>4. Told'
  <2>1. \A t : (InHand(t)' <=> InHand(t)) /\ (Said(t)' <=> Said(t))  BY <1>0, <1>c DEF InHand, Said
  <2> QED  BY <1>0, <2>1 DEF Inv, Told
<1>5. Sizes'
  <2> SUFFICES ASSUME NEW n \in Names, NEW f \in Folders
               PROVE  Cardinality(Done(n, f)') <= cut' + Cardinality(Sized(n, f)')
    BY DEF Sizes
  <2>1. Current \notin Sized(n, f)  BY <1>0, <1>r DEF Sized, Row
  <2>2. Sized(n, f) \subseteq Sized(n, f)'  BY <1>0, <1>c DEF Sized, Beginning
  <2>3. task[Current].name = n /\ task[Current].folder = f => Current \in Sized(n, f)'
    BY <1>0, <1>c, <1>r DEF Sized, Row
  <2> QED  BY <1>t, <1>0, <1>c, <2>1, <2>2, <2>3, OneSized DEF Inv
<1> QED  BY <1>1, <1>2, <1>3, <1>4, <1>5 DEF Inv

LEMMA NoteCompletedKeeps == ASSUME Inv, NoteCompleted, Types' PROVE Inv'
<1>t. Types /\ cut \in Nat  BY DEF Inv, Types
<1>0. /\ UNCHANGED <<task, rows, told, refreshed, cut>>
      /\ pc = "note" /\ Upsert(St, TRUE) /\ NextTask
  BY DEF NoteCompleted, nas, world
<1>r. /\ todo # {} /\ Row # None /\ St = "finished" /\ ~Row.notified
      /\ told[Current].completed > 0 /\ Current \in refreshed
  BY <1>0 DEF Inv, Course
<1>c. Current \in todo /\ Current \in Tasks  BY <1>t, <1>r, CurrentIsTask
<1>n. todo' = todo \ {Current} /\ pc' = "look" /\ Listing' /\ \A t \in todo' : seen'[t] = seen[t]
  BY <1>t, <1>0, <1>r, GoesOn DEF Inv
<1>w. /\ watched'[Current] # None
      /\ watched'[Current].last = "finished" /\ watched'[Current].notified
      /\ \A t \in Tasks : t # Current => watched'[t] = watched[t]
  <2>1. "finished" \in Statuses /\ TRUE \in BOOLEAN  BY DEF Statuses
  <2>2. /\ watched'[Current] \in Watched
        /\ watched'[Current].last = "finished" /\ watched'[Current].notified = TRUE
        /\ \A t \in Tasks : t # Current => watched'[t] = watched[t]
    BY <1>t, <1>0, <1>r, <2>1, RowWritten DEF Upsert
  <2> QED  BY <2>2, PushAssumption
<1>1. Recorded'
  <2> SUFFICES ASSUME NEW t \in Tasks, watched'[t] # None
               PROVE  /\ task'[t].st # "unborn"
                      /\ watched'[t].notified <=> watched'[t].last = "finished"
                      /\ watched'[t].notified => task'[t].st \in {"finished", "deleted"}
                      /\ watched'[t].notified /\ t \in todo' => seen'[t] = "finished"
    BY DEF Recorded, Over
  <2>1. CASE t # Current  BY <1>0, <1>n, <1>w, <2>1 DEF Inv, Recorded, Over
  <2>2. CASE t = Current
    BY <1>0, <1>c, <1>n, <1>r, <1>w, <2>2 DEF Inv, Listing, Over, St
  <2> QED  BY <2>1, <2>2
<1>2. Unseen' /\ CompletionNeverLost'
  BY <1>0, <1>r, <1>w DEF Inv, Unseen, CompletionNeverLost
<1>3. Course'  BY <1>n DEF Course, Beginning
<1>4. Told'
  <2> SUFFICES ASSUME NEW t \in Tasks
               PROVE  /\ told'[t].completed <= cut' + 1
                      /\ ~Said(t)' => told'[t].completed <= cut'
                      /\ told'[t].added <= 1
    BY DEF Told
  <2>1. CASE t = Current  BY <1>0, <1>w, <2>1 DEF Inv, Told, Said
  <2>2. CASE t # Current  BY <1>0, <1>w, <2>2 DEF Inv, Told, Said, InHand
  <2> QED  BY <2>1, <2>2
<1>5. Sizes'
  <2>1. \A n, f : Done(n, f)' = Done(n, f)  BY <1>0 DEF Done
  <2>2. ASSUME NEW n, NEW f, NEW t \in Sized(n, f) PROVE t \in Sized(n, f)'
    <3>1. CASE t # Current  BY <1>0, <1>n, <1>w, <2>2, <3>1 DEF Sized, Beginning
    <3>2. CASE t = Current  BY <1>0, <1>n, <1>w, <2>2, <3>2 DEF Sized, Beginning
    <3> QED  BY <3>1, <3>2
  <2> QED  BY <1>t, <1>0, <2>1, <2>2, SizesStay DEF Inv
<1> QED  BY <1>n, <1>1, <1>2, <1>3, <1>4, <1>5 DEF Inv

\* Every other change of a task: nothing is announced, and a row that says notified stays so.
LEMMA NoteOtherKeeps == ASSUME Inv, NoteOther, Types' PROVE Inv'
<1>t. Types  BY DEF Inv
<1>0. /\ UNCHANGED <<task, rows, told, refreshed, cut>>
      /\ pc = "look" /\ todo # {} /\ Row # None /\ ~Completing /\ NextTask
  BY DEF NoteOther, At, nas, world
<1>c. Current \in todo /\ Current \in Tasks  BY <1>t, <1>0, CurrentIsTask
<1>n. todo' = todo \ {Current} /\ pc' = "look" /\ Listing' /\ \A t \in todo' : seen'[t] = seen[t]
  BY <1>t, <1>0, GoesOn DEF Inv
<1>r. /\ Row.notified \in BOOLEAN /\ St \in Statuses
      /\ Row.notified <=> Row.last = "finished"
      /\ Row.notified => St = "finished"
  BY <1>t, <1>0, <1>c, RowIsWatched DEF Inv, Recorded, Row, St, Types, Watched
<1>w. /\ watched'[Current] # None
      /\ watched'[Current].notified <=> watched'[Current].last = "finished"
      /\ watched'[Current].notified <=> watched[Current].notified
      /\ \A t \in Tasks : t # Current => watched'[t] = watched[t]
  <2>1. CASE watched' = watched  BY <1>0, <1>r, <2>1 DEF Row
  <2>2. CASE watched' # watched
    <3>1. /\ Failing \/ St # Row.last
          /\ watched' = [watched EXCEPT ![Current].last = St, ![Current].notified = Row.notified]
      BY <2>2 DEF NoteOther, Kept
    <3>2. /\ watched'[Current] \in Watched
          /\ watched'[Current].last = St /\ watched'[Current].notified = Row.notified
          /\ \A t \in Tasks : t # Current => watched'[t] = watched[t]
      BY <1>t, <1>0, <1>r, <3>1, RowWritten
    <3>3. ~Row.notified /\ St # "finished"
      BY <1>0, <1>r, <3>1 DEF Completing, Failing
    <3> QED  BY <3>2, <3>3, PushAssumption DEF Row
  <2> QED  BY <2>1, <2>2
<1>1. Recorded'
  <2> SUFFICES ASSUME NEW t \in Tasks, watched'[t] # None
               PROVE  /\ task'[t].st # "unborn"
                      /\ watched'[t].notified <=> watched'[t].last = "finished"
                      /\ watched'[t].notified => task'[t].st \in {"finished", "deleted"}
                      /\ watched'[t].notified /\ t \in todo' => seen'[t] = "finished"
    BY DEF Recorded, Over
  <2>1. CASE t # Current  BY <1>0, <1>n, <1>w, <2>1 DEF Inv, Recorded, Over
  <2>2. CASE t = Current  BY <1>0, <1>n, <1>w, <2>2 DEF Inv, Recorded, Over, Row
  <2> QED  BY <2>1, <2>2
<1>2. Unseen'  BY <1>0, <1>w DEF Inv, Unseen, Row
<1>3. CompletionNeverLost'
  <2>1. watched[Current] # None /\ (watched[Current].notified => watched[Current].last = "finished")
    BY <1>0, <1>r DEF Row
  <2> QED  BY <1>0, <1>w, <2>1 DEF Inv, CompletionNeverLost
<1>4. Course'  BY <1>n DEF Course, Beginning
<1>5. Told'
  <2>1. \A t \in Tasks : Said(t)' <=> Said(t)  BY <1>0, <1>w DEF Said, Row
  <2>2. \A t : ~InHand(t) /\ ~InHand(t)'  BY <1>0, <1>n DEF InHand
  <2> QED  BY <1>0, <2>1, <2>2 DEF Inv, Told
<1>6. Sizes'
  <2>1. \A n, f : Done(n, f)' = Done(n, f)  BY <1>0 DEF Done
  <2>2. \A n, f : Sized(n, f) \subseteq Sized(n, f)'
    BY <1>0, <1>n, <1>w DEF Sized, Beginning, Row
  <2> QED  BY <1>t, <1>0, <2>1, <2>2, SizesStay DEF Inv
<1> QED  BY <1>n, <1>1, <1>2, <1>3, <1>4, <1>5, <1>6 DEF Inv

-----------------------------------------------------------------------------
LEMMA InvInit == Init => Inv
<1> SUFFICES ASSUME Init PROVE Inv  OBVIOUS
<1>t. Types  BY TInit
<1>0. /\ todo = {} /\ pc = "idle" /\ rows = <<>> /\ cut = 0 /\ refreshed = {}
      /\ \A t \in Tasks : /\ watched[t] = None
                          /\ told[t].added = 0 /\ told[t].completed = 0
  BY DEF Init, Fresh
<1>1. Listing /\ Recorded /\ Unseen /\ Course /\ CompletionNeverLost
  BY <1>0 DEF Listing, Recorded, Unseen, Course, CompletionNeverLost, Beginning
<1>2. Told  BY <1>0 DEF Told
<1>3. Sizes
  <2> SUFFICES ASSUME NEW n \in Names, NEW f \in Folders
               PROVE  Cardinality(Done(n, f)) <= cut + Cardinality(Sized(n, f))
    BY DEF Sizes
  <2>1. Done(n, f) = {}  BY <1>0 DEF Done
  <2>2. Sized(n, f) = {}  BY <1>0 DEF Sized
  <2>3. Cardinality({}) = 0  BY FS_EmptySet
  <2> QED  BY <1>0, <2>1, <2>2, <2>3
<1> QED  BY <1>t, <1>1, <1>2, <1>3 DEF Inv

LEMMA InvStep == Inv /\ [Next]_vars => Inv'
<1> SUFFICES ASSUME Inv, [Next]_vars PROVE Inv'  OBVIOUS
<1>1. CASE (\E u \in Users : Create(u) \/ Record(u) \/ SendTitle(u)) \/ Happen \/ ClaimsAge \/ PollFails
  <2>1. Types' /\ Quiet  BY <1>1, THandlers, HandlersAreQuiet DEF Inv
  <2> QED  BY <2>1, QuietKeeps
<1>2. CASE Step \/ Restart
  <2>1. Types'  BY <1>2, TPolls DEF Inv
  <2> QED
    BY <1>2, <2>1, PollsKeep, RestartKeeps, FirstSightKeeps, OwnerKeeps, BegunKeeps, AnnounceKeeps,
       SettleKeeps, NoteCompletedKeeps, NoteOtherKeeps DEF Step
<1>3. CASE UNCHANGED vars
  <2> USE DEF vars, nas, store, watcher, world
  <2>1. Types'  BY <1>3 DEF Inv, Types
  <2>2. Quiet  BY <1>3 DEF Quiet, Grown, Done
  <2> QED  BY <2>1, <2>2, QuietKeeps
<1> QED  BY <1>1, <1>2, <1>3 DEF Next

LEMMA Invariant == Spec => []Inv
BY InvInit, InvStep, PTL DEF Spec

(***************************************************************************)
(* A restart never loses a completion, wherever it falls: the row that     *)
(* stops the watcher from looking again is written after the announcement, *)
(* the size and the folder (handleStatusChange).                           *)
(***************************************************************************)
THEOREM CompletionIsKept == Spec => []CompletionNeverLost
<1>1. Inv => CompletionNeverLost  BY DEF Inv
<1> QED  BY <1>1, Invariant, PTL

(***************************************************************************)
(* And it is announced once, or once more for each restart that fell       *)
(* between its announcement and that row; a beginning never twice.         *)
(***************************************************************************)
THEOREM NobodyIsToldTwice == Spec => []AnnouncedOnce
<1>1. Inv => AnnouncedOnce
  <2> SUFFICES ASSUME Inv PROVE AnnouncedOnce  OBVIOUS
  <2>1. cut \in Nat  BY DEF Inv, Types
  <2> QED  BY <2>1 DEF Inv, Told, AnnouncedOnce
<1> QED  BY <1>1, Invariant, PTL

(***************************************************************************)
(* Rows of the history that got a size never outnumber the finished tasks  *)
(* of their name and folder, however many sends share one.                 *)
(***************************************************************************)
THEOREM SizesAreOnce == Spec => []SizesNotDoubled
<1>1. Inv => SizesNotDoubled
  <2> SUFFICES ASSUME Inv PROVE SizesNotDoubled  OBVIOUS
  <2> DEFINE Finished(n, f) ==
        {t \in Tasks : /\ task[t].name = n /\ task[t].folder = f /\ watched[t] # None
                       /\ \/ watched[t].notified
                          \/ pc = "note" /\ t = Current}
  <2> SUFFICES ASSUME NEW n \in Names, NEW f \in Folders
               PROVE  Cardinality(Done(n, f)) <= cut + Cardinality(Finished(n, f))
    BY DEF SizesNotDoubled, Done
  <2>1. Sized(n, f) \subseteq Finished(n, f) /\ Finished(n, f) \in SUBSET Tasks  BY DEF Sized
  <2>2. /\ Cardinality(Sized(n, f)) <= Cardinality(Finished(n, f))
        /\ Cardinality(Sized(n, f)) \in Nat /\ Cardinality(Finished(n, f)) \in Nat
    <3> HIDE DEF Finished
    <3>1. Sized(n, f) \in SUBSET Tasks  BY <2>1
    <3> QED  BY <2>1, <3>1, SizedIsFinite, FS_Subset
  <2>3. Cardinality(Done(n, f)) <= cut + Cardinality(Sized(n, f))  BY DEF Inv, Sizes
  <2>4. cut \in Nat /\ Cardinality(Done(n, f)) \in Nat  BY DoneIsFinite DEF Inv, Types
  <2> HIDE DEF Finished
  <2> QED  BY <2>2, <2>3, <2>4
<1> QED  BY <1>1, Invariant, PTL
=============================================================================
