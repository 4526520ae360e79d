---------------------------- MODULE SourcesProofs ----------------------------
(***************************************************************************)
(* The sources, from three sides, for any number of sources and users.    *)
(*                                                                         *)
(* That no source is condemned without having failed (Sources).  The streak*)
(* that condemns counts reports, not calls, and a report is made long after*)
(* its call: what has to be carried along is that the streak and the       *)
(* failures still to be reported never add up to more than the calls that  *)
(* failed.                                                                 *)
(*                                                                         *)
(* That a choice made on the sheet of filters reaches every source in its  *)
(* own words, and that none pours its whole catalog into a filtered view   *)
(* (CatalogWords, over the steps of Catalog).                              *)
(*                                                                         *)
(* That the record of a title sent from a source is not forgotten within   *)
(* the grace period (LibraryRecords, over the steps of Library).           *)
(***************************************************************************)
EXTENDS Sources, CatalogWords, LibraryRecords, FiniteSetTheorems, TLAPS

Task  == [kind : {"idle", "search", "title", "keep"}, at : [Srcs -> Phases], ref : [Srcs -> RefType]]
Site  == [up : SUBSET {"main", "alt"}, good : 1..MaxMaterial, alt : BOOLEAN, entitled : BOOLEAN]
Admin == [src : Srcs \cup {None}, ref : RefType, on : BOOLEAN, step : {"idle", "store", "state"},
          to : {"active", "unsubscribed"}, old : BOOLEAN]

\* A request that is not under way stands nowhere; a save under way is some source's, with material.
TaskShape  == \A c \in Tasks : task[c].kind = "idle" => \A s \in Srcs : task[c].at[s] = "out"
AdminShape == admin.step # "idle" => admin.src \in Srcs /\ admin.ref.with # None

\* A window runs only after as many failures as it takes.
BreakerShape == \A s \in Srcs : breaker[s].open => breaker[s].fails = CoolOff

Typed == /\ TypeOK /\ site \in [Srcs -> Site] /\ admin \in Admin
         /\ TaskShape /\ AdminShape /\ BreakerShape

\* The calls to s that failed and that nobody has counted yet.
Unreported(s) == {c \in Tasks : task[c].at[s] \in {"refused", "unreachable"}}

\* Until s has failed as often as the threshold says, whatever counts against it is backed by a
\* failure of its own, and nobody is about to condemn it or has spared it a call.
Unharmed(s) ==
  /\ IsFiniteSet(Unreported(s))
  /\ streak[s] + Cardinality(Unreported(s)) <= misses[s]
  /\ breaker[s].fails <= misses[s]
  /\ row[s].state # "needs_refresh"
  /\ \A c \in Tasks : task[c].at[s] \notin {"skipped", "condemn"}

Accounted == \A s \in Srcs : misses[s] = FailThreshold \/ Unharmed(s)

Inv == Typed /\ Accounted

-----------------------------------------------------------------------------
\* What the drivers may answer.

LEMMA SiteAnswers ==
  ASSUME NEW s, NEW ref
  PROVE  /\ NamaFetch(s, ref) \in {"ok", "refused", "unreachable"}
         /\ ZarFetch(s, ref) \in {"ok", "refused", "unreachable"}
BY Zenon DEF NamaFetch, ZarFetch, GetFrom

LEMMA VerifyAnswers ==
  ASSUME NEW s, NEW ref
  PROVE  Verify(s, ref) \subseteq {"ok", "refused", "unreachable", "unsubscribed"}
<1>1. NamaVerify(s, ref) \subseteq {"ok", "refused", "unreachable"}
  BY SiteAnswers DEF NamaVerify
<1>2. ZarVerify(s, ref) \subseteq {"ok", "refused", "unreachable", "unsubscribed"}
  BY SiteAnswers DEF ZarVerify
<1> QED  BY <1>1, <1>2 DEF Verify

\* A call that is out comes back with one of four answers.
LEMMA CallAnswers ==
  ASSUME Typed, NEW c \in Tasks, NEW s \in Srcs, task[c].at[s] = "calling"
  PROVE  Answers(c, s) \subseteq {"ok", "refused", "unreachable", "unsubscribed"}
<1> DEFINE Four == {"ok", "refused", "unreachable", "unsubscribed"}
           ref  == task[c].ref[s]
<1>1. task[c] \in Task  BY DEF Typed, TypeOK, Task
<1>2. task[c].kind \in {"search", "title", "keep"}
  BY <1>1 DEF Typed, TaskShape, Task
<1>3. ref \in RefType  BY <1>1 DEF Task
<1>4. ref.kind \in {"30nama", "zarfilm"}  BY <1>3 DEF RefType
<1>5. {NamaFetch(s, ref)} \subseteq Four /\ ZarSearch(s, ref) \subseteq Four
  BY SiteAnswers DEF ZarSearch, Post, Listing
<1>6. {ZarTitle(s, ref)} \subseteq Four  BY SiteAnswers DEF ZarTitle
<1>7. Verify(s, ref) \subseteq Four  BY VerifyAnswers
<1> HIDE DEF Four
<1>8. CASE task[c].kind = "keep"  BY <1>7, <1>8 DEF Answers, Four
<1>9. CASE task[c].kind = "search"  BY <1>4, <1>5, <1>9 DEF Answers, Four
<1>10. CASE task[c].kind = "title"  BY <1>4, <1>5, <1>6, <1>10 DEF Answers, Four
<1> QED  BY <1>2, <1>8, <1>9, <1>10

-----------------------------------------------------------------------------
\* How a request moves on.

\* Only where c stands with s has changed.
Moves(c, s, p) ==
  /\ task' \in [Tasks -> Task] /\ TaskShape'
  /\ \A d \in Tasks, t \in Srcs :
       task'[d].at[t] = IF d = c /\ t = s THEN p ELSE task[d].at[t]

LEMMA GoesMoves ==
  ASSUME Typed, NEW c \in Tasks, NEW s \in Srcs, NEW p \in Phases, task[c].at[s] # "out",
         Goes(c, s, p)
  PROVE  Moves(c, s, p)
<1>1. task \in [Tasks -> Task] /\ task[c] \in Task  BY DEF Typed, TypeOK, Task
<1> DEFINE k == [task[c] EXCEPT !.at[s] = p]
<1>2. k \in Task /\ k.kind = task[c].kind /\ k.at = [task[c].at EXCEPT ![s] = p]
  BY <1>1 DEF Task
<1>3. task' = [task EXCEPT ![c] = k]  BY DEF Goes
<1>4. task[c].kind # "idle"  BY DEF Typed, TaskShape
<1> HIDE DEF k
<1>5. task' \in [Tasks -> Task]  BY <1>1, <1>2, <1>3
<1>6. \A d \in Tasks : task'[d] = IF d = c THEN k ELSE task[d]  BY <1>1, <1>3
<1>7. \A t \in Srcs : k.at[t] = IF t = s THEN p ELSE task[c].at[t]
  BY <1>1, <1>2 DEF Task
<1>8. TaskShape'  BY <1>2, <1>4, <1>6 DEF Typed, TaskShape
<1> QED  BY <1>5, <1>6, <1>7, <1>8 DEF Moves

LEMMA ThroughMoves ==
  ASSUME Typed, NEW c \in Tasks, NEW s \in Srcs, task[c].at[s] # "out", Through(c, s)
  PROVE  Moves(c, s, "out")
<1>1. task \in [Tasks -> Task] /\ task[c] \in Task  BY DEF Typed, TypeOK, Task
<1>2. CASE \A t \in Srcs \ {s} : task[c].at[t] = "out"
  <2>1. task' = [task EXCEPT ![c] = Idle]  BY <1>1, <1>2 DEF Through
  <2>2. Idle \in Task /\ Idle.at = [t \in Srcs |-> "out"]
    BY SourcesAssumption DEF Task, Idle, Phases, NoRef, RefType, None
  <2>3. \A d \in Tasks : task'[d] = IF d = c THEN Idle ELSE task[d]  BY <1>1, <2>1
  <2>4. task' \in [Tasks -> Task]  BY <1>1, <2>1, <2>2
  <2>5. \A t \in Srcs : Idle.at[t] = IF t = s THEN "out" ELSE task[c].at[t]
    BY <1>2, <2>2
  <2>6. TaskShape'  BY <2>2, <2>3 DEF Typed, TaskShape
  <2> QED  BY <2>3, <2>4, <2>5, <2>6 DEF Moves
<1>3. CASE ~\A t \in Srcs \ {s} : task[c].at[t] = "out"
  <2>1. Goes(c, s, "out")  BY <1>1, <1>3 DEF Through, Goes
  <2> QED  BY <2>1, GoesMoves DEF Phases
<1> QED  BY <1>2, <1>3

\* Every other part of the state's type, when only the request moves.
LEMMA MoveKeepsType ==
  ASSUME Typed, NEW c \in Tasks, NEW s \in Srcs, NEW p, Moves(c, s, p),
         UNCHANGED <<row, breaker, admin, site>>,
         streak' \in [Srcs -> 0..FailThreshold], pref' \in [Srcs -> BOOLEAN],
         misses' = misses, turns' = turns
  PROVE  Typed'
<1>1. task' \in [Tasks -> Task] /\ TaskShape'  BY DEF Moves
<1>2. TypeOK'  BY <1>1 DEF Typed, TypeOK, Task
<1> QED  BY <1>1, <1>2 DEF Typed, AdminShape, BreakerShape

-----------------------------------------------------------------------------
\* What counts against one source, step by step.

LEMMA Numbers ==
  ASSUME Typed, NEW s \in Srcs
  PROVE  /\ streak[s] \in 0..FailThreshold /\ misses[s] \in 0..FailThreshold
         /\ breaker[s].fails \in 0..CoolOff /\ breaker[s].open \in BOOLEAN
         /\ FailThreshold \in Nat \ {0} /\ CoolOff \in Nat /\ FailThreshold < CoolOff
<1>1. breaker[s] \in [fails : 0..CoolOff, open : BOOLEAN]  BY DEF Typed, TypeOK
<1> QED  BY <1>1, SourcesAssumption DEF Typed, TypeOK

\* A window that runs is a source that has failed often enough.
LEMMA OpenHasFailed ==
  ASSUME Typed, NEW s \in Srcs, breaker[s].open
  PROVE  ~Unharmed(s)
<1>1. breaker[s].fails = CoolOff  BY DEF Typed, BreakerShape
<1> QED  BY <1>1, Numbers DEF Unharmed

LEMMA StaysUnharmed ==
  ASSUME Typed, Typed', NEW s \in Srcs, Unharmed(s), misses'[s] = misses[s],
         streak'[s] <= streak[s], breaker'[s].fails <= misses[s],
         row'[s].state # "needs_refresh",
         \A c \in Tasks : task'[c].at[s] \in {"refused", "unreachable"} =>
                            task[c].at[s] \in {"refused", "unreachable"},
         \A c \in Tasks : task'[c].at[s] \notin {"skipped", "condemn"}
  PROVE  Unharmed(s)'
<1>1. Unreported(s)' \subseteq Unreported(s)  BY DEF Unreported
<1>2. IsFiniteSet(Unreported(s))  BY DEF Unharmed
<1>3. /\ IsFiniteSet(Unreported(s)')
      /\ Cardinality(Unreported(s)') <= Cardinality(Unreported(s))
  BY <1>1, <1>2, FS_Subset
<1>4. Cardinality(Unreported(s)') \in Nat /\ Cardinality(Unreported(s)) \in Nat
  BY <1>2, <1>3, FS_CardinalityType
<1>5. streak'[s] \in Nat /\ streak[s] \in Nat /\ misses[s] \in Nat
  <2>1. streak'[s] \in 0..FailThreshold  BY DEF Typed, TypeOK
  <2> QED  BY <2>1, Numbers
<1>6. streak[s] + Cardinality(Unreported(s)) <= misses[s]  BY DEF Unharmed
<1>7. streak'[s] + Cardinality(Unreported(s)') <= misses'[s]  BY <1>3, <1>4, <1>5, <1>6
<1> QED  BY <1>3, <1>7 DEF Unharmed

\* A call that fails is a failure more, and a report more to come.
LEMMA FailureIsCounted ==
  ASSUME Typed, Typed', NEW s \in Srcs, NEW c \in Tasks, Unharmed(s),
         misses'[s] = misses[s] + 1, streak' = streak,
         breaker'[s].fails <= breaker[s].fails + 1, row' = row,
         task[c].at[s] = "calling", task'[c].at[s] \in {"refused", "unreachable"},
         \A d \in Tasks \ {c} : task'[d].at[s] = task[d].at[s]
  PROVE  Unharmed(s)'
<1>1. Unreported(s)' = Unreported(s) \cup {c} /\ c \notin Unreported(s)
  BY DEF Unreported
<1>2. IsFiniteSet(Unreported(s))  BY DEF Unharmed
<1>3. /\ IsFiniteSet(Unreported(s)')
      /\ Cardinality(Unreported(s)') = Cardinality(Unreported(s)) + 1
  BY <1>1, <1>2, FS_AddElement
<1>4. Cardinality(Unreported(s)) \in Nat  BY <1>2, FS_CardinalityType
<1>5. streak[s] + Cardinality(Unreported(s)) <= misses[s] /\ breaker[s].fails <= misses[s]
  BY DEF Unharmed
<1>6. streak'[s] + Cardinality(Unreported(s)') <= misses'[s]
  BY <1>3, <1>4, <1>5, Numbers
<1>7. breaker'[s].fails <= misses'[s]
  <2>1. breaker'[s] \in [fails : 0..CoolOff, open : BOOLEAN]  BY DEF Typed, TypeOK
  <2>2. breaker'[s].fails \in Nat  BY <2>1, SourcesAssumption
  <2> QED  BY <1>5, <2>2, Numbers
<1>8. row'[s].state # "needs_refresh"  BY DEF Unharmed
<1>9. \A d \in Tasks : task'[d].at[s] \notin {"skipped", "condemn"}
  BY DEF Unharmed
<1> QED  BY <1>3, <1>6, <1>7, <1>8, <1>9 DEF Unharmed

\* A report that is made is a report less to come.
LEMMA ReportIsCounted ==
  ASSUME Typed, Typed', NEW s \in Srcs, NEW c \in Tasks, Unharmed(s),
         misses' = misses, streak'[s] = streak[s] + 1, breaker' = breaker, row' = row,
         task[c].at[s] \in {"refused", "unreachable"}, task'[c].at[s] = "out",
         \A d \in Tasks \ {c} : task'[d].at[s] = task[d].at[s]
  PROVE  Unharmed(s)'
<1>1. Unreported(s)' = Unreported(s) \ {c} /\ c \in Unreported(s)
  BY DEF Unreported
<1>2. IsFiniteSet(Unreported(s))  BY DEF Unharmed
<1>3. /\ IsFiniteSet(Unreported(s)')
      /\ Cardinality(Unreported(s)') = Cardinality(Unreported(s)) - 1
  BY <1>1, <1>2, FS_RemoveElement
<1>4. Cardinality(Unreported(s)) \in Nat  BY <1>2, FS_CardinalityType
<1>5. streak[s] + Cardinality(Unreported(s)) <= misses[s]
  BY DEF Unharmed
<1>6. streak'[s] + Cardinality(Unreported(s)') <= misses'[s]
  BY <1>3, <1>4, <1>5, Numbers
<1>7. \A d \in Tasks : task'[d].at[s] \notin {"skipped", "condemn"}
  BY DEF Unharmed
<1> QED  BY <1>3, <1>6, <1>7 DEF Unharmed

-----------------------------------------------------------------------------
\* Requests begin.

\* A request that begins has failed nowhere, and only a window that runs spares it a call.
LEMMA BeginKeepsInv ==
  ASSUME Inv, NEW c \in Tasks, NEW k \in Task, task[c] = Idle, k.kind # "idle",
         task' = [task EXCEPT ![c] = k],
         UNCHANGED <<row, mem, admin, site, turns, misses>>,
         \A s \in Srcs : \/ k.at[s] \in {"out", "calling", "mute"}
                         \/ k.at[s] = "skipped" /\ breaker[s].open
  PROVE  Inv'
<1>0. Typed /\ Accounted /\ task \in [Tasks -> Task]  BY DEF Inv, Typed, TypeOK, Task
<1>1. \A d \in Tasks : task'[d] = IF d = c THEN k ELSE task[d]  BY <1>0
<1>2. task' \in [Tasks -> Task]  BY <1>0
<1>3. TypeOK'  BY <1>0, <1>2 DEF Typed, TypeOK, Task, mem
<1>4. TaskShape'  BY <1>0, <1>1 DEF Typed, TaskShape
<1>5. Typed'  BY <1>0, <1>3, <1>4 DEF Typed, AdminShape, BreakerShape, mem
<1>6. ASSUME NEW s \in Srcs PROVE misses'[s] = FailThreshold \/ Unharmed(s)'
  <2>1. CASE misses[s] = FailThreshold  BY <2>1
  <2>2. CASE Unharmed(s)
    <3>1. k.at[s] \in {"out", "calling", "mute"}  BY <1>0, <2>2, OpenHasFailed
    <3>2. \A d \in Tasks : task'[d].at[s] \in {"out", "calling", "mute"}
                            \/ task'[d].at[s] = task[d].at[s]
      BY <1>1, <3>1
    <3>3. /\ streak'[s] <= streak[s] /\ breaker'[s].fails <= misses[s]
          /\ row'[s].state # "needs_refresh" /\ misses'[s] = misses[s]
      BY <1>0, <2>2, Numbers DEF Unharmed, mem
    <3>4. \A d \in Tasks : task[d].at[s] \notin {"skipped", "condemn"}  BY <2>2 DEF Unharmed
    <3> QED  BY <1>0, <1>5, <2>2, <3>2, <3>3, <3>4, StaysUnharmed
  <2> QED  BY <1>0, <2>1, <2>2 DEF Accounted
<1> QED  BY <1>5, <1>6 DEF Inv, Accounted

\* What a request is handed has the type of material.
LEMMA RefTyped ==
  ASSUME Typed, NEW s \in Srcs
  PROVE  Ref(s) \in RefType /\ NoRef \in RefType /\ row[s] \in Row /\ Material(s) \in 0..MaxMaterial
<1>1. row[s] \in Row  BY DEF Typed, TypeOK
<1> QED  BY <1>1, SourcesAssumption DEF Ref, RefType, Row, Material, NoRef, None

LEMMA StartSearchKeeps == ASSUME Inv, NEW c \in Calls, StartSearch(c) PROVE Inv'
<1>0. Typed /\ c \in Tasks  BY DEF Inv, Tasks
<1>a. PICK want \in {None} \cup Srcs : LET sel == SelectRefs(want) IN
        \E mute \in SUBSET sel :
          task' = [task EXCEPT ![c] =
             [kind |-> "search", at |-> [s \in Srcs |-> FirstPass(s, sel, mute)],
              ref |-> [s \in Srcs |-> IF s \in sel THEN Ref(s) ELSE NoRef]]]
  BY DEF StartSearch
<1> DEFINE sel == SelectRefs(want)
<1>b. PICK mute \in SUBSET sel :
        task' = [task EXCEPT ![c] =
             [kind |-> "search", at |-> [s \in Srcs |-> FirstPass(s, sel, mute)],
              ref |-> [s \in Srcs |-> IF s \in sel THEN Ref(s) ELSE NoRef]]]
  BY <1>a
<1>1. task[c] = Idle /\ UNCHANGED <<row, mem, admin, site, turns, misses>>  BY DEF StartSearch
<1> HIDE DEF sel
<1> DEFINE at == [s \in Srcs |-> FirstPass(s, sel, mute)]
           ref == [s \in Srcs |-> IF s \in sel THEN Ref(s) ELSE NoRef]
           k == [kind |-> "search", at |-> at, ref |-> ref]
<1>2. at \in [Srcs -> Phases]  BY DEF FirstPass, Phases
<1>3. ref \in [Srcs -> RefType]  BY <1>0, RefTyped
<1>4. \A s \in Srcs : \/ at[s] \in {"out", "calling", "mute"}
                      \/ at[s] = "skipped" /\ breaker[s].open
  BY DEF FirstPass, BreakerOpen
<1> HIDE DEF at, ref
<1>5. k \in Task /\ k.kind # "idle" /\ k.at = at  BY <1>2, <1>3 DEF Task
<1>6. task' = [task EXCEPT ![c] = k]  BY <1>b DEF at, ref
<1> HIDE DEF k
<1> QED  BY <1>0, <1>1, <1>4, <1>5, <1>6, BeginKeepsInv

LEMMA StartTitleKeeps == ASSUME Inv, NEW c \in Calls, StartTitle(c) PROVE Inv'
<1>0. Typed /\ c \in Tasks  BY DEF Inv, Tasks
<1>1. PICK s \in Srcs :
        /\ task[c] = Idle
        /\ task' = [task EXCEPT ![c] =
             [kind |-> "title", at |-> [Idle.at EXCEPT ![s] = "calling"],
              ref |-> [Idle.ref EXCEPT ![s] = Ref(s)]]]
        /\ UNCHANGED <<row, mem, admin, site, turns, misses>>
  BY DEF StartTitle, Callable, Listed
<1> DEFINE at == [Idle.at EXCEPT ![s] = "calling"]
           ref == [Idle.ref EXCEPT ![s] = Ref(s)]
           k == [kind |-> "title", at |-> at, ref |-> ref]
<1>2. at \in [Srcs -> Phases] /\ (\A t \in Srcs : at[t] \in {"out", "calling", "mute"})
  BY DEF Idle, Phases
<1>3. ref \in [Srcs -> RefType]  BY <1>0, RefTyped DEF Idle
<1> HIDE DEF at, ref
<1>5. k \in Task /\ k.kind # "idle" /\ k.at = at  BY <1>2, <1>3 DEF Task
<1>6. task' = [task EXCEPT ![c] = k]  BY <1>1 DEF at, ref
<1> HIDE DEF k
<1> QED  BY <1>0, <1>1, <1>2, <1>5, <1>6, BeginKeepsInv

LEMMA StartKeepKeeps == ASSUME Inv, StartKeep PROVE Inv'
<1>0. Typed /\ Keeper \in Tasks  BY DEF Inv, Tasks
<1> DEFINE at == [s \in Srcs |-> IF s \in Callable THEN "calling" ELSE "out"]
           ref == [s \in Srcs |-> IF s \in Callable THEN Ref(s) ELSE NoRef]
           k == [kind |-> "keep", at |-> at, ref |-> ref]
<1>1. task[Keeper] = Idle /\ task' = [task EXCEPT ![Keeper] = k]  BY DEF StartKeep
<1>2. at \in [Srcs -> Phases] /\ (\A t \in Srcs : at[t] \in {"out", "calling", "mute"})
  BY DEF Phases
<1>3. ref \in [Srcs -> RefType]  BY <1>0, RefTyped
<1> HIDE DEF at, ref
<1>5. k \in Task /\ k.kind # "idle" /\ k.at = at  BY <1>2, <1>3 DEF Task
<1>6. UNCHANGED <<row, mem, admin, site, turns, misses>>  BY DEF StartKeep
<1> HIDE DEF k
<1> QED  BY <1>0, <1>1, <1>2, <1>5, <1>6, BeginKeepsInv

-----------------------------------------------------------------------------
\* Requests go on.

\* A source the step is not about.
LEMMA Untouched ==
  ASSUME Typed, Typed', Accounted, NEW s \in Srcs,
         misses'[s] = misses[s], streak'[s] = streak[s], breaker'[s].fails = breaker[s].fails,
         row'[s].state = row[s].state,
         \A c \in Tasks : task'[c].at[s] = task[c].at[s]
  PROVE  misses'[s] = FailThreshold \/ Unharmed(s)'
<1>1. CASE misses[s] = FailThreshold  BY <1>1
<1>2. CASE Unharmed(s)
  <2>1. /\ streak'[s] <= streak[s] /\ breaker'[s].fails <= misses[s]
        /\ row'[s].state # "needs_refresh"
        /\ \A c \in Tasks : task'[c].at[s] \notin {"skipped", "condemn"}
    BY <1>2, Numbers DEF Unharmed
  <2> QED  BY <1>2, <2>1, StaysUnharmed
<1> QED  BY <1>1, <1>2 DEF Accounted

LEMMA CountUp ==
  ASSUME Typed, NEW s \in Srcs
  PROVE  /\ UpTo(FailThreshold, streak[s]) \in 0..FailThreshold
         /\ UpTo(FailThreshold, misses[s]) \in 0..FailThreshold
         /\ BreakerFail(s) \in [fails : 0..CoolOff, open : BOOLEAN]
         /\ BreakerFail(s).open => BreakerFail(s).fails = CoolOff
         /\ BreakerFail(s).fails <= breaker[s].fails + 1
         /\ misses[s] # FailThreshold => UpTo(FailThreshold, misses[s]) = misses[s] + 1
         /\ misses[s] = FailThreshold => UpTo(FailThreshold, misses[s]) = FailThreshold
         /\ streak[s] < FailThreshold => UpTo(FailThreshold, streak[s]) = streak[s] + 1
<1>1. \A k \in 0..FailThreshold : UpTo(FailThreshold, k) \in 0..FailThreshold
  BY Numbers DEF UpTo
<1>2. UpTo(CoolOff, breaker[s].fails) \in 0..CoolOff
      /\ UpTo(CoolOff, breaker[s].fails) <= breaker[s].fails + 1
  BY Numbers DEF UpTo
<1> DEFINE f == UpTo(CoolOff, breaker[s].fails)
<1>3. BreakerFail(s) = [fails |-> f, open |-> f = CoolOff]  BY DEF BreakerFail
<1> HIDE DEF f
<1>4. /\ BreakerFail(s) \in [fails : 0..CoolOff, open : BOOLEAN]
      /\ BreakerFail(s).fails = f /\ BreakerFail(s).open = (f = CoolOff)
  BY <1>2, <1>3 DEF f
<1>5. /\ misses[s] # FailThreshold => UpTo(FailThreshold, misses[s]) = misses[s] + 1
      /\ misses[s] = FailThreshold => UpTo(FailThreshold, misses[s]) = FailThreshold
      /\ streak[s] < FailThreshold => UpTo(FailThreshold, streak[s]) = streak[s] + 1
  BY Numbers DEF UpTo
<1> QED  BY <1>1, <1>2, <1>4, <1>5, Numbers DEF f

LEMMA RestedType == Rested \in [fails : 0..CoolOff, open : BOOLEAN] /\ Rested.fails = 0 /\ ~Rested.open
BY SourcesAssumption DEF Rested

LEMMA ReturnKeeps ==
  ASSUME Inv, NEW c \in Tasks, NEW s \in Srcs, Return(c, s)
  PROVE  Inv'
<1>0. /\ Typed /\ Accounted /\ task \in [Tasks -> Task] /\ task[c] \in Task
      /\ task[c].at[s] = "calling"
  BY DEF Inv, Typed, TypeOK, Task, Return
<1>1. PICK o \in Answers(c, s) :
       /\ task' = [task EXCEPT ![c].at[s] = o, ![c].ref[s] = NoRef]
       /\ pref' = Remember(s, task[c].ref[s], o)
       /\ breaker' = IF task[c].kind # "search" THEN breaker
                     ELSE IF o \in Failures THEN [breaker EXCEPT ![s] = BreakerFail(s)]
                     ELSE [breaker EXCEPT ![s] = Rested]
       /\ misses' = IF o \in Failures THEN [misses EXCEPT ![s] = UpTo(FailThreshold, @)]
                    ELSE misses
  BY DEF Return
<1>2. o \in {"ok", "refused", "unreachable", "unsubscribed"} /\ o \in Phases
  <2>1. o \in {"ok", "refused", "unreachable", "unsubscribed"}  BY <1>0, <1>1, CallAnswers
  <2> QED  BY <2>1 DEF Phases
<1>3. UNCHANGED <<row, streak, admin, site, turns>>  BY DEF Return
<1> DEFINE k == [task[c] EXCEPT !.at[s] = o, !.ref[s] = NoRef]
<1>4. /\ k \in Task /\ k.kind = task[c].kind
      /\ \A t \in Srcs : k.at[t] = IF t = s THEN o ELSE task[c].at[t]
  BY <1>0, <1>2, RefTyped DEF Task
<1>5. task' = [task EXCEPT ![c] = k]  BY <1>0, <1>1
<1>6. task[c].kind # "idle"  BY <1>0 DEF Typed, TaskShape
<1> HIDE DEF k
<1>7. \A d \in Tasks : task'[d] = IF d = c THEN k ELSE task[d]  BY <1>0, <1>5
<1>8. task' \in [Tasks -> Task] /\ TaskShape'
  <2>1. task' \in [Tasks -> Task]  BY <1>0, <1>4, <1>5
  <2>2. TaskShape'  BY <1>0, <1>4, <1>6, <1>7 DEF Typed, TaskShape
  <2> QED  BY <2>1, <2>2
<1>9. pref' \in [Srcs -> BOOLEAN]  BY <1>0, <1>1 DEF Remember, Typed, TypeOK
<1>10. /\ breaker \in [Srcs -> [fails : 0..CoolOff, open : BOOLEAN]]
       /\ misses \in [Srcs -> 0..FailThreshold]
  BY <1>0 DEF Typed, TypeOK
<1>11. breaker' \in [Srcs -> [fails : 0..CoolOff, open : BOOLEAN]] /\ BreakerShape'
  <2>1. BreakerShape  BY <1>0 DEF Typed
  <2>2. CASE breaker' = breaker  BY <1>10, <2>1, <2>2 DEF BreakerShape
  <2>3. CASE breaker' = [breaker EXCEPT ![s] = BreakerFail(s)]
    BY <1>0, <1>10, <2>1, <2>3, CountUp DEF BreakerShape
  <2>4. CASE breaker' = [breaker EXCEPT ![s] = Rested]
    BY <1>10, <2>1, <2>4, RestedType DEF BreakerShape
  <2> QED  BY <1>1, <2>2, <2>3, <2>4
<1>12. misses' \in [Srcs -> 0..FailThreshold]
       /\ \A t \in Srcs \ {s} : misses'[t] = misses[t] /\ breaker'[t] = breaker[t]
  BY <1>0, <1>1, <1>10, CountUp
<1>13. TypeOK'
  BY <1>0, <1>3, <1>8, <1>9, <1>11, <1>12 DEF Typed, TypeOK, Task
<1>14. Typed'  BY <1>0, <1>3, <1>8, <1>11, <1>13 DEF Typed, AdminShape
<1>15. ASSUME NEW t \in Srcs \ {s} PROVE misses'[t] = FailThreshold \/ Unharmed(t)'
  <2>1. \A d \in Tasks : task'[d].at[t] = task[d].at[t]  BY <1>4, <1>7
  <2> QED  BY <1>0, <1>3, <1>12, <1>14, <2>1, Untouched
<1>16. misses'[s] = FailThreshold \/ Unharmed(s)'
  <2>0. /\ task'[c].at[s] = o /\ row' = row /\ streak' = streak
        /\ \A d \in Tasks \ {c} : task'[d].at[s] = task[d].at[s]
    BY <1>3, <1>4, <1>7
  <2>1. CASE misses[s] = FailThreshold
    <3>1. UpTo(FailThreshold, misses[s]) = FailThreshold  BY <1>0, <2>1, CountUp
    <3> QED  BY <1>1, <1>10, <2>1, <3>1
  <2>2. CASE Unharmed(s) /\ misses[s] # FailThreshold /\ o \in Failures
    <3>1. misses'[s] = misses[s] + 1
      <4>1. misses'[s] = UpTo(FailThreshold, misses[s])  BY <1>1, <1>10, <2>2
      <4> QED  BY <1>0, <2>2, <4>1, CountUp
    <3>2. breaker'[s].fails <= breaker[s].fails + 1
      <4>1. breaker'[s] = breaker[s] \/ breaker'[s] = BreakerFail(s)  BY <1>1, <1>10, <2>2
      <4> QED  BY <1>0, <4>1, CountUp, Numbers
    <3>3. o \in {"refused", "unreachable"}  BY <1>2, <2>2 DEF Failures
    <3> QED  BY <1>0, <1>14, <2>0, <2>2, <3>1, <3>2, <3>3, FailureIsCounted
  <2>3. CASE Unharmed(s) /\ o \notin Failures
    <3>1. misses' = misses  BY <1>1, <2>3
    <3>2. breaker'[s] = breaker[s] \/ breaker'[s] = Rested  BY <1>1, <1>10, <2>3
    <3>3. breaker'[s].fails <= misses[s]
      BY <1>0, <2>3, <3>2, Numbers, RestedType DEF Unharmed
    <3>4. /\ row'[s].state # "needs_refresh" /\ streak'[s] <= streak[s]
          /\ \A d \in Tasks : task'[d].at[s] \notin {"skipped", "condemn"}
      BY <1>0, <1>2, <2>0, <2>3, Numbers DEF Unharmed
    <3>5. \A d \in Tasks : task'[d].at[s] \in {"refused", "unreachable"} =>
                            task[d].at[s] \in {"refused", "unreachable"}
      BY <1>2, <2>0, <2>3 DEF Failures
    <3> QED  BY <1>0, <1>14, <2>3, <3>1, <3>3, <3>4, <3>5, StaysUnharmed
  <2> QED  BY <1>0, <2>1, <2>2, <2>3 DEF Accounted
<1> QED  BY <1>14, <1>15, <1>16 DEF Inv, Accounted

LEMMA AbandonKeeps ==
  ASSUME Inv, NEW c \in Calls, Abandon(c)
  PROVE  Inv'
<1> DEFINE out == {s \in Srcs : task[c].at[s] = "calling"}
           at == [s \in Srcs |-> IF s \in out THEN "unreachable" ELSE task[c].at[s]]
           k == [task[c] EXCEPT !.at = at]
<1>0. /\ Typed /\ Accounted /\ task \in [Tasks -> Task] /\ c \in Tasks /\ task[c] \in Task
      /\ breaker \in [Srcs -> [fails : 0..CoolOff, open : BOOLEAN]]
      /\ misses \in [Srcs -> 0..FailThreshold]
  BY DEF Inv, Typed, TypeOK, Task, Tasks
<1>1. /\ task' = [task EXCEPT ![c] = k]
      /\ breaker' = [s \in Srcs |-> IF s \in out /\ task[c].kind = "search" THEN BreakerFail(s)
                                    ELSE breaker[s]]
      /\ misses' = [s \in Srcs |-> IF s \in out THEN UpTo(FailThreshold, misses[s])
                                   ELSE misses[s]]
      /\ UNCHANGED <<row, streak, pref, admin, site>> /\ out # {}
      /\ turns < MaxTurns /\ turns' = turns + 1
  BY <1>0 DEF Abandon, Turn, Left
<1>2. at \in [Srcs -> Phases]  BY <1>0 DEF Task, Phases
<1>3. k \in Task /\ k.kind = task[c].kind /\ k.at = at  BY <1>0, <1>2 DEF Task
<1>4. task[c].kind # "idle"  BY <1>0, <1>1 DEF Typed, TaskShape
<1>5. \A s \in Srcs : at[s] = IF s \in out THEN "unreachable" ELSE task[c].at[s]  OBVIOUS
<1>6. \A s \in out : task[c].at[s] = "calling"  OBVIOUS
<1> HIDE DEF k, at, out
<1>7. \A d \in Tasks : task'[d] = IF d = c THEN k ELSE task[d]  BY <1>0, <1>1
<1>8. task' \in [Tasks -> Task] /\ TaskShape'
  <2>1. task' \in [Tasks -> Task]  BY <1>0, <1>1, <1>3
  <2>2. TaskShape'  BY <1>0, <1>3, <1>4, <1>7 DEF Typed, TaskShape
  <2> QED  BY <2>1, <2>2
<1>9. breaker' \in [Srcs -> [fails : 0..CoolOff, open : BOOLEAN]] /\ BreakerShape'
  <2>1. \A s \in Srcs : breaker'[s] = BreakerFail(s) \/ breaker'[s] = breaker[s]  BY <1>1
  <2>2. breaker' \in [Srcs -> [fails : 0..CoolOff, open : BOOLEAN]]
    BY <1>0, <1>1, CountUp
  <2>3. BreakerShape'  BY <1>0, <2>1, CountUp DEF Typed, BreakerShape
  <2> QED  BY <2>2, <2>3
<1>10. misses' \in [Srcs -> 0..FailThreshold]  BY <1>0, <1>1, CountUp
<1>11. turns' \in 0..MaxTurns
  BY <1>0, <1>1, SourcesAssumption DEF Typed, TypeOK
<1>12. TypeOK'  BY <1>0, <1>1, <1>8, <1>9, <1>10, <1>11 DEF Typed, TypeOK, Task
<1>13. Typed'  BY <1>0, <1>1, <1>8, <1>9, <1>12 DEF Typed, AdminShape
<1>14. ASSUME NEW s \in Srcs PROVE misses'[s] = FailThreshold \/ Unharmed(s)'
  <2>1. \A d \in Tasks \ {c} : task'[d].at[s] = task[d].at[s]  BY <1>7
  <2>2. task'[c].at[s] = at[s]  BY <1>0, <1>3, <1>7
  <2>3. CASE s \notin out
    <3>1. \A d \in Tasks : task'[d].at[s] = task[d].at[s]  BY <1>5, <2>1, <2>2, <2>3
    <3>2. /\ misses'[s] = misses[s] /\ streak'[s] = streak[s]
          /\ breaker'[s].fails = breaker[s].fails /\ row'[s].state = row[s].state
      BY <1>1, <2>3
    <3> QED  BY <1>0, <1>13, <3>1, <3>2, Untouched
  <2>4. CASE s \in out
    <3>1. misses'[s] = UpTo(FailThreshold, misses[s])  BY <1>1, <2>4
    <3>2. CASE misses[s] = FailThreshold  BY <1>0, <3>1, <3>2, CountUp
    <3>3. CASE misses[s] # FailThreshold
      <4>1. Unharmed(s)  BY <1>0, <3>3 DEF Accounted
      <4>2. misses'[s] = misses[s] + 1  BY <1>0, <3>1, <3>3, CountUp
      <4>3. breaker'[s].fails <= breaker[s].fails + 1
        <5>1. breaker'[s] = BreakerFail(s) \/ breaker'[s] = breaker[s]  BY <1>1
        <5> QED  BY <1>0, <5>1, CountUp, Numbers
      <4>4. task[c].at[s] = "calling" /\ task'[c].at[s] = "unreachable"
        BY <1>5, <1>6, <2>2, <2>4
      <4> QED  BY <1>0, <1>1, <1>13, <2>1, <4>1, <4>2, <4>3, <4>4, FailureIsCounted
    <3> QED  BY <3>2, <3>3
  <2> QED  BY <2>3, <2>4
<1> QED  BY <1>13, <1>14 DEF Inv, Accounted

\* A step that moves one request and touches neither the rows nor the windows.
LEMMA MoveKeepsTyped ==
  ASSUME Typed, NEW c \in Tasks, NEW s \in Srcs, NEW p, Moves(c, s, p),
         UNCHANGED <<row, breaker, pref, admin, site, turns, misses>>,
         streak' = streak \/ \E n \in 0..FailThreshold : streak' = [streak EXCEPT ![s] = n]
  PROVE  Typed'
<1>1. streak' \in [Srcs -> 0..FailThreshold]  BY DEF Typed, TypeOK
<1>2. pref' \in [Srcs -> BOOLEAN]  BY DEF Typed, TypeOK
<1> QED  BY <1>1, <1>2, MoveKeepsType

LEMMA OthersAccounted ==
  ASSUME Typed, Typed', Accounted, NEW c \in Tasks, NEW s \in Srcs, NEW p, Moves(c, s, p),
         UNCHANGED <<row, breaker, misses>>,
         streak' = streak \/ \E n \in 0..FailThreshold : streak' = [streak EXCEPT ![s] = n],
         NEW t \in Srcs \ {s}
  PROVE  misses'[t] = FailThreshold \/ Unharmed(t)'
<1>1. \A d \in Tasks : task'[d].at[t] = task[d].at[t]  BY DEF Moves
<1>2. streak'[t] = streak[t]  BY DEF Typed, TypeOK
<1> QED  BY <1>1, <1>2, Untouched

\* The request is through with a source that has not got worse.
LEMMA BetterAccounted ==
  ASSUME Typed, Typed', Accounted, NEW c \in Tasks, NEW s \in Srcs, NEW p \in {"out", "restore"},
         Moves(c, s, p), UNCHANGED <<breaker, misses>>, streak'[s] <= streak[s],
         row'[s].state = row[s].state \/ row'[s].state # "needs_refresh"
  PROVE  misses'[s] = FailThreshold \/ Unharmed(s)'
<1>1. CASE misses[s] = FailThreshold  BY <1>1
<1>2. CASE Unharmed(s)
  <2>1. \A d \in Tasks : task'[d].at[s] = task[d].at[s] \/ task'[d].at[s] \in {"out", "restore"}
    BY DEF Moves
  <2>2. /\ breaker'[s].fails <= misses[s] /\ row'[s].state # "needs_refresh"
        /\ \A d \in Tasks : task'[d].at[s] \notin {"skipped", "condemn"}
    BY <1>2, <2>1 DEF Unharmed
  <2> QED  BY <1>2, <2>1, <2>2, StaysUnharmed
<1> QED  BY <1>1, <1>2 DEF Accounted

LEMMA NoteKeeps ==
  ASSUME Inv, NEW c \in Tasks, NEW s \in Srcs, Note(c, s)
  PROVE  Inv'
<1>0. Typed /\ Accounted /\ streak \in [Srcs -> 0..FailThreshold]  BY DEF Inv, Typed, TypeOK
<1>1. /\ task[c].at[s] \in {"refused", "unreachable", "skipped"}
      /\ streak' = [streak EXCEPT ![s] = UpTo(FailThreshold, streak[s])]
      /\ UNCHANGED <<row, breaker, pref, admin, site, turns, misses>>
  BY DEF Note, Counts, Failures
<1>2. UpTo(FailThreshold, streak[s]) \in 0..FailThreshold /\ streak'[s] = UpTo(FailThreshold, streak[s])
  BY <1>0, <1>1, CountUp
<1>3. \/ streak'[s] = FailThreshold /\ Moves(c, s, "condemn")
      \/ streak'[s] # FailThreshold /\ Moves(c, s, "out")
  <2>1. GoesOn(c, s, streak'[s] = FailThreshold, "condemn")  BY DEF Note
  <2>2. CASE streak'[s] = FailThreshold
    BY <1>0, <1>1, <2>1, <2>2, GoesMoves DEF GoesOn, Phases
  <2>3. CASE streak'[s] # FailThreshold
    BY <1>0, <1>1, <2>1, <2>3, ThroughMoves DEF GoesOn
  <2> QED  BY <2>2, <2>3
<1>4. Typed'  BY <1>0, <1>1, <1>2, <1>3, MoveKeepsTyped
<1>5. ASSUME NEW t \in Srcs \ {s} PROVE misses'[t] = FailThreshold \/ Unharmed(t)'
  BY <1>0, <1>1, <1>2, <1>3, <1>4, OthersAccounted
<1>6. misses'[s] = FailThreshold \/ Unharmed(s)'
  <2>1. CASE misses[s] = FailThreshold  BY <1>1, <2>1
  <2>2. CASE Unharmed(s) /\ misses[s] # FailThreshold
    <3>1. task[c].at[s] \in {"refused", "unreachable"}  BY <1>1, <2>2 DEF Unharmed
    <3>2. streak[s] + 1 <= misses[s] /\ misses[s] < FailThreshold
      <4>1. c \in Unreported(s) /\ IsFiniteSet(Unreported(s))  BY <2>2, <3>1 DEF Unharmed, Unreported
      <4>2. Cardinality(Unreported(s)) \in Nat /\ Cardinality(Unreported(s)) # 0
        BY <4>1, FS_CardinalityType, FS_EmptySet
      <4>3. streak[s] + Cardinality(Unreported(s)) <= misses[s]  BY <2>2 DEF Unharmed
      <4> QED  BY <1>0, <2>2, <4>2, <4>3, Numbers
    <3>3. streak'[s] = streak[s] + 1 /\ streak'[s] # FailThreshold
      BY <1>0, <1>2, <3>2, CountUp, Numbers
    <3>4. Moves(c, s, "out")  BY <1>3, <3>3
    <3>5. task'[c].at[s] = "out" /\ \A d \in Tasks \ {c} : task'[d].at[s] = task[d].at[s]
      BY <3>4 DEF Moves
    <3> QED  BY <1>0, <1>1, <1>4, <2>2, <3>1, <3>3, <3>5, ReportIsCounted
  <2> QED  BY <1>0, <2>1, <2>2 DEF Accounted
<1> QED  BY <1>4, <1>5, <1>6 DEF Inv, Accounted

\* The steps that end well, or without a word.
LEMMA BetterKeeps ==
  ASSUME Inv, NEW c \in Tasks, NEW s \in Srcs, NEW p \in {"out", "restore"}, Moves(c, s, p),
         UNCHANGED <<row, breaker, pref, admin, site, turns, misses>>,
         streak' = streak \/ streak' = [streak EXCEPT ![s] = 0]
  PROVE  Inv'
<1>0. Typed /\ Accounted /\ streak \in [Srcs -> 0..FailThreshold]  BY DEF Inv, Typed, TypeOK
<1>1. streak' = streak \/ \E n \in 0..FailThreshold : streak' = [streak EXCEPT ![s] = n]
  BY SourcesAssumption
<1>2. streak'[s] <= streak[s]  BY <1>0, Numbers
<1>3. Typed'  BY <1>0, <1>1, MoveKeepsTyped
<1>4. ASSUME NEW t \in Srcs \ {s} PROVE misses'[t] = FailThreshold \/ Unharmed(t)'
  BY <1>0, <1>1, <1>3, OthersAccounted
<1>5. misses'[s] = FailThreshold \/ Unharmed(s)'
  BY <1>0, <1>2, <1>3, BetterAccounted
<1> QED  BY <1>3, <1>4, <1>5 DEF Inv, Accounted

LEMMA PassKeeps == ASSUME Inv, NEW c \in Tasks, NEW s \in Srcs, Pass(c, s) PROVE Inv'
<1>1. Moves(c, s, "out")  BY ThroughMoves DEF Inv, Pass
<1> QED  BY <1>1, BetterKeeps DEF Pass, mem

LEMMA ClearKeeps == ASSUME Inv, NEW c \in Tasks, NEW s \in Srcs, Clear(c, s) PROVE Inv'
<1>1. Moves(c, s, "out") \/ Moves(c, s, "restore")
  BY ThroughMoves, GoesMoves DEF Inv, Clear, GoesOn, Phases
<1> QED  BY <1>1, BetterKeeps DEF Clear

LEMMA ClearMuteKeeps == ASSUME Inv, NEW c \in Tasks, NEW s \in Srcs, ClearMute(c, s) PROVE Inv'
<1>1. Moves(c, s, "out")  BY ThroughMoves DEF Inv, ClearMute
<1> QED  BY <1>1, BetterKeeps DEF ClearMute

-----------------------------------------------------------------------------
\* Rows are written.

RowsOK(r) == /\ r \in [Srcs -> Row]
             /\ \A s \in Srcs : r[s].state = "absent" <=> ~r[s].on /\ r[s].with = None

LEMMA RowsTyped == Typed => RowsOK(row)
BY DEF Typed, TypeOK, RowsOK

\* One row is written over by one of its type.
LEMMA RowWritten ==
  ASSUME Typed, NEW s \in Srcs, NEW ACTION x, x \in Row, row' = [row EXCEPT ![s] = x],
         x.state = "absent" <=> ~x.on /\ x.with = None
  PROVE  RowsOK(row') /\ row'[s] = x /\ \A t \in Srcs \ {s} : row'[t] = row[t]
<1>1. row \in [Srcs -> Row] /\ RowsOK(row)  BY RowsTyped DEF RowsOK
<1>2. row' \in [Srcs -> Row] /\ \A t \in Srcs : row'[t] = IF t = s THEN x ELSE row[t]
  BY <1>1
<1> QED  BY <1>1, <1>2 DEF RowsOK

LEMMA StateWritten ==
  ASSUME Typed, NEW s \in Srcs, NEW st \in {"active", "needs_refresh", "unsubscribed"},
         PutState(s, st)
  PROVE  /\ RowsOK(row')
         /\ \A t \in Srcs \ {s} : row'[t] = row[t]
         /\ row'[s].state \in {st, row[s].state}
<1>1. RowsOK(row) /\ row \in [Srcs -> Row] /\ row[s] \in Row  BY RowsTyped DEF RowsOK
<1>2. CASE s \notin Listed  BY <1>1, <1>2 DEF PutState
<1>3. CASE s \in Listed
  <2> DEFINE x == [row[s] EXCEPT !.state = st]
  <2>1. x \in Row /\ x.state = st /\ x.on = row[s].on /\ x.with = row[s].with
    BY <1>1 DEF Row
  <2>2. row[s].state # "absent"  BY <1>3 DEF Listed
  <2>3. row' = [row EXCEPT ![s] = x]  BY <1>1, <1>3 DEF PutState
  <2>4. ~(~x.on /\ x.with = None)  BY <1>1, <2>1, <2>2 DEF RowsOK
  <2> HIDE DEF x
  <2> QED  BY <1>1, <2>1, <2>3, <2>4, RowWritten
<1> QED  BY <1>2, <1>3

LEMMA WriteKeeps == ASSUME Inv, NEW c \in Tasks, NEW s \in Srcs, Write(c, s) PROVE Inv'
<1>0. Typed /\ Accounted  BY DEF Inv
<1>1. Moves(c, s, "out")  BY <1>0, ThroughMoves DEF Write
<1>2. UNCHANGED <<mem, admin, site, turns, misses>>  BY DEF Write
<1>3. Written(c, s) \in {"active", "needs_refresh", "unsubscribed"}  BY DEF Written
<1>4. /\ RowsOK(row')
      /\ \A t \in Srcs \ {s} : row'[t] = row[t]
      /\ row'[s].state \in {Written(c, s), row[s].state}
  BY <1>0, <1>3, StateWritten DEF Write
<1>5. TypeOK'
  BY <1>0, <1>1, <1>2, <1>4 DEF Typed, TypeOK, Moves, Task, RowsOK, mem
<1>6. Typed'  BY <1>0, <1>1, <1>2, <1>5 DEF Typed, Moves, AdminShape, BreakerShape, mem
<1>7. ASSUME NEW t \in Srcs \ {s} PROVE misses'[t] = FailThreshold \/ Unharmed(t)'
  <2>1. \A d \in Tasks : task'[d].at[t] = task[d].at[t]  BY <1>1 DEF Moves
  <2> QED  BY <1>0, <1>2, <1>4, <1>6, <2>1, Untouched DEF mem
<1>8. misses'[s] = FailThreshold \/ Unharmed(s)'
  <2>1. CASE misses[s] = FailThreshold  BY <1>2, <2>1
  <2>2. CASE Unharmed(s)
    <3>1. task[c].at[s] # "condemn"  BY <2>2 DEF Unharmed
    <3>2. Written(c, s) # "needs_refresh"  BY <3>1, Zenon DEF Written
    <3>3. streak'[s] <= streak[s] /\ breaker' = breaker /\ misses' = misses
      BY <1>0, <1>2, Numbers DEF mem
    <3>4. row'[s].state = row[s].state \/ row'[s].state # "needs_refresh"  BY <1>4, <3>2
    <3> QED  BY <1>0, <1>1, <1>6, <3>3, <3>4, BetterAccounted
  <2> QED  BY <1>0, <2>1, <2>2 DEF Accounted
<1> QED  BY <1>6, <1>7, <1>8 DEF Inv, Accounted

LEMMA ServeKeeps == ASSUME Inv, NEW c \in Tasks, Serve(c) PROVE Inv'
BY ReturnKeeps, NoteKeeps, PassKeeps, ClearKeeps, ClearMuteKeeps, WriteKeeps DEF Serve

-----------------------------------------------------------------------------
\* The administrator, time and the environment.

\* No request moves unless they are all dropped, nothing is counted, and no row is condemned.
LEMMA CalmKeepsAccounted ==
  ASSUME Typed, Typed', Accounted, misses' = misses,
         task' = task \/ task' = [c \in Tasks |-> Idle],
         \A s \in Srcs : streak'[s] = streak[s] \/ streak'[s] = 0,
         \A s \in Srcs : breaker'[s].fails = breaker[s].fails \/ breaker'[s].fails = 0,
         \A s \in Srcs : row'[s].state = row[s].state \/ row'[s].state # "needs_refresh"
  PROVE  Accounted'
<1> SUFFICES ASSUME NEW s \in Srcs PROVE misses'[s] = FailThreshold \/ Unharmed(s)'
  BY DEF Accounted
<1>1. CASE misses[s] = FailThreshold  BY <1>1
<1>2. CASE Unharmed(s)
  <2>1. \A d \in Tasks : task'[d].at[s] = task[d].at[s] \/ task'[d].at[s] = "out"
    <3>1. CASE task' = task  BY <3>1
    <3>2. CASE task' = [c \in Tasks |-> Idle]  BY <3>2 DEF Idle
    <3> QED  BY <3>1, <3>2
  <2>2. /\ streak'[s] <= streak[s] /\ breaker'[s].fails <= misses[s]
        /\ row'[s].state # "needs_refresh"
        /\ \A c \in Tasks : task'[c].at[s] \notin {"skipped", "condemn"}
    BY <1>2, <2>1, Numbers DEF Unharmed
  <2> QED  BY <1>2, <2>1, <2>2, StaysUnharmed
<1> QED  BY <1>1, <1>2 DEF Accounted

\* A turn of the administrator or of a site.
LEMMA TurnTyped == ASSUME Typed, Turn PROVE turns' \in 0..MaxTurns
BY SourcesAssumption DEF Typed, TypeOK, Turn, Left

LEMMA SiteFacts ==
  ASSUME Typed, NEW s \in Srcs
  PROVE  /\ site[s] \in Site /\ site[s].good \in 0..MaxMaterial /\ site[s].good # None
         /\ KindOf(s) \in {"30nama", "zarfilm"}
BY SourcesAssumption DEF Typed, Site, KindOf, None

\* Whatever is posted, the alternate address is used in one of three ways.
LEMMA MirrorsTyped ==
  ASSUME NEW kind, NEW cur \in {"no", "shared", "own"}
  PROVE  Mirrors(kind, cur) \subseteq {"no", "shared", "own"}
<1>1. \A posted \in Posted : AltSessionFrom(posted, cur) \in {"shared", "own"}
  BY Zenon DEF AltSessionFrom, Posted
<1>2. \A p \in [base : Posted, session : Posted] : p.session \in Posted
  OBVIOUS
<1> QED  BY <1>1, <1>2 DEF Mirrors

\* What a save hands over.
LEMMA SavingTyped ==
  ASSUME NEW s \in Srcs, NEW ref \in RefType, NEW on \in BOOLEAN, NEW old \in BOOLEAN,
         NEW o \in {"ok", "unsubscribed"}, ref.with # None,
         NEW a, a = Saving(s, ref, on, o, old)
  PROVE  /\ a \in Admin /\ a.to \in {"active", "unsubscribed"}
         /\ a.step # "idle" => a.src \in Srcs /\ a.ref.with # None
BY DEF Saving, Admin

LEMMA CreatedTyped ==
  ASSUME NEW s \in Srcs, NEW ref \in RefType, NEW st \in {"active", "unsubscribed"},
         NEW x, x = Created(s, ref, st)
  PROVE  /\ x \in Row /\ x.state # "needs_refresh"
         /\ x.state = "absent" <=> ~x.on /\ x.with = None
BY SourcesAssumption DEF Created, Row, RefType, None

\* A step that leaves the requests alone and counts nothing.
LEMMA AdminKeeps ==
  ASSUME Inv, RowsOK(row'), admin' \in Admin, AdminShape', turns' \in 0..MaxTurns,
         UNCHANGED <<streak, pref, task, site, misses>>,
         breaker' = breaker \/ breaker' = [s \in Srcs |-> Rested],
         \A s \in Srcs : row'[s].state = row[s].state \/ row'[s].state # "needs_refresh"
  PROVE  Inv'
<1>0. Typed /\ Accounted  BY DEF Inv
<1>1. /\ breaker' \in [Srcs -> [fails : 0..CoolOff, open : BOOLEAN]] /\ BreakerShape'
      /\ \A s \in Srcs : breaker'[s].fails = breaker[s].fails \/ breaker'[s].fails = 0
  <2>1. CASE breaker' = breaker
    BY <1>0, <2>1 DEF Typed, TypeOK, BreakerShape
  <2>2. CASE breaker' = [s \in Srcs |-> Rested]
    BY <2>2, RestedType DEF BreakerShape
  <2> QED  BY <2>1, <2>2
<1>2. TypeOK'
  <2>1. admin'.step \in {"idle", "store", "state"}  BY DEF Admin
  <2> QED  BY <1>0, <1>1, <2>1 DEF Typed, TypeOK, RowsOK
<1>3. Typed'  BY <1>0, <1>1, <1>2 DEF Typed, TaskShape
<1>4. Accounted'  BY <1>0, <1>1, <1>3, CalmKeepsAccounted
<1> QED  BY <1>3, <1>4 DEF Inv

LEMMA AddSourceKeeps == ASSUME Inv, NEW s \in Srcs, AddSource(s) PROVE Inv'
<1>0. Typed  BY DEF Inv
<1>1. PICK mirror \in Mirrors(KindOf(s), "no") :
       LET ref == [kind |-> KindOf(s), with |-> site[s].good, mirror |-> mirror] IN
       \E o \in Verify(s, ref) \cap {"ok", "unsubscribed"} :
         /\ admin' = Saving(s, ref, TRUE, o, FALSE)
         /\ row' = [row EXCEPT ![s] = Created(s, ref, admin'.to)]
  BY DEF AddSource
<1> DEFINE ref == [kind |-> KindOf(s), with |-> site[s].good, mirror |-> mirror]
<1>2. PICK o \in {"ok", "unsubscribed"} :
         /\ admin' = Saving(s, ref, TRUE, o, FALSE)
         /\ row' = [row EXCEPT ![s] = Created(s, ref, admin'.to)]
  BY <1>1
<1>3. mirror \in {"no", "shared", "own"}  BY <1>1, MirrorsTyped
<1>4. ref \in RefType /\ ref.with # None  BY <1>0, <1>3, SiteFacts DEF RefType
<1> HIDE DEF ref
<1>5. admin' \in Admin /\ AdminShape' /\ admin'.to \in {"active", "unsubscribed"}
  <2>1. /\ admin' \in Admin /\ admin'.to \in {"active", "unsubscribed"}
        /\ admin'.step # "idle" => admin'.src \in Srcs /\ admin'.ref.with # None
    BY <1>2, <1>4, SavingTyped
  <2> QED  BY <2>1 DEF AdminShape
<1> DEFINE x == Created(s, ref, admin'.to)
<1>6. x \in Row /\ x.state # "needs_refresh" /\ (x.state = "absent" <=> ~x.on /\ x.with = None)
  <2> HIDE DEF x
  <2>1. x = Created(s, ref, admin'.to)  BY DEF x
  <2> QED  BY <1>4, <1>5, <2>1, CreatedTyped
<1>7. row' = [row EXCEPT ![s] = x]  BY <1>2
<1> HIDE DEF x
<1>8. RowsOK(row') /\ row'[s] = x /\ \A t \in Srcs \ {s} : row'[t] = row[t]
  <2>2. x \in Row /\ (x.state = "absent" <=> ~x.on /\ x.with = None)  BY <1>6
  <2> QED  BY <1>0, <1>7, <2>2, RowWritten
<1>9. /\ UNCHANGED <<streak, breaker, pref, task, site, misses>> /\ turns' \in 0..MaxTurns
  BY <1>0, TurnTyped DEF AddSource, mem
<1> QED  BY <1>5, <1>6, <1>8, <1>9, AdminKeeps

LEMMA ChangeSourceKeeps == ASSUME Inv, NEW s \in Srcs, ChangeSource(s) PROVE Inv'
<1>0. Typed  BY DEF Inv
<1>1. PICK e \in Edits(s) : \E o \in Verify(s, e.ref) \cap {"ok", "unsubscribed"} :
       e.ref.with # None /\ admin' = Saving(s, e.ref, e.on, o, FALSE)
  BY DEF ChangeSource
<1>2. PICK o \in {"ok", "unsubscribed"} :
       e.ref.with # None /\ admin' = Saving(s, e.ref, e.on, o, FALSE)
  BY <1>1
<1>3. e.ref \in RefType /\ e.on \in BOOLEAN
  <2>0. Ref(s) \in RefType /\ row[s].on \in BOOLEAN /\ row[s].mirror \in {"no", "shared", "own"}
    BY <1>0, RefTyped DEF Row
  <2>1. CASE \E m \in Pasted(s) : e = [ref |-> [Ref(s) EXCEPT !.with = m], on |-> row[s].on]
    <3>1. \A m \in Pasted(s) : m \in 0..MaxMaterial  BY <1>0, RefTyped, SiteFacts DEF Pasted
    <3> QED  BY <2>0, <2>1, <3>1 DEF RefType
  <2>2. CASE \E x \in Mirrors(row[s].kind, row[s].mirror) :
               e = [ref |-> [Ref(s) EXCEPT !.mirror = x], on |-> row[s].on]
    <3>1. \A x \in Mirrors(row[s].kind, row[s].mirror) : x \in {"no", "shared", "own"}
      BY <2>0, MirrorsTyped
    <3> QED  BY <2>0, <2>2, <3>1 DEF RefType
  <2>3. CASE e = [ref |-> Ref(s), on |-> ~row[s].on]  BY <2>0, <2>3
  <2> QED  BY <2>1, <2>2, <2>3 DEF Edits
<1>4. admin' \in Admin /\ AdminShape'
  <2>1. PICK ref \in RefType, on \in BOOLEAN :
          ref.with # None /\ admin' = Saving(s, ref, on, o, FALSE)
    BY <1>2, <1>3
  <2>2. /\ admin' \in Admin
        /\ admin'.step # "idle" => admin'.src \in Srcs /\ admin'.ref.with # None
    BY <2>1, SavingTyped
  <2> QED  BY <2>2 DEF AdminShape
<1>5. /\ UNCHANGED <<row, streak, breaker, pref, task, site, misses>> /\ turns' \in 0..MaxTurns
  BY <1>0, TurnTyped DEF ChangeSource, mem
<1> QED  BY <1>0, <1>4, <1>5, RowsTyped, AdminKeeps

LEMMA OldSaveKeeps == ASSUME Inv, OldSave PROVE Inv'
<1>0. Typed  BY DEF Inv
<1>1. PICK s \in OldTarget :
       \E m \in IF row[s].kind = "30nama" THEN Pasted(s) ELSE {site[s].good} :
         LET ref == [NoRef EXCEPT !.with = m] IN
         /\ admin' = Saving(s, ref, TRUE, "ok", TRUE)
         /\ row' = IF s \in Listed THEN row ELSE [row EXCEPT ![s] = Created(s, ref, "active")]
  BY DEF OldSave
<1>2. s \in Srcs  BY DEF OldTarget, Lowest, Listed, Srcs
<1>3. PICK m \in IF row[s].kind = "30nama" THEN Pasted(s) ELSE {site[s].good} :
         LET ref == [NoRef EXCEPT !.with = m] IN
         /\ admin' = Saving(s, ref, TRUE, "ok", TRUE)
         /\ row' = IF s \in Listed THEN row ELSE [row EXCEPT ![s] = Created(s, ref, "active")]
  BY <1>1
<1> DEFINE ref == [NoRef EXCEPT !.with = m]
<1>4. m \in 0..MaxMaterial /\ m # None  BY <1>0, <1>2, <1>3, RefTyped, SiteFacts DEF Pasted
<1>5. ref \in RefType /\ ref.with # None
  BY <1>0, <1>2, <1>4, RefTyped DEF RefType, NoRef
<1>6. /\ admin' = Saving(s, ref, TRUE, "ok", TRUE)
      /\ row' = IF s \in Listed THEN row ELSE [row EXCEPT ![s] = Created(s, ref, "active")]
  BY <1>3
<1> HIDE DEF ref
<1>7. admin' \in Admin /\ AdminShape'
  <2>1. /\ admin' \in Admin
        /\ admin'.step # "idle" => admin'.src \in Srcs /\ admin'.ref.with # None
    BY <1>2, <1>5, <1>6, SavingTyped
  <2> QED  BY <2>1 DEF AdminShape
<1>8. /\ UNCHANGED <<streak, breaker, pref, task, site, misses>> /\ turns' \in 0..MaxTurns
  BY SourcesAssumption DEF OldSave, mem
<1>9. /\ RowsOK(row')
      /\ \A t \in Srcs : row'[t].state = row[t].state \/ row'[t].state # "needs_refresh"
  <2>1. CASE row' = row  BY <1>0, <2>1, RowsTyped
  <2>2. CASE row' = [row EXCEPT ![s] = Created(s, ref, "active")]
    <3> DEFINE x == Created(s, ref, "active")
    <3>1. x \in Row /\ x.state # "needs_refresh" /\ (x.state = "absent" <=> ~x.on /\ x.with = None)
      <4> HIDE DEF x
      <4>1. x = Created(s, ref, "active")  BY DEF x
      <4> QED  BY <1>2, <1>5, <4>1, CreatedTyped
    <3>2. row' = [row EXCEPT ![s] = x]  BY <2>2
    <3> HIDE DEF x
    <3>3. RowsOK(row') /\ row'[s] = x /\ \A t \in Srcs \ {s} : row'[t] = row[t]
      BY <1>0, <1>2, <3>1, <3>2, RowsTyped, RowWritten
    <3> QED  BY <3>1, <3>3
  <2> QED  BY <1>6, <2>1, <2>2
<1> QED  BY <1>7, <1>8, <1>9, AdminKeeps

LEMMA NoRowTyped ==
  ASSUME NEW x, x = NoRow
  PROVE  /\ x \in Row /\ x.state # "needs_refresh"
         /\ x.state = "absent" <=> ~x.on /\ x.with = None
BY SourcesAssumption DEF NoRow, Row, None

LEMMA RemovalsKeep ==
  ASSUME Inv, (\E s \in Srcs : RemoveSource(s)) \/ OldRemove
  PROVE  Inv'
<1>0. Typed /\ admin \in Admin /\ AdminShape  BY DEF Inv, Typed
<1>1. PICK s \in Srcs : row' = [row EXCEPT ![s] = NoRow]
  BY DEF RemoveSource, OldRemove, Lowest, Listed
<1> DEFINE x == NoRow
<1>x. /\ x \in Row /\ x.state # "needs_refresh"
      /\ x.state = "absent" <=> ~x.on /\ x.with = None
  <2> HIDE DEF x
  <2>1. x = NoRow  BY DEF x
  <2> QED  BY <2>1, NoRowTyped
<1>y. row' = [row EXCEPT ![s] = x]  BY <1>1
<1> HIDE DEF x
<1>2. RowsOK(row') /\ row'[s] = x /\ \A t \in Srcs \ {s} : row'[t] = row[t]
  <2> QED  BY <1>0, <1>x, <1>y, RowWritten
<1>3. /\ UNCHANGED <<streak, pref, task, admin, site, misses>> /\ turns' \in 0..MaxTurns
      /\ breaker' = breaker \/ breaker' = [t \in Srcs |-> Rested]
  BY <1>0, TurnTyped DEF RemoveSource, OldRemove, mem
<1>4. admin' \in Admin /\ AdminShape'  BY <1>0, <1>3 DEF AdminShape
<1> QED  BY <1>x, <1>2, <1>3, <1>4, AdminKeeps

LEMMA StoreSourceKeeps == ASSUME Inv, StoreSource PROVE Inv'
<1>0. Typed /\ admin \in Admin /\ AdminShape /\ admin.step = "store"
  BY DEF Inv, Typed, StoreSource
<1> DEFINE s == admin.src
<1>1. s \in Srcs /\ admin.ref \in RefType /\ admin.ref.with # None /\ admin.on \in BOOLEAN
  BY <1>0 DEF AdminShape, Admin
<1>2. admin' = [admin EXCEPT !.step = "state"]  BY DEF StoreSource
<1>3. admin' \in Admin /\ AdminShape'  BY <1>0, <1>1, <1>2 DEF Admin, AdminShape
<1>4. /\ RowsOK(row')
      /\ \A t \in Srcs : row'[t].state = row[t].state
  <2>0. RowsOK(row) /\ row \in [Srcs -> Row] /\ row[s] \in Row  BY <1>0, <1>1, RowsTyped DEF RowsOK
  <2>1. CASE s \notin Listed  BY <2>0, <2>1 DEF StoreSource
  <2>2. CASE s \in Listed
    <3> DEFINE x == Updated(row[s])
    <3>1. x \in Row /\ x.state = row[s].state /\ x.with # None
      BY <1>1, <2>0 DEF Row, RefType, Updated
    <3>2. row' = [row EXCEPT ![s] = x]  BY <2>0, <2>2 DEF StoreSource
    <3>3. x.state # "absent"  BY <2>2, <3>1 DEF Listed
    <3> HIDE DEF x, s
    <3>4. RowsOK(row') /\ row'[s] = x /\ \A t \in Srcs \ {s} : row'[t] = row[t]
      <4>1. x \in Row /\ (x.state = "absent" <=> ~x.on /\ x.with = None)  BY <3>1, <3>3
      <4>2. RowsOK(row) /\ s \in Srcs  BY <1>1, <2>0
      <4> QED  BY <1>0, <3>2, <4>1, <4>2, RowWritten
    <3> QED  BY <3>1, <3>4
  <2> QED  BY <2>1, <2>2
<1>5. UNCHANGED <<streak, breaker, pref, task, site, turns, misses>>  BY DEF StoreSource, mem
<1>6. turns' \in 0..MaxTurns  BY <1>0, <1>5 DEF Typed, TypeOK
<1> QED  BY <1>3, <1>4, <1>5, <1>6, AdminKeeps

LEMMA ConfirmSourceKeeps == ASSUME Inv, ConfirmSource PROVE Inv'
<1>0. Typed /\ admin \in Admin /\ AdminShape /\ admin.step = "state"
  BY DEF Inv, Typed, ConfirmSource
<1>1. admin.src \in Srcs /\ admin.to \in {"active", "unsubscribed"}
  BY <1>0 DEF AdminShape, Admin
<1>2. /\ RowsOK(row')
      /\ \A t \in Srcs \ {admin.src} : row'[t] = row[t]
      /\ row'[admin.src].state \in {admin.to, row[admin.src].state}
  BY <1>0, <1>1, StateWritten DEF ConfirmSource
<1>3. /\ admin' = NoSave /\ UNCHANGED <<streak, pref, task, site, turns, misses>>
      /\ breaker' = breaker \/ breaker' = [s \in Srcs |-> Rested]
  BY DEF ConfirmSource
<1>4. admin' \in Admin /\ AdminShape'
  BY <1>0, <1>3, SourcesAssumption DEF Admin, AdminShape, NoSave, NoRef, RefType, None
<1>5. turns' \in 0..MaxTurns  BY <1>0, <1>3 DEF Typed, TypeOK
<1>6. \A t \in Srcs : row'[t].state = row[t].state \/ row'[t].state # "needs_refresh"
  BY <1>1, <1>2
<1> QED  BY <1>2, <1>3, <1>4, <1>5, <1>6, AdminKeeps

LEMMA TimeKeeps ==
  ASSUME Inv, NEW s \in Srcs, WindowEnds(s) \/ MemoryLapses(s) \/ Shock(s)
  PROVE  Inv'
<1>0. Typed /\ Accounted  BY DEF Inv
<1>1. UNCHANGED <<row, streak, task, admin, misses>>
  BY DEF WindowEnds, MemoryLapses, Shock, mem
<1>2. /\ breaker' \in [Srcs -> [fails : 0..CoolOff, open : BOOLEAN]] /\ BreakerShape'
      /\ \A t \in Srcs : breaker'[t].fails = breaker[t].fails
  <2>1. breaker \in [Srcs -> [fails : 0..CoolOff, open : BOOLEAN]] /\ BreakerShape
    BY <1>0 DEF Typed, TypeOK
  <2>2. CASE breaker' = breaker  BY <2>1, <2>2 DEF BreakerShape
  <2>3. CASE breaker' = [breaker EXCEPT ![s].open = FALSE]
    <3>1. \A t \in Srcs : breaker'[t].fails = breaker[t].fails
                          /\ (breaker'[t].open => breaker[t].open)
      BY <2>1, <2>3
    <3>2. breaker' \in [Srcs -> [fails : 0..CoolOff, open : BOOLEAN]]  BY <2>1, <2>3
    <3> QED  BY <2>1, <3>1, <3>2 DEF BreakerShape
  <2> QED  BY <2>2, <2>3 DEF WindowEnds, MemoryLapses, Shock, mem
<1>3. pref' \in [Srcs -> BOOLEAN]
  BY <1>0 DEF WindowEnds, MemoryLapses, Shock, mem, Typed, TypeOK
<1>4. turns' \in 0..MaxTurns
  BY <1>0, TurnTyped DEF WindowEnds, MemoryLapses, Shock, Typed, TypeOK
<1>5. site' \in [Srcs -> Site]
  <2>1. site \in [Srcs -> Site] /\ site[s] \in Site  BY <1>0 DEF Typed
  <2>2. CASE site' = site  BY <2>1, <2>2
  <2>3. CASE Shock(s)
    <3>0. Addresses(s) \subseteq {"main", "alt"}  BY DEF Addresses
    <3>1. \A up \in SUBSET {"main", "alt"} : [site[s] EXCEPT !.up = up] \in Site  BY <2>1 DEF Site
    <3>2. site[s].good < MaxMaterial => [site[s] EXCEPT !.good = site[s].good + 1] \in Site
      BY <2>1, SourcesAssumption DEF Site
    <3>3. [site[s] EXCEPT !.alt = ~site[s].alt] \in Site  BY <2>1 DEF Site
    <3>4. [site[s] EXCEPT !.entitled = ~site[s].entitled] \in Site  BY <2>1 DEF Site
    <3>5. site[s].up \in SUBSET {"main", "alt"}  BY <2>1 DEF Site
    <3>6. \E x \in Site : site' = [site EXCEPT ![s] = x]
      <4>1. CASE \E a \in Addresses(s) :
                   site' = [site EXCEPT ![s].up = IF a \in @ THEN @ \ {a} ELSE @ \cup {a}]
        <5>1. PICK a \in Addresses(s) :
                   site' = [site EXCEPT ![s].up = IF a \in @ THEN @ \ {a} ELSE @ \cup {a}]
          BY <4>1
        <5> DEFINE up == IF a \in site[s].up THEN site[s].up \ {a} ELSE site[s].up \cup {a}
        <5>2. up \in SUBSET {"main", "alt"}  BY <3>0, <3>5
        <5>3. site' = [site EXCEPT ![s] = [site[s] EXCEPT !.up = up]]  BY <2>1, <5>1
        <5> HIDE DEF up
        <5> QED  BY <3>1, <5>2, <5>3
      <4>2. CASE site[s].good < MaxMaterial /\ site' = [site EXCEPT ![s].good = @ + 1]
        BY <2>1, <3>2, <4>2
      <4>3. CASE site' = [site EXCEPT ![s].alt = ~@]  BY <2>1, <3>3, <4>3
      <4>4. CASE site' = [site EXCEPT ![s].entitled = ~@]  BY <2>1, <3>4, <4>4
      <4> QED  BY <2>3, <4>1, <4>2, <4>3, <4>4 DEF Shock
    <3> QED  BY <2>1, <3>6
  <2> QED  BY <2>2, <2>3 DEF WindowEnds, MemoryLapses
<1>6. TypeOK'  BY <1>0, <1>1, <1>2, <1>3, <1>4 DEF Typed, TypeOK
<1>7. Typed'  BY <1>0, <1>1, <1>2, <1>5, <1>6 DEF Typed, TaskShape, AdminShape
<1>8. Accounted'  BY <1>0, <1>1, <1>2, <1>7, CalmKeepsAccounted
<1> QED  BY <1>7, <1>8 DEF Inv

LEMMA IdleTasks ==
  ASSUME NEW k, k = [c \in Tasks |-> Idle]
  PROVE  k \in [Tasks -> Task] /\ \A c \in Tasks, s \in Srcs : k[c].at[s] = "out"
BY SourcesAssumption DEF Task, Idle, Phases, NoRef, RefType, None

LEMMA NoSaveTyped == NoSave \in Admin /\ NoSave.step = "idle"
BY SourcesAssumption DEF Admin, NoSave, NoRef, RefType, None

LEMMA RestartKeeps == ASSUME Inv, Restart PROVE Inv'
<1>0. Typed /\ Accounted  BY DEF Inv
<1>1. /\ streak' = [s \in Srcs |-> 0] /\ breaker' = [s \in Srcs |-> Rested]
      /\ pref' = [s \in Srcs |-> FALSE]
      /\ task' = [c \in Tasks |-> Idle] /\ admin' = NoSave
      /\ UNCHANGED <<row, site, misses>>
  BY DEF Restart
<1>2. task' \in [Tasks -> Task] /\ TaskShape'
  <2>1. task' \in [Tasks -> Task] /\ \A c \in Tasks, s \in Srcs : task'[c].at[s] = "out"
    BY <1>1, IdleTasks
  <2> QED  BY <2>1 DEF TaskShape
<1>3. breaker' \in [Srcs -> [fails : 0..CoolOff, open : BOOLEAN]] /\ BreakerShape'
      /\ \A s \in Srcs : breaker'[s].fails = 0
  BY <1>1, RestedType DEF BreakerShape
<1>4. turns' \in 0..MaxTurns  BY <1>0, TurnTyped DEF Restart
<1>5. admin' \in Admin /\ AdminShape' /\ admin'.step \in {"idle", "store", "state"}
  BY <1>1, NoSaveTyped DEF AdminShape
<1>6. TypeOK'  BY <1>0, <1>1, <1>2, <1>3, <1>4, <1>5, SourcesAssumption DEF Typed, TypeOK, Task
<1>7. Typed'  BY <1>0, <1>1, <1>2, <1>3, <1>5, <1>6 DEF Typed
<1>8. \A s \in Srcs : streak'[s] = 0  BY <1>1
<1>9. Accounted'  BY <1>0, <1>1, <1>3, <1>7, <1>8, CalmKeepsAccounted
<1> QED  BY <1>7, <1>9 DEF Inv

LEMMA InitInv == Init => Inv
<1> SUFFICES ASSUME Init PROVE Inv  OBVIOUS
<1>1. RowsOK(row) /\ \A s \in Srcs : row[s].state # "needs_refresh"
  <2>1. \A s \in Srcs : row[s] \in {NoRow, Stored(s, IF s \in Zar THEN "own" ELSE "no")}
    BY DEF Init
  <2>2. \A s \in Srcs : \A m \in {"own", "no"} :
          Stored(s, m) \in Row /\ Stored(s, m).state = "active" /\ Stored(s, m).on
    BY SourcesAssumption DEF Stored, Row, KindOf
  <2>3. ASSUME NEW s \in Srcs
        PROVE  /\ row[s] \in Row /\ row[s].state # "needs_refresh"
               /\ row[s].state = "absent" <=> ~row[s].on /\ row[s].with = None
    <3>1. CASE row[s] = NoRow  BY <3>1, NoRowTyped
    <3>2. CASE row[s] = Stored(s, IF s \in Zar THEN "own" ELSE "no")  BY <2>2, <3>2
    <3> QED  BY <2>1, <3>1, <3>2
  <2>4. row \in [Srcs -> {NoRow} \cup {Stored(t, m) : t \in Srcs, m \in {"no", "own"}}]
    BY DEF Init
  <2>5. row \in [Srcs -> Row]  BY <2>3, <2>4
  <2> QED  BY <2>3, <2>5 DEF RowsOK
<1>2. task \in [Tasks -> Task] /\ TaskShape /\ \A c \in Tasks, s \in Srcs : task[c].at[s] = "out"
  <2>1. task \in [Tasks -> Task] /\ \A c \in Tasks, s \in Srcs : task[c].at[s] = "out"
    BY IdleTasks DEF Init
  <2> QED  BY <2>1 DEF TaskShape
<1>3. breaker \in [Srcs -> [fails : 0..CoolOff, open : BOOLEAN]] /\ BreakerShape
      /\ \A s \in Srcs : breaker[s].fails = 0
  BY RestedType DEF Init, BreakerShape
<1>4. admin \in Admin /\ AdminShape /\ admin.step \in {"idle", "store", "state"}
  BY NoSaveTyped DEF Init, AdminShape
<1>5. site \in [Srcs -> Site]
  BY SourcesAssumption DEF Init, Site, Addresses
<1>6. TypeOK
  BY <1>1, <1>2, <1>3, <1>4, SourcesAssumption DEF Init, TypeOK, RowsOK, Task
<1>7. Typed  BY <1>2, <1>3, <1>4, <1>5, <1>6 DEF Typed
<1>8. ASSUME NEW s \in Srcs PROVE Unharmed(s)
  <2>1. Unreported(s) = {}  BY <1>2 DEF Unreported
  <2>2. streak[s] = 0 /\ misses[s] = 0  BY DEF Init
  <2>3. IsFiniteSet(Unreported(s)) /\ Cardinality(Unreported(s)) = 0  BY <2>1, FS_EmptySet
  <2> QED  BY <1>1, <1>2, <1>3, <2>2, <2>3 DEF Unharmed
<1> QED  BY <1>7, <1>8 DEF Inv, Accounted

LEMMA NextKeepsInv == Inv /\ [Next]_vars => Inv'
<1> SUFFICES ASSUME Inv, [Next]_vars PROVE Inv'  OBVIOUS
<1>1. CASE \E c \in Calls : StartSearch(c) \/ StartTitle(c) \/ Abandon(c) \/ Serve(c)
  BY <1>1, StartSearchKeeps, StartTitleKeeps, AbandonKeeps, ServeKeeps DEF Tasks
<1>2. CASE StartKeep \/ Serve(Keeper)  BY <1>2, StartKeepKeeps, ServeKeeps DEF Tasks
<1>3. CASE OldSave \/ OldRemove \/ StoreSource \/ ConfirmSource
  BY <1>3, OldSaveKeeps, RemovalsKeep, StoreSourceKeeps, ConfirmSourceKeeps
<1>4. CASE \E s \in Srcs : AddSource(s) \/ ChangeSource(s) \/ RemoveSource(s)
                           \/ WindowEnds(s) \/ MemoryLapses(s) \/ Shock(s)
  BY <1>4, AddSourceKeeps, ChangeSourceKeeps, RemovalsKeep, TimeKeeps
<1>5. CASE Restart  BY <1>5, RestartKeeps
<1>6. CASE UNCHANGED vars
  BY <1>6 DEF vars, mem, Inv, Typed, TypeOK, TaskShape, AdminShape, BreakerShape, Accounted,
              Unharmed, Unreported
<1> QED  BY <1>1, <1>2, <1>3, <1>4, <1>5, <1>6 DEF Next

LEMMA InvHolds == Spec => []Inv
BY InitInv, NextKeepsInv, PTL DEF Spec

\* Rows, counters, requests and their material keep their types, however calls, saves and
\* restarts interleave (source_handlers.go, source_multi.go).
THEOREM TypeCorrect == Spec => []TypeOK
<1>1. Inv => TypeOK  BY DEF Inv, Typed
<1> QED  BY <1>1, InvHolds, PTL

(***************************************************************************)
(* No source reaches "needs refresh" without as many failed calls of its   *)
(* own as the threshold asks for, whatever is reported late, about whom,   *)
(* or while the source is being spared (noteSourceFailure, searchSources). *)
(***************************************************************************)
THEOREM CondemnationIsEarned == Spec => []CondemnedHasFailed
<1>1. Inv => CondemnedHasFailed
  <2> SUFFICES ASSUME Inv, NEW s \in Srcs, row[s].state = "needs_refresh"
               PROVE  misses[s] >= FailThreshold
    BY DEF CondemnedHasFailed
  <2>1. misses[s] = FailThreshold  BY DEF Inv, Accounted, Unharmed
  <2> QED  BY <2>1, SourcesAssumption
<1> QED  BY <1>1, InvHolds, PTL

-----------------------------------------------------------------------------
(***************************************************************************)
(* The words of the sources (CatalogWords).  Every source honours its own  *)
(* words, and what one key joins has one meaning; so a translation says    *)
(* what was chosen, or nothing.                                            *)
(***************************************************************************)
ReadType == [genres : SUBSET Genres, form : BOOLEAN, slugs : BOOLEAN, read : BOOLEAN]

AllWords ==
  {"30nama", "zarfilm", "any"} \X (Genres \cup NamaTypes \cup NamaSorts \cup Facets)

LEMMA WordParts ==
  ASSUME NEW a, NEW b, NEW m, NEW n
  PROVE  /\ Meaning(Word(a, m)) = m
         /\ Word(a, m) = Word(b, n) => a = b /\ m = n
BY DEF Word, Meaning

\* A site's own label for a genre is nobody's slug.
LEMMA LabelsAreNoSlugs ==
  ASSUME NEW s, NEW g \in Genres  PROVE Word(KindOf(s), g) \notin Genres
BY WordsAssumption DEF Word, KindOf

LEMMA OptionParts ==
  ASSUME NEW w, NEW k  PROVE Option(w, k).word = w /\ Option(w, k).key = k
BY DEF Option

\* The options of each facet, by kind of source.
LEMMA TypeOptions ==
  ASSUME NEW s \in Srcs, NEW r \in ReadType, NEW o \in Options(s, r, "type")
  PROVE  \/ s \in Nama /\ \E m \in NamaTypes : o = Option(Word(KindOf(s), m), m)
         \/ s \notin Nama /\ \E m \in ZarTypes : o = Option(Word("any", m), m)
BY DEF Options, NamaOptions, ZarOptions

LEMMA GenreOptions ==
  ASSUME NEW s \in Srcs, NEW r \in ReadType, NEW o \in Options(s, r, "genre")
  PROVE  \E g \in Genres :
           o = Option(Word(KindOf(s), g), IF s \in Nama THEN g ELSE GenreKey(s, r, g))
BY DEF Options, NamaOptions, ZarOptions, ReadType

LEMMA PlainOptions ==
  ASSUME NEW s \in Srcs, NEW r \in ReadType, NEW f \in {"channel", "age"}, NEW o \in Options(s, r, f)
  PROVE  s \in Nama /\ o = Option(Word(KindOf(s), f), f)
BY DEF Options, NamaOptions, ZarOptions

LEMMA SortOptions ==
  ASSUME NEW s \in Srcs, NEW r \in ReadType, NEW o \in Options(s, r, "sort")
  PROVE  \/ s \in Nama /\ \E m \in NamaSorts : o = Option(Word("any", m), m)
         \/ s \notin Nama /\ \E m \in ZarOrders : o = Option(Word("any", m), m)
BY DEF Options, NamaOptions, ZarOptions

LEMMA WordIsAWord ==
  ASSUME NEW k \in {"30nama", "zarfilm", "any"},
         NEW m \in Genres \cup NamaTypes \cup NamaSorts \cup Facets
  PROVE  Word(k, m) \in AllWords
BY Zenon DEF AllWords, Word

LEMMA OptionWords ==
  ASSUME NEW s \in Srcs, NEW r \in ReadType, NEW f \in Facets, NEW o \in Options(s, r, f)
  PROVE  o.word \in AllWords
<1> DEFINE M == Genres \cup NamaTypes \cup NamaSorts \cup Facets
<1>0. KindOf(s) \in {"30nama", "zarfilm", "any"}  BY DEF KindOf
<1>1. ZarTypes \subseteq NamaTypes /\ ZarOrders \subseteq NamaSorts
  BY DEF ZarTypes, NamaTypes, ZarOrders, NamaSorts
<1>2. \E k \in {KindOf(s), "any"}, m \in M : o.word = Word(k, m)
  <2>1. CASE f = "type"  BY <2>1, <1>1, TypeOptions, OptionParts
  <2>2. CASE f = "genre"  BY <2>2, GenreOptions, OptionParts
  <2>3. CASE f \in {"channel", "age"}  BY <2>3, PlainOptions, OptionParts
  <2>4. CASE f = "sort"  BY <2>4, <1>1, SortOptions, OptionParts
  <2> QED  BY <2>1, <2>2, <2>3, <2>4 DEF Facets
<1>3. PICK k \in {KindOf(s), "any"}, m \in M : o.word = Word(k, m)  BY <1>2
<1>4. k \in {"30nama", "zarfilm", "any"}  BY <1>0, <1>3
<1> QED  BY <1>3, <1>4, WordIsAWord

\* A source honours its own words.
LEMMA OwnWordsAreHonoured ==
  ASSUME NEW s \in Srcs, NEW r \in ReadType, NEW f \in Facets, NEW o \in Options(s, r, f)
  PROVE  Honoured(s, f, o.word, FALSE)
<1> USE OptionParts, WordParts DEF Honoured, NamaHonours, ZarHonours
<1>1. CASE f = "type"
  BY <1>1, TypeOptions DEF NamaTakes, ZarTakes, TypeParam
<1>2. CASE f = "genre"
  BY <1>2, GenreOptions DEF NamaTakes, ZarTakes
<1>3. CASE f \in {"channel", "age"}
  BY <1>3, PlainOptions DEF NamaTakes
<1>4. CASE f = "sort"
  BY <1>4, SortOptions DEF NamaTakes, ZarTakes, OrderbyField
<1> QED  BY <1>1, <1>2, <1>3, <1>4 DEF Facets

\* What one key joins means one thing.
LEMMA KeysHaveOneMeaning ==
  ASSUME NEW s \in Srcs, NEW t \in Srcs, NEW r \in ReadType, NEW q \in ReadType,
         NEW f \in Facets, Translated(f),
         NEW o \in Options(s, r, f), NEW p \in Options(t, q, f), o.key = p.key
  PROVE  Meaning(o.word) = Meaning(p.word)
<1> USE OptionParts, WordParts
<1>1. CASE f = "type"  BY <1>1, TypeOptions
<1>2. CASE f = "genre"
  <2>1. PICK g \in Genres :
          o = Option(Word(KindOf(s), g), IF s \in Nama THEN g ELSE GenreKey(s, r, g))
    BY <1>2, GenreOptions
  <2>2. PICK h \in Genres :
          p = Option(Word(KindOf(t), h), IF t \in Nama THEN h ELSE GenreKey(t, q, h))
    BY <1>2, GenreOptions
  <2>3. o.key \in {g, Word(KindOf(s), g)} /\ p.key \in {h, Word(KindOf(t), h)}
    BY <2>1, <2>2 DEF GenreKey
  <2>4. g = h  BY <2>3, LabelsAreNoSlugs
  <2> QED  BY <2>1, <2>2, <2>4
<1>3. CASE f = "channel"  BY <1>3, PlainOptions
<1> QED  BY <1>1, <1>2, <1>3 DEF Facets, Translated

LEMMA FirstIsOne == ASSUME NEW S, S # {} PROVE First(S) \in S
BY DEF First

\* The key of a word somebody knows is the key of somebody's option.
LEMMA KeyIsAnOptions ==
  ASSUME NEW sel, NEW got, NEW f, NEW w, Recognised(sel, got, f, w)
  PROVE  \E t \in sel : \E p \in Options(t, got[t], f) : p.word = w /\ KeyOf(sel, got, f, w) = p.key
<1> DEFINE K == {x \in sel : w \in Words(Options(x, got[x], f))}
           t == First(K)
           p == CHOOSE o \in Options(t, got[t], f) : o.word = w
<1>1. K # {}  BY DEF Recognised
<1>2. t \in K  BY <1>1, FirstIsOne
<1>3. t \in sel /\ w \in Words(Options(t, got[t], f))  BY <1>2
<1>4. \E o \in Options(t, got[t], f) : o.word = w  BY <1>3 DEF Words
<1>5. p \in Options(t, got[t], f) /\ p.word = w  BY <1>4
<1>6. KeyOf(sel, got, f, w) = p.key  BY DEF KeyOf
<1> QED  BY <1>3, <1>5, <1>6

\* A translation of what somebody knows says just that, in words the source honours.
LEMMA TranslationIsTrue ==
  ASSUME NEW sel \in SUBSET Srcs, NEW got \in [Srcs -> ReadType], NEW s \in sel,
         ~Raw(s, sel, got), NEW f \in Facets, Translated(f),
         NEW w, Recognised(sel, got, f, w), NEW v \in Spoken(s, sel, got, f, w)
  PROVE  Meaning(v) = Meaning(w) /\ Honoured(s, f, v, FALSE)
<1>1. PICK t \in sel : \E p \in Options(t, got[t], f) :
        p.word = w /\ KeyOf(sel, got, f, w) = p.key
  BY KeyIsAnOptions
<1>2. PICK p \in Options(t, got[t], f) : p.word = w /\ KeyOf(sel, got, f, w) = p.key
  BY <1>1
<1>3. PICK o \in Options(s, got[s], f) : o.word = v /\ o.key = p.key
  BY <1>2 DEF Spoken, Counterparts
<1>4. got[s] \in ReadType /\ got[t] \in ReadType /\ s \in Srcs /\ t \in Srcs  OBVIOUS
<1>5. o \in Options(s, got[s], f) /\ p \in Options(t, got[t], f) /\ o.key = p.key
  BY <1>2, <1>3
<1>6. Meaning(o.word) = Meaning(p.word)  BY <1>4, <1>5, KeysHaveOneMeaning
<1>7. Honoured(s, f, o.word, FALSE)  BY <1>3, <1>4, OwnWordsAreHonoured, Zenon
<1> QED  BY <1>2, <1>3, <1>6, <1>7

-----------------------------------------------------------------------------
\* The sheet: a word on it is translated for everybody, or honoured as it is.

LEMMA SheetOption ==
  ASSUME NEW sel, sel # {}, NEW got, NEW f \in Facets, NEW w \in Sheet(sel, got)[f]
  PROVE  \E a \in sel : \E o \in Options(a, got[a], f) :
           o.word = w /\ \A s \in sel : o.key \in Keys(Options(s, got[s], f))
BY FirstIsOne DEF Sheet, Words, Shared

LEMMA SheetIsTranslated ==
  ASSUME NEW sel \in SUBSET Srcs, sel # {}, NEW got \in [Srcs -> ReadType],
         NEW f \in Facets, Translated(f), NEW w \in Sheet(sel, got)[f], NEW s \in sel
  PROVE  Recognised(sel, got, f, w) /\ Counterparts(s, sel, got, f, w) # {}
<1>1. PICK a \in sel : \E o \in Options(a, got[a], f) :
        o.word = w /\ \A x \in sel : o.key \in Keys(Options(x, got[x], f))
  BY SheetOption
<1>2. PICK o \in Options(a, got[a], f) :
        o.word = w /\ \A x \in sel : o.key \in Keys(Options(x, got[x], f))
  BY <1>1
<1>3. Recognised(sel, got, f, w)  BY <1>2 DEF Recognised, Words
<1>4. PICK t \in sel : \E p \in Options(t, got[t], f) :
        p.word = w /\ KeyOf(sel, got, f, w) = p.key
  BY <1>3, KeyIsAnOptions
<1>5. PICK p \in Options(t, got[t], f) : p.word = w /\ KeyOf(sel, got, f, w) = p.key
  BY <1>4
<1>6. got[a] \in ReadType /\ got[t] \in ReadType /\ a \in Srcs /\ t \in Srcs  OBVIOUS
<1>7. p.key = o.key
  <2> USE OptionParts, WordParts
  <2>1. CASE f = "type"  BY <2>1, <1>2, <1>5, <1>6, TypeOptions
  <2>2. CASE f = "genre"
    <3>1. PICK g \in Genres :
            o = Option(Word(KindOf(a), g), IF a \in Nama THEN g ELSE GenreKey(a, got[a], g))
      BY <2>2, <1>6, GenreOptions
    <3>2. PICK h \in Genres :
            p = Option(Word(KindOf(t), h), IF t \in Nama THEN h ELSE GenreKey(t, got[t], h))
      BY <2>2, <1>6, GenreOptions
    <3>3. g = h /\ KindOf(a) = KindOf(t)  BY <1>2, <1>5, <3>1, <3>2
    <3>4. a \in Nama <=> t \in Nama  BY <3>3 DEF KindOf
    <3>5. PICK q \in Options(t, got[t], f) : q.key = o.key  BY <1>2 DEF Keys
    <3>6. PICK k \in Genres :
            q = Option(Word(KindOf(t), k), IF t \in Nama THEN k ELSE GenreKey(t, got[t], k))
      BY <2>2, <3>5, <1>6, GenreOptions
    <3>7. CASE t \in Nama  BY <3>1, <3>2, <3>3, <3>4, <3>7
    <3>8. CASE t \notin Nama
      <4>1. o.key = GenreKey(a, got[a], g) /\ p.key = GenreKey(t, got[t], g)
            /\ o.key = GenreKey(t, got[t], k)
        BY <3>1, <3>2, <3>3, <3>4, <3>5, <3>6, <3>8
      <4>2. CASE got[t].slugs
        <5>1. p.key = g /\ o.key = k  BY <4>1, <4>2 DEF GenreKey
        <5>2. o.key \in {g, Word(KindOf(a), g)}  BY <4>1 DEF GenreKey
        <5> QED  BY <5>1, <5>2, LabelsAreNoSlugs
      <4>3. CASE ~got[t].slugs
        <5>1. p.key = Word(KindOf(t), g) /\ o.key = Word(KindOf(t), k)  BY <4>1, <4>3 DEF GenreKey
        <5>2. o.key \in {g, Word(KindOf(t), g)}  BY <4>1, <3>3 DEF GenreKey
        <5> QED  BY <5>1, <5>2, LabelsAreNoSlugs
      <4> QED  BY <4>2, <4>3
    <3> QED  BY <3>7, <3>8
  <2>3. CASE f = "channel"  BY <2>3, <1>6, PlainOptions
  <2> QED  BY <2>1, <2>2, <2>3 DEF Facets, Translated
<1>8. PICK x \in Options(s, got[s], f) : x.key = o.key  BY <1>2 DEF Keys
<1> QED  BY <1>3, <1>5, <1>7, <1>8 DEF Counterparts

LEMMA SheetIsHonoured ==
  ASSUME NEW sel \in SUBSET Srcs, sel # {}, NEW got \in [Srcs -> ReadType],
         NEW f \in Facets, ~Translated(f), NEW w \in Sheet(sel, got)[f], NEW s \in sel
  PROVE  Honoured(s, f, w, FALSE)
<1>1. PICK a \in sel : \E o \in Options(a, got[a], f) :
        o.word = w /\ \A x \in sel : o.key \in Keys(Options(x, got[x], f))
  BY SheetOption
<1>2. PICK o \in Options(a, got[a], f) :
        o.word = w /\ \A x \in sel : o.key \in Keys(Options(x, got[x], f))
  BY <1>1
<1>3. PICK p \in Options(s, got[s], f) : p.key = o.key  BY <1>2 DEF Keys
<1>4. got[a] \in ReadType /\ got[s] \in ReadType /\ a \in Srcs /\ s \in Srcs  OBVIOUS
<1>5. p.word = w
  <2> USE OptionParts
  <2>1. CASE f = "sort"  BY <2>1, <1>2, <1>3, <1>4, SortOptions
  <2>2. CASE f = "age"  BY <2>2, <1>2, <1>3, <1>4, PlainOptions DEF KindOf
  <2> QED  BY <2>1, <2>2 DEF Translated
<1> QED  BY <1>4, <1>5, OwnWordsAreHonoured

-----------------------------------------------------------------------------
(***************************************************************************)
(* Browsing (Catalog): a sheet that was read from every selected source is *)
(* the sheet of those readings, whatever the sites and the caches have     *)
(* become since.                                                           *)
(***************************************************************************)
CONSTANT MaxPage

VARIABLES offered, caps, changes

C == INSTANCE Catalog WITH site <- offered, turns <- changes

\* What its requests read and show is what CatalogWords says.
LEMMA SameSources == C!Srcs = Srcs
BY DEF C!Srcs, Srcs

LEMMA SameWords == \A a, m : C!Word(a, m) = Word(a, m)
BY DEF C!Word, Word

LEMMA SameOption == \A w, k : C!Option(w, k) = Option(w, k)
BY DEF C!Option, Option

LEMMA SameOptions == \A s, r, f : C!Options(s, r, f) = Options(s, r, f)
<1> USE SameWords, SameOption
<1>1. \A s : C!KindOf(s) = KindOf(s)  BY DEF C!KindOf, KindOf
<1>2. \A s, r, f : C!NamaOptions(s, r, f) = NamaOptions(s, r, f)
  BY <1>1 DEF C!NamaOptions, NamaOptions, C!NamaTypes, NamaTypes, C!NamaSorts, NamaSorts
<1>3. \A s, r, g : C!GenreKey(s, r, g) = GenreKey(s, r, g)
  BY <1>1 DEF C!GenreKey, GenreKey
<1>4. \A s, r, f : C!ZarOptions(s, r, f) = ZarOptions(s, r, f)
  BY <1>1, <1>3 DEF C!ZarOptions, ZarOptions, C!ZarTypes, ZarTypes, C!ZarOrders, ZarOrders
<1> QED  BY <1>2, <1>4 DEF C!Options, Options

LEMMA SameFirst == \A known : C!First(known) = First(known)
BY DEF C!First, First

LEMMA SameSheet == \A known, got : C!Sheet(known, got) = Sheet(known, got)
<1> USE SameOptions, SameFirst
<1>1. \A opts : C!Keys(opts) = Keys(opts) /\ C!Words(opts) = Words(opts)
  BY DEF C!Keys, Keys, C!Words, Words
<1>2. \A known, got, f : C!Shared(known, got, f) = Shared(known, got, f)
  BY <1>1 DEF C!Shared, Shared
<1> QED  BY <1>1, <1>2 DEF C!Sheet, Sheet, C!Facets, Facets

AskType ==
  [kind : {"none", "sheet", "search"}, sel : SUBSET Srcs, left : SUBSET Srcs, calling : BOOLEAN,
   answer : ReadType, got : [Srcs -> ReadType], switch : BOOLEAN]

ViewType ==
  [sel : C!Selections, sheet : [Facets -> SUBSET AllWords], held : [Facets -> SUBSET AllWords],
   basis : [Srcs -> ReadType]]

BrowseTypes ==
  /\ offered \in [Srcs -> SUBSET Genres] /\ caps \in [Srcs -> ReadType] /\ changes \in 0..MaxTurns
  /\ ask \in [Users -> AskType] /\ view \in [Users -> ViewType]

\* A request has read only sources it selected, and is with one of those it has left.
AskShape(u) ==
  /\ ask[u].left \subseteq ask[u].sel
  /\ ask[u].calling => ask[u].left # {}
  /\ \A s \in Srcs : ask[u].got[s].read => s \in ask[u].sel

Basis(u) == {s \in Srcs : view[u].basis[s].read}

\* A sheet with a basis is the sheet of what was read for it.
SheetShape(u) == Basis(u) = {} \/ view[u].sheet = Sheet(Basis(u), view[u].basis)

BrowseInv == BrowseTypes /\ \A u \in Users : AskShape(u) /\ SheetShape(u)

LEMMA UnreadIsAReading == Unread \in ReadType /\ ~Unread.read
BY DEF Unread, ReadType

LEMMA SameUnread == C!Unread = Unread
BY DEF C!Unread, Unread

LEMMA SheetOfWords ==
  ASSUME NEW sel \in SUBSET Srcs, sel # {}, NEW got \in [Srcs -> ReadType]
  PROVE  Sheet(sel, got) \in [Facets -> SUBSET AllWords]
<1> SUFFICES ASSUME NEW f \in Facets PROVE Words(Shared(sel, got, f)) \subseteq AllWords
  BY DEF Sheet
<1>1. First(sel) \in sel  BY FirstIsOne
<1>2. First(sel) \in Srcs /\ got[First(sel)] \in ReadType  BY <1>1
<1>3. Shared(sel, got, f) \subseteq Options(First(sel), got[First(sel)], f)  BY DEF Shared
<1>4. \A o \in Options(First(sel), got[First(sel)], f) : o.word \in AllWords
  BY <1>2, OptionWords
<1> QED  BY <1>3, <1>4 DEF Words

LEMMA ReadsAreReadings ==
  ASSUME offered \in [Srcs -> SUBSET Genres], NEW s \in Srcs  PROVE C!Reads(s) \subseteq ReadType
<1>1. \A g \in SUBSET Genres : \A form, slugs \in BOOLEAN : C!Read(g, form, slugs) \in ReadType
  BY DEF C!Read, ReadType
<1>2. C!NamaReads(s) \subseteq ReadType
  BY <1>1, SameUnread, UnreadIsAReading DEF C!NamaReads
<1>3. \A a \in C!AdvancedForm(s) : a.genres \in SUBSET Genres /\ a.form \in BOOLEAN
  <2> SUFFICES ASSUME NEW a \in C!AdvancedForm(s)
               PROVE  a.genres \in SUBSET Genres /\ a.form \in BOOLEAN
    OBVIOUS
  <2>1. \/ a = [genres |-> {}, form |-> FALSE]
        \/ a = [genres |-> offered[s], form |-> TRUE]
    BY DEF C!AdvancedForm
  <2>2. a.form = FALSE \/ a.form = TRUE  BY <2>1
  <2>3. a.form \in BOOLEAN  BY <2>2, Zenon
  <2>4. a.genres \in SUBSET Genres  BY <2>1
  <2> QED  BY <2>3, <2>4, Zenon
<1>4. C!ZarReads(s) \subseteq ReadType
  <2> SUFFICES ASSUME NEW a \in C!AdvancedForm(s), NEW slugs \in BOOLEAN
               PROVE  C!Read(a.genres, a.form, a.form /\ slugs) \in ReadType
    BY DEF C!ZarReads, C!GenreSlugs
  <2>1. (a.form /\ slugs) \in BOOLEAN  OBVIOUS
  <2> QED  BY <1>1, <1>3, <2>1, Zenon
<1> QED  BY <1>2, <1>4 DEF C!Reads

LEMMA SelectedMany ==
  ASSUME NEW sel \in SUBSET Srcs, Cardinality(sel) > 1  PROVE ~(Cardinality(sel) < 2)
<1>1. Cardinality(sel) \in Nat  BY KindsAssumption, FS_Subset, FS_CardinalityType
<1> QED  BY <1>1

LEMMA QuietIsAsked == C!Quiet \in AskType
BY UnreadIsAReading, SameUnread, SameSources DEF C!Quiet, AskType

LEMMA RequestIsAsked ==
  ASSUME NEW kind \in {"sheet", "search"}, NEW sel \in SUBSET Srcs, NEW switch \in BOOLEAN
  PROVE  /\ C!Request(kind, sel, switch) =
              [kind |-> kind, sel |-> sel, left |-> sel, calling |-> FALSE, answer |-> Unread,
               got |-> [s \in Srcs |-> Unread], switch |-> switch]
         /\ C!Request(kind, sel, switch) \in AskType
<1>1. C!Request(kind, sel, switch) =
        [kind |-> kind, sel |-> sel, left |-> sel, calling |-> FALSE, answer |-> Unread,
         got |-> [s \in Srcs |-> Unread], switch |-> switch]
  <2>1. C!Quiet = [kind |-> "none", sel |-> {}, left |-> {}, calling |-> FALSE, answer |-> Unread,
                   got |-> [s \in Srcs |-> Unread], switch |-> FALSE]
    BY SameUnread, SameSources DEF C!Quiet
  <2> DEFINE q == C!Quiet
  <2>2. C!Request(kind, sel, switch) =
          [q EXCEPT !.kind = kind, !.sel = sel, !.left = sel, !.switch = switch]
    BY DEF C!Request
  <2>3. q = [kind |-> "none", sel |-> {}, left |-> {}, calling |-> FALSE, answer |-> Unread,
             got |-> [s \in Srcs |-> Unread], switch |-> FALSE]
    BY <2>1
  <2> HIDE DEF q
  <2> QED  BY <2>2, <2>3
<1> QED  BY <1>1, UnreadIsAReading DEF AskType

LEMMA BrowseInit == C!Init => BrowseInv
<1> SUFFICES ASSUME C!Init PROVE BrowseInv  OBVIOUS
<1> USE SameUnread, SameSources, UnreadIsAReading DEF C!Init
<1>1. C!NoSheet \in [Facets -> SUBSET AllWords] /\ C!NoFilters \in [Facets -> SUBSET AllWords]
  BY DEF C!NoSheet, C!NoFilters, C!Facets, Facets
<1>2. C!Quiet.got = [s \in Srcs |-> Unread] /\ C!Quiet.left = {} /\ C!Quiet.calling = FALSE
  BY DEF C!Quiet
<1>3. Srcs \in C!Selections  BY DEF C!Selections
<1>4. BrowseTypes
  <2>1. offered \in [Srcs -> SUBSET Genres] /\ caps \in [Srcs -> ReadType]  OBVIOUS
  <2>2. changes \in 0..MaxTurns  BY SourcesAssumption
  <2>3. ask \in [Users -> AskType]  BY QuietIsAsked
  <2>4. [sel |-> Srcs, sheet |-> C!NoSheet, held |-> C!NoFilters, basis |-> C!Quiet.got] \in ViewType
    BY <1>1, <1>2, <1>3 DEF ViewType
  <2>5. view \in [Users -> ViewType]  BY <2>4
  <2> QED  BY <2>1, <2>2, <2>3, <2>5 DEF BrowseTypes
<1>5. ASSUME NEW u \in Users PROVE AskShape(u) /\ SheetShape(u)
  <2>1. ask[u] = C!Quiet /\ view[u].basis = C!Quiet.got  OBVIOUS
  <2> QED  BY <1>2, <2>1 DEF AskShape, SheetShape, Basis
<1> QED  BY <1>4, <1>5 DEF BrowseInv

\* The step leaves what the requests hold and what the views show.
LEMMA BrowseQuiet ==
  ASSUME BrowseInv, UNCHANGED <<ask, view>>,
         offered' \in [Srcs -> SUBSET Genres], caps' \in [Srcs -> ReadType], changes' \in 0..MaxTurns
  PROVE  BrowseInv'
BY DEF BrowseInv, BrowseTypes, AskShape, SheetShape, Basis

\* The step writes one request and no view.
LEMMA AskWritten ==
  ASSUME BrowseInv, NEW u \in Users, NEW a \in AskType, ask' = [ask EXCEPT ![u] = a],
         a.left \subseteq a.sel, a.calling => a.left # {},
         \A s \in Srcs : a.got[s].read => s \in a.sel,
         UNCHANGED <<offered, view, changes>>, caps' \in [Srcs -> ReadType]
  PROVE  BrowseInv'
<1>1. BrowseTypes'  BY DEF BrowseInv, BrowseTypes
<1>2. ASSUME NEW v \in Users PROVE AskShape(v)' /\ SheetShape(v)'
  <2>1. ask'[v] = IF v = u THEN a ELSE ask[v]  BY DEF BrowseInv, BrowseTypes
  <2>2. AskShape(v) /\ SheetShape(v)  BY DEF BrowseInv
  <2> QED  BY <2>1, <2>2 DEF AskShape, SheetShape, Basis
<1> QED  BY <1>1, <1>2 DEF BrowseInv

LEMMA BrowseStep == BrowseInv /\ [C!Next]_(C!vars) => BrowseInv'
<1> SUFFICES ASSUME BrowseInv, [C!Next]_(C!vars) PROVE BrowseInv'  OBVIOUS
<1> USE SameSources, SameUnread
<1>t. BrowseTypes  BY DEF BrowseInv
<1>0. /\ offered \in [Srcs -> SUBSET Genres] /\ caps \in [Srcs -> ReadType] /\ changes \in 0..MaxTurns
      /\ ask \in [Users -> AskType] /\ view \in [Users -> ViewType]
  BY <1>t DEF BrowseTypes
<1>s. \A u \in Users : AskShape(u) /\ SheetShape(u)  BY DEF BrowseInv
<1>1. ASSUME NEW u \in Users, C!OpenSheet(u) PROVE BrowseInv'
  <2>1. PICK sel \in C!Selections :
          /\ ask'  = [ask EXCEPT ![u] = C!Request("sheet", sel, sel # view[u].sel)]
          /\ view' = [view EXCEPT ![u].sel = sel]
    BY <1>1 DEF C!OpenSheet
  <2>2. sel \in SUBSET Srcs  BY DEF C!Selections
  <2> DEFINE a == C!Request("sheet", sel, sel # view[u].sel)
  <2>3. a \in AskType /\ a.left = sel /\ a.sel = sel /\ a.calling = FALSE
        /\ a.got = [s \in Srcs |-> Unread]
    <3>1. (sel # view[u].sel) \in BOOLEAN  OBVIOUS
    <3>2. /\ a = [kind |-> "sheet", sel |-> sel, left |-> sel, calling |-> FALSE, answer |-> Unread,
                  got |-> [s \in Srcs |-> Unread], switch |-> sel # view[u].sel]
          /\ a \in AskType
      BY <2>2, <3>1, RequestIsAsked
    <3> HIDE DEF a
    <3> QED  BY <3>2
  <2> HIDE DEF a
  <2>4. ask' = [ask EXCEPT ![u] = a]  BY <2>1 DEF a
  <2>5. BrowseTypes'
    <3>1. ask' \in [Users -> AskType]  BY <1>0, <2>3, <2>4
    <3>2. view' \in [Users -> ViewType]  BY <1>0, <2>1 DEF ViewType
    <3> QED  BY <1>0, <1>1, <3>1, <3>2 DEF BrowseTypes, C!OpenSheet
  <2>6. ASSUME NEW v \in Users PROVE AskShape(v)' /\ SheetShape(v)'
    <3>1. ask'[v] = IF v = u THEN a ELSE ask[v]  BY <1>0, <2>4
    <3>2. view'[v].basis = view[v].basis /\ view'[v].sheet = view[v].sheet
      BY <1>0, <2>1 DEF ViewType
    <3>3. AskShape(v)'  BY <1>s, <2>3, <3>1, UnreadIsAReading DEF AskShape
    <3>4. SheetShape(v)'  BY <1>s, <3>2 DEF SheetShape, Basis
    <3> QED  BY <3>3, <3>4
  <2> QED  BY <2>5, <2>6 DEF BrowseInv
<1>2. ASSUME NEW u \in Users, C!OpenSearch(u) PROVE BrowseInv'
  <2> DEFINE b == C!Request("search", view[u].sel, FALSE)
             a == IF C!Cardinality(view[u].sel) < 2 THEN [b EXCEPT !.left = {}] ELSE b
  <2>1. view[u].sel \in SUBSET Srcs  BY <1>0 DEF ViewType, C!Selections
  <2>2. b \in AskType /\ b.left = view[u].sel /\ b.sel = view[u].sel /\ b.calling = FALSE
        /\ b.got = [s \in Srcs |-> Unread]
    <3>1. /\ b = [kind |-> "search", sel |-> view[u].sel, left |-> view[u].sel, calling |-> FALSE,
                  answer |-> Unread, got |-> [s \in Srcs |-> Unread], switch |-> FALSE]
          /\ b \in AskType
      BY <2>1, RequestIsAsked
    <3> HIDE DEF b
    <3> QED  BY <3>1
  <2>3. ask' = [ask EXCEPT ![u] = a] /\ UNCHANGED <<offered, caps, view, changes>>
    BY <1>2 DEF C!OpenSearch
  <2> HIDE DEF b
  <2>4. a \in AskType /\ a.left \subseteq a.sel /\ a.calling = FALSE
        /\ a.got = [s \in Srcs |-> Unread]
    BY <2>2 DEF AskType
  <2> HIDE DEF a
  <2> QED  BY <1>0, <2>3, <2>4, AskWritten, UnreadIsAReading
<1>3. ASSUME NEW u \in Users, C!TakeCached(u) PROVE BrowseInv'
  <2> DEFINE s == C!First(ask[u].left)
             a == [ask[u] EXCEPT !.got[s] = caps[s], !.left = @ \ {s}]
  <2>1. s \in ask[u].left  BY <1>3, SameFirst, FirstIsOne DEF C!TakeCached
  <2>2. ask[u] \in AskType /\ s \in Srcs /\ s \in ask[u].sel /\ caps[s] \in ReadType
    BY <1>0, <1>s, <2>1 DEF AskType, AskShape
  <2>3. ask' = [ask EXCEPT ![u] = a] /\ UNCHANGED <<offered, caps, view, changes>>
    BY <1>3, <1>0 DEF C!TakeCached
  <2>4. ~ask[u].calling  BY <1>3 DEF C!TakeCached
  <2> HIDE DEF s
  <2>5. a \in AskType /\ a.left = ask[u].left \ {s} /\ a.sel = ask[u].sel
        /\ a.calling = ask[u].calling /\ a.got = [ask[u].got EXCEPT ![s] = caps[s]]
    BY <2>2 DEF AskType
  <2> HIDE DEF a
  <2>6. \A x \in Srcs : a.got[x].read => x \in a.sel
    BY <1>s, <2>2, <2>5 DEF AskShape, AskType
  <2> QED  BY <1>0, <1>s, <2>3, <2>4, <2>5, <2>6, AskWritten DEF AskShape
<1>4. ASSUME NEW u \in Users, C!AskSource(u) PROVE BrowseInv'
  <2> DEFINE s == C!First(ask[u].left)
  <2>1. s \in ask[u].left  BY <1>4, SameFirst, FirstIsOne DEF C!AskSource
  <2>2. ask[u] \in AskType /\ s \in Srcs  BY <1>0, <1>s, <2>1 DEF AskType, AskShape
  <2>3. PICK r \in C!Reads(s) : ask' = [ask EXCEPT ![u].calling = TRUE, ![u].answer = r]
    BY <1>4 DEF C!AskSource
  <2> HIDE DEF s
  <2>4. r \in ReadType  BY <1>0, <2>2, ReadsAreReadings
  <2> DEFINE a == [ask[u] EXCEPT !.calling = TRUE, !.answer = r]
  <2>5. ask' = [ask EXCEPT ![u] = a] /\ UNCHANGED <<offered, caps, view, changes>>
    BY <1>4, <1>0, <2>3 DEF C!AskSource
  <2>6. a \in AskType /\ a.left = ask[u].left /\ a.sel = ask[u].sel /\ a.got = ask[u].got
    BY <2>2, <2>4 DEF AskType
  <2> HIDE DEF a
  <2> QED  BY <1>0, <1>s, <2>1, <2>5, <2>6, AskWritten DEF AskShape
<1>5. ASSUME NEW u \in Users, C!TakeAnswer(u) PROVE BrowseInv'
  <2> DEFINE s == C!First(ask[u].left)
             a == [ask[u] EXCEPT !.calling = FALSE, !.answer = Unread,
                                 !.got[s] = ask[u].answer, !.left = @ \ {s}]
  <2>0. ask[u].left # {}  BY <1>5, <1>s DEF C!TakeAnswer, AskShape
  <2>1. s \in ask[u].left  BY <2>0, SameFirst, FirstIsOne
  <2>2. ask[u] \in AskType /\ s \in Srcs /\ s \in ask[u].sel /\ ask[u].answer \in ReadType
    BY <1>0, <1>s, <2>1 DEF AskType, AskShape
  <2>3. ask' = [ask EXCEPT ![u] = a] /\ UNCHANGED <<offered, view, changes>>
    BY <1>5, <1>0 DEF C!TakeAnswer
  <2>4. caps' = C!CacheAnswer(s, ask[u].answer)  BY <1>5 DEF C!TakeAnswer
  <2> HIDE DEF s
  <2>5. caps' \in [Srcs -> ReadType]  BY <1>0, <2>2, <2>4 DEF C!CacheAnswer
  <2>6. a \in AskType /\ a.left = ask[u].left \ {s} /\ a.sel = ask[u].sel
        /\ a.calling = FALSE /\ a.got = [ask[u].got EXCEPT ![s] = ask[u].answer]
    BY <2>2, UnreadIsAReading DEF AskType
  <2> HIDE DEF a
  <2>7. \A x \in Srcs : a.got[x].read => x \in a.sel
    BY <1>s, <2>2, <2>6 DEF AskShape, AskType
  <2> QED  BY <1>0, <1>s, <2>3, <2>5, <2>6, <2>7, AskWritten DEF AskShape
<1>6. ASSUME NEW u \in Users, C!ShowSheet(u) PROVE BrowseInv'
  <2> DEFINE known == Known(ask[u].sel, ask[u].got)
             sheet == IF known = {} THEN view[u].sheet ELSE Sheet(known, ask[u].got)
             held  == C!Reconciled(view[u].held, sheet)
             kept  == IF ask[u].switch THEN C!Dropped(held, sheet) ELSE held
             basis == IF known = ask[u].sel THEN ask[u].got ELSE [s \in Srcs |-> Unread]
  <2>1. C!Known(ask[u].sel, ask[u].got) = known  BY DEF C!Known, Known
  <2>2. /\ view' = [view EXCEPT ![u].sheet = sheet, ![u].held = kept, ![u].basis = basis]
        /\ ask' = [ask EXCEPT ![u] = C!Quiet]
        /\ UNCHANGED <<offered, caps, changes>>
    BY <1>6, <2>1, SameSheet DEF C!ShowSheet
  <2>3. ask[u] \in AskType /\ view[u] \in ViewType /\ known \in SUBSET Srcs
    BY <1>0 DEF AskType, Known
  <2>4. sheet \in [Facets -> SUBSET AllWords]
    BY <2>3, SheetOfWords DEF ViewType, AskType
  <2>5. held \in [Facets -> SUBSET AllWords]
    <3> HIDE DEF sheet
    <3> QED  BY <2>3, <2>4 DEF C!Reconciled, ViewType, Facets
  <2>6. kept \in [Facets -> SUBSET AllWords]
    <3> HIDE DEF sheet, held
    <3> QED  BY <2>4, <2>5 DEF C!Dropped, C!Facets, Facets
  <2>7. basis \in [Srcs -> ReadType]  BY <2>3, UnreadIsAReading DEF AskType
  <2>8. {s \in Srcs : basis[s].read} = {} \/ sheet = Sheet({s \in Srcs : basis[s].read}, basis)
    <3>1. CASE known # ask[u].sel  BY <3>1, UnreadIsAReading
    <3>2. CASE known = ask[u].sel
      <4>1. basis = ask[u].got  BY <3>2
      <4>2. {s \in Srcs : ask[u].got[s].read} = known
        BY <3>2, <1>s, <2>3 DEF AskShape, Known, AskType
      <4> QED  BY <4>1, <4>2
    <3> QED  BY <3>1, <3>2
  <2> HIDE DEF sheet, held, kept, basis, known
  <2>9. BrowseTypes'
    BY <1>0, <2>2, <2>3, <2>4, <2>6, <2>7, QuietIsAsked DEF BrowseTypes, ViewType
  <2>10. ASSUME NEW v \in Users PROVE AskShape(v)' /\ SheetShape(v)'
    <3>1. ask'[v] = IF v = u THEN C!Quiet ELSE ask[v]  BY <1>0, <2>2
    <3>2. C!Quiet.left = {} /\ C!Quiet.calling = FALSE /\ C!Quiet.got = [s \in Srcs |-> Unread]
      BY DEF C!Quiet
    <3>3. AskShape(v)'  BY <1>s, <3>1, <3>2, UnreadIsAReading DEF AskShape
    <3>4. SheetShape(v)'
      <4>1. CASE v = u
        <5>1. view'[v].sheet = sheet /\ view'[v].basis = basis  BY <1>0, <2>2, <4>1 DEF ViewType
        <5> QED  BY <2>8, <5>1 DEF SheetShape, Basis
      <4>2. CASE v # u
        <5>1. view'[v] = view[v]  BY <1>0, <2>2, <4>2
        <5> QED  BY <1>s, <5>1 DEF SheetShape, Basis
      <4> QED  BY <4>1, <4>2
    <3> QED  BY <3>3, <3>4
  <2> QED  BY <2>9, <2>10 DEF BrowseInv
<1>7. ASSUME NEW u \in Users, C!Search(u) PROVE BrowseInv'
  <2>1. ask' = [ask EXCEPT ![u] = C!Quiet] /\ UNCHANGED <<offered, caps, view, changes>>
    BY <1>7 DEF C!Search
  <2>2. C!Quiet.left = {} /\ C!Quiet.calling = FALSE /\ C!Quiet.got = [s \in Srcs |-> Unread]
    BY DEF C!Quiet
  <2> QED  BY <1>0, <2>1, <2>2, QuietIsAsked, AskWritten, UnreadIsAReading
<1>8. ASSUME NEW u \in Users, C!Choose(u) PROVE BrowseInv'
  <2>1. PICK f \in Facets : \E ws \in SUBSET view[u].sheet[f] :
          view' = [view EXCEPT ![u].held =
            IF f = "sort" THEN [@ EXCEPT !["sort"] = ws]
            ELSE [C!NoFilters EXCEPT ![f] = ws, !["sort"] = view[u].held["sort"]]]
    BY <1>8 DEF C!Choose, C!Facets, Facets
  <2>2. PICK ws \in SUBSET view[u].sheet[f] :
          view' = [view EXCEPT ![u].held =
            IF f = "sort" THEN [@ EXCEPT !["sort"] = ws]
            ELSE [C!NoFilters EXCEPT ![f] = ws, !["sort"] = view[u].held["sort"]]]
    BY <2>1
  <2> DEFINE held == IF f = "sort" THEN [view[u].held EXCEPT !["sort"] = ws]
                     ELSE [C!NoFilters EXCEPT ![f] = ws, !["sort"] = view[u].held["sort"]]
  <2>3. view[u] \in ViewType  BY <1>0
  <2>4. ws \subseteq AllWords  BY <2>3 DEF ViewType
  <2>5. C!NoFilters \in [Facets -> SUBSET AllWords]  BY DEF C!NoFilters, C!Facets, Facets
  <2>6. "sort" \in Facets  BY DEF Facets
  <2>7. held \in [Facets -> SUBSET AllWords]  BY <2>3, <2>4, <2>5, <2>6 DEF ViewType
  <2>8. view' = [view EXCEPT ![u] = [view[u] EXCEPT !.held = held]]  BY <1>0, <2>2
  <2> HIDE DEF held
  <2>9. UNCHANGED <<offered, caps, ask, changes>>  BY <1>8 DEF C!Choose
  <2>10. BrowseTypes'  BY <1>0, <2>3, <2>7, <2>8, <2>9 DEF BrowseTypes, ViewType
  <2>11. ASSUME NEW v \in Users PROVE AskShape(v)' /\ SheetShape(v)'
    <3>1. view'[v].sheet = view[v].sheet /\ view'[v].basis = view[v].basis
      BY <1>0, <2>3, <2>8 DEF ViewType
    <3> QED  BY <1>s, <2>9, <3>1 DEF AskShape, SheetShape, Basis
  <2> QED  BY <2>10, <2>11 DEF BrowseInv
<1>9. ASSUME NEW s \in Srcs, C!Revise(s) \/ C!GrowOld(s) PROVE BrowseInv'
  <2>1. UNCHANGED <<ask, view>> /\ changes' = changes + 1 /\ changes < MaxTurns
    BY <1>9 DEF C!Revise, C!GrowOld, C!Turn
  <2>2. changes' \in 0..MaxTurns  BY <1>0, <2>1, SourcesAssumption
  <2>3. offered' \in [Srcs -> SUBSET Genres] /\ caps' \in [Srcs -> ReadType]
    BY <1>0, <1>9, UnreadIsAReading DEF C!Revise, C!GrowOld
  <2> QED  BY <2>1, <2>2, <2>3, BrowseQuiet
<1>10. ASSUME C!Restart PROVE BrowseInv'
  <2>1. /\ caps' = [s \in Srcs |-> Unread] /\ ask' = [u \in Users |-> C!Quiet]
        /\ UNCHANGED <<offered, view>> /\ changes' = changes + 1 /\ changes < MaxTurns
    BY <1>10 DEF C!Restart, C!Turn
  <2>2. changes' \in 0..MaxTurns  BY <1>0, <2>1, SourcesAssumption
  <2>3. BrowseTypes'  BY <1>0, <2>1, <2>2, QuietIsAsked, UnreadIsAReading DEF BrowseTypes
  <2>4. C!Quiet.left = {} /\ C!Quiet.calling = FALSE /\ C!Quiet.got = [s \in Srcs |-> Unread]
    BY DEF C!Quiet
  <2>5. ASSUME NEW v \in Users PROVE AskShape(v)' /\ SheetShape(v)'
    BY <1>s, <2>1, <2>4, UnreadIsAReading DEF AskShape, SheetShape, Basis
  <2> QED  BY <2>3, <2>5 DEF BrowseInv
<1>11. ASSUME UNCHANGED C!vars PROVE BrowseInv'
  BY <1>0, <1>11, BrowseQuiet DEF C!vars
<1> QED
  BY <1>1, <1>2, <1>3, <1>4, <1>5, <1>6, <1>7, <1>8, <1>9, <1>10, <1>11 DEF C!Next

LEMMA BrowseHolds == C!Spec => []BrowseInv
BY BrowseInit, BrowseStep, PTL DEF C!Spec

-----------------------------------------------------------------------------
\* Browsing keeps its types: readings, requests, views and what is cached (source_caps.go).
THEOREM CatalogTypes == C!Spec => []C!TypeOK
<1>1. BrowseInv => C!TypeOK
  <2> SUFFICES ASSUME BrowseInv PROVE C!TypeOK  OBVIOUS
  <2>1. /\ offered \in [Srcs -> SUBSET Genres] /\ caps \in [Srcs -> ReadType]
        /\ changes \in 0..MaxTurns /\ ask \in [Users -> AskType] /\ view \in [Users -> ViewType]
    BY DEF BrowseInv, BrowseTypes
  <2>2. \A s \in Srcs : caps[s].genres \subseteq Genres /\ caps[s].form \in BOOLEAN
    BY <2>1 DEF ReadType
  <2>3. \A u \in Users :
          /\ ask[u].kind \in {"none", "sheet", "search"} /\ ask[u].left \subseteq ask[u].sel
          /\ ask[u].calling => ask[u].left # {}
          /\ view[u].sel \in C!Selections
    BY <2>1 DEF BrowseInv, AskShape, AskType, ViewType
  <2> QED  BY <2>1, <2>2, <2>3, SameSources DEF C!TypeOK
<1> QED  BY <1>1, BrowseHolds, PTL

(***************************************************************************)
(* No source pours its whole catalog into a filtered view, for any number  *)
(* of sources of either kind, whatever has grown old or half failed        *)
(* (perSourceFilters and mapValues, source_caps.go).                       *)
(***************************************************************************)
THEOREM NothingIsPoured == C!Spec => []NeverPoured
<1>1. BrowseInv => NeverPoured
  <2> SUFFICES ASSUME BrowseInv, NEW u \in Users, Searching(u), Cardinality(ask[u].sel) > 1,
                      NEW s \in Known(ask[u].sel, ask[u].got) \ Skipped(u),
                      NEW p \in Chosen(view[u].held), Translated(p[1]),
                      Recognised(ask[u].sel, ask[u].got, p[1], p[2])
               PROVE  <<p[1], Meaning(p[2])>> \in AnswerOf(u, s, FALSE)
    BY DEF NeverPoured
  <2> DEFINE sel == ask[u].sel
             got == ask[u].got
             spoken == Spoken(s, sel, got, p[1], p[2])
  <2>1. ask[u] \in AskType  BY DEF BrowseInv, BrowseTypes
  <2>2. sel \in SUBSET Srcs /\ got \in [Srcs -> ReadType] /\ s \in sel /\ got[s].read
    BY <2>1 DEF AskType, Known
  <2>3. p[1] \in Facets  BY DEF Chosen
  <2>4. ~Raw(s, sel, got)
    <3>1. ~(Cardinality(sel) < 2)  BY <2>2, SelectedMany
    <3> QED  BY <2>2, <3>1 DEF Raw
  <2>5. spoken # {}  BY <2>2 DEF Skipped, Unsupported
  <2>6. PICK v \in spoken : TRUE  BY <2>5
  <2>7. Meaning(v) = Meaning(p[2]) /\ Honoured(s, p[1], v, FALSE)
    BY <2>2, <2>3, <2>4, <2>6, TranslationIsTrue
  <2> DEFINE Heard(q) == {<<q[1], Meaning(w)>> :
                w \in {x \in Spoken(s, sel, got, q[1], q[2]) : Honoured(s, q[1], x, FALSE)}}
  <2>8. AnswerOf(u, s, FALSE) = UNION {Heard(q) : q \in Chosen(view[u].held)}
    BY DEF AnswerOf, Narrowed
  <2>9. <<p[1], Meaning(v)>> \in Heard(p)  BY <2>6, <2>7
  <2> HIDE DEF Heard
  <2>10. <<p[1], Meaning(v)>> \in AnswerOf(u, s, FALSE)  BY <2>8, <2>9, Zenon
  <2> QED  BY <2>7, <2>10
<1> QED  BY <1>1, BrowseHolds, PTL

(***************************************************************************)
(* A choice made on a sheet that every source spoke for reaches every one  *)
(* of them and narrows each answer by exactly what was chosen              *)
(* (IntersectParameters and mapValues).                                    *)
(***************************************************************************)
THEOREM ChoicesResolve == C!Spec => []SheetResolves
<1>1. BrowseInv => SheetResolves
  <2> SUFFICES ASSUME BrowseInv, NEW u \in Users, Searching(u),
                      Known(ask[u].sel, ask[u].got) = ask[u].sel, Cardinality(ask[u].sel) > 1,
                      view[u].basis = ask[u].got,
                      \A f \in Facets : view[u].held[f] \subseteq view[u].sheet[f]
               PROVE  /\ Skipped(u) = {}
                      /\ \A s \in ask[u].sel : AnswerOf(u, s, FALSE) = Meanings(view[u].held)
    BY DEF SheetResolves
  <2> DEFINE sel  == ask[u].sel
             got  == ask[u].got
             held == view[u].held
             Said(s, f, w) == Spoken(s, sel, got, f, w)
  <2>1. ask[u] \in AskType /\ view[u] \in ViewType /\ AskShape(u) /\ SheetShape(u)
    BY DEF BrowseInv, BrowseTypes
  <2>2. sel \in SUBSET Srcs /\ got \in [Srcs -> ReadType]  BY <2>1 DEF AskType
  <2>3. \A s \in sel : got[s].read  BY DEF Known
  <2>4. sel # {}  BY FS_EmptySet
  <2>5. Basis(u) = sel  BY <2>1, <2>2, <2>3 DEF Basis, AskShape
  <2>6. view[u].sheet = Sheet(sel, got)  BY <2>1, <2>4, <2>5 DEF SheetShape
  <2>7. ~(Cardinality(sel) < 2)  BY <2>2, SelectedMany
  <2>8. \A s \in sel : ~Raw(s, sel, got)  BY <2>3, <2>7 DEF Raw
  <2>9. ASSUME NEW s \in sel, NEW f \in Facets, NEW w \in held[f]
        PROVE  /\ Said(s, f, w) # {}
               /\ \A v \in Said(s, f, w) : Meaning(v) = Meaning(w) /\ Honoured(s, f, v, FALSE)
    <3>1. w \in Sheet(sel, got)[f]  BY <2>6
    <3> HIDE DEF sel, got, held
    <3>2. CASE Translated(f)
      <4>1. Recognised(sel, got, f, w) /\ Counterparts(s, sel, got, f, w) # {}
        BY <2>2, <2>4, <3>1, <3>2, SheetIsTranslated
      <4>2. Said(s, f, w) # {}  BY <2>8, <3>2, <4>1 DEF Spoken
      <4>3. \A v \in Said(s, f, w) : Meaning(v) = Meaning(w) /\ Honoured(s, f, v, FALSE)
        BY <2>2, <2>8, <3>2, <4>1, TranslationIsTrue
      <4> QED  BY <4>2, <4>3
    <3>3. CASE ~Translated(f)
      <4>1. Said(s, f, w) = {w}  BY <3>3 DEF Spoken
      <4>2. Honoured(s, f, w, FALSE)  BY <2>2, <2>4, <3>1, <3>3, SheetIsHonoured
      <4> QED  BY <4>1, <4>2
    <3> QED  BY <3>2, <3>3
  <2>10. Skipped(u) = {}
    <3> SUFFICES ASSUME NEW s \in sel, NEW p \in Chosen(held)
                 PROVE  Said(s, p[1], p[2]) # {}
      BY DEF Skipped, Unsupported
    <3>1. p[1] \in Facets /\ p[2] \in held[p[1]]  BY DEF Chosen
    <3> HIDE DEF sel, held, Said
    <3> QED  BY <2>9, <3>1
  <2>11. ASSUME NEW s \in sel PROVE AnswerOf(u, s, FALSE) = Meanings(held)
    <3> DEFINE Heard(p) == {<<p[1], Meaning(v)>> :
                              v \in {x \in Said(s, p[1], p[2]) : Honoured(s, p[1], x, FALSE)}}
    <3>1. AnswerOf(u, s, FALSE) = UNION {Heard(p) : p \in Chosen(held)}
      BY DEF AnswerOf, Narrowed
    <3>2. ASSUME NEW p \in Chosen(held) PROVE Heard(p) = {<<p[1], Meaning(p[2])>>}
      <4>1. p[1] \in Facets /\ p[2] \in held[p[1]]  BY DEF Chosen
      <4>2. /\ Said(s, p[1], p[2]) # {}
            /\ \A v \in Said(s, p[1], p[2]) :
                 Meaning(v) = Meaning(p[2]) /\ Honoured(s, p[1], v, FALSE)
        <5> HIDE DEF sel, held, Said
        <5> QED  BY <2>9, <4>1
      <4> HIDE DEF Said
      <4> QED  BY <4>2
    <3> DEFINE S == Chosen(held)
               E(p) == <<p[1], Meaning(p[2])>>
    <3>3. \A p \in S : Heard(p) = {E(p)}  BY <3>2
    <3>4. AnswerOf(u, s, FALSE) = UNION {Heard(p) : p \in S}  BY <3>1
    <3>5. Meanings(held) = {E(p) : p \in S}  BY DEF Meanings
    <3> HIDE DEF Heard, E, S
    <3>6. \A x : x \in UNION {Heard(p) : p \in S} <=> x \in {E(p) : p \in S}
      <4>1. ASSUME NEW p \in S, NEW x \in Heard(p) PROVE x \in {E(q) : q \in S}
        <5>1. x = E(p)  BY <3>3, <4>1
        <5> QED  BY <5>1
      <4>2. ASSUME NEW p \in S PROVE E(p) \in UNION {Heard(q) : q \in S}
        <5>1. E(p) \in Heard(p)  BY <3>3
        <5> QED  BY <5>1
      <4> QED  BY <4>1, <4>2
    <3>7. UNION {Heard(p) : p \in S} = {E(p) : p \in S}  BY <3>6
    <3> QED  BY <3>4, <3>5, <3>7, Zenon
  <2> QED  BY <2>10, <2>11
<1> QED  BY <1>1, BrowseHolds, PTL

-----------------------------------------------------------------------------
(***************************************************************************)
(* The records of what was sent (Library): a cycle judges records it has   *)
(* read before, so what it holds of a record must not be older than the    *)
(* record, unless the title was sent again meanwhile.                      *)
(***************************************************************************)
CONSTANT Budget

VARIABLES conf, nas, loading, watched, stored, index, ev, kept, read, queue, scan, ticks

L == INSTANCE Library WITH turns <- ticks

Ages == NoRecord..(Grace + 1)

ScanType ==
  [pc : {"idle", "read", "judge"}, names : SUBSET Folders, listed : SUBSET Parents, batch : SUBSET Folders,
   left : SUBSET Folders, recs : [Folders -> Ages], pend : SUBSET Folders]

RecordTypes ==
  /\ conf \in SUBSET Parents /\ watched \in SUBSET Folders /\ loading \in SUBSET Folders
  /\ rec \in [Folders -> Ages] /\ lapse \in [Folders -> 0..Grace] /\ scan \in ScanType

\* A record's age is time in which the title was neither sent nor seen.
AgeShape == \A f \in Folders : rec[f] > 0 => lapse[f] >= rec[f] - 1

\* What a cycle has still to judge is there, and is no younger than what the cycle holds of it.
JudgeShape ==
  \A f \in scan.left :
    /\ rec[f] # NoRecord /\ scan.recs[f] # NoRecord
    /\ scan.recs[f] = 0 => rec[f] = 0
    /\ (scan.recs[f] > 0 /\ f \notin raced) => rec[f] >= scan.recs[f]

RecordInv == RecordTypes /\ AgeShape /\ JudgeShape

LEMMA GraceIsNat == Grace \in Nat /\ Grace > 0 /\ NoRecord \in Ages /\ 0 \in Ages /\ Ages \subseteq Int
BY RecordsAssumption DEF Ages, NoRecord

LEMMA SameFolders == L!Folders = Folders /\ L!NoRecord = NoRecord
BY DEF L!Folders, Folders, L!NoRecord, NoRecord

LEMMA NoScanType == L!NoScan \in ScanType /\ L!NoScan.left = {}
BY SameFolders, GraceIsNat DEF L!NoScan, ScanType

\* What is listed of the NAS are folders.
LEMMA NamesAreFolders == L!Names \in SUBSET Folders
BY SameFolders DEF L!Names, L!ListFolder

\* The step leaves the records and at most ends the cycle or moves on in its reading.
LEMMA RecordQuiet ==
  ASSUME RecordInv, UNCHANGED <<rec, lapse, raced>>, conf' \in SUBSET Parents,
         watched' \in SUBSET Folders, loading' \in SUBSET Folders, scan' \in ScanType,
         scan'.left = {} \/ (scan'.left = scan.left /\ scan'.recs = scan.recs)
  PROVE  RecordInv'
BY DEF RecordInv, RecordTypes, AgeShape, JudgeShape

\* A verdict writes one record and how long ago its title was last known to be there.
LEMMA RecordJudged ==
  ASSUME RecordInv, NEW f \in Folders, L!Judge(f)
  PROVE  \E age \in Ages, gap \in 0..Grace :
           /\ rec' = [rec EXCEPT ![f] = age] /\ lapse' = [lapse EXCEPT ![f] = gap]
           /\ age > 0 => gap >= age - 1
           /\ (age = NoRecord /\ f \notin raced) => lapse[f] >= Grace
<1> USE SameFolders, GraceIsNat
<1> DEFINE Verdict(age, gap) ==
             /\ rec' = [rec EXCEPT ![f] = age] /\ lapse' = [lapse EXCEPT ![f] = gap]
             /\ age > 0 => gap >= age - 1
             /\ (age = NoRecord /\ f \notin raced) => lapse[f] >= Grace
<1> SUFFICES \E age \in Ages, gap \in 0..Grace : Verdict(age, gap)  OBVIOUS
<1>1. /\ rec \in [Folders -> Ages] /\ lapse \in [Folders -> 0..Grace] /\ scan \in ScanType
  BY DEF RecordInv, RecordTypes
<1>2. f \in scan.left  BY DEF L!Judge
<1>3. /\ rec[f] # NoRecord /\ scan.recs[f] # NoRecord
      /\ scan.recs[f] = 0 => rec[f] = 0
      /\ (scan.recs[f] > 0 /\ f \notin raced) => rec[f] >= scan.recs[f]
      /\ rec[f] > 0 => lapse[f] >= rec[f] - 1
  BY <1>2 DEF RecordInv, JudgeShape, AgeShape
<1>4. rec[f] \in Ages /\ lapse[f] \in 0..Grace /\ scan.recs[f] \in Ages  BY <1>1 DEF ScanType
<1>5. /\ rec[f] \in Int /\ rec[f] >= 0 /\ scan.recs[f] \in Int /\ scan.recs[f] >= 0
      /\ lapse[f] \in Int /\ lapse[f] >= 0
  BY <1>3, <1>4 DEF Ages, NoRecord
<1>6. 0 # NoRecord /\ 1 # NoRecord /\ ~(NoRecord > 0) /\ 1 \in Ages /\ 0 \in 0..Grace
  BY DEF NoRecord, Ages
<1>7. CASE f \in scan.pend \/ L!StateOf(f) = "present"
  <2>1. lapse' = [lapse EXCEPT ![f] = 0]  BY <1>7 DEF L!Judge
  <2>2. rec' = [rec EXCEPT ![f] = 0]
    <3>1. CASE scan.recs[f] > 0
      <4>1. rec' = [rec EXCEPT ![f] = IF rec[f] = NoRecord THEN NoRecord ELSE 0]
        BY <1>7, <3>1 DEF L!Judge, L!ClearMissing
      <4> QED  BY <1>3, <4>1
    <3>2. CASE ~(scan.recs[f] > 0)
      <4>1. rec' = rec  BY <1>7, <3>2 DEF L!Judge
      <4>2. \A n \in Int : n >= 0 /\ ~(n > 0) => n = 0  OBVIOUS
      <4>3. scan.recs[f] = 0  BY <1>5, <3>2, <4>2
      <4> QED  BY <1>1, <1>3, <4>1, <4>3
    <3> QED  BY <3>1, <3>2
  <2>3. Verdict(0, 0)  BY <1>6, <2>1, <2>2
  <2> QED  BY <1>6, <2>3
<1>8. CASE ~(f \in scan.pend \/ L!StateOf(f) = "present")
  <2>1. lapse' = [lapse EXCEPT ![f] = IF rec'[f] = NoRecord THEN 0 ELSE @]  BY <1>8 DEF L!Judge
  <2>2. CASE rec' = rec
    <3>1. rec' = [rec EXCEPT ![f] = rec[f]] /\ lapse' = [lapse EXCEPT ![f] = lapse[f]]
      BY <1>1, <1>3, <2>1, <2>2
    <3>2. Verdict(rec[f], lapse[f])  BY <1>3, <3>1
    <3> HIDE DEF Verdict
    <3> QED  BY <1>4, <3>2
  <2>3. CASE rec' # rec
    <3>1. L!JudgeGone(f)  BY <1>8, <2>3 DEF L!Judge
    <3>2. CASE scan.recs[f] = 0
      <4>1. rec' = [rec EXCEPT ![f] = IF rec[f] = 0 THEN 1 ELSE rec[f]]
        <5>1. ~L!Due(scan.recs[f])  BY <3>2 DEF L!Due
        <5> QED  BY <3>1, <3>2, <5>1 DEF L!JudgeGone, L!MarkMissing
      <4>2. rec' = [rec EXCEPT ![f] = 1]  BY <1>3, <3>2, <4>1
      <4>3. rec'[f] = 1  BY <1>1, <4>2
      <4>4. lapse' = [lapse EXCEPT ![f] = lapse[f]]  BY <1>6, <2>1, <4>3
      <4>5. Verdict(1, lapse[f])  BY <1>5, <1>6, <4>2, <4>4
      <4> HIDE DEF Verdict
      <4> QED  BY <1>4, <1>6, <4>5
    <3>3. CASE scan.recs[f] # 0
      <4>1. scan.recs[f] > Grace /\ L!Delete(f)  BY <2>3, <3>1, <3>3 DEF L!JudgeGone, L!Due
      <4>2. rec' = [rec EXCEPT ![f] = NoRecord]  BY <4>1 DEF L!Delete
      <4>3. lapse' = [lapse EXCEPT ![f] = 0]  BY <1>1, <2>1, <4>2
      <4>4. f \notin raced => lapse[f] >= Grace
        <5>1. scan.recs[f] > 0  BY <1>5, <4>1
        <5>2. f \notin raced => rec[f] >= scan.recs[f]  BY <1>3, <5>1
        <5>3. f \notin raced => rec[f] > Grace /\ rec[f] > 0  BY <1>5, <4>1, <5>2
        <5> QED  BY <1>3, <1>5, <5>3
      <4>5. Verdict(NoRecord, 0)  BY <1>6, <4>2, <4>3, <4>4
      <4> HIDE DEF Verdict
      <4> QED  BY <1>6, <4>5
    <3> QED  BY <3>2, <3>3
  <2> QED  BY <2>2, <2>3
<1> QED  BY <1>7, <1>8

LEMMA RecordInit == L!Init => RecordInv
<1> SUFFICES ASSUME L!Init PROVE RecordInv  OBVIOUS
<1>1. /\ conf = Parents /\ watched = {} /\ loading = {}
      /\ rec = [f \in Folders |-> 0] /\ lapse = [f \in Folders |-> 0] /\ scan = L!NoScan
  BY SameFolders DEF L!Init
<1>2. RecordTypes  BY <1>1, GraceIsNat, NoScanType DEF RecordTypes
<1> QED  BY <1>1, <1>2, NoScanType DEF RecordInv, AgeShape, JudgeShape

LEMMA RecordStep == RecordInv /\ [L!Next]_(L!vars) => RecordInv'
<1> SUFFICES ASSUME RecordInv, [L!Next]_(L!vars) PROVE RecordInv'  OBVIOUS
<1> USE SameFolders, GraceIsNat
<1>t. /\ conf \in SUBSET Parents /\ watched \in SUBSET Folders /\ loading \in SUBSET Folders
      /\ rec \in [Folders -> Ages] /\ lapse \in [Folders -> 0..Grace] /\ scan \in ScanType
  BY DEF RecordInv, RecordTypes
<1>i. AgeShape /\ JudgeShape  BY DEF RecordInv
<1>p. scan.left \in SUBSET Folders /\ scan.recs \in [Folders -> Ages]  BY <1>t DEF ScanType
<1>1. ASSUME \/ L!BrowseIndex \/ L!IndexAges
             \/ \E f \in Folders : L!OwnershipOf(f) \/ L!TitleDetail(f) \/ L!EvidenceAges(f)
                                   \/ L!CreateFolder(f) \/ L!Upload(f)
             \/ L!NasChange
      PROVE RecordInv'
  <2>1. UNCHANGED <<rec, lapse, raced, conf, watched, loading, scan>>
    BY <1>1 DEF L!BrowseIndex, L!IndexAges, L!OwnershipOf, L!TitleDetail, L!EvidenceAges,
                L!CreateFolder, L!Upload, L!NasChange, L!hist, L!world
  <2> QED  BY <1>t, <2>1, RecordQuiet
<1>2. ASSUME L!Poll PROVE RecordInv'
  BY <1>t, <1>2, RecordQuiet DEF L!Poll, L!hist, L!world
<1>3. ASSUME NEW f \in Folders, L!Land(f) PROVE RecordInv'
  BY <1>t, <1>3, RecordQuiet DEF L!Land, L!hist
<1>4. ASSUME L!Configure PROVE RecordInv'
  BY <1>t, <1>4, RecordQuiet DEF L!Configure, L!hist
<1>5. ASSUME L!Restart \/ L!ScanCut PROVE RecordInv'
  BY <1>t, <1>5, RecordQuiet, NoScanType DEF L!Restart, L!ScanCut, L!hist, L!world
<1>6. ASSUME L!ScanList PROVE RecordInv'
  <2>1. UNCHANGED <<rec, lapse, raced, conf, watched, loading>>
    BY <1>6 DEF L!ScanList, L!hist, L!world
  <2>2. \/ scan' = scan
        \/ \E b \in L!Batches(L!Names) :
             scan' = [L!NoScan EXCEPT !.pc = "read", !.names = L!Names, !.listed = L!Listed,
                                       !.batch = b]
    BY <1>6 DEF L!ScanList
  <2>3. CASE scan' = scan  BY <1>t, <2>1, <2>3, RecordQuiet
  <2>4. ASSUME NEW b \in L!Batches(L!Names),
               scan' = [L!NoScan EXCEPT !.pc = "read", !.names = L!Names, !.listed = L!Listed,
                                        !.batch = b]
        PROVE RecordInv'
    <3>1. L!Listed \in SUBSET Parents  BY <1>t DEF L!Listed
    <3>2. b \in SUBSET Folders  BY NamesAreFolders DEF L!Batches
    <3>3. scan' \in ScanType /\ scan'.left = {}
      BY <2>4, <3>1, <3>2, NamesAreFolders, NoScanType DEF ScanType
    <3> QED  BY <1>t, <2>1, <3>3, RecordQuiet
  <2> QED  BY <2>2, <2>3, <2>4
<1>7. ASSUME L!ScanRead PROVE RecordInv'
  <2>1. UNCHANGED <<rec, lapse, raced, conf, watched, loading>>
    BY <1>7 DEF L!ScanRead, L!hist, L!world
  <2>2. scan' = L!NoScan \/ \E f \in scan.batch : scan' = [scan EXCEPT !.batch = @ \ {f}]
    BY <1>7 DEF L!ScanRead
  <2>3. CASE scan' = L!NoScan  BY <1>t, <2>1, <2>3, NoScanType, RecordQuiet
  <2>4. ASSUME NEW f \in scan.batch, scan' = [scan EXCEPT !.batch = @ \ {f}] PROVE RecordInv'
    <3>1. scan' \in ScanType /\ scan'.left = scan.left /\ scan'.recs = scan.recs
      BY <1>t, <2>4 DEF ScanType
    <3> QED  BY <1>t, <2>1, <3>1, RecordQuiet
  <2> QED  BY <2>2, <2>3, <2>4
<1>8. ASSUME L!Reconcile PROVE RecordInv'
  <2>1. UNCHANGED <<rec, lapse, conf, watched, loading>>  BY <1>8 DEF L!Reconcile, L!world
  <2>2. L!SourceDownloads = SourceDownloads /\ L!Unfinished = watched
    BY DEF L!SourceDownloads, SourceDownloads, L!Unfinished
  <2>3. \/ scan' = L!NoScan
        \/ scan' = [scan EXCEPT !.pc = "judge", !.left = SourceDownloads, !.recs = rec,
                                !.pend = watched]
    BY <1>8, <2>2 DEF L!Reconcile
  <2>4. scan' \in ScanType /\ (scan'.left = {} \/ (scan'.left = SourceDownloads /\ scan'.recs = rec))
    <3>1. CASE scan' = L!NoScan  BY <3>1, NoScanType
    <3>2. CASE scan' = [scan EXCEPT !.pc = "judge", !.left = SourceDownloads, !.recs = rec,
                                    !.pend = watched]
      <4>1. SourceDownloads \in SUBSET Folders  BY DEF SourceDownloads
      <4>2. scan' \in ScanType  BY <1>t, <3>2, <4>1 DEF ScanType
      <4>3. scan'.left = SourceDownloads /\ scan'.recs = rec  BY <1>t, <3>2 DEF ScanType
      <4> QED  BY <4>2, <4>3
    <3> QED  BY <2>3, <3>1, <3>2
  <2>5. RecordTypes'  BY <1>t, <2>1, <2>4 DEF RecordTypes
  <2>6. AgeShape'  BY <1>i, <2>1 DEF AgeShape
  <2>7. JudgeShape'
    <3> SUFFICES ASSUME NEW f \in scan'.left
                 PROVE  /\ rec[f] # NoRecord /\ scan'.recs[f] # NoRecord
                        /\ scan'.recs[f] = 0 => rec[f] = 0
                        /\ (scan'.recs[f] > 0 /\ f \notin raced') => rec[f] >= scan'.recs[f]
      BY <2>1 DEF JudgeShape
    <3>1. f \in Folders /\ rec[f] # NoRecord /\ scan'.recs = rec  BY <2>4 DEF SourceDownloads
    <3>2. rec[f] \in Int  BY <1>t, <3>1
    <3> QED  BY <3>1, <3>2
  <2> QED  BY <2>5, <2>6, <2>7 DEF RecordInv
<1>9. ASSUME NEW f \in Folders, L!Judge(f) PROVE RecordInv'
  <2>1. /\ f \in scan.left /\ UNCHANGED <<raced, conf, watched, loading>>
        /\ scan' = IF scan.left = {f} THEN L!NoScan ELSE [scan EXCEPT !.left = @ \ {f}]
    BY <1>9 DEF L!Judge, L!world
  <2>2. scan' \in ScanType /\ scan'.left = scan.left \ {f}
        /\ (scan'.left # {} => scan'.recs = scan.recs)
    BY <1>t, <2>1, NoScanType DEF ScanType
  <2>3. PICK age \in Ages, gap \in 0..Grace :
          /\ rec' = [rec EXCEPT ![f] = age] /\ lapse' = [lapse EXCEPT ![f] = gap]
          /\ age > 0 => gap >= age - 1
    BY <1>9, RecordJudged DEF RecordInv
  <2>4. RecordTypes'  BY <1>t, <2>1, <2>2, <2>3 DEF RecordTypes
  <2>5. AgeShape'
    <3> SUFFICES ASSUME NEW g \in Folders, rec'[g] > 0 PROVE lapse'[g] >= rec'[g] - 1
      BY DEF AgeShape
    <3>1. CASE g = f  BY <1>t, <2>3, <3>1
    <3>2. CASE g # f  BY <1>t, <1>i, <2>3, <3>2 DEF AgeShape
    <3> QED  BY <3>1, <3>2
  <2>6. JudgeShape'
    <3> SUFFICES ASSUME NEW g \in scan.left \ {f}, scan'.recs = scan.recs
                 PROVE  /\ rec'[g] # NoRecord /\ scan.recs[g] # NoRecord
                        /\ scan.recs[g] = 0 => rec'[g] = 0
                        /\ (scan.recs[g] > 0 /\ g \notin raced) => rec'[g] >= scan.recs[g]
      BY <2>1, <2>2 DEF JudgeShape
    <3>1. rec'[g] = rec[g]  BY <1>t, <1>p, <2>3
    <3> QED  BY <1>i, <3>1 DEF JudgeShape
  <2> QED  BY <2>4, <2>5, <2>6 DEF RecordInv
<1>10. ASSUME NEW f \in Folders, L!Send(f) PROVE RecordInv'
  <2>1. /\ rec' = [rec EXCEPT ![f] = 0] /\ lapse' = [lapse EXCEPT ![f] = 0]
        /\ raced' = IF f \in scan.left THEN raced \cup {f} ELSE raced
        /\ loading' = loading \cup {f} /\ UNCHANGED <<conf, watched, scan>>
    BY <1>10 DEF L!Send, L!SaveSourceDownload
  <2>2. RecordTypes'  BY <1>t, <2>1 DEF RecordTypes
  <2>3. AgeShape'  BY <1>t, <1>i, <2>1 DEF AgeShape
  <2>4. JudgeShape'
    <3> SUFFICES ASSUME NEW g \in scan.left
                 PROVE  /\ rec'[g] # NoRecord /\ scan.recs[g] # NoRecord
                        /\ scan.recs[g] = 0 => rec'[g] = 0
                        /\ (scan.recs[g] > 0 /\ g \notin raced') => rec'[g] >= scan.recs[g]
      BY <2>1 DEF JudgeShape
    <3>1. CASE g = f
      <4>1. rec'[g] = 0 /\ g \in raced'  BY <1>t, <2>1, <3>1
      <4> QED  BY <1>i, <4>1 DEF JudgeShape, NoRecord
    <3>2. CASE g # f
      <4>1. rec'[g] = rec[g] /\ (g \notin raced' => g \notin raced)  BY <1>t, <1>p, <2>1, <3>2
      <4> QED  BY <1>i, <4>1 DEF JudgeShape
    <3> QED  BY <3>1, <3>2
  <2> QED  BY <2>2, <2>3, <2>4 DEF RecordInv
<1>11. ASSUME L!Tick PROVE RecordInv'
  <2>1. /\ rec' = [f \in Folders |-> IF rec[f] \in 1..Grace THEN rec[f] + 1 ELSE rec[f]]
        /\ lapse' = [f \in Folders |->
             IF rec[f] = NoRecord \/ lapse[f] = Grace THEN lapse[f] ELSE lapse[f] + 1]
        /\ UNCHANGED <<conf, watched, loading, scan, raced>>
    BY <1>11 DEF L!Tick, L!world
  <2>2. \A f \in Folders : rec[f] \in Ages /\ lapse[f] \in 0..Grace  BY <1>t
  <2>3. RecordTypes'
    <3>1. \A f \in Folders : rec'[f] \in Ages  BY <2>1, <2>2 DEF Ages
    <3>2. \A f \in Folders : lapse'[f] \in 0..Grace  BY <2>1, <2>2
    <3> QED  BY <1>t, <2>1, <3>1, <3>2 DEF RecordTypes
  <2>4. ASSUME NEW f \in Folders, rec'[f] > 0 PROVE lapse'[f] >= rec'[f] - 1
    <3>1. rec[f] > 0  BY <2>1, <2>2, <2>4
    <3>2. lapse[f] >= rec[f] - 1  BY <1>i, <3>1 DEF AgeShape
    <3>3. rec[f] # NoRecord  BY <3>1 DEF NoRecord
    <3> QED  BY <2>1, <2>2, <3>1, <3>2, <3>3 DEF Ages
  <2>5. JudgeShape'
    <3> SUFFICES ASSUME NEW g \in scan.left
                 PROVE  /\ rec'[g] # NoRecord /\ scan.recs[g] # NoRecord
                        /\ scan.recs[g] = 0 => rec'[g] = 0
                        /\ (scan.recs[g] > 0 /\ g \notin raced) => rec'[g] >= scan.recs[g]
      BY <2>1 DEF JudgeShape
    <3>1. g \in Folders /\ rec[g] \in Int /\ scan.recs[g] \in Int  BY <1>p, <2>2
    <3>2. rec'[g] = IF rec[g] \in 1..Grace THEN rec[g] + 1 ELSE rec[g]  BY <2>1, <3>1
    <3> QED  BY <1>i, <3>1, <3>2 DEF JudgeShape, NoRecord
  <2> QED  BY <2>3, <2>4, <2>5 DEF RecordInv, AgeShape
<1>12. ASSUME UNCHANGED L!vars PROVE RecordInv'
  BY <1>t, <1>12, RecordQuiet DEF L!vars, L!hist, L!world
<1> QED
  BY <1>1, <1>2, <1>3, <1>4, <1>5, <1>6, <1>7, <1>8, <1>9, <1>10, <1>11, <1>12
     DEF L!Next, L!Cycle

LEMMA RecordsHold == L!Spec => []RecordInv
BY RecordInit, RecordStep, PTL DEF L!Spec

(***************************************************************************)
(* A record is deleted only after its title has been gone for the whole    *)
(* grace period, whatever is sent, read, timed out or restarted beside the *)
(* cycle (forgetRemovedContent, library_forget.go).                        *)
(***************************************************************************)
THEOREM RecordsAreKept == L!Spec => GraceKept
<1>1. RecordInv /\ [L!Next]_(L!vars) =>
        [\A f \in Folders : Forgets(f) /\ f \notin raced => lapse[f] >= Grace]_rec
  <2> SUFFICES ASSUME RecordInv, [L!Next]_(L!vars), NEW f \in Folders, Forgets(f), f \notin raced
               PROVE  lapse[f] >= Grace
    OBVIOUS
  <2>1. rec \in [Folders -> Ages] /\ rec'[f] # rec[f] /\ rec'[f] = NoRecord
    BY DEF RecordInv, RecordTypes, Forgets
  <2>2. \/ L!Judge(f)
        \/ \E g \in Folders : g # f /\ (L!Judge(g) \/ L!Send(g))
        \/ L!Send(f) \/ L!Tick
    BY <2>1, SameFolders
    DEF L!Next, L!Cycle, L!BrowseIndex, L!IndexAges, L!Poll, L!ScanList, L!ScanRead, L!Reconcile,
        L!ScanCut, L!OwnershipOf, L!TitleDetail, L!EvidenceAges, L!CreateFolder, L!Upload, L!Land,
        L!NasChange, L!Configure, L!Restart, L!vars
  <2>3. CASE L!Send(f)
    BY <2>1, <2>3 DEF L!Send, L!SaveSourceDownload, NoRecord
  <2>4. CASE L!Tick
    BY <2>1, <2>4, SameFolders, GraceIsNat DEF L!Tick, NoRecord
  <2>5. ASSUME NEW g \in Folders, g # f, L!Send(g) PROVE FALSE
    BY <2>1, <2>5 DEF L!Send, L!SaveSourceDownload
  <2>6. ASSUME NEW g \in Folders, g # f, L!Judge(g) PROVE FALSE
    BY <2>1, <2>6, RecordJudged
  <2>7. CASE L!Judge(f)
    <3>1. PICK age \in Ages, gap \in 0..Grace :
            /\ rec' = [rec EXCEPT ![f] = age]
            /\ (age = NoRecord /\ f \notin raced) => lapse[f] >= Grace
      BY <2>7, RecordJudged
    <3> QED  BY <2>1, <3>1
  <2> QED  BY <2>2, <2>3, <2>4, <2>5, <2>6, <2>7
<1> QED  BY <1>1, RecordsHold, PTL DEF L!Spec, GraceKept
=============================================================================
