------------------------------- MODULE Sources -------------------------------
(***************************************************************************)
(* The health of the download sources: how failing calls become "the       *)
(* session needs refreshing", how a source is spared while it fails, and   *)
(* how it comes back (api/source_handlers.go, source_multi.go,             *)
(* source_keepalive.go, source/merge.go, source/providers).                *)
(*                                                                         *)
(* A source of kind 30nama has one address; a zarfilm source may have an   *)
(* alternate one, asked when the first does not answer, and remembered for *)
(* a while once it has; it may have material of its own.  Searches fan out *)
(* over the sources they selected, a title or a send calls one, the        *)
(* keep-alive calls each; all of them work with the material they read     *)
(* when they began.  The sites, and which material they accept, are the    *)
(* environment.                                                            *)
(***************************************************************************)
EXTENDS SourceKinds, Sequences

CONSTANTS Calls,          \* requests of users at a time
          Keeper,         \* the keep-alive
          FailThreshold,  \* sourceFailThreshold
          CoolOff,        \* coolOffThreshold
          Steady,         \* bound: sources whose site never changes
          MaxMaterial,    \* bound: times a site stops accepting what it accepted
          MaxTurns        \* bound: changes at the sites and by the administrator, users who
                          \* leave, and restarts

Tasks == Calls \cup {Keeper}

\* merge.go: the second threshold MUST stay above the first.
ASSUME SourcesAssumption ==
  /\ FailThreshold \in Nat \ {0} /\ CoolOff \in Nat /\ CoolOff > FailThreshold
  /\ Keeper \notin Calls
  /\ MaxMaterial \in Nat \ {0} /\ MaxTurns \in Nat

VARIABLES
  row,     \* row[s]: the provider's row and its sealed material
  streak,  \* sourceFailStreak, counted up to FailThreshold
  breaker, \* breakers[s]: failures up to CoolOff, whether the window runs
  pref,    \* pref[s]: basePrefs holds the alternate address
  task,    \* task[c]: a request, and where it stands with each source
  admin,   \* an administrator's save in progress
  site,    \* site[s]: the environment
  turns,   \* how many of those there were
  misses   \* history: calls to s that failed, counted up to FailThreshold

mem  == <<streak, breaker, pref>>
vars == <<row, mem, task, admin, site, turns, misses>>

None  == 0                \* no material
Own   == MaxMaterial + 1  \* what the alternate address was given of its own
NoRef == [kind |-> "30nama", with |-> None, mirror |-> "no"]
Idle  == [kind |-> "idle", at |-> [s \in Srcs |-> "out"], ref |-> [s \in Srcs |-> NoRef]]
NoSave == [src |-> None, ref |-> NoRef, on |-> FALSE, step |-> "idle", to |-> "active",
           old |-> FALSE]
NoRow  == [kind |-> "30nama", state |-> "absent", on |-> FALSE, with |-> None, mirror |-> "no"]
\* A stored source; mirror: no alternate address, one that is sent the source's material, or one
\* with its own.
Stored(s, mirror) ==
  [kind |-> KindOf(s), state |-> "active", on |-> TRUE, with |-> 1, mirror |-> mirror]
Rested   == [fails |-> 0, open |-> FALSE]
Left == turns < MaxTurns
Turn == Left /\ turns' = turns + 1

Failures == {"refused", "unreachable", "skipped"}

-----------------------------------------------------------------------------
\* The drivers.

\* nama30.call: any answer but a well-formed success is a refusal.
NamaFetch(s, ref) ==
  IF "main" \notin site[s].up THEN "unreachable"
  ELSE IF ref.with = site[s].good THEN "ok" ELSE "refused"

\* zarfilm.bases: the remembered address first, the other when it does not answer.
Bases(s, ref) ==
  IF ref.mirror = "no" THEN <<"main">> ELSE IF pref[s] THEN <<"alt", "main">> ELSE <<"main", "alt">>
Answering(s, ref) ==
  LET up == SelectSeq(Bases(s, ref), LAMBDA a : a \in site[s].up)
  IN  IF up = <<>> THEN "none" ELSE Head(up)

\* Material belongs to an address: the alternate one is sent its own, if it has some.
SessionFor(a, ref) == IF a = "alt" /\ ref.mirror = "own" THEN Own ELSE ref.with

\* parseLoginState: a page says whose it is.
LoggedIn(s, a, m) ==
  IF a = "alt" THEN site[s].alt /\ m \in {Own, site[s].good} ELSE m = site[s].good

\* get: only an address that does not answer at all is passed over for the next.
GetFrom(s, a, ref) ==
  IF a = "none" THEN "unreachable"
  ELSE IF LoggedIn(s, a, SessionFor(a, ref)) THEN "ok" ELSE "refused"
ZarFetch(s, ref) == GetFrom(s, Answering(s, ref), ref)

\* A search is a form posted to the addresses in the same order, or a listing, whose page without
\* a card is a refusal when it is a visitor's.
Post(s, ref)    == ZarFetch(s, ref)
Listing(s, ref) == ZarFetch(s, ref)
ZarSearch(s, ref) == {Post(s, ref), Listing(s, ref)}

\* A title of an account that may not download is refused as unsubscribed; a search is answered.
ZarTitle(s, ref) ==
  IF ZarFetch(s, ref) = "ok" /\ ~site[s].entitled THEN "unsubscribed" ELSE ZarFetch(s, ref)

\* probeEntitlement: not being able to tell counts as entitled.
ZarEntitled(s, ref) == {TRUE} \cup IF Listing(s, ref) = "ok" THEN {site[s].entitled} ELSE {}

\* VerifySession.
NamaVerify(s, ref) == {NamaFetch(s, ref)}
ZarVerify(s, ref) ==
  IF ZarFetch(s, ref) # "ok" THEN {ZarFetch(s, ref)}
  ELSE {IF e THEN "ok" ELSE "unsubscribed" : e \in ZarEntitled(s, ref)}
Verify(s, ref) == IF ref.kind = "30nama" THEN NamaVerify(s, ref) ELSE ZarVerify(s, ref)

Answers(c, s) ==
  LET ref == task[c].ref[s] IN
  CASE task[c].kind = "keep"                                -> Verify(s, ref)
    [] task[c].kind # "keep" /\ ref.kind = "30nama"         -> {NamaFetch(s, ref)}
    [] task[c].kind = "search" /\ ref.kind = "zarfilm"      -> ZarSearch(s, ref)
    [] task[c].kind = "title" /\ ref.kind = "zarfilm"       -> {ZarTitle(s, ref)}

\* rememberWorkingBase: only an answer counts, and the main address is remembered by forgetting.
Remember(s, ref, o) ==
  IF ref.kind = "zarfilm" /\ ref.mirror # "no" /\ o \in {"ok", "unsubscribed"}
  THEN [pref EXCEPT ![s] = Answering(s, ref) = "alt"] ELSE pref

-----------------------------------------------------------------------------
Listed   == {s \in Srcs : row[s].state # "absent"}   \* ListProviders
Material(s) == row[s].with                            \* LoadProviderSession
\* sourceRefs: what can be called at all, and with what.
Callable == {s \in Listed : row[s].on /\ Material(s) # None}
Ref(s)   == [kind |-> row[s].kind, with |-> Material(s), mirror |-> row[s].mirror]

BreakerOpen(s) == breaker[s].open

\* SearchAll's first pass: a source in its window is skipped, and so is one that has no word for
\* a chosen filter.
FirstPass(s, sel, mute) ==
  IF s \notin sel THEN "out"
  ELSE IF BreakerOpen(s) THEN "skipped"
  ELSE IF s \in mute THEN "mute" ELSE "calling"

\* One source when it can be had, or else all of them.
SelectRefs(want) == IF want \in Callable THEN {want} ELSE Callable

StartSearch(c) ==
  /\ task[c] = Idle
  /\ \E want \in {None} \cup Srcs : LET sel == SelectRefs(want) IN
       /\ sel # {}
       /\ \E mute \in SUBSET sel :
            /\ Cardinality(sel) < 2 => mute = {}          \* perSourceFilters
            /\ task' = [task EXCEPT ![c] =
                 [kind |-> "search", at |-> [s \in Srcs |-> FirstPass(s, sel, mute)],
                  ref |-> [s \in Srcs |-> IF s \in sel THEN Ref(s) ELSE NoRef]]]
  /\ UNCHANGED <<row, mem, admin, site, turns, misses>>

\* A title, a send or a facet list: one source, found by the id it carries.
StartTitle(c) ==
  /\ task[c] = Idle
  /\ \E s \in Callable :
       task' = [task EXCEPT ![c] =
         [kind |-> "title", at |-> [Idle.at EXCEPT ![s] = "calling"],
          ref |-> [Idle.ref EXCEPT ![s] = Ref(s)]]]
  /\ UNCHANGED <<row, mem, admin, site, turns, misses>>

\* One round of the keep-alive: every source, with the material read at its start.
StartKeep ==
  /\ task[Keeper] = Idle /\ Callable # {}
  /\ task' = [task EXCEPT ![Keeper] =
       [kind |-> "keep", at |-> [s \in Srcs |-> IF s \in Callable THEN "calling" ELSE "out"],
        ref |-> [s \in Srcs |-> IF s \in Callable THEN Ref(s) ELSE NoRef]]]
  /\ UNCHANGED <<row, mem, admin, site, turns, misses>>

UpTo(bound, k) == IF k < bound THEN k + 1 ELSE bound

BreakerFail(s) ==
  LET f == UpTo(CoolOff, breaker[s].fails) IN [fails |-> f, open |-> f = CoolOff]

\* The keep-alive is through with one source before it calls the next; a search looks at its
\* answers when it has them all.
InTurn(c, s)   == c = Keeper => \A t \in Srcs \ {s} : task[c].at[t] \in {"out", "calling"}
Answered(c)    == c = Keeper \/ \A s \in Srcs : task[c].at[s] # "calling"

\* The driver's answer.  Only a search touches the breaker.
Return(c, s) ==
  /\ task[c].at[s] = "calling" /\ InTurn(c, s)
  /\ \E o \in Answers(c, s) :
       /\ task' = [task EXCEPT ![c].at[s] = o, ![c].ref[s] = NoRef]
       /\ pref' = Remember(s, task[c].ref[s], o)
       /\ breaker' = IF task[c].kind # "search" THEN breaker
                     ELSE IF o \in Failures THEN [breaker EXCEPT ![s] = BreakerFail(s)]
                     ELSE [breaker EXCEPT ![s] = Rested]
       /\ misses' = IF o \in Failures THEN [misses EXCEPT ![s] = UpTo(FailThreshold, @)]
                    ELSE misses
  /\ UNCHANGED <<row, streak, admin, site, turns>>

\* A user who leaves cancels the request and every call still out; each has failed.
Abandon(c) ==
  LET out == {s \in Srcs : task[c].at[s] = "calling"} IN
  /\ out # {} /\ Turn
  /\ task' = [task EXCEPT ![c].at = [s \in Srcs |-> IF s \in out THEN "unreachable" ELSE @[s]]]
  /\ breaker' = [s \in Srcs |-> IF s \in out /\ task[c].kind = "search" THEN BreakerFail(s)
                               ELSE breaker[s]]
  /\ misses' = [s \in Srcs |-> IF s \in out THEN UpTo(FailThreshold, misses[s]) ELSE misses[s]]
  /\ UNCHANGED <<row, streak, pref, admin, site>>

Goes(c, s, p) == task' = [task EXCEPT ![c].at[s] = p]
\* The request is through with s, and ends when it is through with all.
Through(c, s) ==
  task' = [task EXCEPT ![c] = IF \A t \in Srcs \ {s} : @.at[t] = "out" THEN Idle
                              ELSE [@ EXCEPT !.at[s] = "out"]]
GoesOn(c, s, more, p) == IF more THEN Goes(c, s, p) ELSE Through(c, s)

\* Which of a request's answers count: the keep-alive and a search count every failure, a title
\* only a refusal (writeSourceRuntimeErr).
Counts(c, o) == o \in Failures /\ (task[c].kind = "title" => o = "refused")

\* noteSourceFailure: at the threshold the session is to be condemned.
Note(c, s) ==
  /\ Answered(c) /\ Counts(c, task[c].at[s])
  /\ streak' = [streak EXCEPT ![s] = UpTo(FailThreshold, @)]
  /\ GoesOn(c, s, streak'[s] = FailThreshold, "condemn")
  /\ UNCHANGED <<row, breaker, pref, admin, site, turns, misses>>

\* A title that did not come for another reason is answered with an error, and that is all.
Pass(c, s) ==
  /\ task[c].kind = "title" /\ task[c].at[s] \in {"unreachable", "unsubscribed"}
  /\ Through(c, s)
  /\ UNCHANGED <<row, mem, admin, site, turns, misses>>

\* A success clears the streak.  A search then writes the state whatever it is, the keep-alive
\* when the row it reads is not active; a title never does (sourceCallOK is handed a made-up row).
\* Mutant: the keep-alive hands over a made-up row too.
RestoresBySearch(c, s) == task[c].kind = "search"
Restores(c, s) ==
  CASE task[c].kind = "search" -> TRUE
    [] task[c].kind = "keep"   -> row[s].state # "active"
    [] OTHER                   -> FALSE
Clear(c, s) ==
  /\ Answered(c) /\ task[c].at[s] = "ok"
  /\ streak' = [streak EXCEPT ![s] = 0]
  /\ GoesOn(c, s, Restores(c, s), "restore")
  /\ UNCHANGED <<row, breaker, pref, admin, site, turns, misses>>

\* Mutant: a source that could not express the filter is counted with those that failed.
NoteMute(c, s) ==
  /\ Answered(c) /\ task[c].at[s] = "mute"
  /\ streak' = [streak EXCEPT ![s] = UpTo(FailThreshold, @)]
  /\ GoesOn(c, s, streak'[s] = FailThreshold, "condemn")
  /\ UNCHANGED <<row, breaker, pref, admin, site, turns, misses>>

\* A source that could not express the filter is well.
ClearMute(c, s) ==
  /\ Answered(c) /\ task[c].at[s] = "mute"
  /\ streak' = [streak EXCEPT ![s] = 0]
  /\ Through(c, s)
  /\ UNCHANGED <<row, breaker, pref, admin, site, turns, misses>>

\* Mutant: the row is put back when it is gone.
PutStateAnyway(s, st) == row' = [row EXCEPT ![s].state = st]

\* SetProviderStateErr, which finds no row when the source was removed meanwhile.
PutState(s, st) ==
  row' = IF s \in Listed THEN [row EXCEPT ![s].state = st] ELSE row

Written(c, s) ==
  CASE task[c].at[s] = "condemn" -> "needs_refresh"
    [] task[c].at[s] = "restore" -> "active"
    [] OTHER                     -> "unsubscribed"
Write(c, s) ==
  /\ \/ task[c].at[s] \in {"condemn", "restore"}
     \/ task[c].at[s] = "unsubscribed" /\ task[c].kind = "keep" /\ Answered(c)
  /\ PutState(s, Written(c, s))
  /\ Through(c, s)
  /\ UNCHANGED <<mem, admin, site, turns, misses>>

-----------------------------------------------------------------------------
\* The administrator.  Pasted material is what the site accepts now; a save that pastes nothing
\* verifies what is stored.  Nothing is written unless it verified.

\* altSessionFrom and resolveBases: an address left out is kept, an emptied one takes its material
\* with it; material left out is kept, and emptied means the source's own is sent there too.
AltSessionFrom(posted, cur) ==
  CASE posted = "left out" -> IF cur = "own" THEN "own" ELSE "shared"
    [] posted = "emptied"  -> "shared"
    [] posted = "given"    -> "own"
ResolveBases(base, cur) == IF base = "left out" THEN cur # "no" ELSE base = "given"
Posted == {"left out", "emptied", "given"}
Mirrors(kind, cur) ==
  {IF kind = "zarfilm" /\ ResolveBases(p.base, cur) THEN AltSessionFrom(p.session, cur) ELSE "no" :
     p \in [base : Posted, session : Posted]}

\* Bound: an id that was never used, for a source of the kind.
Fresh(s) == row[s].state = "absent" /\ misses[s] = 0 /\ \A c \in Tasks : task[c].at[s] = "out"

Saving(s, ref, on, o, old) ==
  [src |-> s, ref |-> ref, on |-> on, step |-> "store", old |-> old,
   to |-> IF o = "ok" THEN "active" ELSE o]
\* CreateProvider, with no material yet.
Created(s, ref, st) ==
  [kind |-> ref.kind, state |-> st, on |-> TRUE, with |-> None, mirror |-> ref.mirror]

AddSource(s) ==
  /\ admin = NoSave /\ Turn /\ Fresh(s)
  /\ \E mirror \in Mirrors(KindOf(s), "no") :
       LET ref == [kind |-> KindOf(s), with |-> site[s].good, mirror |-> mirror] IN
       \E o \in Verify(s, ref) \cap {"ok", "unsubscribed"} :
         /\ admin' = Saving(s, ref, TRUE, o, FALSE)
         /\ row' = [row EXCEPT ![s] = Created(s, ref, admin'.to)]
  /\ UNCHANGED <<mem, task, site, misses>>

Pasted(s) == {Material(s), site[s].good} \ {None}
\* Bound: one thing is changed at a time.
Edits(s) ==
  {[ref |-> [Ref(s) EXCEPT !.with = m], on |-> row[s].on] : m \in Pasted(s)}
  \cup {[ref |-> [Ref(s) EXCEPT !.mirror = x], on |-> row[s].on] :
           x \in Mirrors(row[s].kind, row[s].mirror)}
  \cup {[ref |-> Ref(s), on |-> ~row[s].on]}
ChangeSource(s) ==
  /\ admin = NoSave /\ Turn
  /\ s \in Listed
  /\ \E e \in Edits(s) : \E o \in Verify(s, e.ref) \cap {"ok", "unsubscribed"} :
       /\ e.ref.with # None
       /\ admin' = Saving(s, e.ref, e.on, o, FALSE)
  /\ UNCHANGED <<row, mem, task, site, misses>>

\* The routes from before there were several sources know one: that with the lowest id
\* (GetProvider).  Which one that is is left open.
Lowest == Listed
\* SaveProviderConfig writes over it, or makes the first.
OldTarget == IF Listed = {} THEN {s \in Nama : Fresh(s)} ELSE Lowest

\* Only 30nama can be saved there, and whatever the lowest row was, it is a 30nama row then, with
\* the material pasted or, if it was one, kept.  Being unsubscribed is not good enough.
\* Bound: it is begun when no request is under way, and is the last of the turns.  site[s] stands
\* for 30nama's from then on.
OldSave ==
  /\ admin = NoSave /\ Left /\ turns' = MaxTurns /\ \A c \in Tasks : task[c] = Idle
  /\ \E s \in OldTarget :
       \E m \in IF row[s].kind = "30nama" THEN Pasted(s) ELSE {site[s].good} :
         LET ref == [NoRef EXCEPT !.with = m] IN
         /\ "ok" \in Verify(s, ref)
         /\ admin' = Saving(s, ref, TRUE, "ok", TRUE)
         /\ row' = IF s \in Listed THEN row ELSE [row EXCEPT ![s] = Created(s, ref, "active")]
  /\ UNCHANGED <<mem, task, site, misses>>

\* UpdateProvider leaves the state alone.
Updated(r) == [r EXCEPT !.kind = admin.ref.kind, !.on = admin.on, !.with = admin.ref.with,
                        !.mirror = admin.ref.mirror]
\* UpdateProvider (through SaveProviderConfig on the old route) and SaveProviderSession.
StoreSource ==
  /\ admin.step = "store"
  /\ row' = IF admin.src \in Listed THEN [row EXCEPT ![admin.src] = Updated(@)] ELSE row
  /\ admin' = [admin EXCEPT !.step = "state"]
  /\ UNCHANGED <<mem, task, site, turns, misses>>

\* SetProviderStateErr, and ResetBreakers on all but the old route.  The streak is left as it is.
ConfirmSource ==
  /\ admin.step = "state"
  /\ PutState(admin.src, admin.to)
  /\ breaker' = IF admin.old THEN breaker ELSE [s \in Srcs |-> Rested]
  /\ admin' = NoSave
  /\ UNCHANGED <<streak, pref, task, site, turns, misses>>

RemoveSource(s) ==
  /\ admin = NoSave /\ Turn
  /\ s \in Listed
  /\ row' = [row EXCEPT ![s] = NoRow]
  /\ breaker' = [x \in Srcs |-> Rested]
  /\ UNCHANGED <<streak, pref, task, admin, site, misses>>

OldRemove ==
  /\ admin = NoSave /\ Turn
  /\ \E s \in Lowest : row' = [row EXCEPT ![s] = NoRow]
  /\ UNCHANGED <<mem, task, admin, site, misses>>

-----------------------------------------------------------------------------
\* Time and the environment.

WindowEnds(s) == \* coolOffWindow
  /\ breaker[s].open
  /\ breaker' = [breaker EXCEPT ![s].open = FALSE]
  /\ UNCHANGED <<row, streak, pref, task, admin, site, turns, misses>>

MemoryLapses(s) == \* basePrefTTL
  /\ pref[s]
  /\ pref' = [pref EXCEPT ![s] = FALSE]
  /\ UNCHANGED <<row, streak, breaker, task, admin, site, turns, misses>>

Addresses(s) == IF s \in Zar THEN {"main", "alt"} ELSE {"main"}

Shock(s) ==
  /\ s \notin Steady /\ Turn
  /\ \/ \E a \in Addresses(s) :
          site' = [site EXCEPT ![s].up = IF a \in @ THEN @ \ {a} ELSE @ \cup {a}]
     \/ site[s].good < MaxMaterial /\ site' = [site EXCEPT ![s].good = @ + 1]
     \/ s \in Zar /\ site' = [site EXCEPT ![s].alt = ~@]
     \/ s \in Zar /\ site' = [site EXCEPT ![s].entitled = ~@]
  /\ UNCHANGED <<row, mem, task, admin, misses>>

Restart ==
  /\ Turn
  /\ streak' = [s \in Srcs |-> 0] /\ breaker' = [s \in Srcs |-> Rested]
  /\ pref' = [s \in Srcs |-> FALSE]
  /\ task' = [c \in Tasks |-> Idle] /\ admin' = NoSave
  /\ UNCHANGED <<row, site, misses>>

-----------------------------------------------------------------------------
Init ==
  /\ row \in {r \in [Srcs -> {NoRow} \cup {Stored(s, m) : s \in Srcs, m \in {"no", "own"}}] :
               \A s \in Srcs : r[s] \in {NoRow, Stored(s, IF s \in Zar THEN "own" ELSE "no")}}
  /\ streak = [s \in Srcs |-> 0] /\ breaker = [s \in Srcs |-> Rested]
  /\ pref = [s \in Srcs |-> FALSE]
  /\ task = [c \in Tasks |-> Idle] /\ admin = NoSave
  /\ site = [s \in Srcs |-> [up |-> Addresses(s), good |-> 1, alt |-> FALSE, entitled |-> TRUE]]
  /\ turns = 0
  /\ misses = [s \in Srcs |-> 0]

Serve(c) == \E s \in Srcs : Return(c, s) \/ Note(c, s) \/ Pass(c, s) \/ Clear(c, s)
                         \/ ClearMute(c, s) \/ Write(c, s)

Next ==
  \/ \E c \in Calls : StartSearch(c) \/ StartTitle(c) \/ Abandon(c) \/ Serve(c)
  \/ StartKeep \/ Serve(Keeper)
  \/ OldSave \/ OldRemove \/ StoreSource \/ ConfirmSource
  \/ \E s \in Srcs : AddSource(s) \/ ChangeSource(s) \/ RemoveSource(s)
                  \/ WindowEnds(s) \/ MemoryLapses(s) \/ Shock(s)
  \/ Restart

Spec == Init /\ [][Next]_vars

\* The keep-alive's ticker, the calls of its round (each has a timeout), and time.
FairSpec == Spec /\ WF_vars(StartKeep) /\ WF_vars(Serve(Keeper))
                 /\ \A s \in Zar : WF_vars(MemoryLapses(s))

-----------------------------------------------------------------------------
Phases == {"out", "calling", "ok", "refused", "unreachable", "unsubscribed", "skipped", "mute",
           "condemn", "restore"}

RefType == [kind : {"30nama", "zarfilm"}, with : 0..MaxMaterial,
            mirror : {"no", "shared", "own"}]
Row == [kind : {"30nama", "zarfilm"}, state : {"absent", "active", "needs_refresh", "unsubscribed"},
        on : BOOLEAN, with : 0..MaxMaterial, mirror : {"no", "shared", "own"}]

TypeOK ==
  /\ row \in [Srcs -> Row]
  /\ \A s \in Srcs : row[s].state = "absent" <=> ~row[s].on /\ row[s].with = None
  /\ streak \in [Srcs -> 0..FailThreshold]
  /\ breaker \in [Srcs -> [fails : 0..CoolOff, open : BOOLEAN]]
  /\ pref \in [Srcs -> BOOLEAN]
  /\ task \in [Tasks -> [kind : {"idle", "search", "title", "keep"}, at : [Srcs -> Phases],
                         ref : [Srcs -> RefType]]]
  /\ admin.step \in {"idle", "store", "state"}
  /\ misses \in [Srcs -> 0..FailThreshold]
  /\ turns \in 0..MaxTurns

\* A source is condemned only after as many calls to it failed as the threshold says: a filter it
\* cannot express, another source's failures, and the reports made about it while it is not even
\* called do not condemn it by themselves.
CondemnedHasFailed ==
  \A s \in Srcs : row[s].state = "needs_refresh" => misses[s] >= FailThreshold

\* handleSourceStatus: what the page is told of all of them together; it shows nothing of the
\* catalog when that is "needs_refresh".
Status ==
  LET on == {s \in Listed : row[s].on}
      of(S) == {row[s].state : s \in S}
  IN  IF Listed = {} THEN {"not_configured"}
      ELSE IF on = {} THEN of(Listed) ELSE IF "active" \in of(on) THEN {"active"} ELSE of(on)

\* A source whose main address answers, accepts the stored material and serves its downloads
\* comes back to active, whatever was noted against it: the keep-alive restores it, and the page
\* shows the catalog again.
Well(s) == /\ s \in Callable
           /\ "main" \in site[s].up /\ row[s].with = site[s].good /\ site[s].entitled
SelfHeals ==
  \A s \in Srcs : <>[]Well(s) => []<>(row[s].state = "active" /\ Status = {"active"})
=============================================================================
