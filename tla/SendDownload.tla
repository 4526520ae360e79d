---------------------------- MODULE SendDownload ----------------------------
(***************************************************************************)
(* Sending a catalog title to the NAS: the sheet of a title's releases,    *)
(* the send that resolves the chosen one again, the daily quota, and the   *)
(* record from which the sheet later knows what is already here            *)
(* (api/source_handlers.go, attribution.go, library.go, the drivers'       *)
(* Title and ResolveDownload, store/source_repos.go, repos.go).            *)
(*                                                                         *)
(* A source lists a title's releases in an order of its own, with a link   *)
(* per episode that is out; the list changes under the sheets the users    *)
(* have open.  30nama's releases have ids, zarfilm's are places in the     *)
(* page.  A request of a user goes through the handler's steps, beside     *)
(* other requests, restarts, and a NAS that may do what it was asked and   *)
(* not be heard.                                                           *)
(***************************************************************************)
EXTENDS Naturals, Sequences, FiniteSets, TLC

CONSTANTS NamaSeries, ZarSeries, ZarMovies,  \* titles, by source and type
          Releases,    \* what a title is offered in
          Premium,     \* those a subscription is needed for
          Users,
          Requests,    \* sends at a time
          Limit,       \* every user's DailyDownloadLimit
          Announced,   \* episodes of a season
          None,
          MaxTurns     \* bound: changes of a page, lost answers, failed writes and restarts

Series == NamaSeries \cup ZarSeries
Titles == Series \cup ZarMovies
Zar    == ZarSeries \cup ZarMovies

ASSUME SendAssumption ==
  /\ Limit \in Nat \ {0} /\ Announced \in Nat \ {0}
  /\ Premium \subseteq Releases /\ IsFiniteSet(Releases)
  /\ NamaSeries \cap Zar = {} /\ ZarSeries \cap ZarMovies = {} /\ None \notin Users

VARIABLES
  page,      \* page[t]: the source's list of releases, best first, and the episodes with a link
  entitled,  \* the account may see premium links
  sheet,     \* sheet[u]: the title a user is looking at, its options; history: whether its page
             \* has changed since
  send,      \* send[r]: a request, and how far it is
  events,    \* events[u]: rows of download_events not older than a day
  rec,       \* rec[d]: source_downloads, by destination; history: what was really sent there, and
             \* whether the page had changed under the sheet
  made,      \* history: made[u], downloads of the last day, counted until loose[u]
  loose,     \* history: loose[u], the quota was passed by overlapping sends or a fault
  turns

vars == <<page, entitled, sheet, send, events, rec, made, loose, turns>>

-----------------------------------------------------------------------------
\* Pages.

\* The links of a row, in the order of the episodes that are out, or the film.
LinksOf(t) == IF t \in Series THEN page[t].out ELSE {0}
Position(links, e) == Cardinality({x \in links : x <= e})

Paywalled(t, rel) == t \in Zar /\ rel \in Premium /\ ~entitled
Place(t, rel) == CHOOSE i \in DOMAIN page[t].order : page[t].order[i] = rel
Listed(t) == {page[t].order[i] : i \in DOMAIN page[t].order}

\* How a release is named by the sheet: 30nama's own id, or its place among all the rows.
NamaId(t, rel) == rel
ZarId(t, rel)  == Place(t, rel)
IdOf(t, rel)   == IF t \in Zar THEN ZarId(t, rel) ELSE NamaId(t, rel)

\* A plausible slip: places are counted among the rows that are shown.
ShownId(t, rel) ==
  Cardinality({x \in Listed(t) : ~Paywalled(t, x) /\ Place(t, x) <= Place(t, rel)})

\* How many episodes the sheet offers to pick from: what 30nama announces, what zarfilm links.
Offered(t) == IF t \in NamaSeries THEN Announced ELSE Cardinality(LinksOf(t))

-----------------------------------------------------------------------------
\* Destinations and records.

NoRec == [owner |-> None, label |-> None, id |-> None, sent |-> None, moved |-> FALSE]
\* One season per title here: its folder is named after the season the files' names carry.
Destination(t) == t

\* A plausible slip: the option's id decides.
IdWasSent(o, r) == r.owner # None /\ o.id = r.id
\* versionWasSent: by the option's own wording, for ids are positional on at least one source.
VersionWasSent(o, r) == r.owner # None /\ o.rel = r.label

\* Title: every release that can be had, with the ones already here marked.
OptionOfShown(t, rel) == [rel |-> rel, id |-> ShownId(t, rel), count |-> Offered(t)]   \* the slip
OptionOf(t, rel) == [rel |-> rel, id |-> IdOf(t, rel), count |-> Offered(t)]
NamaTitle(t) == {OptionOf(t, rel) : rel \in Listed(t)}
ZarTitle(t)  == {OptionOf(t, rel) : rel \in {x \in Listed(t) : ~Paywalled(t, x)}}
OptionsOf(t) == IF t \in Zar THEN ZarTitle(t) ELSE NamaTitle(t)
Owned(t) == {o \in OptionsOf(t) : VersionWasSent(o, rec[Destination(t)])}

NoSheet == [title |-> None, options |-> {}, moved |-> FALSE]
OpenTitle(u) ==
  /\ \E t \in Titles :
       /\ OptionsOf(t) # {} \/ t \notin ZarMovies      \* ErrUnsubscribed
       /\ sheet' = [sheet EXCEPT ![u] =
            [title |-> t, options |-> OptionsOf(t), moved |-> FALSE]]
  /\ UNCHANGED <<page, entitled, send, events, rec, made, loose, turns>>

-----------------------------------------------------------------------------
\* The send, step by step.

Idle == [at |-> "idle", user |-> None, title |-> None, opt |-> None, picks |-> {}, out |-> {},
         files |-> {}, rel |-> None, moved |-> FALSE]

Picks(o, t) == IF t \in Series THEN SUBSET (1..o.count) ELSE {{}}

StartSend(r) ==
  /\ send[r] = Idle
  /\ \E u \in Users : \E o \in sheet[u].options : \E picks \in Picks(o, sheet[u].title) :
       send' = [send EXCEPT ![r] =
         [Idle EXCEPT !.at = "resolving", !.user = u, !.title = sheet[u].title, !.opt = o,
                      !.picks = picks, !.moved = sheet[u].moved]]
  /\ UNCHANGED <<page, entitled, sheet, events, rec, made, loose, turns>>

\* ResolveDownload: the page is read again, and the id looked up in it.
NamaResolved(t, id) == {rel \in Listed(t) : NamaId(t, rel) = id}
ZarResolved(t, id)  == {rel \in Listed(t) : ZarId(t, rel) = id /\ ~Paywalled(t, rel)}
Resolved(t, id)     == IF t \in Zar THEN ZarResolved(t, id) ELSE NamaResolved(t, id)

\* selectEpisodes: places among the links; none picked, or a single link, is everything.
Everything(picks, n) == picks = {} \/ n <= 1
Refused(picks, n)    == ~Everything(picks, n) /\ ~(picks \subseteq 1..n)
Selected(links, picks) ==
  IF Everything(picks, Cardinality(links)) THEN links
  ELSE {e \in links : Position(links, e) \in picks}

\* The quota: what is counted for the last day, and the whole selection.
WithoutQuota(u, n) == n <= Limit     \* a slip: only the selection
CountSince(u) == events[u]
Fits(u, n)    == CountSince(u) + n <= Limit

\* Every early return of the handler, the checks that read nothing modelled here among them (no
\* parent, a folder not granted, a link off the allowed hosts, a file too large).
GiveUp(r) ==
  /\ send[r].at = "resolving"
  /\ send' = [send EXCEPT ![r] = Idle]
  /\ UNCHANGED <<page, entitled, sheet, events, rec, made, loose, turns>>

\* A request of u that has passed the quota and is not counted yet.
Uncounted(r, u) == send[r].user = u /\ send[r].at \in {"creating", "counting"}

Turn == turns < MaxTurns /\ turns' = turns + 1

Resolve(r) ==
  /\ send[r].at = "resolving"
  /\ LET t == send[r].title
         u == send[r].user
         links == LinksOf(t)
         files == Selected(links, send[r].picks)
     IN /\ links # {} /\ ~Refused(send[r].picks, Cardinality(links))
        /\ \E rel \in Resolved(t, send[r].opt.id) :
             send' = [send EXCEPT ![r].at = "creating", ![r].files = files, ![r].rel = rel,
                                  ![r].out = page[t].out]
        /\ \/ /\ Fits(u, Cardinality(files)) /\ UNCHANGED turns
              /\ loose' = [loose EXCEPT ![u] = @ \/ \E x \in Requests : Uncounted(x, u)]
           \/ /\ Cardinality(files) <= Limit /\ Turn     \* the count cannot be read: taken for none
              /\ loose' = [loose EXCEPT ![u] = TRUE]
  /\ UNCHANGED <<page, entitled, sheet, events, rec, made>>

Started(r) == [made EXCEPT ![send[r].user] = IF loose[send[r].user] THEN @
                                              ELSE @ + Cardinality(send[r].files)]

\* CreateTaskURIs: the NAS downloads one file per link.
Create(r) ==
  /\ send[r].at = "creating"
  /\ made' = Started(r)
  /\ send' = [send EXCEPT ![r].at = "counting", ![r].picks = {}, ![r].out = {}]
  /\ UNCHANGED <<page, entitled, sheet, events, rec, loose, turns>>

\* The NAS did as told and the answer is lost: the handler reports an error and records nothing.
CreateUnheard(r) ==
  /\ send[r].at = "creating" /\ Turn
  /\ loose' = [loose EXCEPT ![send[r].user] = TRUE] /\ UNCHANGED made
  /\ send' = [send EXCEPT ![r] = Idle]
  /\ UNCHANGED <<page, entitled, sheet, events, rec>>

\* The NAS refuses, or a folder cannot be made (ensureSubfolder).
CreateFails(r) ==
  /\ send[r].at = "creating"
  /\ send' = [send EXCEPT ![r] = Idle]
  /\ UNCHANGED <<page, entitled, sheet, events, rec, made, loose, turns>>

\* AddDownloadEvents; its error is ignored.
CountingOne(u, n) == [events EXCEPT ![u] = @ + 1]   \* a slip: one row per send
Counting(u, n) == [events EXCEPT ![u] = @ + n]
Count(r) ==
  /\ send[r].at = "counting"
  /\ \/ events' = Counting(send[r].user, Cardinality(send[r].files)) /\ UNCHANGED <<loose, turns>>
     \/ Turn /\ loose' = [loose EXCEPT ![send[r].user] = TRUE] /\ UNCHANGED events
  /\ send' = [send EXCEPT ![r].at = "recording", ![r].files = {}]
  /\ UNCHANGED <<page, entitled, sheet, rec, made>>

\* SaveSourceDownload: the destination's one row, with the wording the client sent along.  (The
\* claims and the history's rows are written here too; PushWatch has what is made of them, and
\* Library what follows for the folder.)
SaveSourceDownload(r) ==
  [rec EXCEPT ![Destination(send[r].title)] =
     [owner |-> send[r].user, label |-> send[r].opt.rel, id |-> send[r].opt.id,
      sent |-> send[r].rel, moved |-> send[r].moved]]
Record(r) ==
  /\ send[r].at = "recording"
  /\ rec' = SaveSourceDownload(r)
  /\ send' = [send EXCEPT ![r] = Idle]
  /\ UNCHANGED <<page, entitled, sheet, events, made, loose, turns>>

-----------------------------------------------------------------------------
\* The environment.

\* A page changes: a release is added in front, the first two change places, an episode is out.
Changed(t) ==
  {[page[t] EXCEPT !.order = <<rel>> \o @] : rel \in Releases \ Listed(t)}
  \cup {[page[t] EXCEPT !.order = [@ EXCEPT ![1] = page[t].order[2], ![2] = page[t].order[1]]] :
          x \in IF Len(page[t].order) > 1 THEN {1} ELSE {}}
  \cup {[page[t] EXCEPT !.out = @ \cup {e}] :
          e \in IF t \in Series THEN (1..Announced) \ page[t].out ELSE {}}
ChangePage(t) ==
  /\ Turn /\ page[t].order # <<>>
  /\ \E p \in Changed(t) : page' = [page EXCEPT ![t] = p]
  /\ sheet' = [u \in Users |-> [sheet[u] EXCEPT !.moved = @ \/ sheet[u].title = t]]
  /\ send' = [r \in Requests |->
       [send[r] EXCEPT !.moved = @ \/ (send[r].title = t /\ send[r].at = "resolving")]]
  /\ UNCHANGED <<entitled, events, rec, made, loose>>

Subscribe ==
  /\ Turn /\ entitled' = ~entitled
  /\ UNCHANGED <<page, sheet, send, events, rec, made, loose>>

\* What was counted for a user is no longer.
ResetUserDownloads(u) ==
  /\ events[u] > 0
  /\ events' = [events EXCEPT ![u] = 0] /\ made' = [made EXCEPT ![u] = 0]
  /\ loose' = [loose EXCEPT ![u] = \E r, q \in Requests : r # q /\ Uncounted(r, u) /\ Uncounted(q, u)]
  /\ UNCHANGED <<page, entitled, sheet, send, rec, turns>>

\* A day passes for a user, or the administrator resets the count.
NextDay(u) == ResetUserDownloads(u)
HandleResetUserDownloads(u) == ResetUserDownloads(u)

Restart ==
  /\ Turn
  /\ send' = [r \in Requests |-> Idle]
  /\ loose' = [u \in Users |-> loose[u] \/ \E r \in Requests : send[r].user = u
                                                                /\ send[r].at = "counting"]
  /\ UNCHANGED <<page, entitled, sheet, events, rec, made>>

Orders == {q \in [1..Cardinality(Releases) -> Releases] :
             \A i, j \in DOMAIN q : q[i] = q[j] => i = j}
FirstPages(t) ==
  [order : {<<rel>> : rel \in Releases \ Premium} \cup Orders,
   out : IF t \in Series THEN {1..Announced, 2..Announced} ELSE {{}}]

NoPage == [order |-> <<>>, out |-> {}]
\* Bound: one of the titles has anything to offer.
Init ==
  /\ page \in UNION {{[x \in Titles |-> IF x = t THEN p ELSE NoPage] : p \in FirstPages(t)} :
                      t \in Titles}
  /\ entitled \in BOOLEAN
  /\ sheet = [u \in Users |-> NoSheet] /\ send = [r \in Requests |-> Idle]
  /\ rec = [t \in Titles |-> NoRec]
  /\ events = [u \in Users |-> 0] /\ made = [u \in Users |-> 0]
  /\ loose = [u \in Users |-> FALSE] /\ turns = 0

Next ==
  \/ \E u \in Users : OpenTitle(u) \/ NextDay(u) \/ HandleResetUserDownloads(u)
  \/ \E r \in Requests : \/ StartSend(r) \/ GiveUp(r) \/ Resolve(r) \/ Create(r)
                         \/ CreateUnheard(r) \/ CreateFails(r) \/ Count(r) \/ Record(r)
  \/ \E t \in Titles : ChangePage(t)
  \/ Subscribe \/ Restart

RequestSymmetry == Permutations(Requests)

Spec == Init /\ [][Next]_vars

-----------------------------------------------------------------------------
\* Properties.

TypeOK ==
  /\ \A t \in Titles : Listed(t) \subseteq Releases /\ page[t].out \subseteq 1..Announced
  /\ \A u \in Users : sheet[u].title \in Titles \cup {None} /\ made[u] \in Nat
  /\ \A r \in Requests :
       /\ send[r].at \in {"idle", "resolving", "creating", "counting", "recording"}
       /\ send[r].at = "creating" => send[r].files # {}
  /\ \A t \in Titles : rec[t].owner \in Users \cup {None}

\* No user starts more downloads a day than allowed (source_handlers.go:693), except by sends
\* that overlap, or when what was sent could not be counted: the count is read before the send
\* and written after it.
QuotaHolds == \A u \in Users : loose[u] \/ made[u] <= Limit

Gapless(out) == out = 1..Cardinality(out)

\* What goes to the NAS is what was chosen on the sheet: the release of the row, and the episodes
\* by number.  Exempt are a page that has changed since the sheet was read, for zarfilm's ids and
\* every pick of episodes are places in it, and a season with an episode missing before others.
SentAsPicked ==
  \A r \in Requests : (send[r].at = "creating" /\ ~send[r].moved) =>
    LET s == send[r] IN
    /\ s.rel = s.opt.rel
    /\ (s.title \in Series /\ s.picks # {} /\ Gapless(s.out)) =>
         s.files \in {s.picks, s.out}

\* A release marked as already here was really sent there, however the pages change between the
\* send and the sheet (library.go:775-779): only a page that changed between the sheet and the
\* send can make the record name another one.
MarkIsTrue ==
  \A t \in Titles : \A o \in Owned(t) :
    rec[Destination(t)].moved \/ rec[Destination(t)].sent = o.rel
=============================================================================
