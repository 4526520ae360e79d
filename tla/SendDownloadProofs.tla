------------------------- MODULE SendDownloadProofs -------------------------
(***************************************************************************)
(* The three safety properties of SendDownload, for any titles, releases,  *)
(* users, overlapping requests, limit, changes of the pages and faults.    *)
(*                                                                         *)
(* What was chosen stays what is meant as long as the page keeps its       *)
(* order: Meant says it of the options on a sheet and of the one a request *)
(* carries.  The quota is kept because the one request that has passed it  *)
(* and is not counted yet still fits (Booked).                             *)
(***************************************************************************)
EXTENDS SendDownload, FiniteSetTheorems, TLAPS

Options == [rel : Releases, id : Releases \cup Nat, count : Nat]
Phases  == {"idle", "resolving", "creating", "counting", "recording"}
Sending == [at : Phases, user : Users \cup {None}, title : Titles \cup {None},
            opt : Options \cup {None}, picks : SUBSET Nat, out : SUBSET (1..Announced),
            files : SUBSET (0..Announced), rel : Releases \cup {None}, moved : BOOLEAN]
Mark    == [owner : Users \cup {None}, label : Releases \cup {None},
            id : Releases \cup Nat \cup {None}, sent : Releases \cup {None}, moved : BOOLEAN]

\* A release stands in one place of a page.
Distinct(q) == \A i, j \in DOMAIN q : q[i] = q[j] => i = j
Page == {p \in [order : Seq(Releases), out : SUBSET (1..Announced)] : Distinct(p.order)}

Types ==
  /\ page \in [Titles -> Page]
  /\ sheet \in [Users -> [title : Titles \cup {None}, options : SUBSET Options, moved : BOOLEAN]]
  /\ \A u \in Users : sheet[u].options # {} => sheet[u].title \in Titles
  /\ send \in [Requests -> Sending]
  /\ \A r \in Requests : send[r].at # "idle" =>
       /\ send[r].user \in Users /\ send[r].title \in Titles /\ send[r].opt \in Options
  /\ \A r \in Requests : send[r].at \in {"creating", "counting", "recording"}
                         => send[r].rel \in Releases
  /\ rec \in [Titles -> Mark]
  /\ events \in [Users -> Nat] /\ made \in [Users -> Nat] /\ loose \in [Users -> BOOLEAN]

\* The option still names its release: 30nama's always, zarfilm's while the page keeps its order.
Meant(o, t, moved) ==
  /\ t \in NamaSeries => o.id = o.rel
  /\ t \in Zar /\ ~moved => o.rel \in Listed(t) /\ o.id = Place(t, o.rel)
OnSheet == \A u \in Users : \A o \in sheet[u].options : Meant(o, sheet[u].title, sheet[u].moved)
AsPicked(s) ==
  s.title \in Series /\ s.picks # {} /\ Gapless(s.out) => s.files \in {s.picks, s.out}
InSend ==
  \A r \in Requests :
    /\ send[r].at = "resolving" => Meant(send[r].opt, send[r].title, send[r].moved)
    /\ send[r].at \in {"creating", "counting", "recording"}
         => send[r].moved \/ send[r].rel = send[r].opt.rel
    /\ send[r].at = "creating" => AsPicked(send[r])
InRecord == \A t \in Titles : rec[t].owner # None => rec[t].moved \/ rec[t].sent = rec[t].label

Size(r) == Cardinality(send[r].files)
Booked(u) ==
  /\ \A r, q \in Requests : Uncounted(r, u) /\ Uncounted(q, u) => r = q
  /\ \A r \in Requests : Uncounted(r, u) =>
       /\ events[u] + Size(r) <= Limit
       /\ made[u] <= IF send[r].at = "creating" THEN events[u] ELSE events[u] + Size(r)
  /\ (\A r \in Requests : ~Uncounted(r, u)) => made[u] <= events[u]
  /\ events[u] <= Limit
Small == \A r \in Requests : send[r].at \in {"creating", "counting"} => Size(r) <= Limit
Kept  == Small /\ \A u \in Users : loose[u] \/ Booked(u)

Inv == Types /\ OnSheet /\ InSend /\ InRecord /\ Kept

-----------------------------------------------------------------------------
LEMMA Numbers ==
  ASSUME NEW S \in SUBSET (0..Announced)
  PROVE  IsFiniteSet(S) /\ Cardinality(S) \in Nat
<1>1. Announced \in Nat  BY SendAssumption
<1>2. IsFiniteSet(0..Announced)  BY <1>1, FS_Interval
<1>3. IsFiniteSet(S)  BY <1>2, FS_Subset
<1> QED  BY <1>3, FS_CardinalityType

\* On a page each release has its place, and the place gives it back.
LEMMA Places ==
  ASSUME Types, NEW t \in Titles, NEW a \in Listed(t), NEW b \in Listed(t),
         Place(t, a) = Place(t, b)
  PROVE  a = b
<1>1. \A x \in Listed(t) : Place(t, x) \in DOMAIN page[t].order /\ page[t].order[Place(t, x)] = x
  BY DEF Listed, Place
<1> QED  BY <1>1

LEMMA PlaceType ==
  ASSUME Types, NEW t \in Titles, NEW a \in Listed(t)
  PROVE  Place(t, a) \in Nat /\ a \in Releases
<1>1. Place(t, a) \in DOMAIN page[t].order /\ page[t].order[Place(t, a)] = a
  BY DEF Listed, Place
<1>2. page[t].order \in Seq(Releases)  BY DEF Types, Page
<1> QED  BY <1>1, <1>2

\* The first episodes with none missing: the place of an episode is its number.
LEMMA PlacesWithoutGaps ==
  ASSUME NEW out \in SUBSET (1..Announced), Gapless(out), NEW e \in out
  PROVE  Position(out, e) = e
<1>1. Announced \in Nat /\ IsFiniteSet(out)
  <2>1. out \subseteq 0..Announced  BY SendAssumption
  <2> QED  BY <2>1, Numbers, SendAssumption
<1>2. e \in Nat \ {0}  BY <1>1
<1>3. Cardinality(out) \in Nat  BY <1>1, FS_CardinalityType
<1>4. {x \in out : x <= e} = 1..e  BY <1>2, <1>3 DEF Gapless
<1>5. Cardinality(1..e) = e  BY <1>2, FS_Interval
<1> QED  BY <1>4, <1>5 DEF Position

LEMMA InitInv == Init => Inv
<1> SUFFICES ASSUME Init PROVE Inv  OBVIOUS
<1> USE DEF Init
<1>1. page \in [Titles -> Page]
  <2>1. NoPage \in Page  BY DEF NoPage, Page, Distinct
  <2>2. ASSUME NEW t \in Titles, NEW p \in FirstPages(t) PROVE p \in Page
    <3>1. PICK q \in {<<rel>> : rel \in Releases \ Premium} \cup Orders, out \in SUBSET (1..Announced) :
            p = [order |-> q, out |-> out]
      <4>1. 1..Announced \in SUBSET (1..Announced) /\ 2..Announced \in SUBSET (1..Announced)
        BY SendAssumption
      <4>2. (IF t \in Series THEN {1..Announced, 2..Announced} ELSE {{}}) \subseteq SUBSET (1..Announced)
        BY <4>1
      <4> QED  BY <4>2 DEF FirstPages
    <3>2. q \in Seq(Releases) /\ Distinct(q)
      <4>1. CASE q \in {<<rel>> : rel \in Releases \ Premium}
        <5>1. PICK rel \in Releases : q = <<rel>>  BY <4>1
        <5> QED  BY <5>1 DEF Distinct
      <4>2. CASE q \in Orders
        <5>1. Cardinality(Releases) \in Nat  BY SendAssumption, FS_CardinalityType
        <5> QED  BY <4>2, <5>1 DEF Orders, Distinct
      <4> QED  BY <3>1, <4>1, <4>2
    <3> QED  BY <3>1, <3>2 DEF Page
  <2>3. PICK t \in Titles : page \in {[x \in Titles |-> IF x = t THEN p ELSE NoPage] : p \in FirstPages(t)}
    OBVIOUS
  <2>4. PICK p \in FirstPages(t) : page = [x \in Titles |-> IF x = t THEN p ELSE NoPage]
    BY <2>3
  <2> QED  BY <2>1, <2>2, <2>4
<1>2. Types
  <2>1. Idle \in Sending  BY DEF Idle, Sending, Phases
  <2>2. NoSheet \in [title : Titles \cup {None}, options : SUBSET Options, moved : BOOLEAN]
    BY DEF NoSheet
  <2>3. NoRec \in Mark  BY DEF NoRec, Mark
  <2> QED  BY <1>1, <2>1, <2>2, <2>3 DEF Types, Idle, NoSheet
<1>3. OnSheet /\ InSend /\ InRecord
  BY DEF OnSheet, NoSheet, InSend, InRecord, Idle, NoRec
<1>4. Kept
  BY SendAssumption DEF Kept, Small, Booked, Uncounted, Idle
<1> QED  BY <1>2, <1>3, <1>4 DEF Inv

-----------------------------------------------------------------------------
LEMMA SamePage ==
  ASSUME page' = page
  PROVE  \A o, t, moved : Meant(o, t, moved)' <=> Meant(o, t, moved)
BY DEF Meant, Listed, Place

\* Nothing that is booked changes.
LEMMA SameBooks ==
  ASSUME Kept, UNCHANGED <<events, made, loose>>,
         \A q \in Requests :
           /\ \A u \in Users : Uncounted(q, u)' <=> Uncounted(q, u)
           /\ send'[q].at \in {"creating", "counting"} =>
                send'[q].at = send[q].at /\ send'[q].files = send[q].files
  PROVE  Kept'
<1>1. Small'  BY DEF Kept, Small, Size
<1>2. ASSUME NEW u \in Users, Booked(u) PROVE Booked(u)'
  <2>1. \A q \in Requests : Uncounted(q, u)' =>
          Uncounted(q, u) /\ send'[q].at = send[q].at /\ Size(q)' = Size(q)
    BY DEF Uncounted, Size
  <2> QED  BY <1>2, <2>1 DEF Booked
<1> QED  BY <1>1, <1>2 DEF Kept

\* A request goes on, in the same page, with nothing booked.
LEMMA RequestStep ==
  ASSUME Inv, NEW r \in Requests, NEW s \in Sending,
         send' = [send EXCEPT ![r] = s], UNCHANGED <<page, sheet>>,
         rec' = rec \/ (rec' \in [Titles -> Mark] /\ InRecord'),
         s.at # "idle" => s.user \in Users /\ s.title \in Titles /\ s.opt \in Options,
         s.at \in {"creating", "counting", "recording"} =>
            s.rel \in Releases /\ (s.moved \/ s.rel = s.opt.rel),
         s.at = "resolving" => Meant(s.opt, s.title, s.moved),
         s.at = "creating" => AsPicked(s),
         events' \in [Users -> Nat], made' \in [Users -> Nat], loose' \in [Users -> BOOLEAN],
         Kept'
  PROVE  Inv'
<1>1. send' \in [Requests -> Sending] /\ send'[r] = s /\ \A q \in Requests \ {r} : send'[q] = send[q]
  BY DEF Inv, Types
<1>2. Types'
  <2>1. \A q \in Requests : send'[q].at # "idle" =>
          send'[q].user \in Users /\ send'[q].title \in Titles /\ send'[q].opt \in Options
    BY <1>1 DEF Inv, Types
  <2>2. \A q \in Requests : send'[q].at \in {"creating", "counting", "recording"}
                            => send'[q].rel \in Releases
    BY <1>1 DEF Inv, Types
  <2> QED  BY <1>1, <2>1, <2>2 DEF Inv, Types
<1>3. OnSheet' /\ InRecord'  BY SamePage DEF Inv, OnSheet, InRecord
<1>4. InSend'
  <2>1. \A q \in Requests :
          /\ send'[q].at = "resolving" => Meant(send'[q].opt, send'[q].title, send'[q].moved)
          /\ send'[q].at \in {"creating", "counting", "recording"}
               => send'[q].moved \/ send'[q].rel = send'[q].opt.rel
          /\ send'[q].at = "creating" => AsPicked(send'[q])
    BY <1>1 DEF Inv, InSend
  <2> QED  BY <2>1, SamePage DEF InSend, AsPicked
<1> QED  BY <1>2, <1>3, <1>4 DEF Inv

LEMMA OpenStep ==
  ASSUME Inv, NEW u \in Users, OpenTitle(u)
  PROVE  Inv'
<1>0. Types  BY DEF Inv
<1>1. UNCHANGED <<page, send, events, rec, made, loose>>  BY DEF OpenTitle
<1>2. PICK t \in Titles :
        sheet' = [sheet EXCEPT ![u] = [title |-> t, options |-> OptionsOf(t), moved |-> FALSE]]
  BY DEF OpenTitle
<1>3. ASSUME NEW o \in OptionsOf(t) PROVE o \in Options /\ Meant(o, t, FALSE)
  <2>1. PICK rel \in Listed(t) : o = OptionOf(t, rel)
    BY <1>3 DEF OptionsOf, ZarTitle, NamaTitle
  <2>2. rel \in Releases /\ Place(t, rel) \in Nat  BY <1>0, PlaceType
  <2>3. Offered(t) \in Nat
    <3>1. 0 \in 0..Announced /\ 1..Announced \subseteq 0..Announced  BY SendAssumption
    <3>2. page[t].out \subseteq 1..Announced  BY <1>0 DEF Types, Page
    <3>3. LinksOf(t) \subseteq 0..Announced  BY <3>1, <3>2 DEF LinksOf
    <3> QED  BY <3>3, Numbers, SendAssumption DEF Offered
  <2>4. t \in NamaSeries => t \notin Zar  BY SendAssumption
  <2> QED
    BY <2>1, <2>2, <2>3, <2>4 DEF OptionOf, IdOf, ZarId, NamaId, Options, Meant
<1>4. Types'
  <2>1. OptionsOf(t) \subseteq Options  BY <1>3
  <2> QED  BY <1>0, <1>1, <1>2, <2>1 DEF Types
<1>5. OnSheet'
  <2>1. \A x \in Users : \A o \in sheet'[x].options : Meant(o, sheet'[x].title, sheet'[x].moved)
    BY <1>0, <1>2, <1>3 DEF Inv, OnSheet, Types
  <2> QED  BY <1>1, <2>1, SamePage DEF OnSheet
<1>6. InSend' /\ InRecord'
  BY <1>1, SamePage DEF Inv, InSend, AsPicked, InRecord
<1>7. Kept'  BY <1>1, SameBooks DEF Inv, Uncounted
<1> QED  BY <1>4, <1>5, <1>6, <1>7 DEF Inv

LEMMA StartStep ==
  ASSUME Inv, NEW r \in Requests, StartSend(r)
  PROVE  Inv'
<1>0. Types /\ OnSheet /\ Kept  BY DEF Inv
<1>1. send[r] = Idle /\ UNCHANGED <<page, sheet, events, rec, made, loose>>  BY DEF StartSend
<1>2. PICK u \in Users : \E o \in sheet[u].options : \E picks \in Picks(o, sheet[u].title) :
       send' = [send EXCEPT ![r] =
         [Idle EXCEPT !.at = "resolving", !.user = u, !.title = sheet[u].title, !.opt = o,
                      !.picks = picks, !.moved = sheet[u].moved]]
  BY DEF StartSend
<1>3. PICK o \in sheet[u].options : \E picks \in Picks(o, sheet[u].title) :
       send' = [send EXCEPT ![r] =
         [Idle EXCEPT !.at = "resolving", !.user = u, !.title = sheet[u].title, !.opt = o,
                      !.picks = picks, !.moved = sheet[u].moved]]
  BY <1>2
<1>4. PICK picks \in Picks(o, sheet[u].title) :
       send' = [send EXCEPT ![r] =
         [Idle EXCEPT !.at = "resolving", !.user = u, !.title = sheet[u].title, !.opt = o,
                      !.picks = picks, !.moved = sheet[u].moved]]
  BY <1>3
<1> DEFINE s == [Idle EXCEPT !.at = "resolving", !.user = u, !.title = sheet[u].title, !.opt = o,
                             !.picks = picks, !.moved = sheet[u].moved]
<1>5. o \in Options /\ sheet[u].title \in Titles /\ sheet[u].moved \in BOOLEAN
  BY <1>0 DEF Types
<1>6. picks \in SUBSET Nat
  <2>1. o.count \in Nat  BY <1>5 DEF Options
  <2> QED  BY <2>1 DEF Picks
<1>7. s \in Sending  BY <1>5, <1>6 DEF Sending, Idle, Phases
<1>8. /\ s.at = "resolving" /\ s.user = u /\ s.title = sheet[u].title /\ s.opt = o
      /\ s.moved = sheet[u].moved
  BY DEF Idle
<1>9. Meant(s.opt, s.title, s.moved)  BY <1>0, <1>8 DEF OnSheet
<1>10. Kept'
  <2>1. \A q \in Requests : \/ send'[q] = send[q]
                            \/ send[q].at = "idle" /\ send'[q].at = "resolving"
    BY <1>0, <1>1, <1>4 DEF Types, Idle
  <2> QED  BY <1>0, <1>1, <2>1, SameBooks DEF Uncounted
<1>11. events' \in [Users -> Nat] /\ made' \in [Users -> Nat] /\ loose' \in [Users -> BOOLEAN]
  BY <1>0, <1>1 DEF Types
<1>12. send' = [send EXCEPT ![r] = s]  BY <1>4
<1> HIDE DEF s
<1> QED  BY <1>1, <1>5, <1>7, <1>8, <1>9, <1>10, <1>11, <1>12, RequestStep

\* One request's step concerns the books of its own user.
LEMMA OwnBooks ==
  ASSUME Inv, NEW r \in Requests, NEW u \in Users, send[r].user = u, NEW s \in Sending,
         send' = [send EXCEPT ![r] = s], s.user \in {u, None},
         \A v \in Users \ {u} : /\ events'[v] = events[v] /\ made'[v] = made[v]
                                /\ loose'[v] = loose[v],
         s.at \in {"creating", "counting"} => Cardinality(s.files) <= Limit,
         loose'[u] \/ Booked(u)'
  PROVE  Kept'
<1>1. send'[r] = s /\ \A q \in Requests \ {r} : send'[q] = send[q]
  BY DEF Inv, Types
<1>2. Small'  BY <1>1 DEF Inv, Kept, Small, Size
<1>3. ASSUME NEW v \in Users, ~loose'[v] PROVE Booked(v)'
  <2>1. CASE v = u  BY <1>3, <2>1
  <2>2. CASE v # u
    <3>1. Booked(v) /\ events'[v] = events[v] /\ made'[v] = made[v]
      BY <1>3, <2>2 DEF Inv, Kept
    <3>2. \A q \in Requests : /\ Uncounted(q, v)' <=> Uncounted(q, v)
                              /\ Uncounted(q, v) => send'[q] = send[q]
      BY <1>1, <2>2, SendAssumption DEF Uncounted
    <3>3. \A q \in Requests : Uncounted(q, v) => Size(q)' = Size(q)
      BY <3>2 DEF Size
    <3> QED  BY <3>1, <3>2, <3>3 DEF Booked
  <2> QED  BY <2>1, <2>2
<1> QED  BY <1>2, <1>3 DEF Kept

\* What is resolved in the page as it is now is the option's release.
LEMMA ResolvedIsMeant ==
  ASSUME Types, NEW t \in Titles, NEW o \in Options, NEW moved \in BOOLEAN, Meant(o, t, moved),
         NEW rel \in Resolved(t, o.id)
  PROVE  rel \in Releases /\ (moved \/ rel = o.rel)
<1>1. rel \in Listed(t)  BY DEF Resolved, NamaResolved, ZarResolved
<1>2. rel \in Releases  BY <1>1, PlaceType
<1>3. CASE t \in Zar
  <2>1. Place(t, rel) = o.id  BY <1>3 DEF Resolved, ZarResolved, ZarId
  <2>2. ~moved => o.rel \in Listed(t) /\ Place(t, o.rel) = o.id  BY <1>3 DEF Meant
  <2> QED  BY <1>1, <1>2, <2>1, <2>2, Places
<1>4. CASE t \notin Zar
  <2>1. t \in NamaSeries  BY <1>4 DEF Titles, Series, Zar
  <2>2. rel = o.id  BY <1>4 DEF Resolved, NamaResolved, NamaId
  <2> QED  BY <1>2, <2>1, <2>2 DEF Meant
<1> QED  BY <1>3, <1>4

\* Without gaps the picked places are the picked episodes.
LEMMA SelectedIsPicked ==
  ASSUME NEW out \in SUBSET (1..Announced), Gapless(out), NEW picks,
         ~Refused(picks, Cardinality(out)), picks # {}
  PROVE  Selected(out, picks) \in {picks, out}
<1>1. CASE Everything(picks, Cardinality(out))
  BY <1>1 DEF Selected
<1>2. CASE ~Everything(picks, Cardinality(out))
  <2>1. picks \subseteq out  BY <1>2 DEF Refused, Gapless
  <2>2. \A e \in out : Position(out, e) = e  BY PlacesWithoutGaps
  <2>3. Selected(out, picks) = {e \in out : e \in picks}
    BY <1>2, <2>2 DEF Selected
  <2> QED  BY <2>1, <2>3
<1> QED  BY <1>1, <1>2

LEMMA ResolveStep ==
  ASSUME Inv, NEW r \in Requests, Resolve(r)
  PROVE  Inv'
<1>0. Types  BY DEF Inv
<1>a. send[r].user \in Users /\ send[r].title \in Titles  BY <1>0 DEF Resolve, Types
<1>b. PICK u \in Users : u = send[r].user  BY <1>a
<1>c. PICK t \in Titles : t = send[r].title  BY <1>a
<1> DEFINE links == LinksOf(t)
           files == Selected(links, send[r].picks)
<1>1. /\ send[r].at = "resolving" /\ ~Refused(send[r].picks, Cardinality(links))
      /\ UNCHANGED <<page, sheet, events, rec, made>>
  BY <1>c DEF Resolve
<1>2. PICK rel \in Resolved(t, send[r].opt.id) :
        send' = [send EXCEPT ![r].at = "creating", ![r].files = files, ![r].rel = rel,
                             ![r].out = page[t].out]
  BY <1>c DEF Resolve
<1>3. /\ send[r] \in Sending /\ send[r].opt \in Options
      /\ page[t].out \in SUBSET (1..Announced) /\ send[r].moved \in BOOLEAN
  BY <1>0, <1>1 DEF Types, Sending, Page
<1>4. links \in SUBSET (0..Announced) /\ files \in SUBSET (0..Announced)
  <2>1. 0 \in 0..Announced /\ 1..Announced \subseteq 0..Announced  BY SendAssumption
  <2>2. links \in SUBSET (0..Announced)  BY <1>3, <2>1 DEF LinksOf
  <2> QED  BY <2>2 DEF Selected
<1>5. rel \in Releases /\ (send[r].moved \/ rel = send[r].opt.rel)
  BY <1>0, <1>c, <1>1, <1>3, ResolvedIsMeant DEF Inv, InSend
<1> DEFINE s == [send[r] EXCEPT !.at = "creating", !.files = files, !.rel = rel, !.out = page[t].out]
<1>6. send' = [send EXCEPT ![r] = s]  BY <1>0, <1>2 DEF Types
<1>7. /\ s.at = "creating" /\ s.files = files /\ s.rel = rel /\ s.out = page[t].out
      /\ s.user = u /\ s.title = t /\ s.opt = send[r].opt /\ s.picks = send[r].picks
      /\ s.moved = send[r].moved
  BY <1>b, <1>c, <1>3 DEF Sending
<1>8. s \in Sending
  <2> HIDE DEF files
  <2> QED  BY <1>3, <1>4, <1>5 DEF Sending, Phases
<1>9. AsPicked(s)
  <2> SUFFICES ASSUME t \in Series, send[r].picks # {}, Gapless(page[t].out)
               PROVE  files \in {send[r].picks, page[t].out}
    BY <1>7 DEF AsPicked
  <2>1. links = page[t].out  BY DEF LinksOf
  <2> QED  BY <1>1, <1>3, <2>1, SelectedIsPicked
<1>10. Cardinality(files) \in Nat  BY <1>4, Numbers
<1>11. /\ loose' \in [Users -> BOOLEAN]
       /\ \A v \in Users \ {u} : loose'[v] = loose[v]
       /\ \/ Fits(u, Cardinality(files)) /\ loose'[u] = (loose[u] \/ \E x \in Requests : Uncounted(x, u))
          \/ Cardinality(files) <= Limit /\ loose'[u] = TRUE
  BY <1>0, <1>b, <1>c, <1>3 DEF Resolve, Types
<1>12. Cardinality(files) <= Limit
  BY <1>0, <1>10, <1>11, SendAssumption DEF Fits, CountSince, Types
<1>13. ASSUME ~loose'[u] PROVE Booked(u)'
  <2>1. /\ events[u] + Cardinality(files) <= Limit /\ \A x \in Requests : ~Uncounted(x, u)
        /\ ~loose[u]
    BY <1>11, <1>13 DEF Fits, CountSince
  <2>2. made[u] <= events[u] /\ events[u] <= Limit
    BY <1>3, <2>1 DEF Inv, Kept, Booked
  <2>3. \A q \in Requests : Uncounted(q, u)' => q = r
    BY <1>0, <1>6, <2>1 DEF Uncounted, Types
  <2>4. Size(r)' = Cardinality(files) /\ send'[r].at = "creating" /\ Uncounted(r, u)'
    BY <1>0, <1>6, <1>7 DEF Size, Types, Uncounted
  <2> QED  BY <1>1, <2>1, <2>2, <2>3, <2>4 DEF Booked
<1>14. Kept'
  <2> HIDE DEF s, files
  <2> QED  BY <1>b, <1>1, <1>6, <1>7, <1>8, <1>11, <1>12, <1>13, OwnBooks
<1>15. events' \in [Users -> Nat] /\ made' \in [Users -> Nat]  BY <1>0, <1>1 DEF Types
<1> HIDE DEF s, files
<1> QED
  BY <1>1, <1>3, <1>5, <1>6, <1>7, <1>8, <1>9, <1>11, <1>14, <1>15, RequestStep

LEMMA IdleType == Idle \in Sending /\ Idle.at = "idle" /\ Idle.user = None
BY DEF Idle, Sending, Phases

\* A request that has not passed the quota, or is counted already, ends.
LEMMA EndStep ==
  ASSUME Inv, NEW r \in Requests, GiveUp(r) \/ Record(r)
  PROVE  Inv'
<1>0. Types /\ Kept  BY DEF Inv
<1>1. /\ send[r].at \in {"resolving", "recording"} /\ send' = [send EXCEPT ![r] = Idle]
      /\ UNCHANGED <<page, sheet, events, made, loose>>
  BY DEF GiveUp, Record
<1>2. events' \in [Users -> Nat] /\ made' \in [Users -> Nat] /\ loose' \in [Users -> BOOLEAN]
  BY <1>0, <1>1 DEF Types
<1>3. Kept'
  <2>1. \A q \in Requests : \/ send'[q] = send[q]
                            \/ send[q].at \in {"resolving", "recording"} /\ send'[q].at = "idle"
    BY <1>0, <1>1, IdleType DEF Types
  <2> QED  BY <1>0, <1>1, <2>1, SameBooks DEF Uncounted
<1>4. CASE GiveUp(r)
  BY <1>1, <1>2, <1>3, <1>4, IdleType, RequestStep DEF GiveUp
<1>5. CASE Record(r)
  \* The record names the release that was sent, unless the page changed under the sheet.
  <2> DEFINE m == [owner |-> send[r].user, label |-> send[r].opt.rel, id |-> send[r].opt.id,
                   sent |-> send[r].rel, moved |-> send[r].moved]
  <2>1. send[r].moved \/ send[r].rel = send[r].opt.rel  BY <1>5 DEF Record, Inv, InSend
  <2>2. m \in Mark
    BY <1>0, <1>5 DEF Record, Types, Sending, Mark, Options
  <2>3. m.owner # None => m.moved \/ m.sent = m.label  BY <2>1
  <2>4. send[r].title \in Titles /\ rec' = [rec EXCEPT ![send[r].title] = m]
    BY <1>0, <1>5 DEF Record, Types, SaveSourceDownload, Destination
  <2> HIDE DEF m
  <2>5. rec' \in [Titles -> Mark] /\ InRecord'
    BY <1>0, <2>2, <2>3, <2>4 DEF Types, Inv, InRecord
  <2> QED  BY <1>1, <1>2, <1>3, <2>5, IdleType, RequestStep
<1> QED  BY <1>4, <1>5

LEMMA CreateStep ==
  ASSUME Inv, NEW r \in Requests, Create(r)
  PROVE  Inv'
<1>0. Types  BY DEF Inv
<1>1. send[r].at = "creating" /\ UNCHANGED <<page, sheet, events, rec, loose>>
  BY DEF Create
<1>2. send[r] \in Sending /\ send[r].user \in Users  BY <1>0, <1>1 DEF Types
<1>3. PICK u \in Users : u = send[r].user  BY <1>2
<1> DEFINE s == [send[r] EXCEPT !.at = "counting", !.picks = {}, !.out = {}]
<1>4. send' = [send EXCEPT ![r] = s]  BY <1>0 DEF Create, Types
<1>5. /\ s \in Sending /\ s.at = "counting" /\ s.files = send[r].files /\ s.rel = send[r].rel
      /\ s.user = u /\ s.title = send[r].title /\ s.opt = send[r].opt /\ s.moved = send[r].moved
  BY <1>2, <1>3 DEF Sending, Phases
<1>6. Size(r) \in Nat  BY <1>2, Numbers DEF Size, Sending
<1>7. made' = [made EXCEPT ![u] = IF loose[u] THEN @ ELSE @ + Size(r)]
  BY <1>3 DEF Create, Started, Size
<1>8. made' \in [Users -> Nat] /\ \A v \in Users \ {u} : made'[v] = made[v]
  BY <1>0, <1>6, <1>7 DEF Types
<1>9. Size(r) <= Limit /\ Cardinality(s.files) = Size(r)
  BY <1>1, <1>5 DEF Inv, Kept, Small, Size
<1>10. ASSUME ~loose'[u] PROVE Booked(u)'
  <2>1. Booked(u) /\ Uncounted(r, u) /\ ~loose[u]
    BY <1>1, <1>3, <1>10 DEF Inv, Kept, Uncounted
  <2>2. send'[r] = s /\ \A q \in Requests \ {r} : send'[q] = send[q]
    BY <1>0, <1>4 DEF Types
  <2>3. \A q \in Requests : Uncounted(q, u)' <=> q = r
    BY <1>3, <1>5, <2>1, <2>2 DEF Uncounted, Booked
  <2>4. Size(r)' = Size(r) /\ send'[r].at = "counting"  BY <1>5, <2>2 DEF Size
  <2>5. /\ events[u] + Size(r) <= Limit /\ made[u] <= events[u] /\ events[u] <= Limit
    BY <1>1, <2>1 DEF Booked
  <2>6. made'[u] = made[u] + Size(r) /\ made[u] \in Nat /\ events[u] \in Nat
    BY <1>0, <1>7, <2>1 DEF Types
  <2>7. made'[u] <= events[u] + Size(r)  BY <1>6, <2>5, <2>6
  <2> QED  BY <1>1, <2>3, <2>4, <2>5, <2>7 DEF Booked
<1>11. events' \in [Users -> Nat] /\ loose' \in [Users -> BOOLEAN]  BY <1>0, <1>1 DEF Types
<1> HIDE DEF s
<1>12. Kept'
  BY <1>1, <1>3, <1>4, <1>5, <1>8, <1>9, <1>10, OwnBooks
<1>13. s.title \in Titles /\ s.opt \in Options /\ s.rel \in Releases /\ (s.moved \/ s.rel = s.opt.rel)
  BY <1>0, <1>1, <1>5 DEF Types, Inv, InSend
<1> QED
  BY <1>1, <1>4, <1>5, <1>8, <1>11, <1>12, <1>13, RequestStep

LEMMA CreateLostStep ==
  ASSUME Inv, NEW r \in Requests, CreateUnheard(r) \/ CreateFails(r)
  PROVE  Inv'
<1>0. Types  BY DEF Inv
<1>1. /\ send[r].at = "creating" /\ send' = [send EXCEPT ![r] = Idle]
      /\ UNCHANGED <<page, sheet, events, rec, made>>
  BY DEF CreateUnheard, CreateFails
<1>2. send[r].user \in Users  BY <1>0, <1>1 DEF Types
<1>3. PICK u \in Users : u = send[r].user  BY <1>2
<1>4. loose' \in [Users -> BOOLEAN] /\ \A v \in Users \ {u} : loose'[v] = loose[v]
  BY <1>0, <1>3 DEF CreateUnheard, CreateFails, Types
<1>5. ASSUME ~loose'[u] PROVE Booked(u)'
  <2>1. CreateFails(r)  BY <1>0, <1>3, <1>5 DEF CreateUnheard, Types
  <2>2. Booked(u) /\ Uncounted(r, u)
    BY <1>1, <1>3, <1>5, <2>1 DEF CreateFails, Inv, Kept, Uncounted
  <2>3. \A q \in Requests : ~Uncounted(q, u)'
    BY <1>0, <1>1, <2>2, IdleType DEF Uncounted, Booked, Types
  <2> QED  BY <1>1, <2>2, <2>3 DEF Booked
<1>6. Kept'  BY <1>1, <1>3, <1>4, <1>5, IdleType, OwnBooks
<1>7. events' \in [Users -> Nat] /\ made' \in [Users -> Nat]  BY <1>0, <1>1 DEF Types
<1> QED  BY <1>1, <1>4, <1>6, <1>7, IdleType, RequestStep

LEMMA CountStep ==
  ASSUME Inv, NEW r \in Requests, Count(r)
  PROVE  Inv'
<1>0. Types  BY DEF Inv
<1>1. send[r].at = "counting" /\ UNCHANGED <<page, sheet, rec, made>>
  BY DEF Count
<1>2. send[r] \in Sending /\ send[r].user \in Users  BY <1>0, <1>1 DEF Types
<1>3. PICK u \in Users : u = send[r].user  BY <1>2
<1> DEFINE s == [send[r] EXCEPT !.at = "recording", !.files = {}]
<1>4. send' = [send EXCEPT ![r] = s]  BY <1>0 DEF Count, Types
<1>5. /\ s \in Sending /\ s.at = "recording" /\ s.rel = send[r].rel
      /\ s.user = u /\ s.title = send[r].title /\ s.opt = send[r].opt /\ s.moved = send[r].moved
  BY <1>2, <1>3 DEF Sending, Phases
<1>6. Size(r) \in Nat  BY <1>2, Numbers DEF Size, Sending
<1>7. \/ events' = [events EXCEPT ![u] = @ + Size(r)] /\ loose' = loose
      \/ loose' = [loose EXCEPT ![u] = TRUE] /\ events' = events
  BY <1>3 DEF Count, Counting, Size
<1>8. /\ events' \in [Users -> Nat] /\ loose' \in [Users -> BOOLEAN]
      /\ \A v \in Users \ {u} : events'[v] = events[v] /\ loose'[v] = loose[v]
  <2>1. events \in [Users -> Nat] /\ loose \in [Users -> BOOLEAN]  BY <1>0 DEF Types
  <2>2. CASE events' = [events EXCEPT ![u] = @ + Size(r)] /\ loose' = loose
    BY <1>6, <2>1, <2>2
  <2>3. CASE loose' = [loose EXCEPT ![u] = TRUE] /\ events' = events
    BY <2>1, <2>3
  <2> QED  BY <1>7, <2>2, <2>3
<1>9. ASSUME ~loose'[u] PROVE Booked(u)'
  <2>1. events' = [events EXCEPT ![u] = @ + Size(r)] /\ ~loose[u]
    BY <1>0, <1>7, <1>9 DEF Types
  <2>2. Booked(u) /\ Uncounted(r, u)
    BY <1>1, <1>3, <2>1 DEF Inv, Kept, Uncounted
  <2>3. \A q \in Requests : ~Uncounted(q, u)'
    BY <1>0, <1>4, <1>5, <2>2 DEF Uncounted, Booked, Types
  <2>4. events'[u] = events[u] + Size(r)  BY <1>0, <2>1 DEF Types
  <2>5. events[u] + Size(r) <= Limit /\ made[u] <= events[u] + Size(r)
    BY <1>1, <2>2 DEF Booked
  <2> QED  BY <1>1, <2>3, <2>4, <2>5 DEF Booked
<1>10. made' \in [Users -> Nat]  BY <1>0, <1>1 DEF Types
<1> HIDE DEF s
<1>11. Kept'
  BY <1>1, <1>3, <1>4, <1>5, <1>8, <1>9, OwnBooks
<1>12. s.title \in Titles /\ s.opt \in Options /\ s.rel \in Releases /\ (s.moved \/ s.rel = s.opt.rel)
  BY <1>0, <1>1, <1>5 DEF Types, Inv, InSend
<1> QED
  BY <1>1, <1>4, <1>5, <1>8, <1>10, <1>11, <1>12, RequestStep

-----------------------------------------------------------------------------
\* A page that changes is still a page, and what was read of it is known to be out of date.
LEMMA ChangedIsPage ==
  ASSUME Types, NEW t \in Titles, NEW p \in Changed(t), page[t].order # <<>>
  PROVE  p \in Page
<1> DEFINE q == page[t].order
<1>1. page[t] \in [order : Seq(Releases), out : SUBSET (1..Announced)] /\ q \in Seq(Releases) /\ Distinct(q)
  BY DEF Types, Page
<1>2. CASE \E rel \in Releases \ Listed(t) : p = [page[t] EXCEPT !.order = <<rel>> \o @]
  <2>1. PICK rel \in Releases \ Listed(t) : p = [page[t] EXCEPT !.order = <<rel>> \o @]
    BY <1>2
  <2>2. p.order = <<rel>> \o q /\ p.out = page[t].out /\ p = [order |-> p.order, out |-> p.out]
    BY <1>1, <2>1
  <2>3. \A i \in DOMAIN q : q[i] # rel  BY DEF Listed
  <2>4. p.order \in Seq(Releases)  BY <1>1, <2>2
  <2>5. Distinct(p.order)
    <3>1. /\ DOMAIN p.order = 1..(1 + Len(q)) /\ p.order[1] = rel
          /\ \A i \in 2..(1 + Len(q)) : p.order[i] = q[i - 1]
      BY <1>1, <2>2
    <3>2. DOMAIN q = 1..Len(q) /\ Len(q) \in Nat  BY <1>1
    <3>3. \A i, j \in 1..Len(q) : q[i] = q[j] => i = j  BY <1>1, <3>2 DEF Distinct
    <3>4. \A i \in 1..Len(q) : q[i] # rel  BY <2>3, <3>2
    <3> HIDE DEF q
    <3> SUFFICES ASSUME NEW i \in 1..(1 + Len(q)), NEW j \in 1..(1 + Len(q)),
                        p.order[i] = p.order[j]
                 PROVE  i = j
      BY <3>1 DEF Distinct
    <3>5. CASE i = 1  BY <3>1, <3>2, <3>4, <3>5
    <3>6. CASE j = 1  BY <3>1, <3>2, <3>4, <3>6
    <3>7. CASE i # 1 /\ j # 1
      <4>1. i - 1 \in 1..Len(q) /\ j - 1 \in 1..Len(q) /\ q[i - 1] = q[j - 1]
        BY <3>1, <3>2, <3>7
      <4> QED  BY <3>2, <3>3, <4>1
    <3> QED  BY <3>5, <3>6, <3>7
  <2> QED  BY <1>1, <2>2, <2>4, <2>5 DEF Page
<1>3. CASE Len(q) > 1 /\ p = [page[t] EXCEPT !.order = [@ EXCEPT ![1] = q[2], ![2] = q[1]]]
  <2>1. p.order = [q EXCEPT ![1] = q[2], ![2] = q[1]] /\ p.out = page[t].out
        /\ p = [order |-> p.order, out |-> p.out]
    BY <1>1, <1>3
  <2>2. DOMAIN q = 1..Len(q) /\ Len(q) \in Nat /\ q[1] \in Releases /\ q[2] \in Releases
    BY <1>1, <1>3
  <2>3. p.order \in Seq(Releases)  BY <1>1, <1>3, <2>1, <2>2
  <2>4. Distinct(p.order)
    <3>1. /\ DOMAIN p.order = 1..Len(q) /\ p.order[1] = q[2] /\ p.order[2] = q[1]
          /\ \A i \in 3..Len(q) : p.order[i] = q[i]
      BY <1>3, <2>1, <2>2
    <3>2. \A i, j \in 1..Len(q) : q[i] = q[j] => i = j  BY <1>1, <2>2 DEF Distinct
    <3> DEFINE at(i) == CASE i = 1 -> 2 [] i = 2 -> 1 [] OTHER -> i
    <3>3. \A i \in 1..Len(q) : at(i) \in 1..Len(q) /\ p.order[i] = q[at(i)]
      BY <1>3, <2>2, <3>1
    <3>4. \A i, j \in 1..Len(q) : at(i) = at(j) => i = j  OBVIOUS
    <3> HIDE DEF q, at
    <3> SUFFICES ASSUME NEW i \in 1..Len(q), NEW j \in 1..Len(q), p.order[i] = p.order[j]
                 PROVE  i = j
      BY <3>1 DEF Distinct
    <3>5. at(i) = at(j)  BY <3>2, <3>3
    <3> QED  BY <3>4, <3>5
  <2> QED  BY <1>1, <2>1, <2>3, <2>4 DEF Page
<1>4. CASE \E e \in 1..Announced : p = [page[t] EXCEPT !.out = @ \cup {e}]
  BY <1>1, <1>4 DEF Page
<1>5. \A e \in IF t \in Series THEN (1..Announced) \ page[t].out ELSE {} : e \in 1..Announced
  OBVIOUS
<1> QED  BY <1>2, <1>3, <1>4, <1>5 DEF Changed

LEMMA ChangeStep ==
  ASSUME Inv, NEW t \in Titles, ChangePage(t)
  PROVE  Inv'
<1>0. Types  BY DEF Inv
<1>1. /\ UNCHANGED <<events, rec, made, loose>>
      /\ sheet' = [u \in Users |-> [sheet[u] EXCEPT !.moved = @ \/ sheet[u].title = t]]
      /\ send' = [r \in Requests |->
           [send[r] EXCEPT !.moved = @ \/ (send[r].title = t /\ send[r].at = "resolving")]]
  BY DEF ChangePage
<1>2. page' \in [Titles -> Page] /\ \A x \in Titles \ {t} : page'[x] = page[x]
  <2>1. PICK p \in Changed(t) : page' = [page EXCEPT ![t] = p]  BY DEF ChangePage
  <2>2. p \in Page  BY <1>0, ChangedIsPage DEF ChangePage
  <2> QED  BY <1>0, <2>1, <2>2 DEF Types
<1>3. \A u \in Users :
        /\ sheet'[u] \in [title : Titles \cup {None}, options : SUBSET Options, moved : BOOLEAN]
        /\ sheet'[u].title = sheet[u].title /\ sheet'[u].options = sheet[u].options
        /\ sheet'[u].moved = (sheet[u].moved \/ sheet[u].title = t)
  BY <1>0, <1>1 DEF Types
<1>4. \A r \in Requests :
        /\ send'[r] \in Sending
        /\ send'[r].at = send[r].at /\ send'[r].user = send[r].user /\ send'[r].title = send[r].title
        /\ send'[r].opt = send[r].opt /\ send'[r].picks = send[r].picks
        /\ send'[r].out = send[r].out /\ send'[r].files = send[r].files
        /\ send'[r].rel = send[r].rel
        /\ send'[r].moved = (send[r].moved \/ (send[r].title = t /\ send[r].at = "resolving"))
  <2> TAKE r \in Requests
  <2>1. send[r] \in Sending
        /\ send'[r] = [send[r] EXCEPT !.moved = @ \/ (send[r].title = t /\ send[r].at = "resolving")]
    BY <1>0, <1>1 DEF Types
  <2> QED  BY <2>1 DEF Sending
<1>5. Types'
  <2>1. sheet' \in [Users -> [title : Titles \cup {None}, options : SUBSET Options, moved : BOOLEAN]]
    BY <1>1, <1>3
  <2>2. send' \in [Requests -> Sending]  BY <1>1, <1>4
  <2>3. \A u \in Users : sheet'[u].options # {} => sheet'[u].title \in Titles
    BY <1>0, <1>3 DEF Types
  <2>4. \A r \in Requests :
          /\ send'[r].at # "idle" =>
               send'[r].user \in Users /\ send'[r].title \in Titles /\ send'[r].opt \in Options
          /\ send'[r].at \in {"creating", "counting", "recording"} => send'[r].rel \in Releases
    BY <1>0, <1>4 DEF Types
  <2>5. /\ rec' \in [Titles -> Mark] /\ events' \in [Users -> Nat]
        /\ made' \in [Users -> Nat] /\ loose' \in [Users -> BOOLEAN]
    BY <1>0, <1>1 DEF Types
  <2> QED  BY <1>2, <2>1, <2>2, <2>3, <2>4, <2>5 DEF Types
<1>6. ASSUME NEW o, NEW x \in Titles, NEW moved, Meant(o, x, moved)
      PROVE  Meant(o, x, moved \/ x = t)'
  <2>1. CASE x = t  BY <1>6, <2>1 DEF Meant
  <2>2. CASE x # t  BY <1>2, <1>6, <2>2 DEF Meant, Listed, Place
  <2> QED  BY <2>1, <2>2
<1>7. OnSheet'
  <2> SUFFICES ASSUME NEW u \in Users, NEW o \in sheet'[u].options,
                      NEW x, x = sheet'[u].title, NEW moved, moved = sheet'[u].moved
               PROVE  Meant(o, x, moved)'
    BY DEF OnSheet
  <2>1. PICK before : before = sheet[u].moved  OBVIOUS
  <2>2. x \in Titles /\ Meant(o, x, before)  BY <1>0, <1>3, <2>1 DEF Types, Inv, OnSheet
  <2>3. moved = (before \/ x = t)  BY <1>3, <2>1
  <2> QED  BY <1>6, <2>2, <2>3
<1>8. InSend'
  <2>1. ASSUME NEW r \in Requests, send'[r].at = "resolving",
               NEW o, o = send'[r].opt, NEW x, x = send'[r].title, NEW moved, moved = send'[r].moved
        PROVE  Meant(o, x, moved)'
    <3>1. PICK before : before = send[r].moved  OBVIOUS
    <3>2. x \in Titles /\ Meant(o, x, before)
      BY <1>0, <1>4, <2>1, <3>1 DEF Types, Inv, InSend
    <3>3. moved = (before \/ x = t)  BY <1>4, <2>1, <3>1
    <3> QED  BY <1>6, <3>2, <3>3
  <2>2. ASSUME NEW r \in Requests, send'[r].at \in {"creating", "counting", "recording"}
        PROVE  send'[r].moved \/ send'[r].rel = send'[r].opt.rel
    BY <1>4, <2>2 DEF Inv, InSend
  <2>3. ASSUME NEW r \in Requests, send'[r].at = "creating"
        PROVE  AsPicked(send'[r])
    BY <1>4, <2>3 DEF Inv, InSend, AsPicked
  <2> QED  BY <2>1, <2>2, <2>3 DEF InSend, AsPicked
<1>9. InRecord'  BY <1>1 DEF Inv, InRecord
<1>10. Kept'  BY <1>1, <1>4, SameBooks DEF Inv, Uncounted
<1> QED  BY <1>5, <1>7, <1>8, <1>9, <1>10 DEF Inv

\* A day passes for a user, or the administrator resets the count.
LEMMA ResetStep ==
  ASSUME Inv, NEW u \in Users, ResetUserDownloads(u)
  PROVE  Inv'
<1>0. Types  BY DEF Inv
<1>1. /\ UNCHANGED <<page, sheet, send, rec>>
      /\ events' = [events EXCEPT ![u] = 0] /\ made' = [made EXCEPT ![u] = 0]
      /\ loose' = [loose EXCEPT ![u] = \E r, q \in Requests : r # q /\ Uncounted(r, u) /\ Uncounted(q, u)]
  BY DEF ResetUserDownloads
<1>2. Types'  BY <1>0, <1>1 DEF Types
<1>3. OnSheet' /\ InSend' /\ InRecord'
  BY <1>1, SamePage DEF Inv, OnSheet, InSend, AsPicked, InRecord
<1>4. Small'  BY <1>1 DEF Inv, Kept, Small, Size
<1>5. ASSUME NEW v \in Users, ~loose'[v] PROVE Booked(v)'
  <2>1. \A q \in Requests : (Uncounted(q, v)' <=> Uncounted(q, v)) /\ Size(q)' = Size(q)
    BY <1>1 DEF Uncounted, Size
  <2>2. CASE v # u
    <3>1. Booked(v) /\ events'[v] = events[v] /\ made'[v] = made[v]
      BY <1>0, <1>1, <1>5, <2>2 DEF Types, Inv, Kept
    <3> QED  BY <1>1, <2>1, <3>1 DEF Booked
  <2>3. CASE v = u
    <3>1. events'[v] = 0 /\ made'[v] = 0  BY <1>0, <1>1, <2>3 DEF Types
    <3>2. \A r, q \in Requests : Uncounted(r, v) /\ Uncounted(q, v) => r = q
      BY <1>0, <1>1, <1>5, <2>3 DEF Types
    <3>3. \A r \in Requests : Uncounted(r, v) => Size(r) \in Nat /\ Size(r) <= Limit
      <4> TAKE r \in Requests
      <4>1. send[r].files \in SUBSET (0..Announced)  BY <1>0 DEF Types, Sending
      <4> QED  BY <4>1, Numbers DEF Uncounted, Inv, Kept, Small, Size
    <3> QED  BY <1>1, <2>1, <3>1, <3>2, <3>3, SendAssumption DEF Booked
  <2> QED  BY <2>2, <2>3
<1> QED  BY <1>2, <1>3, <1>4, <1>5 DEF Inv, Kept

LEMMA RestartStep ==
  ASSUME Inv, Restart
  PROVE  Inv'
<1>0. Types  BY DEF Inv
<1>1. /\ UNCHANGED <<page, sheet, events, rec, made>> /\ send' = [r \in Requests |-> Idle]
      /\ loose' = [u \in Users |-> loose[u] \/ \E r \in Requests : /\ send[r].user = u
                                                                 /\ send[r].at = "counting"]
  BY DEF Restart
<1>2. \A r \in Requests : send'[r] = Idle  BY <1>1
<1>3. Types'  BY <1>0, <1>1, <1>2, IdleType DEF Types
<1>4. OnSheet' /\ InSend' /\ InRecord'
  BY <1>1, <1>2, IdleType, SamePage DEF Inv, OnSheet, InSend, InRecord
<1>5. Small'  BY <1>2, IdleType DEF Small
<1>6. ASSUME NEW u \in Users, ~loose'[u] PROVE Booked(u)'
  <2>1. ~loose[u] /\ \A r \in Requests : ~(send[r].user = u /\ send[r].at = "counting")
    BY <1>1, <1>6
  <2>2. Booked(u)  BY <2>1 DEF Inv, Kept
  <2>3. made[u] <= events[u]
    <3>1. CASE \E r \in Requests : Uncounted(r, u)
      BY <2>1, <2>2, <3>1 DEF Booked, Uncounted
    <3>2. CASE \A r \in Requests : ~Uncounted(r, u)
      BY <2>2, <3>2 DEF Booked
    <3> QED  BY <3>1, <3>2
  <2>4. \A r \in Requests : ~Uncounted(r, u)'  BY <1>2, IdleType DEF Uncounted
  <2> QED  BY <1>1, <2>2, <2>3, <2>4 DEF Booked
<1> QED  BY <1>3, <1>4, <1>5, <1>6 DEF Inv, Kept

LEMMA Elsewhere ==
  ASSUME Inv, UNCHANGED <<page, sheet, send, events, rec, made, loose>>
  PROVE  Inv'
<1>1. Types'  BY DEF Inv, Types
<1>2. OnSheet' /\ InSend' /\ InRecord'
  BY SamePage DEF Inv, OnSheet, InSend, AsPicked, InRecord
<1>3. Kept'  BY SameBooks DEF Inv, Uncounted
<1> QED  BY <1>1, <1>2, <1>3 DEF Inv

LEMMA Step == Inv /\ [Next]_vars => Inv'
<1> SUFFICES ASSUME Inv, [Next]_vars PROVE Inv'  OBVIOUS
<1>1. CASE \E u \in Users : OpenTitle(u) \/ NextDay(u) \/ HandleResetUserDownloads(u)
  BY <1>1, OpenStep, ResetStep DEF NextDay, HandleResetUserDownloads
<1>2. CASE \E r \in Requests : StartSend(r) \/ GiveUp(r) \/ Resolve(r) \/ Create(r)
                               \/ CreateUnheard(r) \/ CreateFails(r) \/ Count(r) \/ Record(r)
  BY <1>2, StartStep, EndStep, ResolveStep, CreateStep, CreateLostStep, CountStep
<1>3. CASE \E t \in Titles : ChangePage(t)  BY <1>3, ChangeStep
<1>4. CASE Subscribe  BY <1>4, Elsewhere DEF Subscribe
<1>5. CASE Restart  BY <1>5, RestartStep
<1>6. CASE UNCHANGED vars  BY <1>6, Elsewhere DEF vars
<1> QED  BY <1>1, <1>2, <1>3, <1>4, <1>5, <1>6 DEF Next

LEMMA Invariant == Spec => []Inv
BY InitInv, Step, PTL DEF Spec

(***************************************************************************)
(* The daily quota of source_handlers.go: a user whose sends do not        *)
(* overlap, and whose downloads could be counted, never starts more than   *)
(* the limit in a day, however many episodes a send selects.               *)
(***************************************************************************)
THEOREM QuotaIsKept == Spec => []QuotaHolds
<1>1. Inv => QuotaHolds
  <2> SUFFICES ASSUME Inv, NEW u \in Users, ~loose[u] PROVE made[u] <= Limit
    BY DEF QuotaHolds
  <2>1. Booked(u) /\ made[u] \in Nat /\ events[u] \in Nat  BY DEF Inv, Types, Kept
  <2>2. CASE \A r \in Requests : ~Uncounted(r, u)
    BY <2>1, <2>2, SendAssumption DEF Booked
  <2>3. ASSUME NEW r \in Requests, Uncounted(r, u) PROVE made[u] <= Limit
    <3>1. send[r].files \in SUBSET (0..Announced)  BY DEF Inv, Types, Sending
    <3>2. Size(r) \in Nat  BY <3>1, Numbers DEF Size
    <3> QED  BY <2>1, <2>3, <3>2, SendAssumption DEF Booked
  <2> QED  BY <2>2, <2>3
<1> QED  BY <1>1, Invariant, PTL

(***************************************************************************)
(* What reaches CreateTaskURIs is what was chosen on the sheet, the        *)
(* release and the episodes, although both sources are asked again and     *)
(* zarfilm's ids and all episode picks are places in a list.               *)
(***************************************************************************)
THEOREM PicksAreSent == Spec => []SentAsPicked
<1>1. Inv => SentAsPicked
  BY DEF Inv, InSend, AsPicked, SentAsPicked
<1> QED  BY <1>1, Invariant, PTL

(***************************************************************************)
(* The mark "already here" (library.go:775-779) goes by the option's own   *)
(* wording: it is on a release that really was sent to that destination.   *)
(***************************************************************************)
THEOREM MarksAreTrue == Spec => []MarkIsTrue
<1>1. Inv => MarkIsTrue
  <2> SUFFICES ASSUME Inv, NEW t \in Titles, NEW o \in Owned(t)
               PROVE  rec[Destination(t)].moved \/ rec[Destination(t)].sent = o.rel
    BY DEF MarkIsTrue
  <2>1. rec[t].owner # None /\ o.rel = rec[t].label
    BY DEF Owned, VersionWasSent, Destination
  <2> QED  BY <2>1 DEF Inv, InRecord, Destination
<1> QED  BY <1>1, Invariant, PTL
=============================================================================
