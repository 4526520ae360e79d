------------------------------- MODULE Catalog -------------------------------
(***************************************************************************)
(* Browsing several sources as one catalog (api/source_caps.go,           *)
(* source_multi.go, source/merge.go): how SynoDL learns what each source   *)
(* can filter by, what becomes of a user's sheet and filters, and how the  *)
(* answers of a search are merged.  CatalogWords has what is said.         *)
(*                                                                         *)
(* The genres a site knows change; a reading of a source's abilities is    *)
(* cached until it is too old.  Filters live with the user: they survive a *)
(* new sheet and, mostly, another selection.                               *)
(***************************************************************************)
EXTENDS CatalogWords, Sequences

SE == INSTANCE SequencesExt

CONSTANTS MaxTurns,    \* bound: changes at the sites, readings that grow old, and restarts
          MaxPage      \* bound: items of a page whose merging is checked

VARIABLES
  site,   \* site[s]: the genres its own search offers (the environment)
  caps,   \* capsCache.byID: what a source said it can do, or Unread
  turns

vars == <<site, caps, ask, view, turns>>

-----------------------------------------------------------------------------
\* What a reading of a source finds.

\* Parameters of 30nama: the whole list, or an error.
NamaReads(s) == {Unread, Read(site[s], TRUE, TRUE)}

\* Parameters of zarfilm: a form that does not come leaves the types and is no error; genre
\* routes that do not come leave the genres without a slug.
AdvancedForm(s) == {[genres |-> {}, form |-> FALSE], [genres |-> site[s], form |-> TRUE]}
GenreSlugs      == BOOLEAN
ZarReads(s) ==
  {Read(a.genres, a.form, a.form /\ slugs) : a \in AdvancedForm(s), slugs \in GenreSlugs}
Reads(s) == IF s \in Nama THEN NamaReads(s) ELSE ZarReads(s)

-----------------------------------------------------------------------------
\* The answers merged into one page.  A page is a sequence of ratings, 0 for none; an item is the
\* page it is from, its place there and its rating.

CatalogTitle(p, i, rating) == [page |-> p, place |-> i, rating |-> rating]
Items(pages) ==
  UNION {{CatalogTitle(p, i, pages[p][i]) : i \in DOMAIN pages[p]} : p \in DOMAIN pages}

\* Interleave: the first of each source, then the second of each, and so on.
Turnwise(a, b) == a.place < b.place \/ (a.place = b.place /\ a.page < b.page)
Interleave(pages) == SE!SetToSortSeq(Items(pages), Turnwise)

\* MergeByScore: a stable sort of that; an unrated item comes last either way.
Unrated(a) == a.rating = 0
BetterRated(a, b, asc) ==   \* a slip: no rating is the lowest rating
  IF asc THEN a.rating < b.rating ELSE a.rating > b.rating
Better(a, b, asc) ==
  IF Unrated(a) \/ Unrated(b) THEN ~Unrated(a) /\ Unrated(b)
  ELSE IF asc THEN a.rating < b.rating ELSE a.rating > b.rating
MergeByScore(pages, asc) ==
  SE!SetToSortSeq(Items(pages), LAMBDA a, b :
    Better(a, b, asc) \/ (~Better(b, a, asc) /\ Turnwise(a, b)))

-----------------------------------------------------------------------------
\* Requests.

Quiet == [kind |-> "none", sel |-> {}, left |-> {}, calling |-> FALSE, answer |-> Unread,
          got |-> [s \in Srcs |-> Unread], switch |-> FALSE]
Selections == {sel \in SUBSET Srcs : sel = Srcs \/ Cardinality(sel) = 1}   \* selectRefs
NoFilters  == [f \in Facets |-> {}]
Request(kind, sel, switch) ==
  [Quiet EXCEPT !.kind = kind, !.sel = sel, !.left = sel, !.switch = switch]

\* gatherParameters: the sheet is opened, or the client has chosen another selection (setSource).
OpenSheet(u) ==
  /\ ask[u] = Quiet
  /\ \E sel \in Selections :
       /\ ask'  = [ask EXCEPT ![u] = Request("sheet", sel, sel # view[u].sel)]
       /\ view' = [view EXCEPT ![u].sel = sel]
  /\ UNCHANGED <<site, caps, turns>>

\* A search needs the abilities of its sources only when there are several.
OpenSearch(u) ==
  /\ ask[u] = Quiet
  /\ ask' = [ask EXCEPT ![u] =
       IF Cardinality(view[u].sel) < 2
       THEN [Request("search", view[u].sel, FALSE) EXCEPT !.left = {}]
       ELSE Request("search", view[u].sel, FALSE)]
  /\ UNCHANGED <<site, caps, view, turns>>

\* sourceCaps, one source after the other: from the cache, or by asking the source.
TakeCached(u) ==
  /\ ask[u].left # {} /\ ~ask[u].calling
  /\ LET s == First(ask[u].left) IN
       /\ caps[s].read
       /\ ask' = [ask EXCEPT ![u].got[s] = caps[s], ![u].left = @ \ {s}]
  /\ UNCHANGED <<site, caps, view, turns>>

AskSource(u) ==
  /\ ask[u].left # {} /\ ~ask[u].calling
  /\ LET s == First(ask[u].left) IN
       /\ ~caps[s].read
       /\ \E r \in Reads(s) : ask' = [ask EXCEPT ![u].calling = TRUE, ![u].answer = r]
  /\ UNCHANGED <<site, caps, view, turns>>

\* The answer is taken, and kept unless it was an error.
CacheAnswer(s, r) == IF r.read THEN [caps EXCEPT ![s] = r] ELSE caps
TakeAnswer(u) ==
  /\ ask[u].calling
  /\ LET s == First(ask[u].left) IN
       /\ caps' = CacheAnswer(s, ask[u].answer)
       /\ ask'  = [ask EXCEPT ![u].calling = FALSE, ![u].answer = Unread,
                              ![u].got[s] = ask[u].answer, ![u].left = @ \ {s}]
  /\ UNCHANGED <<site, view, turns>>

\* dropUnsupportedFilters, after another selection: a facet the sheet does not offer is left
\* alone, and so is the type.  reconcileSort: an ordering that is not offered goes.
Dropped(held, sheet) ==
  [f \in Facets |->
     IF f = "type" \/ (f # "sort" /\ sheet[f] = {}) THEN held[f] ELSE held[f] \cap sheet[f]]
Reconciled(held, sheet) ==
  IF sheet["sort"] = {} THEN held ELSE [held EXCEPT !["sort"] = @ \cap sheet["sort"]]

ShowSheet(u) ==
  /\ ask[u].kind = "sheet" /\ ask[u].left = {}
  /\ LET known == Known(ask[u].sel, ask[u].got)
         sheet == IF known = {} THEN view[u].sheet ELSE Sheet(known, ask[u].got)
         held  == Reconciled(view[u].held, sheet)
     IN  view' = [view EXCEPT ![u].sheet = sheet,
                    ![u].held = IF ask[u].switch THEN Dropped(held, sheet) ELSE held,
                    ![u].basis = IF known = ask[u].sel THEN ask[u].got
                                 ELSE [s \in Srcs |-> Unread]]
  /\ ask' = [ask EXCEPT ![u] = Quiet]
  /\ UNCHANGED <<site, caps, turns>>

Search(u) ==
  /\ Searching(u)
  /\ ask' = [ask EXCEPT ![u] = Quiet]
  /\ UNCHANGED <<site, caps, view, turns>>

\* The user chooses from the sheet: values of one facet beside an ordering.
Choose(u) ==
  /\ ask[u] = Quiet
  /\ \E f \in Facets : \E ws \in SUBSET view[u].sheet[f] :
       /\ f # "genre" => Cardinality(ws) <= 1
       /\ view' = [view EXCEPT ![u].held =
            IF f = "sort" THEN [@ EXCEPT !["sort"] = ws]
            ELSE [NoFilters EXCEPT ![f] = ws, !["sort"] = view[u].held["sort"]]]
  /\ UNCHANGED <<site, caps, ask, turns>>

-----------------------------------------------------------------------------
\* The environment.

Turn == turns < MaxTurns /\ turns' = turns + 1

\* A site gains or loses a genre.
Revise(s) ==
  /\ Turn
  /\ \E genres \in SUBSET Genres : genres # site[s] /\ site' = [site EXCEPT ![s] = genres]
  /\ UNCHANGED <<caps, ask, view>>

\* capsTTL.
GrowOld(s) ==
  /\ Turn /\ caps[s].read
  /\ caps' = [caps EXCEPT ![s] = Unread]
  /\ UNCHANGED <<site, ask, view>>

\* A restart: the cache and the requests are gone, the views are the clients'.
Restart ==
  /\ Turn
  /\ caps' = [s \in Srcs |-> Unread]
  /\ ask' = [u \in Users |-> Quiet]
  /\ UNCHANGED <<site, view>>

Init ==
  /\ site = [s \in Srcs |-> Genres]
  /\ caps = [s \in Srcs |-> Unread]
  /\ ask  = [u \in Users |-> Quiet]
  /\ view = [u \in Users |-> [sel |-> Srcs, sheet |-> NoSheet, held |-> NoFilters,
                               basis |-> Quiet.got]]
  /\ turns = 0

Next ==
  \/ \E u \in Users : \/ OpenSheet(u) \/ OpenSearch(u) \/ TakeCached(u) \/ AskSource(u)
                      \/ TakeAnswer(u) \/ ShowSheet(u) \/ Search(u) \/ Choose(u)
  \/ \E s \in Srcs : Revise(s) \/ GrowOld(s)
  \/ Restart

Spec == Init /\ [][Next]_vars

-----------------------------------------------------------------------------
\* Properties.

TypeOK ==
  /\ site \in [Srcs -> SUBSET Genres] /\ turns \in 0..MaxTurns
  /\ \A s \in Srcs : caps[s].genres \subseteq Genres /\ caps[s].form \in BOOLEAN
  /\ \A u \in Users :
       /\ ask[u].kind \in {"none", "sheet", "search"} /\ ask[u].left \subseteq ask[u].sel
       /\ ask[u].calling => ask[u].left # {}
       /\ view[u].sel \in Selections

Pages == UNION {[1..n -> UNION {[1..k -> 0..2] : k \in 0..MaxPage}] : n \in 1..2}
Before(out, a, b) == \E i, j \in DOMAIN out : i < j /\ out[i] = a /\ out[j] = b

AllMergedFairly ==
  \A pages \in Pages :
    LET items == Items(pages)
        mixed == Interleave(pages)
    IN
    /\ \A out \in {mixed, MergeByScore(pages, TRUE), MergeByScore(pages, FALSE)} :
         {out[i] : i \in DOMAIN out} = items /\ Len(out) = Cardinality(items)
    /\ \A a, b \in items : a.place < b.place => Before(mixed, a, b)
    /\ \A asc \in BOOLEAN : \A a, b \in items :
         LET out == MergeByScore(pages, asc) IN
         /\ (a.rating = b.rating /\ a.page = b.page /\ a.place < b.place) => Before(out, a, b)
         /\ (a.rating # 0 /\ b.rating = 0) => Before(out, a, b)
         /\ (a.rating # 0 /\ b.rating # 0 /\ Before(out, a, b)) =>
              IF asc THEN a.rating <= b.rating ELSE a.rating >= b.rating

\* Whatever pages the sources of a search answer with, merging them loses nothing and invents
\* nothing, keeps each source's own order among equals, lets no source run more than one item
\* ahead of another that still has some, and ordered by rating is really ordered, the unrated
\* last, whichever the direction (merge.go:277, :308).
MergeIsFair == \A u \in Users : Searching(u) => AllMergedFairly
=============================================================================
