---------------------------- MODULE CatalogWords ----------------------------
(***************************************************************************)
(* What is said between a user, SynoDL and the sources when several are    *)
(* searched as one: what each can filter by, the sheet of filters all of   *)
(* them understand, and the translation of what was chosen on it into each *)
(* one's own words (api/source_caps.go, source/merge.go, the drivers).     *)
(*                                                                         *)
(* A value a query takes is a word, an option of a facet is a word and the *)
(* key by which sources are joined, and what a word narrows a source's     *)
(* answer to is its meaning.  A word belongs to a kind of source, whose    *)
(* sites all speak alike, or to any.                                       *)
(***************************************************************************)
EXTENDS SourceKinds

CONSTANTS Genres,   \* what a genre may mean
          Users

Facets == {"type", "genre", "channel", "age", "sort"}

\* A genre's English slug is not a site's own label.
ASSUME WordsAssumption == Genres \cap ({"30nama", "zarfilm"} \X Genres) = {}

VARIABLES
  ask,    \* ask[u]: a request that reads the abilities of its sources one after the other
  view    \* view[u]: the client's selection, sheet and filters

-----------------------------------------------------------------------------
\* Words and their meanings.

Word(owner, m) == <<owner, m>>
Meaning(word)  == word[2]

NamaTypes == {"movie", "series", "anime", "mini"}
ZarTypes  == {"movie", "series"}
NamaSorts == {"favorite", "imdb", "year", "date"}

\* 30nama: a canonical type is as good as its code; an ordering it does not know is another one.
TypeParam(s, m) == {Word(KindOf(s), m)} \cup (IF m = "mini" THEN {} ELSE {Word("any", m)})
OrderbyField(m) == {Word("any", x) : x \in {m} \cap NamaSorts}

\* The words by which a source narrows its answer to m, or orders it by m.  30nama: buildParams.
NamaTakes(s, f, m) ==
  CASE f = "type"    -> TypeParam(s, m)
    [] f = "sort"    -> OrderbyField(m)
    [] f = "genre"   -> {Word(KindOf(s), m)}
    [] f \in {"channel", "age"} -> {Word(KindOf(s), m)}

\* zarfilm: zarTypeParam, zarOrderParam and zarAdvancedQuery; there are no channels, and
\* an age is not read.
ZarOrders == {"favorite", "imdb", "date"}
ZarTakes(s, f, m) ==
  CASE f = "type"    -> {Word("any", x) : x \in {m} \cap ZarTypes}
    [] f = "sort"    -> {Word("any", x) : x \in {m} \cap ZarOrders}
    [] f = "genre"   -> {Word(KindOf(s), m)}
    [] f \in {"channel", "age"} -> {}

\* Search: a browse is the source's advanced search; a text search honours the type only, which
\* is applied to what comes back.
NamaHonours(s, f, w, text) == w \in NamaTakes(s, f, Meaning(w)) /\ (text => f = "type")
ZarHonours(s, f, w, text)  == w \in ZarTakes(s, f, Meaning(w)) /\ (text => f = "type")
Honoured(s, f, w, text) ==
  IF s \in Nama THEN NamaHonours(s, f, w, text) ELSE ZarHonours(s, f, w, text)

-----------------------------------------------------------------------------
\* What a source says it can do.  A reading is kept as what was read: the genres, whether the
\* search form came, and whether the genres' English slugs did.

Unread  == [genres |-> {}, form |-> FALSE, slugs |-> FALSE, read |-> FALSE]
Read(genres, form, slugs) == [genres |-> genres, form |-> form, slugs |-> slugs, read |-> TRUE]

Option(word, key) == [word |-> word, key |-> key]

\* typeFacets, facetOptions, nama30Sorts.
NamaOptions(s, r, f) ==
  CASE f = "type"    -> {Option(Word(KindOf(s), m), m) : m \in NamaTypes}
    [] f = "genre"   -> {Option(Word(KindOf(s), g), g) : g \in r.genres}
    [] f \in {"channel", "age"} -> {Option(Word(KindOf(s), f), f)}
    [] f = "sort"    -> {Option(Word("any", m), m) : m \in NamaSorts}

\* zarSorts, and the genres of the form: without a slug the key is the site's own label.
GenreKey(s, r, g) == IF r.slugs THEN g ELSE Word(KindOf(s), g)
ZarOptions(s, r, f) ==
  CASE f = "type"    -> {Option(Word("any", m), m) : m \in ZarTypes}
    [] f = "genre"   -> {Option(Word(KindOf(s), g), GenreKey(s, r, g)) : g \in r.genres}
    [] f \in {"channel", "age"} -> {}
    [] f = "sort"    -> {Option(Word("any", m), m) : m \in IF r.form THEN ZarOrders ELSE {}}

Options(s, r, f) ==
  IF ~r.read THEN {} ELSE IF s \in Nama THEN NamaOptions(s, r, f) ELSE ZarOptions(s, r, f)
Keys(opts)  == {o.key : o \in opts}
Words(opts) == {o.word : o \in opts}

-----------------------------------------------------------------------------
\* The sheet.  got[s] is the reading the request holds of s; 30nama is listed first.

Known(sel, got) == {s \in sel : got[s].read}
First(known)    == IF known \cap Nama # {} THEN CHOOSE s \in known \cap Nama : TRUE
                   ELSE CHOOSE s \in known : TRUE

\* A plausible slip: a facet is offered as the first source has it.
FirstOffers(known, got, f) == Options(First(known), got[First(known)], f)

\* IntersectParameters: the options every source has by key, shown as the first source's.
Shared(known, got, f) ==
  {o \in Options(First(known), got[First(known)], f) :
     \A s \in known : o.key \in Keys(Options(s, got[s], f))}
Sheet(known, got) == [f \in Facets |-> Words(Shared(known, got, f))]

\* A sheet that could not be had: the client keeps the one before.
NoSheet == [f \in Facets |-> {}]

-----------------------------------------------------------------------------
\* The translation.

\* meaningOf: by whichever selected source has an option of that word; "" is nobody's.
Recognised(sel, got, f, w) == \E s \in sel : w \in Words(Options(s, got[s], f))
KeyOf(sel, got, f, w) ==
  LET s == First({x \in sel : w \in Words(Options(x, got[x], f))})
  IN  (CHOOSE o \in Options(s, got[s], f) : o.word = w).key

\* A plausible slip: a source without a word for it is handed the client's.
CounterpartsOrRaw(s, sel, got, f, w) ==
  LET own == {o.word : o \in {x \in Options(s, got[s], f) :
                Recognised(sel, got, f, w) /\ x.key = KeyOf(sel, got, f, w)}}
  IN  IF own = {} THEN {w} ELSE own

\* mapValues: the source's own word for it, the word itself when nobody knows it, or nothing.
Counterparts(s, sel, got, f, w) ==
  IF ~Recognised(sel, got, f, w) THEN {w}
  ELSE {o.word : o \in {x \in Options(s, got[s], f) : x.key = KeyOf(sel, got, f, w)}}

\* perSourceFilters: a single source, or one whose abilities are unknown, is sent what the
\* client sent.  Neither the ordering nor an age is translated (translatedFacets).
Translated(f) == f \notin {"sort", "age"}
Raw(s, sel, got) == Cardinality(sel) < 2 \/ ~got[s].read
Spoken(s, sel, got, f, w) ==
  IF Raw(s, sel, got) \/ ~Translated(f) THEN {w} ELSE Counterparts(s, sel, got, f, w)

Chosen(held) == UNION {{f} \X held[f] : f \in Facets}
Unsupported(s, sel, got, held) ==
  \E p \in Chosen(held) : Spoken(s, sel, got, p[1], p[2]) = {}

\* SearchAll: each source is asked in its own words, one that has no word for a choice is not
\* asked at all.  The answer of the others is narrowed by what they honour.
Narrowed(s, sel, got, held, text) ==
  UNION {{<<p[1], Meaning(w)>> :
            w \in {v \in Spoken(s, sel, got, p[1], p[2]) : Honoured(s, p[1], v, text)}} :
          p \in Chosen(held)}

-----------------------------------------------------------------------------
\* A search.

\* handleSourceSearch, once the abilities are read: who is skipped, and what narrows the others.
Searching(u) == ask[u].kind = "search" /\ ask[u].left = {}
Skipped(u) ==
  {s \in ask[u].sel : Unsupported(s, ask[u].sel, ask[u].got, view[u].held)}
AnswerOf(u, s, text) == Narrowed(s, ask[u].sel, ask[u].got, view[u].held, text)

-----------------------------------------------------------------------------
\* Properties.

Meanings(held) == {<<p[1], Meaning(p[2])>> : p \in Chosen(held)}

\* A choice made on a sheet works: when every selected source spoke for the sheet, and says the
\* same at the search, nobody is skipped and each answer is narrowed by exactly what was chosen
\* (source_multi.go:664, "the sheet can never offer a value the translation then fails to
\* resolve").  Without "says the same" it does not hold: the cache's readings grow old one by
\* one, and zarfilm's half readings count as readings.
SheetResolves ==
  \A u \in Users :
    (/\ Searching(u) /\ Known(ask[u].sel, ask[u].got) = ask[u].sel
     /\ Cardinality(ask[u].sel) > 1 /\ view[u].basis = ask[u].got
     /\ \A f \in Facets : view[u].held[f] \subseteq view[u].sheet[f])
    => /\ Skipped(u) = {}
       /\ \A s \in ask[u].sel : AnswerOf(u, s, FALSE) = Meanings(view[u].held)

\* No source pours its whole catalog into a filtered view: one whose abilities are known either
\* is skipped, or its answer is narrowed by every choice some selected source knows
\* (source_caps.go:129), whatever sheet the filters come from and whatever has changed since.
\* An age is none of these: zarfilm does not read it, and it is sent all the same.
NeverPoured ==
  \A u \in Users : (Searching(u) /\ Cardinality(ask[u].sel) > 1) =>
    \A s \in Known(ask[u].sel, ask[u].got) \ Skipped(u) :
      \A p \in Chosen(view[u].held) :
        (Translated(p[1]) /\ Recognised(ask[u].sel, ask[u].got, p[1], p[2]))
          => <<p[1], Meaning(p[2])>> \in AnswerOf(u, s, FALSE)
=============================================================================
