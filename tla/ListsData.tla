----------------------------- MODULE ListsData ------------------------------
(***************************************************************************)
(* The lists of the browser: the table that is filtered, sorted and paged  *)
(* (components/tableControls.tsx), what a screen says of its own coverage  *)
(* (lib/screenResult.ts), the feed of headlines (lib/newsFeed.ts,          *)
(* components/news/NewsFeed.tsx) and the tone a model read in them         *)
(* (lib/newsSentiment.ts).  A cell is an integer or None; a headline is    *)
(* [words, source, publisher, at, match].                                  *)
(***************************************************************************)
EXTENDS Figures

CONSTANTS
    ListInputs,     \* the computations to run: [name |-> ..., ...]
    Stopwords,      \* words that tell nothing of a story
    Hour            \* an hour, in units of the clock of the headlines

VARIABLES given, answer

vars == <<given, answer>>

-----------------------------------------------------------------------------
(* The table.  Its state: [sort, up, filter, page].                         *)

Matching(rows, filter) == SelectSeq(rows, LAMBDA r : filter = None \/ \E c \in DOMAIN r : r[c] = filter)
Processed(rows, ctl) ==
    LET out == Matching(rows, ctl.filter)
    IN  IF ctl.sort = None THEN out ELSE SortedBy(out, LAMBDA r : r[ctl.sort], ctl.up)
Pages(rows, ctl, size) == Larger(1, (Len(Processed(rows, ctl)) + size - 1) \div size)
SafePage(rows, ctl, size) == Smaller(ctl.page, Pages(rows, ctl, size) - 1)
PageRows(rows, ctl, size) ==
    LET all == Processed(rows, ctl)
        p == SafePage(rows, ctl, size)
    IN  SubSeq(all, p * size + 1, Smaller((p + 1) * size, Len(all)))
RequestSort(ctl, key) ==
    [ctl EXCEPT !.page = 0, !.sort = key, !.up = IF ctl.sort = key THEN ~@ ELSE FALSE]
SetFilter(ctl, f) == [ctl EXCEPT !.page = 0, !.filter = f]
\* Prev and Next start from the page that is shown, and stop at the ends.
Turn(rows, ctl, size, d) ==
    LET p == SafePage(rows, ctl, size) + d
    IN  IF p \in 0..(Pages(rows, ctl, size) - 1) THEN [ctl EXCEPT !.page = p] ELSE ctl
FreshTable == [sort |-> None, up |-> FALSE, filter |-> None, page |-> 0]
Use(rows, size, ctl, op) ==
    CASE op[1] = "sort" -> RequestSort(ctl, op[2])
      [] op[1] = "filter" -> SetFilter(ctl, op[2])
      [] op[1] = "turn" -> Turn(rows, ctl, size, op[2])

-----------------------------------------------------------------------------
(* The coverage of a screen: [matched, scanned, evaluable].                 *)

Coverage(r) ==
    [matched |-> Len(r.rows), scanned |-> r.scanned, evaluable |-> r.evaluable,
     hit |-> IF Or(r.evaluable, 0) > 0 THEN ShareOf(Len(r.rows), r.evaluable, 100) ELSE None,
     usable |-> IF Or(r.scanned, 0) > 0 /\ r.evaluable # None THEN ShareOf(r.evaluable, r.scanned, 100) ELSE None]
CoverageNote(c) ==
    IF c.scanned = None THEN {"not reported"}
    ELSE {IF c.usable # None /\ Or(c.usable, 100) < 90 THEN "some skipped" ELSE "scanned", "a starting list"}
         \cup Said({<<"hit rate", c.hit # None /\ c.matched > 0>>})
ColumnCoverage(rows, cols) ==
    MapSeq(cols, LAMBDA k :
        LET filled == Len(SelectSeq(rows, LAMBDA r : r[k] # None))
        IN  [key |-> k, filled |-> filled, total |-> Len(rows), pct |-> IF rows = <<>> THEN 0 ELSE ShareOf(filled, Len(rows), 100)])
SparseColumns(cov) == SortedBy(SelectSeq(cov, LAMBDA c : c.total > 0 /\ c.pct < 50), LAMBDA c : c.pct, TRUE)
ColumnNote(sparse) ==
    Said({<<"empty", \E c \in Range(sparse) : c.filled = 0>>, <<"partial", \E c \in Range(sparse) : c.filled > 0>>})
\* A condition on a field few names have discards the others.
ThinFor(meta, key) == meta # None /\ 10 * meta.coverage[key] < Larger(10, 4 * meta.evaluable)

-----------------------------------------------------------------------------
(* Headlines.                                                               *)

OutletOf(it) == Or(it.publisher, Or(it.source, "Unknown"))
Tokens(it) == it.words \ Stopwords
\* A story gathers the later ones that share enough words with its first.
ClusterStories(items, minShared) ==
    LET alike(i, j) == Cardinality(Tokens(items[i]) \cap Tokens(items[j])) >= minShared
        gathered(out) == UNION {{c.lead} \cup c.others : c \in Range(out)}
        take(out, i) ==
            IF i \in gathered(out) THEN out
            ELSE Append(out, [lead |-> i, others |-> {j \in (i + 1)..Len(items) : j \notin gathered(out) /\ alike(i, j)}])
    IN  FoldLeft(take, <<>>, [i \in DOMAIN items |-> i])
OutletsOf(items, c) == {OutletOf(items[i]) : i \in {c.lead} \cup c.others}

\* Every word that was typed is in the headline; an undated one is not cut off.
FilterItems(items, f, now) ==
    SelectSeq(items, LAMBDA it :
        /\ f.source = None \/ Or(it.source, it.publisher) = f.source
        /\ f.words \subseteq it.words
        /\ f.within = 0 \/ it.at = None \/ Or(it.at, 0) >= now - f.within * Hour)
SourceCounts(items) ==
    LET name(it) == Or(it.source, it.publisher)
        names == {name(it) : it \in Range(items)} \ {None}
    IN  [s \in names |-> Len(SelectSeq(items, LAMBDA it : name(it) = s))]

AgeBuckets == <<"Last hour", "Today", "Yesterday", "Earlier", "Undated">>
BucketOf(it, now) ==
    IF it.at = None THEN "Undated"
    ELSE LET age == now - it.at
         IN  IF age < Hour THEN "Last hour" ELSE IF age < 24 * Hour THEN "Today" ELSE IF age < 48 * Hour THEN "Yesterday" ELSE "Earlier"
Freshness(items, now) ==
    LET stamps == {it.at : it \in Range(items)} \ {None}
    IN  [newest |-> IF stamps = {} THEN None ELSE Larger(0, now - Max(stamps)),
         lastHour |-> Len(SelectSeq(items, LAMBDA it : BucketOf(it, now) = "Last hour")),
         total |-> Len(items), outlets |-> Cardinality({OutletOf(it) : it \in Range(items)})]
\* The stories under the age of their first headline, and the one shown large:
\* the first of those most widely covered in the first bucket.
Buckets(items, now) ==
    LET clusters == ClusterStories(items, 3)
        of(b) == SelectSeq(clusters, LAMBDA c : BucketOf(items[c.lead], now) = b)
    IN  SelectSeq(MapSeq(AgeBuckets, LAMBDA b : [bucket |-> b, stories |-> of(b)]), LAMBDA x : x.stories # <<>>)
LeadStory(items, buckets) ==
    IF buckets = <<>> THEN None
    ELSE SortedBy(buckets[1].stories, LAMBDA c : Cardinality(OutletsOf(items, c)), FALSE)[1]

-----------------------------------------------------------------------------
(* Tone: the tag of a headline is found by its title, the first of equals.  *)

SentimentIndex(tagged) ==
    LET titles == {t.words : t \in Range(tagged)} \ {{}}
    IN  [w \in titles |-> SelectSeq(tagged, LAMBDA t : t.words = w)[1].sentiment]
Summarise(items, index) ==
    LET of(s) == Len(SelectSeq(items, LAMBDA it : it.words \in DOMAIN index /\ index[it.words] = s))
        tagged == of("bull") + of("bear") + of("neutral")
    IN  [bull |-> of("bull"), bear |-> of("bear"), neutral |-> of("neutral"), tagged |-> tagged, total |-> Len(items),
         score |-> IF tagged = 0 THEN None ELSE of("bull") - of("bear"),
         coverage |-> IF items = <<>> THEN None ELSE ShareOf(tagged, Len(items), 100)]
SentimentNote(s) ==
    IF s.tagged = 0 THEN {"none tagged"} ELSE {"tone"} \cup Said({<<"a subset", Or(s.coverage, 100) < 80>>})
FilterNote(strict, dropped) ==
    IF ~strict THEN {"raw feed"}
    ELSE {"filtered"} \cup Said({<<"dropped", Or(dropped, 0) > 0>>, <<"none dropped", dropped # None /\ Or(dropped, 1) = 0>>})

-----------------------------------------------------------------------------
Init == given \in ListInputs /\ answer = None
For(name) == given.name = name /\ answer = None
Answer(a) == answer' = a /\ UNCHANGED given

Arrange ==
    /\ For("arrange")
    /\ LET ctl == FoldLeft(LAMBDA c, op : Use(given.rows, given.size, c, op), FreshTable, given.ops)
       IN  Answer([ctl |-> ctl, shown |-> PageRows(given.now, ctl, given.size), page |-> SafePage(given.now, ctl, given.size),
                   pages |-> Pages(given.now, ctl, given.size), filtered |-> Len(Processed(given.now, ctl))])
Screen ==
    /\ For("screen")
    /\ LET c == Coverage(given)
           columns == ColumnCoverage(given.rows, <<"p", "q">>)
           thin == {k \in {"p", "q"} : ThinFor(given.meta, k)}
       IN  Answer([coverage |-> c, note |-> CoverageNote(c), sparse |-> SparseColumns(columns),
                   columns |-> ColumnNote(SparseColumns(columns)), thin |-> thin])
Feed ==
    /\ For("feed")
    /\ LET shown == FilterItems(given.items, given.filter, given.now)
           buckets == Buckets(shown, given.now)
           tone == Summarise(given.items, SentimentIndex(given.tagged))
       IN  Answer([shown |-> shown, buckets |-> buckets, lead |-> LeadStory(shown, buckets), tone |-> tone,
                   fresh |-> Freshness(given.items, given.now), sources |-> SourceCounts(given.items),
                   said |-> SentimentNote(tone) \cup FilterNote(given.strict, given.dropped)])
Next == Arrange \/ Screen \/ Feed

Done(name) == given.name = name /\ answer # None

-----------------------------------------------------------------------------
\* However a table was sorted, filtered and turned, and whatever rows arrived
\* since, a page is shown that has rows on it if any are left, and turning
\* through the pages meets every row once (tableControls.tsx:35-76).
EveryRowIsReached ==
    Done("arrange") =>
        LET ctl == answer.ctl
            page(p) == PageRows(given.now, [ctl EXCEPT !.page = p], given.size)
            all == FlattenSeq([p \in 1..answer.pages |-> page(p - 1)])
        IN  /\ answer.page \in 0..(answer.pages - 1)
            /\ answer.filtered > 0 => answer.shown # <<>>
            /\ Len(all) = answer.filtered /\ all = Processed(given.now, ctl)
            /\ ctl.sort # None => \A i, j \in DOMAIN all :
                  i < j /\ all[i][ctl.sort] = None => all[j][ctl.sort] = None

\* A screen says that some names were skipped when they were and only then; a
\* column that is called empty has nothing in it (screenResult.ts:101-217).
ScreenIsHonest ==
    Done("screen") =>
        /\ "some skipped" \in answer.note => given.evaluable < given.scanned
        /\ "hit rate" \in answer.note => given.rows # <<>> /\ given.evaluable > 0
        /\ "empty" \in answer.columns <=> given.rows # <<>> /\ \E k \in {"p", "q"} : \A r \in Range(given.rows) : r[k] = None
        /\ \A s \in Range(answer.sparse) : 2 * s.filled < s.total
        /\ \A k \in answer.thin : given.meta.coverage[k] < given.meta.evaluable \/ given.meta.coverage[k] = 0

\* Every headline that passes the filters is in one story and every story in
\* one bucket; the story shown large is of the newest bucket; and the tags
\* counted are of headlines in the list (newsFeed.ts:63-125, NewsFeed.tsx:183-205).
EachStoryOnce ==
    Done("feed") =>
        LET stories == FlattenSeq(MapSeq(answer.buckets, LAMBDA b : b.stories))
            of(c) == {c.lead} \cup c.others
            known(it) == \E t \in Range(given.tagged) : t.words = it.words /\ t.words # {}
        IN  /\ \A i \in DOMAIN answer.shown : Cardinality({n \in DOMAIN stories : i \in of(stories[n])}) = 1
            /\ \A c \in Range(stories) : \A i \in c.others : Cardinality(Tokens(answer.shown[i]) \cap Tokens(answer.shown[c.lead])) >= 3
            /\ answer.lead # None => answer.lead \in Range(answer.buckets[1].stories)
            /\ answer.tone.tagged = Len(SelectSeq(given.items, known)) /\ answer.tone.tagged <= answer.tone.total
            /\ answer.tone.score # None => Magnitude(answer.tone.score) <= answer.tone.tagged
            /\ "a subset" \in answer.said => \E it \in Range(given.items) : ~known(it)
            /\ \A it \in Range(given.items) : Or(it.source, it.publisher) # None => Or(it.source, it.publisher) \in DOMAIN answer.sources
=============================================================================
