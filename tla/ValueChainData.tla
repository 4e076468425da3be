--------------------------- MODULE ValueChainData ---------------------------
(***************************************************************************)
(* What the value chain page computes from a generated map: one entity per *)
(* company (lib/valueChainGraph.ts), the comparison of two maps, the table *)
(* and its totals (lib/valueChainTable.ts), concentration, exposure and    *)
(* the size of a trade (lib/chainRisk.ts), and the marks put on the        *)
(* entities (lib/valueChainOverlays.ts).                                   *)
(*                                                                         *)
(* A name is a sequence of words; a figure is an integer, or None where    *)
(* the generator gave none.  `given' is the input of one computation and   *)
(* `answer' what it returns.                                               *)
(***************************************************************************)
EXTENDS Figures

CONSTANTS
    Inputs,     \* the computations to run: [name |-> ..., ...]
    LegalForms, \* words of a legal form ("Inc", "Limited")
    Short,      \* keys of fewer than four letters
    Everyday,   \* keys that are one everyday word
    SymbolOf,   \* [some keys -> the symbol that is the name written together]
    MostDrawn   \* [role -> how many entities of it the map has room for]

Roles == <<"supplier", "customer", "competitor">>

-----------------------------------------------------------------------------
(* One entity per company. *)

EntityKey(words) ==
    LET kept == SelectSeq(words, LAMBDA w : w \notin LegalForms)
    IN  IF kept = <<>> THEN words ELSE kept

\* One name is the other with more words after it; short names never alias.
SameCompany(a, b) == a = b \/ (a \notin Short /\ b \notin Short /\ (IsPrefix(a, b) \/ IsPrefix(b, a)))

AliasKey(key, keys) ==
    LET hits == {i \in DOMAIN keys : key \notin Short /\ SameCompany(key, keys[i])}
    IN  IF hits = {} THEN None ELSE keys[CHOOSE i \in hits : \A j \in hits : i <= j]

\* A relationship as generated: [role, words, ticker, revenue, cogs, usd, verified].
\* An entity keeps one of them for every role it plays.
Entity(n, key) ==
    [key |-> key, words |-> n.words, ticker |-> n.ticker, verified |-> n.verified,
     by |-> [r \in {n.role} |-> n]]

Joined(e, n) ==
    [e EXCEPT !.by = [r \in DOMAIN e.by \cup {n.role} |-> IF r = n.role THEN n ELSE e.by[r]],
              !.ticker = Or(e.ticker, n.ticker),
              !.verified = @ \/ n.verified,
              !.words = IF Len(n.words) > Len(e.words) THEN n.words ELSE e.words]

KeyFor(st, n) ==
    IF n.ticker \in DOMAIN st.tickers THEN st.tickers[n.ticker]
    ELSE Or(AliasKey(EntityKey(n.words), MapSeq(st.found, LAMBDA e : e.key)), EntityKey(n.words))

Ingest(st, n) ==
    LET key == KeyFor(st, n)
        at == {i \in DOMAIN st.found : st.found[i].key = key}
    IN  [tickers |-> IF n.ticker = None \/ n.ticker \in DOMAIN st.tickers THEN st.tickers
                     ELSE [t \in DOMAIN st.tickers \cup {n.ticker} |->
                              IF t = n.ticker THEN key ELSE st.tickers[t]],
         found |-> IF at = {} THEN Append(st.found, Entity(n, key))
                   ELSE [i \in DOMAIN st.found |->
                            IF i \in at THEN Joined(st.found[i], n) ELSE st.found[i]]]

\* Suppliers first, then customers, then competitors.
MergeEntities(nodes) ==
    LET of(role) == SelectSeq(nodes, LAMBDA n : n.role = role)
    IN  FoldLeft(Ingest, [tickers |-> [t \in {} |-> None], found |-> <<>>],
                 of(Roles[1]) \o of(Roles[2]) \o of(Roles[3])).found

RolesOf(e) == DOMAIN e.by
FirstRole(e) == Roles[CHOOSE i \in DOMAIN Roles :
                        Roles[i] \in RolesOf(e) /\ \A j \in 1..(i - 1) : Roles[j] \notin RolesOf(e)]

\* The figure a relationship is drawn with: the one asked for, or the first
\* other one it has.
ResolveMetric(n, want) ==
    LET order == <<want>> \o SelectSeq(<<"revenue", "cogs", "usd">>, LAMBDA k : k # want)
        has == SelectSeq(order, LAMBDA k : n[k] # None)
    IN  IF has = <<>> THEN [value |-> None, used |-> None, fellBack |-> FALSE]
        ELSE [value |-> n[Head(has)], used |-> Head(has), fellBack |-> Head(has) # want]

MaxUsd(values) == FoldLeft(Larger, 0, Figured(values))

\* In tenths of a pixel.  The root is left out: it only bends the curve.
EdgeWidth(value, used, usdMax) ==
    IF value = None \/ used = None \/ (used = "usd" /\ usdMax <= 0) THEN 12
    ELSE IF used = "usd" THEN Clamp(12 + (48 * Clamp(value, 0, usdMax)) \div usdMax, 12, 60)
    ELSE Clamp(10 + value, 12, 60)

\* In hundredths.
EdgeOpacity(value, used, usdMax) ==
    IF value = None \/ used = None \/ (used = "usd" /\ usdMax <= 0) THEN 35
    ELSE IF used = "usd" THEN Clamp(30 + (60 * Clamp(value, 0, usdMax)) \div usdMax, 30, 90)
    ELSE Clamp(30 + (5 * value) \div 4, 30, 90)

\* A correction is counted for every key that names the same company.
LookupReportCount(counts, key) ==
    SumOf(MapSeq(SelectSeq(counts, LAMBDA c : SameCompany(c.key, key)), LAMBDA c : c.count))

-----------------------------------------------------------------------------
(* Two maps compared. *)

WeightOf(e, role) == IF role \in RolesOf(e) THEN Or(e.by[role].revenue, e.by[role].cogs) ELSE None

Deltas(e, b) ==
    {WeightOf(e, r) - WeightOf(b, r) :
        r \in {s \in RolesOf(e) : WeightOf(e, s) # None /\ WeightOf(b, s) # None}}

BaseFor(e, base) ==
    LET exact == {b \in Range(base) : b.key = e.key}
        alias == AliasKey(e.key, MapSeq(base, LAMBDA b : b.key))
    IN  IF exact # {} THEN exact ELSE {b \in Range(base) : b.key = alias}

StatusOf(e, base, threshold) ==
    IF BaseFor(e, base) = {} THEN "added"
    ELSE LET b == CHOOSE x \in BaseFor(e, base) : TRUE IN
         IF RolesOf(b) # RolesOf(e) \/ \E d \in Deltas(e, b) : Magnitude(d) >= threshold
         THEN "changed" ELSE "same"

Removed(cur, base) ==
    {b.key : b \in Range(base)} \ UNION {{b.key : b \in BaseFor(e, base)} : e \in Range(cur)}

DiffChains(current, baseline, threshold) ==
    LET cur == MergeEntities(current)
        base == MergeEntities(baseline)
    IN  [status |-> [k \in {e.key : e \in Range(cur)} |->
                        StatusOf(CHOOSE e \in Range(cur) : e.key = k, base, threshold)],
         removed |-> Removed(cur, base)]

-----------------------------------------------------------------------------
(* The table. *)

\* A row is the entity in its first role.
BuildRows(found) ==
    MapSeq(found, LAMBDA e :
        LET n == e.by[FirstRole(e)] IN
        [key |-> e.key, role |-> FirstRole(e), ticker |-> e.ticker, verified |-> e.verified,
         revenue |-> n.revenue, cogs |-> n.cogs, usd |-> n.usd])

\* Rows without a value come last, whichever way the column is sorted.
\* `rank' stands for the order of names.
SortedRows(rows, col, up, rank) ==
    SortSeq(rows, LAMBDA a, b :
        IF a[col] = None /\ b[col] = None THEN rank[a.key] < rank[b.key]
        ELSE IF a[col] = None \/ b[col] = None THEN b[col] = None
        ELSE IF a[col] = b[col] THEN rank[a.key] < rank[b.key]
        ELSE (a[col] < b[col]) = up)

GroupRows(rows, Label(_)) ==
    [g \in {Label(r) : r \in Range(rows)} |-> SelectSeq(rows, LAMBDA r : Label(r) = g)]

Totals(rows) ==
    LET total(col) == LET v == Figured(MapSeq(rows, LAMBDA r : r[col]))
                      IN  IF v = <<>> THEN None ELSE SumOf(v)
    IN  [count |-> Len(rows),
         quantified |-> Len(SelectSeq(rows, LAMBDA r : {r.revenue, r.cogs, r.usd} # {None})),
         verified |-> Len(SelectSeq(rows, LAMBDA r : r.verified)),
         revenue |-> total("revenue"), cogs |-> total("cogs"), usd |-> total("usd")]

-----------------------------------------------------------------------------
(* Concentration, exposure and the trade. *)

ShareOfRow(r) == LET v == IF r.role = "customer" THEN r.revenue ELSE r.cogs
              IN  IF v # None /\ v > 0 THEN v ELSE None

SinglePoint == 15

\* Shares as percentages of what is quantified; below two figures, or with
\* fewer than four rows in ten quantified, there is no score.
Concentration(rows) ==
    LET shares == Figured(MapSeq(rows, ShareOfRow))
        n == Len(shares)
        total == SumOf(shares)
        largest == SortSeq(shares, LAMBDA a, b : a > b)
    IN  IF n < 2 \/ 10 * n < 4 * Len(rows) THEN [scored |-> FALSE, quantified |-> n]
        ELSE [scored |-> TRUE, quantified |-> n, total |-> total,
              hhi |-> (10000 * SumOf(MapSeq(shares, LAMBDA s : s * s))) \div (total * total),
              top1 |-> (100 * largest[1]) \div total,
              top3 |-> (100 * SumOf(SubSeq(largest, 1, IF n < 3 THEN n ELSE 3))) \div total,
              single |-> {r.key : r \in {x \in Range(rows) :
                             ShareOfRow(x) # None /\ Or(ShareOfRow(x), 0) >= SinglePoint}}]

HhiBand(c) == IF ~c.scored THEN "unknown" ELSE IF c.hhi >= 2500 THEN "highly concentrated"
              ELSE IF c.hhi >= 1500 THEN "moderately concentrated" ELSE "diffuse"

\* What one relationship puts at risk: a share of the reported line it
\* belongs to, or else the value the generator estimated.
AtRisk(r, lines) ==
    LET base == IF r.role = "customer" THEN lines.revenue ELSE lines.cogs
    IN  IF ShareOfRow(r) # None /\ base # None /\ Or(base, 0) > 0
        THEN (ShareOfRow(r) * base) \div 100 ELSE r.usd

\* The largest first; of equal ones the larger share.
Exposures(rows, lines) ==
    LET out == SelectSeq(MapSeq(rows, LAMBDA r : [key |-> r.key, ticker |-> r.ticker, country |-> r.country,
                                                 pct |-> Or(ShareOfRow(r), 0), atRisk |-> AtRisk(r, lines)]),
                         LAMBDA x : x.atRisk # None \/ x.pct > 0)
    IN  SortedBy(SortedBy(out, LAMBDA x : x.pct, FALSE), LAMBDA x : Or(x.atRisk, 0), FALSE)

\* What nobody could value stays out of the sum of its country.
ByCountry(rows) ==
    LET of(c) == SelectSeq(rows, LAMBDA r : r.country = c)
        valued(c) == Figured(MapSeq(of(c), LAMBDA r : r.atRisk))
    IN  [c \in {r.country : r \in Range(rows)} |->
            [pct |-> SumBy(of(c), LAMBDA r : r.pct), names |-> Len(of(c)),
             atRisk |-> IF valued(c) = <<>> THEN None ELSE SumOf(valued(c))]]

\* Days to trade a value at 15 % of the turnover of `depth' a day, in hundredths
\* (two decimals are what is shown, and what decides whether it is deployable).
Verdict(days) ==
    IF days = None THEN "unknown" ELSE IF days <= 100 THEN "same day" ELSE IF days <= 500 THEN "days"
    ELSE IF days <= 2000 THEN "weeks" ELSE IF days <= 6000 THEN "months" ELSE "untradable at size"
TradePlan(rows, depth, notional) ==
    LET tradable == SelectSeq(rows, LAMBDA r : r.ticker # None)
        weights == SumOf(MapSeq(tradable, LAMBDA r : r.pct))
        slice(r) == IF weights > 0 THEN (notional * r.pct) \div weights ELSE notional \div Len(tradable)
        days(r) == IF depth[r.ticker] = None THEN None ELSE (slice(r) * 100 * 100) \div (depth[r.ticker] * 15)
    IN  SortedBy(MapSeq(tradable, LAMBDA r : [ticker |-> r.ticker, notional |-> slice(r), days |-> days(r), verdict |-> Verdict(days(r))]),
                 LAMBDA r : r.notional, FALSE)
Deployable(plan) ==
    SumOf(MapSeq(SelectSeq(plan, LAMBDA r : r.days # None /\ Or(r.days, 0) <= 2000), LAMBDA r : r.notional))
Blocked(plan) ==
    SumOf(MapSeq(SelectSeq(plan, LAMBDA r : r.days = None \/ Or(r.days, 0) > 2000), LAMBDA r : r.notional))

-----------------------------------------------------------------------------
(* Marks: a text mentions a company when its key occurs as whole words and  *)
(* is neither short nor one everyday word.                                  *)

Mentions(text, key) ==
    /\ key \notin Short \cup Everyday
    /\ \E i \in 0..(Len(text) - Len(key)) : SubSeq(text, i + 1, i + Len(key)) = key

\* The subject is also mentioned by the first word of its name.
SubjectNamed(text, subject) == Mentions(text, subject) \/ Mentions(text, <<subject[1]>>)

\* A symbol is an entity's when it is the ticker that was generated for it, or
\* its name.
SymbolMatches(sym, e) == e.ticker = sym \/ (e.key \in DOMAIN SymbolOf /\ SymbolOf[e.key] = sym)
\* What the reader's book, the deals and the headlines add to an entity.
Overlay(e, held, deals, news, seen) ==
    LET named == SelectSeq(news, LAMBDA t : Mentions(t, e.key))
    IN  [held |-> {h \in held : SymbolMatches(h, e)},
         deals |-> FirstOf(SelectSeq(deals, LAMBDA d : SymbolMatches(d.symbol, e)), 4),
         news |-> FirstOf(named, 5), fresh |-> Range(named) \ seen # {}]

\* Both ends of a relationship must be mentioned by one headline.
EdgeEvidence(subject, key, news) ==
    SelectSeq(news, LAMBDA t : SubjectNamed(t, subject) /\ Mentions(t, key))

\* What an entity is drawn with; `badges' are the rings and dots of its box.
Marks(nodes, want, subject, counts, news, held, deals) ==
    LET found == MergeEntities(nodes)
        rel(e) == e.by[FirstRole(e)]
        usdMax == MaxUsd(MapSeq(found, LAMBDA e : rel(e).usd))
    IN  MapSeq(found, LAMBDA e :
            LET m == ResolveMetric(rel(e), want)
                reports == LookupReportCount(counts, e.key)
                sources == EdgeEvidence(subject, e.key, news)
                over == Overlay(e, held, deals, news, {})
            IN  [key |-> e.key, metric |-> m, width |-> EdgeWidth(m.value, m.used, usdMax),
                 opacity |-> EdgeOpacity(m.value, m.used, usdMax), reports |-> reports, evidence |-> sources,
                 badges |-> Said({<<"verified", e.verified>>, <<"several roles", Cardinality(RolesOf(e)) > 1>>,
                                  <<"sourced", sources # <<>> >>, <<"held", over.held # {}>>, <<"deal", over.deals # <<>> >>,
                                  <<"news", over.news # <<>> >>, <<"fresh", over.fresh>>, <<"disputed", reports > 1>>})])

\* The columns of the map: by the figure asked for, the largest first, as far
\* as there is room.
Layout(nodes, want) ==
    LET found == MergeEntities(nodes)
        value(e, r) == ResolveMetric(e.by[r], want).value
    IN  [r \in Range(Roles) |->
            FirstOf(SortedBy(SelectSeq(found, LAMBDA e : FirstRole(e) = r), LAMBDA e : value(e, r), FALSE), MostDrawn[r])]

\* A row of the export for every relationship as it was generated.
ExportRows(nodes) == MapSeq(nodes, LAMBDA n : [role |-> n.role, words |-> n.words, revenue |-> n.revenue, cogs |-> n.cogs])

\* How brittle a chain looks, of a hundred: how concentrated each side is (0
\* when evenly spread), and how large the largest supplier.
Herfindahl(shares) ==
    LET n == Len(shares)
        total == SumOf(shares)
    IN  IF n = 0 THEN None ELSE IF n = 1 THEN 100
        ELSE (100 * (n * SumBy(shares, LAMBDA v : v * v) - total * total)) \div ((n - 1) * total * total)
Fragility(found) ==
    LET flows(r) == SelectSeq(found, LAMBDA e : r \in RolesOf(e))
        weighed(r, col) == SelectSeq(Figured(MapSeq(flows(r), LAMBDA e : e.by[r][col])), LAMBDA v : v > 0)
        sup == weighed("supplier", "cogs")
        cus == weighed("customer", "revenue")
        single == IF sup = <<>> THEN None ELSE Clamp((100 * Greatest(sup)) \div 60, 0, 100)
        parts == SelectSeq(<<[w |-> 40, v |-> Herfindahl(sup)], [w |-> 35, v |-> single], [w |-> 25, v |-> Herfindahl(cus)]>>,
                           LAMBDA x : x.v # None)
        score == IF parts = <<>> THEN 0 ELSE Rounded(SumBy(parts, LAMBDA x : x.w * x.v), SumBy(parts, LAMBDA x : x.w))
    IN  [score |-> score, covered |-> Len(sup) + Len(cus), of |-> Len(flows("supplier")) + Len(flows("customer")),
         band |-> IF score >= 70 THEN "fragile" ELSE IF score >= 50 THEN "concentrated"
                  ELSE IF score >= 30 THEN "moderate" ELSE "resilient",
         drivers |-> Said({<<"one large supplier", sup # <<>> /\ Greatest(sup \o <<0>>) >= 25>>,
                           <<"few suppliers", Len(sup) \in 1..2>>,
                           <<"concentrated suppliers", Or(Herfindahl(sup), 0) >= 40>>,
                           <<"concentrated customers", Or(Herfindahl(cus), 0) >= 40>>})]

-----------------------------------------------------------------------------
VARIABLES given, answer

vars == <<given, answer>>

Init == given \in Inputs /\ answer = None
For(name) == given.name = name /\ answer = None
Answer(a) == answer' = a /\ UNCHANGED given

Merge == For("merge") /\ Answer(MergeEntities(given.nodes))
Diff == For("diff") /\ Answer(DiffChains(given.nodes, given.base, 5))
Table == For("table") /\ Answer(BuildRows(MergeEntities(given.nodes)))
Trade ==
    /\ For("trade")
    /\ LET rows == Exposures(given.rows, given.lines) IN
       Answer([exposures |-> rows, countries |-> ByCountry(rows), plan |-> TradePlan(rows, given.depth, given.notional)])
Draw ==
    /\ For("draw")
    /\ Answer([marks |-> Marks(given.nodes, given.want, given.subject, given.counts, given.news, given.held, given.deals),
               columns |-> Layout(given.nodes, given.want), rows |-> ExportRows(given.nodes),
               fragility |-> Fragility(MergeEntities(given.nodes))])

Next == Merge \/ Diff \/ Table \/ Trade \/ Draw

Done(name) == given.name = name /\ answer # None

-----------------------------------------------------------------------------
\* A relationship is of an entity by its name, or by that of another with its
\* ticker.
Belongs(n, e) ==
    LET named(m) == SameCompany(EntityKey(m.words), e.key) IN
    named(n) \/ \E m \in Range(given.nodes) : named(m) /\ n.ticker # None /\ m.ticker = n.ticker

\* A company is one node: no two entities have a ticker in common; every
\* relationship is kept by an entity it belongs to, unless a later one of the
\* same role that belongs there too took its place; and where it is clear which
\* names mean the same company, there are as many nodes as companies, whatever
\* the order the names come in (valueChainGraph.ts:141-152, 169-176, 203-207).
\* It is not clear while a name extends another and a third does so differently:
\* "Acme" before "Acme Foods" and "Acme Steel" makes one node of the three, and
\* between them or after them makes two.
OneNodePerCompany ==
    Done("merge") =>
        LET nodes == given.nodes
            keys == {EntityKey(n.words) : n \in Range(nodes)}
            clear == \A a, b, c \in keys : SameCompany(a, b) /\ SameCompany(b, c) => SameCompany(a, c)
        IN  /\ \A i, j \in DOMAIN answer :
                  i # j => /\ answer[i].key # answer[j].key
                           /\ answer[i].ticker = None \/ answer[i].ticker # answer[j].ticker
            /\ \A i \in DOMAIN nodes : \E e \in Range(answer) :
                  /\ Belongs(nodes[i], e)
                  /\ nodes[i].ticker # None => e.ticker # None
                  /\ nodes[i].verified => e.verified
                  /\ nodes[i].role \in RolesOf(e)
                  /\ \E j \in i..Len(nodes) : e.by[nodes[i].role] = nodes[j] /\ Belongs(nodes[j], e)
            /\ clear /\ (\A n \in Range(nodes) : n.ticker = None) =>
                  Len(answer) = Cardinality({{b \in keys : SameCompany(a, b)} : a \in keys})

\* Every relationship that was generated is that of an entity.  Not kept: of
\* two in one role that are merged, the later overwrites the figures of the
\* other (valueChainGraph.ts:203-207), and only the export still has both.
NoRelationshipLost ==
    Done("merge") =>
        \A n \in Range(given.nodes) : \E e \in Range(answer) : n.role \in RolesOf(e) /\ e.by[n.role] = n

\* Comparing a map with itself finds nothing, and a company that is still in
\* the map under a longer or a shorter name is not reported as gone
\* (valueChainGraph.ts:387-393, 444-446).
NothingMovesByItself ==
    Done("diff") =>
        /\ given.nodes = given.base =>
              answer.removed = {} /\ \A k \in DOMAIN answer.status : answer.status[k] = "same"
        /\ \A k \in answer.removed, c \in DOMAIN answer.status :
              /\ k # c
              /\ SameCompany(k, c) =>
                    \E e \in Range(MergeEntities(given.base)) : e.key # k /\ SameCompany(e.key, c)

\* Whatever the table is grouped by, the groups add up to the table; sorting
\* loses no row and never puts a missing figure before a known one; and a
\* concentration that is shown is one of a quantified minority at least
\* (valueChainTable.ts:128-134, 165-198; chainRisk.ts:18-23).
TableAddsUp ==
    Done("table") =>
        LET rows == answer
            groups == GroupRows(rows, LAMBDA r : r.role)
            c == Concentration(rows)
            rank == [k \in {r.key : r \in Range(rows)} |-> Len(k)]
        IN  /\ Totals(rows).count = FoldSet(LAMBDA g, n : n + Len(groups[g]), 0, DOMAIN groups)
            /\ Totals(rows).revenue # None =>
                  Totals(rows).revenue =
                     FoldSet(LAMBDA g, n : n + Or(Totals(groups[g]).revenue, 0), 0, DOMAIN groups)
            /\ \A up \in BOOLEAN :
                  LET s == SortedRows(rows, "cogs", up, rank) IN
                  /\ Range(s) = Range(rows)
                  /\ \A i, j \in DOMAIN s : i < j /\ s[i].cogs = None => s[j].cogs = None
            /\ c.scored => /\ c.quantified >= 2 /\ 5 * c.quantified >= 2 * Len(rows)
                           /\ c.top1 <= c.top3 /\ c.top1 * c.top1 <= c.hhi /\ c.hhi <= 10000
                           /\ HhiBand(c) # "unknown"

\* The countries add up to the exposures; every unit of a trade is either
\* deployable or blocked, nothing that would take months is called deployable,
\* and a name without a known turnover is never counted as tradable
\* (chainRisk.ts:164-184, 222-226, 236-241).
TradeIsDividedUp ==
    Done("trade") =>
        LET plan == answer.plan
            countries == answer.countries
        IN  /\ FoldSet(LAMBDA c, n : n + countries[c].pct, 0, DOMAIN countries) = SumBy(answer.exposures, LAMBDA r : r.pct)
            /\ FoldSet(LAMBDA c, n : n + Or(countries[c].atRisk, 0), 0, DOMAIN countries)
                  = SumBy(answer.exposures, LAMBDA r : Or(r.atRisk, 0))
            /\ \A i \in 1..(Len(answer.exposures) - 1) :
                  Or(answer.exposures[i].atRisk, 0) >= Or(answer.exposures[i + 1].atRisk, 0)
            /\ Deployable(plan) + Blocked(plan) = SumBy(plan, LAMBDA r : r.notional)
            /\ Deployable(plan) + Blocked(plan) <= given.notional
            /\ (\A r \in Range(plan) : r.verdict \in {"unknown", "months", "untradable at size"})
                  => Deployable(plan) = 0

\* Of two relationships drawn with the same figure the larger is never the
\* thinner, nor left out where the smaller is drawn; a figure that is not the
\* one asked for says so; the corrections of a company count for its entity
\* under every name it was generated with, and those of others never do, unless
\* one name extends the other, in which case they count for each such entity
\* (valueChainGraph.ts:340-351); a headline is evidence of a relationship only
\* when it names both of its ends; and a chain with one supplier fewer for the
\* same share never looks less brittle (valueChainGraph.ts:296-350, 462-473,
\* valueChainOverlays.ts:236-247).
OneSupplierFewer(nodes) ==
    <<[nodes[1] EXCEPT !.cogs = nodes[1].cogs + nodes[2].cogs]>>
DrawingTells ==
    Done("draw") =>
        LET marks == answer.marks
            found == MergeEntities(given.nodes)
            value(e, r) == ResolveMetric(e.by[r], given.want)
        IN  /\ \A a, b \in Range(marks) :
                  a.metric.used = b.metric.used /\ a.metric.used # None /\ Or(a.metric.value, 0) > Or(b.metric.value, 0)
                      => a.width >= b.width /\ a.opacity >= b.opacity
            /\ \A a \in Range(marks) :
                  /\ a.width \in 12..60
                  /\ a.metric.fellBack <=> a.metric.used \notin {given.want, None}
                  /\ a.evidence # <<>> => "sourced" \in a.badges /\ "news" \in a.badges /\ SubjectNamed(a.evidence[1], given.subject)
            /\ \A n \in Range(given.nodes) : \E a \in Range(marks) :
                  /\ SameCompany(EntityKey(n.words), a.key)
                  /\ a.reports >= SumBy(SelectSeq(given.counts, LAMBDA c : c.key = EntityKey(n.words)), LAMBDA c : c.count)
            /\ \A a \in Range(marks) : a.reports <= SumBy(SelectSeq(given.counts, LAMBDA c : c.key[1] = a.key[1]), LAMBDA c : c.count)
            /\ \A r \in Range(Roles) : \A d \in Range(answer.columns[r]), u \in {e \in Range(found) : FirstRole(e) = r} \ Range(answer.columns[r]) :
                  value(d, r).used = value(u, r).used => Or(value(d, r).value, 0) >= Or(value(u, r).value, 0)
            /\ \A e \in Range(found), r \in Range(Roles) : r \in RolesOf(e) => \E x \in Range(answer.rows) : x.role = r
            /\ answer.fragility.score \in 0..100 /\ answer.fragility.covered <= answer.fragility.of
            /\ Len(found) = 2 /\ (\A i \in 1..2 : given.nodes[i].role = "supplier" /\ Or(given.nodes[i].cogs, 0) > 0) =>
                  Fragility(MergeEntities(OneSupplierFewer(given.nodes))).score >= answer.fragility.score
=============================================================================
