------------------------------ MODULE ResearchCases ------------------------------
(***************************************************************************)
(* The pure parts of the research, asked one question at a time: the rows  *)
(* of an import, a plan of the day, the evidence of a market, the business *)
(* evidence of a candidate.  What they answer is compared with what it is  *)
(* to mean, defined here without their intermediate steps.                 *)
(***************************************************************************)
EXTENDS Integers, Sequences, FiniteSets, SequencesExt

VARIABLES question, answer

vars == <<question, answer>>

O == INSTANCE Opportunity
P == INSTANCE ResearchPlan
N == INSTANCE ResearchNeeds
R == INSTANCE Routing
M == INSTANCE MarketEvidence
B == INSTANCE ResearchBusiness

Asked(kind) == answer.kind = kind

-----------------------------------------------------------------------------
(***************************************************************************)
(* Files and their rows.                                                   *)
(***************************************************************************)
FileRow == {r \in [blank : 0..1, leading : 0..1, breaks : 0..1,
                  keyword : {<<"lamp">>, <<"7th", "birthday">>}, field : {"ok"}] :
               r.leading <= r.blank}
BadRow == [blank |-> 0, leading |-> 0, breaks |-> 0, keyword |-> <<"lamp">>, field |-> "text"]
OneFile(rows, preamble) ==
    [name |-> "file", headersComplete |-> TRUE, preamble |-> preamble, rows |-> rows]

Imports == {<<OneFile(rows, p)>> :
                rows \in BoundedSeq(FileRow, 2) \cup {<<BadRow>>}, p \in BOOLEAN}
           \cup {<<OneFile(<<r>>, TRUE), [OneFile(<<s, t>>, FALSE) EXCEPT !.name = "other"]>> :
                   r, s, t \in FileRow}
FileQuestions == {[kind |-> "files", files |-> files] : files \in Imports}

\* The lines of a file, each with the record whose text begins there.
Lines(file) ==
    (IF file.preamble THEN <<0, 0>> ELSE <<>>) \o <<0>> \o
    FlattenSeq([n \in 1..Len(file.rows) |->
        LET row == file.rows[n] IN
        [k \in 1..row.blank - row.leading |-> 0] \o <<n>>
        \o [k \in 1..row.leading + row.breaks |-> 0]])

RowsAnswer(q) ==
    LET uploads == [n \in 1..Len(q.files) |->
                      [name |-> q.files[n].name, size |-> 1, csv |-> TRUE, plainName |-> TRUE]]
    IN [kind |-> "files",
        accepted |-> /\ O!UploadAccepted(uploads, 1, 2, 2) /\ O!FilesRequired(q.files)
                     /\ \A n \in 1..Len(q.files) : O!Accepts(q.files[n], 2),
        rows |-> O!PrepareRows(q.files)]

\* Every record of every file is one row at the line its text begins at, and the first
\* record of a keyword in the whole submission, and no other, stands for it.
RowsAccounted == Asked("files") /\ answer.accepted =>
    LET rows == answer.rows
        counts == O!ImportCounts(rows, {r \in ToSet(rows) : r.keyword = <<"lamp">>}) IN
    /\ {O!RawKey(rows[n]) : n \in 1..Len(rows)} =
         {p \in (1..Len(question.files)) \X (1..12) :
            LET lines == Lines(question.files[p[1]]) IN
            p[2] <= Len(lines) /\ lines[p[2]] # 0}
    /\ \A n \in 1..Len(rows) :
         rows[n].duplicateOf = 0 <=> \A m \in 1..n - 1 : rows[m].keyword # rows[n].keyword
    /\ counts.unique = Cardinality({O!CandidateKey(rows[n]) : n \in 1..Len(rows)})
    /\ counts.total = counts.rejected + counts.accepted + counts.duplicate

-----------------------------------------------------------------------------
(***************************************************************************)
(* Rows, their rules and their preliminary scores.                         *)
(***************************************************************************)
Keywords == {<<"glass", "lamp">>, <<"usb", "lamp", "powered">>, <<"usb", "powered", "lamp">>,
             <<"oak", "utensil">>}
Levels == {"Very Low", "High"}
ScoreQuestions ==
    {[kind |-> "row", keyword |-> k, price |-> p, units |-> u, volume |-> 4000,
      isUpperBound |-> b, trend30 |-> t, trend90 |-> t, nicheScore |-> 9,
      competition |-> c, seasonality |-> s] :
        k \in Keywords, p \in {14, 15, 24, 25, 50, 51, 80, 81}, u \in {0, 3600}, b \in BOOLEAN,
        t \in {-100, 20}, c, s \in Levels}

RowAnswer(q) ==
    [kind |-> "row", score |-> O!PreliminaryScore(q), fit |-> O!PriceFitScore(q.price),
     reasons |-> O!RuleEvaluation(q, O!DefaultRules).reasons, state |-> O!CandidateState(q)]

\* Points of a hundred, in hundredths.
Percentage == 0..10000
\* The state of a candidate that awaits its screening.
Screening == "AI Screening"

\* A row's score is a percentage; a price fits to some degree exactly if the rules
\* have nothing against it; and a row is screened exactly if they object to none
\* of price, seasonality and the words of the keyword, next to each other.
RowScored == Asked("row") =>
    /\ answer.score \in Percentage
    /\ answer.fit >= 6000 <=> "PRICE_OUT_OF_RANGE" \notin answer.reasons
    /\ answer.state = Screening <=>
         /\ answer.fit > 0 /\ question.seasonality # "High"
         /\ question.keyword \notin {<<"glass", "lamp">>, <<"usb", "powered", "lamp">>}

-----------------------------------------------------------------------------
(***************************************************************************)
(* Plans.                                                                  *)
(***************************************************************************)
Allocations == {[new |-> 60, watch |-> 25, strong |-> 15], [new |-> 0, watch |-> 50, strong |-> 50],
                [new |-> 34, watch |-> 33, strong |-> 33]}
\* So many candidates of each bucket, and one that is fresh.
Pool(size) == UNION {{[id |-> 10 * b + n, bucket |-> P!Buckets[b], value |-> n % 2,
                       isFresh |-> n = 3] : n \in 1..size[P!Buckets[b]]} : b \in 1..3}
PlanQuestions == {[kind |-> "plan", slots |-> k, allocation |-> a, candidates |-> Pool(size)] :
                    k \in 1..5, a \in Allocations, size \in [P!Bucket -> 0..3]}

PlanAnswers(q) ==
    {[kind |-> "plan", quotas |-> quotas, plan |-> P!Plan(q.candidates, q.slots, quotas)] :
        quotas \in P!Quotas(q.slots, q.allocation)}

\* A plan has no candidate twice and none that is fresh, leaves a slot empty only
\* if there is nobody for it, gives each bucket its share as far as it can fill
\* it, rounded down, and prefers the candidates of more value within a bucket.
PlanMeetsShares == Asked("plan") =>
    LET items == answer.plan.items
        chosen == ToSet(items)
        open == {c \in question.candidates : ~c.isFresh}
        of(b) == {c \in open : c.bucket = b} IN
    /\ chosen \subseteq open /\ Cardinality(chosen) = Len(items)
    /\ Len(items) + answer.plan.unfilledSlots = question.slots
    /\ answer.plan.unfilledSlots > 0 => chosen = open
    /\ \A b \in P!Bucket :
         \/ of(b) \subseteq chosen
         \/ Cardinality(chosen \cap of(b)) >= (question.slots * question.allocation[b]) \div 100
    /\ \A c \in chosen, d \in open \ chosen : c.bucket = d.bucket => c.value >= d.value

-----------------------------------------------------------------------------
(***************************************************************************)
(* What a candidate needs: how it enters a plan at noon of day 20, and the *)
(* jobs enqueued for it then or a day later.                               *)
(***************************************************************************)
Result(e, id, observed) == [endpoint |-> e, id |-> id, at |-> 10, observed |-> observed]
\* No row of the endpoint, one, or two of which the second hides the first.
Results(e) == {{}} \cup {{Result(e, 1, o)} : o \in {N!None, 13, 14, 19, 21}}
              \cup {{Result(e, 1, 19), Result(e, 2, N!None)},
                    {Result(e, 1, 13), Result(e, 2, 19)}, {Result(e, 1, 19), Result(e, 2, 13)}}
NeedQuestions ==
    {[kind |-> "needs", admitted |-> a, snapshots |-> snapshots, results |-> deep \cup sales,
      strong |-> strong, mode |-> mode, later |-> later] :
        a \in SUBSET {"product_database", "keywords_by_keyword", "sales_estimates"} \ {{}},
        snapshots \in Results("product_database"), deep \in Results("keywords_by_keyword"),
        sales \in {{Result("sales_estimates", 3, 19)}, {Result("sales_estimates", 3, 20)}},
        strong \in BOOLEAN, mode \in {"respect-budget", "override-reserve"}, later \in {20, 21}}

Freshness == [new |-> 7, watch |-> 7, strong |-> 1]
NeedAnswer(q) ==
    LET item == N!DailyCandidate([id |-> 1, state |-> "Watch", strong |-> q.strong, score |-> 70],
                                 q.admitted, q.results, q.snapshots, Freshness, 20)
        missing == N!Missing(q.admitted, q.results, q.snapshots, Freshness[item.bucket], q.later)
    IN [kind |-> "needs", item |-> item,
        jobs |-> N!Children(item, "run", q.mode, q.admitted, missing, <<1>>)]

\* The days an answer of an endpoint is good for.
Lifetime(e, bucket) ==
    IF e = "product_database" THEN Freshness[bucket] ELSE N!CacheTtl[e]
\* An endpoint's last row is of one of the days before which it is good.
Good(q, e, bucket, now) ==
    \E r \in q.snapshots \cup q.results :
        /\ r.endpoint = e /\ r.observed \in now - Lifetime(e, bucket) + 1 .. now
        /\ \A s \in q.snapshots \cup q.results : s.endpoint = e => s.id <= r.id

\* A candidate is planned exactly if something it may be asked is not known, and no
\* slot of the plan is wasted: unless an observation was of the future, a planned
\* candidate gets jobs, also later.  Jobs are for what is missing and admitted
\* only, none goes with a probe, and the reserve is for strong candidates and
\* overrides.
NeedsSound == Asked("needs") =>
    LET item == answer.item
        types == {j.type : j \in answer.jobs}
        due(now) == {e \in question.admitted : ~Good(question, e, item.bucket, now)}
        foreseen == \E r \in question.snapshots \cup question.results : r.observed > 20 IN
    /\ item.isFresh <=> due(20) = {}
    /\ ~item.isFresh /\ ~foreseen => answer.jobs # {}
    /\ item.isFresh /\ question.later = 20 => answer.jobs = {}
    /\ "MARKET_PROBE" \in types =>
         Cardinality(answer.jobs) = 1 /\ "product_database" \in due(question.later)
    /\ "DEEP_VALIDATION" \in types => "keywords_by_keyword" \in due(question.later)
    /\ "ENRICH_STRONG_POTENTIAL" \in types =>
         due(question.later) \cap {"sales_estimates"} # {}
    /\ types \cap {"DEEP_VALIDATION", "ENRICH_STRONG_POTENTIAL"} # {} =>
         "product_database" \notin due(question.later)
    /\ \A i, j \in answer.jobs : i.key = j.key => i = j
    /\ \A j \in answer.jobs : j.purpose = "strong_revalidation" =>
         item.bucket = "strong" \/ question.mode = "override-reserve"

-----------------------------------------------------------------------------
(***************************************************************************)
(* Routes: catalogs of three providers, and the requests of the            *)
(* coordinator, which excludes who has failed, and of a cross-validation.  *)
(***************************************************************************)
Entry(id, billing, up, priority, quality) ==
    [id |-> id, billing |-> billing, enabled |-> TRUE, available |-> up, priority |-> priority,
     rolePriority |-> IF id = 2 THEN [niche_normalization |-> 2] ELSE <<>>,
     roles |-> {"niche_normalization", "strong_cross_validation"},
     models |-> {[id |-> 1, billing |-> billing, quality |-> quality,
                  capabilities |-> {"structured_json"}],
                 [id |-> 2, billing |-> billing, quality |-> 0, capabilities |-> {"text"}]}]
Catalog(x, y, z, up, q) ==
    {Entry(1, x, up, 1, q), Entry(2, y, TRUE, 9, 2), Entry(3, z, TRUE, q, 4 - q)}
Catalogs == {Catalog(x, y, z, up, q) :
               x, y, z \in DOMAIN R!BillingRank, up \in BOOLEAN, q \in {1, 3}}

Modes == {"Saver", "Balanced", "Highest Quality"}
RouteQuestions ==
    {[kind |-> "route", catalog |-> catalog, mode |-> mode, role |-> role, primary |-> 2,
      required |-> {"structured_json"}, excluded |-> {}, allowPaidFallback |-> paid,
      paidPrimaries |-> IF primaries THEN {e.id : e \in {x \in catalog : x.billing = "payg"}}
                        ELSE {}] :
        catalog \in Catalogs, mode \in Modes,
        role \in {"niche_normalization", "strong_cross_validation"},
        paid, primaries \in BOOLEAN}

\* The routes of a request, the provider of each excluded from the next, until there
\* is none.
RouteAnswer(q) ==
    LET route[gone \in SUBSET {1, 2, 3}] ==
          LET d == R!RouteAiRequest([q EXCEPT !.excluded = gone], q.catalog) IN
          IF d.kind = "defer" THEN <<>> ELSE <<d>> \o route[gone \cup {d.provider}]
    IN [kind |-> "route", routes |-> route[{}],
        thrifty |-> R!RouteAiRequest([q EXCEPT !.allowPaidFallback = FALSE], q.catalog)]

\* Going on after failures asks every provider that can serve the request once, and
\* no other: none that is down, none that is paid unless that was allowed or it is
\* a primary, nobody else when there are primaries, and never the provider whose
\* answer is to be validated.  A Saver who may pay does so only with nobody else.
RoutingSound == Asked("route") =>
    LET q == question
        asked == [n \in 1..Len(answer.routes) |-> answer.routes[n].provider]
        paying(id) == \E e \in q.catalog : e.id = id /\ e.billing = "payg"
        serves(e) == /\ e.available
                     /\ e.billing = "payg" => q.allowPaidFallback \/ e.id \in q.paidPrimaries
                     /\ q.paidPrimaries # {} => e.billing = "payg"
                     /\ ~(q.role = "strong_cross_validation" /\ e.id = q.primary) IN
    /\ ToSet(asked) = {e.id : e \in {x \in q.catalog : serves(x)}}
    /\ Cardinality(ToSet(asked)) = Len(asked)
    /\ \A n \in 1..Len(asked) : answer.routes[n].model = 1
    /\ q.mode = "Saver" /\ answer.thrifty.kind = "route" => answer.routes[1] = answer.thrifty
    /\ q.mode = "Saver" => \A m, n \in 1..Len(asked) : m < n /\ paying(asked[m]) => paying(asked[n])

-----------------------------------------------------------------------------
(***************************************************************************)
(* Markets.                                                                *)
(***************************************************************************)
Listing(id, parent, title, units, brand) ==
    [id |-> id, parent |-> parent, title |-> title, units |-> units, brand |-> brand,
     revenue |-> IF units = M!Null THEN M!Null ELSE 20 * units, price |-> 20,
     reviews |-> CASE id = 1 -> M!Null [] id = 4 -> 50 [] OTHER -> 400 * id,
     rating |-> IF id = 1 THEN M!Null ELSE 4, weight |-> IF id = 2 THEN M!Null ELSE 1,
     age |-> CASE id = 1 -> M!Null [] id = 2 -> 400 [] OTHER -> 30,
     stale |-> id = 2, amazon |-> id = 5]

\* Two variants of a bowl, which may report its sales each, the bowl they have as
\* their parent, and other products.
Listings(u, v, w) ==
    {Listing(1, 3, {"splash"}, u, "a"), Listing(2, 3, {"splash"}, v, "a"),
     Listing(3, M!Null, {"stone"}, w, "a"), Listing(4, M!Null, {"stone", "splash"}, w, "b"),
     Listing(5, M!Null, {"oak"}, w, "c"), Listing(6, M!Null, {"rug", "splash"}, w, "c")}
MarketQuestions ==
    {[kind |-> "market", products |-> ps, niche |-> niche, provisional |-> p, mode |-> mode] :
        ps \in UNION {SUBSET Listings(u, v, w) : u, v, w \in {M!Null, 0, 90, 1500}},
        niche \in {{}, {"splash", "stone"}}, p \in BOOLEAN, mode \in {"review_text", "missing"}}

MarketAnswer(q) ==
    LET families == M!GroupFamilies(q.products)
        metrics == M!MarketMetrics({f \in families : M!Relevant(q.niche, f)}) IN
    [kind |-> "market", families |-> families, niches |-> M!MicroNiches(families, q.niche),
     metrics |-> metrics,
     verdict |-> M!MarketVerdict(metrics, FALSE, FALSE, q.provisional, q.mode),
     flags |-> [p \in q.products |-> M!QualityFlags(p, FALSE)]]

\* What a market sells at most: of a parent whose variants all report one number,
\* that number.
Sold(products) ==
    LET keys == {M!FamilyKey(p) : p \in products}
        units(k) == {<<p.id, p.units>> : p \in {x \in products :
                                                 M!FamilyKey(x) = k /\ x.units # M!Null}}
        numbers(k) == {x[2] : x \in units(k)} IN
    M!Total([k \in keys |-> IF Cardinality(numbers(k)) = 1 THEN CHOOSE x \in numbers(k) : TRUE
                            ELSE M!Total([x \in units(k) |-> x[2]])])

\* Each product is in one family; what is relevant is in a micro-niche and the
\* rest in none; sales are not counted once more for each variant; and a market is
\* strong only with verified margins, review texts and no fewer than 300 sales,
\* of which its three largest families make no more than 77 per cent.
MarketSound == Asked("market") =>
    LET relevant == {f \in answer.families : M!Relevant(question.niche, f)} IN
    /\ UNION {f.variants : f \in answer.families} = question.products
    /\ \A f, g \in answer.families : f # g => f.variants \cap g.variants = {}
    /\ UNION answer.niches = relevant
    /\ answer.metrics.sales = Sold(UNION {f.variants : f \in relevant})
    /\ answer.metrics.topBrand \in 0..answer.metrics.sales
    /\ answer.metrics.newerSuccess <= answer.metrics.dated
    /\ Cardinality({f \in relevant : M!FamilyReviews(f) # M!Null})
         > 2 * answer.metrics.manyReviews => answer.metrics.medianReviews <= 1000
    /\ answer.verdict = "Strong" =>
         /\ ~question.provisional /\ question.mode = "review_text"
         /\ answer.metrics.sales >= 300
         /\ 100 * answer.metrics.topThree <= 77 * answer.metrics.sales
    /\ \A p \in question.products : M!QualityConfidence(answer.flags[p]) \in 55..100

-----------------------------------------------------------------------------
(***************************************************************************)
(* Series of numbers: prices, and the answers of the deeper endpoints.     *)
(***************************************************************************)
Ascending(a, b, c) == [n \in 1..a |-> 10] \o [n \in 1..b |-> 14] \o [n \in 1..c |-> 20]
SeriesQuestions == {[kind |-> "series", values |-> Ascending(a, b, c), unknown |-> u] :
                      a, b, c \in 0..4, u \in 0..1}

SeriesAnswer(q) ==
    LET unknown == [n \in 1..q.unknown |-> M!Null]
        share(v) == [brand |-> IF v = 10 THEN "a" ELSE "b", share |-> v] IN
    [kind |-> "series", segments |-> M!SegmentPrices(q.values),
     history |-> M!HistoricalSearch(unknown \o q.values),
     sales |-> M!SalesEstimates(<<q.values, <<>>>>),
     voice |-> M!ShareOfVoice([n \in 1..Len(q.values) |-> share(q.values[n])])]

\* The price segments are all of the families, none of fewer than three if there
\* are two; half a year of history is analysed, constant numbers are entirely
\* stable, and no stability and no share is beyond 100 per cent.
SeriesSound == Asked("series") =>
    LET s == answer.segments v == question.values IN
    /\ M!SumSeq([n \in 1..Len(s) |-> s[n].count]) = Len(v)
    /\ Len(s) = 2 => /\ s[1].count >= 3 /\ s[2].count >= 3 /\ s[1].max < s[2].min
                     /\ s[1].min = v[1] /\ s[2].max = v[Len(v)]
    /\ answer.history.quality = "ok" <=> Len(v) >= 6
    /\ (Len(v) >= 6 /\ v[1] = v[Len(v)]) =>
         answer.history.consistency = 100 /\ ~answer.history.seasonal
    /\ answer.sales.stability \in {M!Null} \cup 0..100
    /\ answer.voice.share \in {M!Null} \cup 1..100

-----------------------------------------------------------------------------
(***************************************************************************)
(* Business evidence.                                                      *)
(***************************************************************************)
\* The amounts in dollars that the form accepts.
Amounts(amount) ==
    {m.usd : m \in {x \in [amount : {B!Unknown, amount}, currency : {"none", "USD", "EUR"},
                           usd : {B!Unknown, amount}, sourced : BOOLEAN, converted : BOOLEAN] :
                      B!MoneyAccepted(x)}}
Checks == {c.status : c \in {x \in [status : B!Check, sourced : {TRUE}] : B!CheckAccepted(x)}}

Quote(basis, unit, quantity, expires, terms) ==
    [basis |-> basis, quantity |-> quantity, minimum |-> 10, unit |-> unit,
     total |-> IF unit = B!Unknown THEN B!Unknown ELSE 200 * unit, terms |-> terms,
     coverage |-> {"included"}, expires |-> expires]
\* One is of less than the minimum and one does not add up.
Quotes == {B!NoQuote, Quote("quote", 10, 200, 5, B!Terms), Quote("quote", 10, 5, 5, B!Terms),
           Quote("quote", 10, 100, 5, B!Terms), Quote("quote", 10, 200, 1, B!Terms),
           Quote("quote", 10, 200, 5, {}), Quote("estimate", 10, 200, B!Unknown, {}),
           Quote("quote", B!Unknown, 200, 5, B!Terms), Quote("quote", 14, 200, 5, B!Terms)}

Evidence(d, brand, market, sample, price, fee, upfront, ad, quote) ==
    [disposition |-> d, brand |-> brand, market |-> market, sample |-> sample,
     safety |-> "pass", price |-> price,
     fees |-> [referral |-> 5, fulfillment |-> 5, other |-> fee],
     launch |-> [upfront |-> upfront, advertising |-> 200, reserve |-> 200],
     ad |-> ad, return |-> 2, purposes |-> {"probe"}, quote |-> quote]
Complete == Evidence("research", "pass", "pass", "pass", 60, 2, 100, 5,
                     Quote("quote", 10, 200, 5, B!Terms))
BusinessQuestions ==
    {[kind |-> "business", budget |-> s,
      latest |-> Evidence(d, brand, market, sample, price, fee, upfront, ad, quote)] :
        d \in B!Disposition, brand, market, sample \in Checks, price \in Amounts(60) \cup {40},
        fee \in Amounts(2), upfront \in Amounts(100), ad \in Amounts(5), quote \in Quotes,
        s \in {2600, 2400}}

Accepted(e) == /\ B!QuoteAccepted(e.quote)
               /\ B!MarketAccepted([status |-> e.market, sourced |-> TRUE, from |-> 1, to |-> 2,
                                    estimate |-> B!Unknown, estimateBasis |-> "none",
                                    rationale |-> TRUE])

\* The evidence comes after evidence that is complete.
BusinessAnswer(q) ==
    LET s == [B!DefaultSettings EXCEPT !.budget = q.budget]
        e == B!Latest({[at |-> 1, id |-> 1, payload |-> Complete, accepted |-> TRUE],
                       [at |-> 2, id |-> 2, payload |-> q.latest,
                        accepted |-> Accepted(q.latest)]}) IN
    [kind |-> "business", usable |-> e # B!NoEvidence, assessment |-> B!Assessment(e, s, 2),
     admitted |-> B!Admitted(e, s, 2, "probe"),
     named |-> B!AdmissionSuffix(2, s)]

\* A purchase is looked at only with nothing missing: accepted evidence, all checks
\* passed, every cost known, a margin and a return that meet the targets with
\* them, cash within the budget, and a supplier's quote that still stands.  Nothing
\* is paid for a candidate that misses nothing, nor for one whose known costs are
\* beyond the budget or the targets.
BusinessSound == Asked("business") =>
    LET e == question.latest q == e.quote
        costs == <<e.fees.other, e.ad, q.unit, e.launch.upfront, e.price>>
        known == \A n \in 1..5 : costs[n] # B!Unknown
        margin == e.price - 14 - e.ad - q.unit
        cash == q.quantity * q.unit + 400 + e.launch.upfront
        meets == 100 * margin >= 35 * e.price /\ 100 * margin >= 150 * q.unit IN
    /\ answer.assessment.stage = "purchase_review" =>
         /\ answer.usable /\ answer.assessment.gaps = {} /\ known /\ meets
         /\ {e.brand, e.market, e.sample} = {"pass"} /\ cash <= question.budget
         /\ q.basis = "quote" /\ q.expires > 2
    /\ answer.usable /\ e.disposition = "research" /\ q.basis = "quote"
         /\ answer.assessment.gaps = {} => answer.assessment.stage = "purchase_review"
    /\ answer.admitted =>
         /\ answer.usable /\ answer.assessment.gaps # {} /\ e.disposition = "research"
         /\ known /\ q # B!NoQuote => meets /\ cash <= question.budget

-----------------------------------------------------------------------------
Questions == FileQuestions \cup ScoreQuestions \cup PlanQuestions \cup NeedQuestions
             \cup RouteQuestions \cup MarketQuestions
             \cup SeriesQuestions \cup BusinessQuestions

Unanswered == [kind |-> "none"]
Init == question \in Questions /\ answer = Unanswered

Answer(new) == answer = Unanswered /\ answer' = new /\ UNCHANGED question

Next == \/ question.kind = "files" /\ Answer(RowsAnswer(question))
        \/ question.kind = "row" /\ Answer(RowAnswer(question))
        \/ question.kind = "plan" /\ \E new \in PlanAnswers(question) : Answer(new)
        \/ question.kind = "needs" /\ Answer(NeedAnswer(question))
        \/ question.kind = "route" /\ Answer(RouteAnswer(question))
        \/ question.kind = "market" /\ Answer(MarketAnswer(question))
        \/ question.kind = "series" /\ Answer(SeriesAnswer(question))
        \/ question.kind = "business" /\ Answer(BusinessAnswer(question))

Spec == Init /\ [][Next]_vars
=============================================================================
