------------------------------ MODULE MarketEvidence ------------------------------
(***************************************************************************)
(* What a worker computes from the answers of Jungle Scout: the families   *)
(* of products, which are relevant to a niche, its micro-niches and price  *)
(* segments, the metrics of the market, their score, and the analyses of   *)
(* the deeper endpoints.  A title is the set of its terms; Null stands for *)
(* a value the source leaves out; ratios are compared by their terms.      *)
(***************************************************************************)
EXTENDS Integers, Sequences, FiniteSets, SequencesExt

Null == -1
Known(values) == values \ {Null}
Total(f) == FoldFunction(LAMBDA x, y : x + y, 0, f)
RoundQuotient(a, b) == (2 * a + b) \div (2 * b)

-----------------------------------------------------------------------------
(***************************************************************************)
(* groupProductFamilies                                                    *)
(***************************************************************************)

\* Parents and products are named alike: a product whose parent is listed too is in
\* one family with it, if that has no parent itself.
FamilyKey(p) == IF p.parent # Null THEN p.parent ELSE p.id

Identical(f) == Cardinality(DOMAIN f) > 1 /\ Cardinality({f[x] : x \in DOMAIN f}) = 1

\* A bug for the mutants: what every variant repeats is added up.
AddedUp(f) == Total(f)

\* Variants that all report the same number report that of their parent.
ObservedOnce(f) == IF Identical(f) THEN f[CHOOSE x \in DOMAIN f : TRUE] ELSE Total(f)

Reported(variants, field) ==
    LET known == {v \in variants : v[field] # Null} IN [v \in known |-> v[field]]

Family(products, key) ==
    LET variants == {p \in products : FamilyKey(p) = key}
        units == Reported(variants, "units") IN
    [key |-> key, variants |-> variants, units |-> ObservedOnce(units),
     revenue |-> ObservedOnce(Reported(variants, "revenue")),
     duplicated |-> Identical(units)]

GroupFamilies(products) == {Family(products, FamilyKey(p)) : p \in products}

-----------------------------------------------------------------------------
(***************************************************************************)
(* Relevance and micro-niches.                                             *)
(***************************************************************************)

GenericNoiseTerms == {"rug", "shower"}
TitleTerms(f) == UNION {p.title : p \in f.variants}

\* classifyProductRelevance, niche being the set of its tokens.
Relevant(niche, f) ==
    /\ GenericNoiseTerms \cap TitleTerms(f) \subseteq niche
    /\ niche = {} \/ niche \cap TitleTerms(f) # {}

ClusterRules == <<{"silicone", "splash"}, {"stone"}, {"acrylic"}>>

\* clusterMicroNiches: one cluster for each rule that matches, a family being in
\* all those of its title, and one for what no rule matches.
MicroNiches(families, niche) ==
    LET relevant == {f \in families : Relevant(niche, f)}
        matched(n) == {f \in relevant : TitleTerms(f) \cap ClusterRules[n] # {}}
        leftover == relevant \ UNION {matched(n) : n \in 1..Len(ClusterRules)} IN
    ({matched(n) : n \in 1..Len(ClusterRules)} \cup {leftover}) \ {{}}

\* The upper median of what is known, Null if nothing is.
UpperMedian(values) ==
    LET s == SortSeq(values, LAMBDA x, y : x < y) IN
    IF s = <<>> THEN Null ELSE s[Len(s) \div 2 + 1]

KnownPrices(f) == SelectSeq(SetToSeq({<<p.id, p.price>> : p \in f.variants}),
                            LAMBDA x : x[2] # Null)
FamilyMedianPrice(f) == UpperMedian([n \in 1..Len(KnownPrices(f)) |-> KnownPrices(f)[n][2]])

\* A bug for the mutants: a gap may leave one family behind.
WholeRange(s) == 1..Len(s) - 1

\* Positions at which three families are on either side.
SplitRange(s) == 3..Len(s) - 3

\* The first gap of two fifths.
Gap(s, n) == s[n] # 0 /\ 5 * (s[n + 1] - s[n]) >= 2 * s[n]

\* segmentPrices of median prices in ascending order.
SegmentPrices(s) ==
    LET gaps == {n \in SplitRange(s) : Gap(s, n)}
        one == <<[min |-> s[1], max |-> s[Len(s)], count |-> Len(s)]>> IN
    CASE s = <<>> -> <<>>
      [] s # <<>> /\ (Len(s) < 6 \/ gaps = {}) -> one
      [] OTHER -> LET n == CHOOSE m \in gaps : \A o \in gaps : m <= o IN
                  <<[min |-> s[1], max |-> s[n], count |-> n],
                    [min |-> s[n + 1], max |-> s[Len(s)], count |-> Len(s) - n]>>

-----------------------------------------------------------------------------
(***************************************************************************)
(* calculateMarketMetrics                                                  *)
(***************************************************************************)

Sales(families) == [f \in families |-> f.units]
Brand(f) == (CHOOSE p \in f.variants : \A q \in f.variants : p.id <= q.id).brand
BrandSales(families) ==
    [b \in {Brand(f) : f \in families} |->
        Total([f \in {g \in families : Brand(g) = b} |-> f.units])]

\* The three largest, added up.
TopThree(families) ==
    LET s == SortSeq([n \in 1..Cardinality(families) |-> SetToSeq(families)[n].units],
                     LAMBDA x, y : x > y) IN
    FoldLeft(LAMBDA sum, x : sum + x, 0, SubSeq(s, 1, IF Len(s) < 3 THEN Len(s) ELSE 3))

MaxKnown(values) == IF Known(values) = {} THEN Null
                    ELSE CHOOSE x \in Known(values) : \A y \in Known(values) : x >= y
FamilyReviews(f) == MaxKnown({p.reviews : p \in f.variants})

\* The upper median of what the families have, Null if none has it.
MedianOf(values) ==
    LET known == SetToSeq({f \in DOMAIN values : values[f] # Null}) IN
    UpperMedian([n \in 1..Len(known) |-> values[known[n]]])

\* The days since the first variant with a date was listed.
ListedDays(f) ==
    LET dated == {p \in f.variants : p.age # Null} IN
    IF dated = {} THEN Null ELSE (CHOOSE p \in dated : \A q \in dated : p.id <= q.id).age

MarketMetrics(families) ==
    [sales |-> Total(Sales(families)), topThree |-> TopThree(families),
     topBrand |-> MaxKnown({BrandSales(families)[b] : b \in DOMAIN BrandSales(families)}
                           \cup {0}),
     manyReviews |-> Cardinality({f \in families : FamilyReviews(f) > 1000}),
     amazonRetail |-> \E f \in families : \E p \in f.variants : p.amazon,
     medianReviews |-> MedianOf([f \in families |-> FamilyReviews(f)]),
     medianPrice |-> MedianOf([f \in families |-> FamilyMedianPrice(f)]),
     dated |-> Cardinality({f \in families : ListedDays(f) # Null}),
     newerSuccess |-> Cardinality({f \in families : /\ ListedDays(f) \in 0..365
                                                    /\ FamilyReviews(f) \in 0..99 /\ f.units > 0}),
     familyCount |-> Cardinality(families)]

-----------------------------------------------------------------------------
(***************************************************************************)
(* scoreMarketOpportunity                                                  *)
(***************************************************************************)

Scorable(m) == m.familyCount >= 1 /\ m.sales > 0 /\ m.topThree \in 0..m.sales

MarginPoints(provisional) == IF provisional THEN 10 ELSE 20

MarketPoints(m, provisional, mode) ==
    [competition |-> RoundQuotient(40 * (m.sales - m.topThree), m.sales),
     demand |-> IF m.sales >= 2000 THEN 30 ELSE RoundQuotient(m.sales * 30, 2000),
     margin |-> MarginPoints(provisional),
     differentiation |-> CASE mode = "review_text" -> 10
                           [] mode = "listing_proxy" -> 5 [] OTHER -> 0]

IsStrong(m, provisional, mode) ==
    /\ Total(MarketPoints(m, provisional, mode)) >= 70
    /\ ~provisional /\ mode = "review_text" /\ m.sales >= 300

MarketVerdict(m, hardFilterFailed, ipRisk, provisional, mode) ==
    CASE hardFilterFailed \/ ipRisk -> "Reject"
      [] ~hardFilterFailed /\ ~ipRisk /\ ~Scorable(m) -> "Needs Review"
      [] OTHER -> IF IsStrong(m, provisional, mode) THEN "Strong"
                  ELSE IF provisional \/ mode = "missing" THEN "Needs Review" ELSE "Watch"

-----------------------------------------------------------------------------
(***************************************************************************)
(* evaluateProductDataQuality, calculateAllowableLandedCost                *)
(***************************************************************************)

\* Revenue over units is off the price by more than 35 per cent.
PriceMismatch(p) ==
    /\ p.price # Null /\ p.units > 0 /\ p.revenue # Null
    /\ LET d == p.revenue - p.price * p.units IN
         100 * (IF d < 0 THEN -d ELSE d) > 35 * p.price * p.units

QualityFlags(p, duplicated) ==
    {f \in {"MISSING_PRICE", "MISSING_WEIGHT", "MISSING_REVIEWS", "MISSING_RATING",
            "VARIANT_SALES_DUPLICATED", "REVENUE_PRICE_MISMATCH", "STALE_SOURCE"} :
        CASE f = "MISSING_PRICE" -> p.price = Null
          [] f = "MISSING_WEIGHT" -> p.weight = Null
          [] f = "MISSING_REVIEWS" -> p.reviews = Null
          [] f = "MISSING_RATING" -> p.rating = Null
          [] f = "VARIANT_SALES_DUPLICATED" -> duplicated
          [] f = "REVENUE_PRICE_MISMATCH" -> PriceMismatch(p)
          [] f = "STALE_SOURCE" -> p.stale}

\* In hundredths.
QualityConfidence(flags) ==
    IF Cardinality(flags) > 6 THEN 0 ELSE 100 - 15 * Cardinality(flags)

\* In cents, price in dollars and shares in per cent.
AllowableLandedCost(i) ==
    [preAd |-> i.price * (100 - i.preMargin) - 100 * i.fees,
     postAd |-> i.price * (100 - i.postMargin - i.ads) - 100 * i.fees]

-----------------------------------------------------------------------------
(***************************************************************************)
(* deep-evidence.ts                                                        *)
(***************************************************************************)

SumSeq(s) == FoldLeft(LAMBDA sum, x : sum + x, 0, s)

\* Squared, in per cent squared: variance over the mean squared.
SpreadSquared(s) ==
    LET n == Len(s) sum == SumSeq(s)
        squares == SumSeq([k \in 1..n |-> s[k] * s[k]]) IN
    RoundQuotient(10000 * (n * squares - sum * sum), sum * sum)

\* stability: one less the coefficient of variation, in per cent, not below 0.
Stability(s) ==
    IF Len(s) < 2 \/ SumSeq(s) <= 0 THEN Null
    ELSE 100 - CHOOSE r \in 0..100 :
                 /\ r * r <= SpreadSquared(s)
                 /\ r = 100 \/ (r + 1) * (r + 1) > SpreadSquared(s)

\* analyzeHistoricalSearchVolume: half a year of known months.
HistoricalSearch(points) ==
    LET usable == SelectSeq(points, LAMBDA v : v # Null)
        sum == SumSeq(usable)
        high == CHOOSE x \in ToSet(usable) : \A y \in ToSet(usable) : x >= y
        low == CHOOSE x \in ToSet(usable) : \A y \in ToSet(usable) : x <= y IN
    IF Len(usable) < 6 THEN [quality |-> "insufficient_history", seasonal |-> FALSE,
                             consistency |-> Null]
    ELSE [quality |-> "ok", consistency |-> Stability(usable),
          seasonal |-> sum > 0 /\ 5 * Len(usable) * (high - low) >= 2 * sum]

\* analyzeSalesEstimates: the mean of the stabilities there are.
SalesEstimates(estimates) ==
    LET known == SelectSeq([n \in 1..Len(estimates) |-> Stability(estimates[n])],
                           LAMBDA v : v # Null) IN
    IF known = <<>> THEN [quality |-> "insufficient_history", stability |-> Null]
    ELSE [quality |-> "ok", stability |-> SumSeq(known) \div Len(known)]

\* analyzeShareOfVoice: shares of a brand add up; the largest dominates.
ShareOfVoice(rows) ==
    LET known == SelectSeq(rows, LAMBDA r : r.share # Null)
        shares == [b \in {known[n].brand : n \in 1..Len(known)} |->
                     SumSeq([n \in 1..Len(known) |->
                       IF known[n].brand = b THEN known[n].share ELSE 0])] IN
    IF Total(shares) <= 0 THEN [quality |-> "insufficient_share", top |-> "none", share |-> Null]
    ELSE LET top == CHOOSE b \in DOMAIN shares :
                      \A c \in DOMAIN shares : shares[b] >= shares[c] IN
         [quality |-> "ok", top |-> top, share |-> RoundQuotient(100 * shares[top], Total(shares))]
=============================================================================
