------------------------------ MODULE ResearchBusiness ------------------------------
(***************************************************************************)
(* What the business evidence of a candidate is worth: whether the forms   *)
(* accept it, the stage it puts the candidate in, and whether a paid       *)
(* request to an endpoint of Jungle Scout is admitted.  Money is in whole  *)
(* dollars, Unknown standing for what is left open; ratios are compared by *)
(* their terms.  Time is a number; a quote is good until its expiry.       *)
(***************************************************************************)
EXTENDS Integers, FiniteSets, Functions

Unknown == -1
Check == {"unknown", "pass", "fail"}
Coverage == {"included", "excluded", "unknown"}
Disposition == {"research", "awaiting_quote", "awaiting_sample", "rejected"}
NoQuote == [basis |-> "none", quantity |-> 0, minimum |-> 0, unit |-> Unknown,
            total |-> Unknown, terms |-> {}, coverage |-> {}, expires |-> Unknown]
NoEvidence == [disposition |-> "none"]
Terms == {"incoterm", "destination", "lead_time"}

DefaultSettings == [budget |-> 3000, preAd |-> 35, postAd |-> 35, roi |-> 150]

-----------------------------------------------------------------------------
(***************************************************************************)
(* ResearchBusinessEvidenceSchema                                          *)
(***************************************************************************)

\* ResearchBusinessMoneySchema: all that makes an amount, or nothing of it.
MoneyAccepted(m) ==
    IF m.amount = Unknown /\ m.currency = "none" /\ m.usd = Unknown /\ ~m.sourced
    THEN ~m.converted
    ELSE /\ m.amount # Unknown /\ m.currency # "none" /\ m.usd # Unknown /\ m.sourced
         /\ m.converted <=> m.currency # "USD"
         /\ m.currency = "USD" => m.amount = m.usd

\* A check says where it comes from once it is resolved, and only then.
CheckAccepted(c) == c.sourced <=> c.status # "unknown"

MarketAccepted(c) ==
    /\ CheckAccepted(c)
    /\ c.estimate # Unknown <=> c.estimateBasis = "estimate"
    /\ c.estimate = Unknown <=> c.estimateBasis = "none"
    /\ c.from # Unknown => c.from <= c.to
    /\ c.status = "pass" => c.from # Unknown /\ c.rationale

QuoteAccepted(q) ==
    q # NoQuote =>
        /\ q.basis \in {"estimate", "quote"} /\ q.quantity >= q.minimum
        /\ (q.unit # Unknown /\ q.total # Unknown) => q.total = q.quantity * q.unit

\* selectLatestResearchBusiness, of a history without gaps: the last row, if it
\* is what the schema accepts.
Latest(rows) ==
    IF rows = {} THEN NoEvidence
    ELSE LET row == CHOOSE r \in rows : \A s \in rows :
                      r.at > s.at \/ (r.at = s.at /\ r.id >= s.id) IN
         IF row.accepted THEN row.payload ELSE NoEvidence

-----------------------------------------------------------------------------
(***************************************************************************)
(* assessResearchBusiness                                                  *)
(***************************************************************************)

\* A bug for the mutants: what is unknown costs nothing.
SumIgnoring(f) == FoldFunction(LAMBDA x, y : x + y, 0,
                               [c \in DOMAIN f |-> IF f[c] = Unknown THEN 0 ELSE f[c]])

\* sumKnown: unknown as soon as a part of it is.
SumKnown(f) == IF \E c \in DOMAIN f : f[c] = Unknown THEN Unknown
               ELSE FoldFunction(LAMBDA x, y : x + y, 0, f)

Fees(e) == [c \in {"referral", "fulfillment", "other"} |-> e.fees[c]]

LaunchCosts(e) ==
    [order |-> IF e.quote.unit = Unknown THEN Unknown ELSE e.quote.quantity * e.quote.unit,
     upfront |-> e.launch["upfront"], advertising |-> e.launch["advertising"],
     reserve |-> e.launch["reserve"]]

VariableCosts(e) ==
    [referral |-> e.fees["referral"], fulfillment |-> e.fees["fulfillment"],
     other |-> e.fees["other"], unit |-> e.quote.unit, ad |-> e.ad, return |-> e.return]

ContributionKnown(e) == e.price # Unknown /\ SumKnown(VariableCosts(e)) # Unknown
Contribution(e) == e.price - SumKnown(VariableCosts(e))

\* Margins before and after advertising, in per cent of the price, and the
\* return in per cent of the landed cost.  Neither exists for a divisor of zero.
TargetsPass(e, s) ==
    /\ ContributionKnown(e) /\ e.price > 0 /\ e.quote.unit > 0
    /\ 100 * (Contribution(e) + e.ad) >= s.preAd * e.price
    /\ 100 * Contribution(e) >= s.postAd * e.price
    /\ 100 * Contribution(e) >= s.roi * e.quote.unit

Cash(e) == SumKnown(LaunchCosts(e))
OverBudget(e, s) == Cash(e) # Unknown /\ Cash(e) > s.budget
Affordable(e, s) == /\ e.quote # NoQuote /\ e.quote.unit # Unknown
                    /\ Cash(e) # Unknown /\ Cash(e) <= s.budget /\ TargetsPass(e, s)

Expired(e, now) == e.quote.expires # Unknown /\ e.quote.expires <= now

\* Without this a quote is not firm; a sample is asked for only then.
Firm(e, now) == /\ e.quote.terms = Terms /\ e.quote.total # Unknown
                /\ e.quote.coverage = {"included"}
                /\ e.quote.expires # Unknown /\ ~Expired(e, now)
                /\ e.safety = "pass"

Stage(e, s, now) ==
    CASE e.disposition = "rejected" -> "reject"
      [] e.disposition # "rejected" /\ (e.brand # "pass" \/ e.price = Unknown) -> "basic_check"
      [] OTHER ->
         IF e.market # "pass" THEN "market_validation"
         ELSE IF ~Affordable(e, s) THEN "hold"
         ELSE IF e.disposition = "awaiting_quote" THEN "awaiting_quote"
         ELSE IF e.quote.basis = "estimate" THEN "quote_ready"
         ELSE IF ~Firm(e, now) THEN "hold"
         ELSE IF e.sample # "pass" \/ e.disposition = "awaiting_sample" THEN "awaiting_sample"
         ELSE "purchase_review"

\* What is missing of a candidate that is not rejected.
BasicGaps(e, s) ==
    {g \in {"brand_fit", "sale_price", "amazon_unit_costs", "market_check", "selected_quote",
            "landed_unit_cost", "launch_cash", "launch_cash_exceeds_budget",
            "unit_contribution", "profitability_targets_not_met"} :
        CASE g = "brand_fit" -> e.brand # "pass"
          [] g = "sale_price" -> e.price = Unknown
          [] g = "amazon_unit_costs" -> SumKnown(Fees(e)) = Unknown
          [] g = "market_check" -> e.market # "pass"
          [] g = "selected_quote" -> e.quote = NoQuote
          [] g = "landed_unit_cost" -> e.quote.unit = Unknown
          [] g = "launch_cash" -> Cash(e) = Unknown
          [] g = "launch_cash_exceeds_budget" -> OverBudget(e, s)
          [] g = "unit_contribution" -> ~ContributionKnown(e)
          [] g = "profitability_targets_not_met" -> ~TargetsPass(e, s)}

\* What is missing of a quote that a supplier made.
QuoteGaps(e, now) ==
    (Terms \ e.quote.terms)
    \cup (IF e.quote.total = Unknown THEN {"landed_shipment_total"} ELSE {})
    \cup (IF e.quote.coverage # {"included"} THEN {"landed_cost_coverage"} ELSE {})
    \cup (IF e.quote.expires = Unknown THEN {"quote_validity"} ELSE {})
    \cup (IF Expired(e, now) THEN {"quote_expired"} ELSE {})
    \cup (IF e.sample # "pass" THEN {"sample_check"} ELSE {})
    \cup (IF e.safety # "pass" THEN {"safety_ip_check"} ELSE {})

QuoteIsLookedAt(e, s) ==
    /\ e.brand = "pass" /\ e.market = "pass" /\ e.price # Unknown /\ Affordable(e, s)
    /\ e.disposition # "awaiting_quote" /\ e.quote.basis # "estimate"

Gaps(e, s, now) ==
    IF e.disposition = "rejected" THEN {}
    ELSE BasicGaps(e, s) \cup (IF QuoteIsLookedAt(e, s) THEN QuoteGaps(e, now) ELSE {})

Assessment(e, s, now) ==
    IF e = NoEvidence THEN [stage |-> "basic_check", gaps |-> {"business_evidence"}]
    ELSE [stage |-> Stage(e, s, now), gaps |-> Gaps(e, s, now)]

-----------------------------------------------------------------------------
(***************************************************************************)
(* assessResearchApiAdmission                                              *)
(***************************************************************************)

\* hasKnownProfitabilityFailure: every amount is known and they do not suffice.
KnownFailure(e, s) == e.quote # NoQuote /\ ContributionKnown(e) /\ ~TargetsPass(e, s)

\* A bug for the mutants: what the evidence waits for is not looked at.
ActionableAnyway(e, s, now) == Stage(e, s, now) \in {"basic_check", "market_validation"}

\* The candidate is at a stage that a request may help.
Actionable(e, s, now) ==
    /\ e.disposition = "research"
    /\ Stage(e, s, now) \in {"basic_check", "market_validation"}

\* A request that the evidence asks for, that may help, and of a candidate that
\* is not known to be beyond the targets.
Admitted(e, s, now, endpoint) ==
    /\ e # NoEvidence /\ endpoint \in e.purposes
    /\ Actionable(e, s, now)
    /\ ~OverBudget(e, s) /\ ~KnownFailure(e, s)

\* The part of a job's key that makes its admission a matter of this evidence and
\* of these settings.
AdmissionSuffix(id, s) == <<id, s.budget, s.preAd, s.postAd, s.roi>>
=============================================================================
