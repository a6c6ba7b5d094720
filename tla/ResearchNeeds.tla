------------------------------- MODULE ResearchNeeds -------------------------------
(***************************************************************************)
(* What the daily research still needs of a candidate: how a candidate     *)
(* enters the plan (selectResearchPlan) and the jobs that are enqueued for *)
(* it once planned (enqueueDecisionAwareChild).  Time is in days; results  *)
(* and snapshots are sets of rows [id, at, observed, ...], None standing   *)
(* for an observation that is missing or malformed.                        *)
(***************************************************************************)
EXTENDS Integers

None == -1

\* DEFAULT_CACHE_TTL_MS, in days, of the endpoints whose results are evidence.
CacheTtl == [keywords_by_keyword |-> 7, historical_search_volume |-> 14,
             sales_estimates |-> 1, share_of_voice |-> 1]
Endpoint == DOMAIN CacheTtl \cup {"product_database"}
Enrichment == {"historical_search_volume", "sales_estimates", "share_of_voice"}

\* latestByCandidate, latestByCandidateAndKind: the row created last, or none.
LatestRow(rows) ==
    IF rows = {} THEN [id |-> None, at |-> None, observed |-> None]
    ELSE CHOOSE r \in rows :
           \A s \in rows : r.at > s.at \/ (r.at = s.at /\ r.id >= s.id)

\* snapshotCacheObservationAt: an observation of the future is none.
ObservationAt(row, now) == IF row.observed <= now THEN row.observed ELSE None

\* A bug for the mutants: evidence is good for one day too long.
FreshOneDayLonger(observed, days, now) == observed # None /\ now - observed <= days

\* isFresh, isFreshForDuration (of observations that are not of the future).
Fresh(observed, days, now) == observed # None /\ now - observed < days

\* A strong verdict comes first, then the state of the candidate.
BucketOf(state, strong) ==
    IF strong THEN "strong" ELSE IF state = "Watch" THEN "watch" ELSE "new"

\* missingAdmittedEndpoints
Missing(admitted, results, snapshots, freshness, now) ==
    {e \in admitted :
        IF e = "product_database"
        THEN ~Fresh(ObservationAt(LatestRow(snapshots), now), freshness, now)
        ELSE ~Fresh(ObservationAt(LatestRow({r \in results : r.endpoint = e}), now),
                    CacheTtl[e], now)}

\* A bug for the mutants: a candidate that misses one endpoint of several is fresh.
AllMissing(admitted, missing) == missing # admitted

\* Nothing that is admitted is missing.
UpToDate(admitted, missing) == missing = {}

\* selectResearchPlan, of a candidate some endpoint is admitted of: it is the more
\* valuable the older its snapshot; one that misses anything counts as if its
\* snapshot were as old as it may be.
DailyCandidate(c, admitted, results, snapshots, freshness, now) ==
    LET bucket == BucketOf(c.state, c.strong)
        missing == Missing(admitted, results, snapshots, freshness[bucket], now)
        captured == IF missing = {} THEN ObservationAt(LatestRow(snapshots), now) ELSE None
    IN [id |-> c.id, bucket |-> bucket, isFresh |-> UpToDate(admitted, missing),
        value |-> c.score + (IF captured = None THEN freshness[bucket] ELSE now - captured)]

\* childPayload: the manual reserve is for strong candidates, or by override.
Purpose(item, mode) ==
    IF mode = "override-reserve" \/ item.bucket = "strong"
    THEN "strong_revalidation" ELSE "normal_validation"

\* A bug for the mutants: enrichment does not wait for the probe.
ProbeOnlyIfAlone(missing) == missing = {"product_database"}

ProbeFirst(missing) == "product_database" \in missing

\* enqueueDecisionAwareChild: the product database is asked first and alone; what is
\* asked once that is known has a key that names the evidence it is asked for.
Children(item, run, mode, admitted, missing, suffix) ==
    LET key(part) == [run |-> run, bucket |-> item.bucket, id |-> item.id,
                      part |-> part, suffix |-> IF part = "probe" THEN <<>> ELSE suffix] IN
    IF ProbeFirst(missing)
    THEN {[type |-> "MARKET_PROBE", key |-> key("probe"), purpose |-> Purpose(item, mode)]}
    ELSE {[type |-> "DEEP_VALIDATION", key |-> key("deep"), purpose |-> "any"] :
             e \in missing \cap {"keywords_by_keyword"}}
         \cup {[type |-> "ENRICH_STRONG_POTENTIAL", key |-> key("enrich"), purpose |-> "any"] :
             e \in missing \cap Enrichment}
=============================================================================
