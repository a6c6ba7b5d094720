--------------------------------- MODULE Routing ---------------------------------
(***************************************************************************)
(* routeAiRequest: the provider and the model a request for an AI answer   *)
(* is routed to, or its deferral.  A catalog is a set of entries; what     *)
(* provider and model are called is a number, in the order of their names. *)
(***************************************************************************)
EXTENDS Integers, Sequences

BillingRank == [free |-> 0, subscription |-> 1, payg |-> 2]

SupportsCapabilities(model, required) == required \subseteq model.capabilities

\* A bug for the mutants: the provider whose answer is validated may validate it.
BarredExceptPrimary(request, ids) ==
    request.excluded
    \cup (IF request.paidPrimaries = {} THEN {} ELSE ids \ request.paidPrimaries)

\* Who cannot be chosen: who is excluded, the provider whose answer is to be
\* validated by another, and with paid primaries everybody else.
Barred(request, ids) ==
    request.excluded
    \cup (IF request.role = "strong_cross_validation" THEN {request.primary} ELSE {})
    \cup (IF request.paidPrimaries = {} THEN {} ELSE ids \ request.paidPrimaries)

\* A bug for the mutants: being paid is a matter of the rank alone.
PermitsAlways(request, entry, model) == TRUE

Permits(request, entry, model) ==
    "payg" \in {entry.billing, model.billing} =>
        request.allowPaidFallback \/ entry.id \in request.paidPrimaries

\* The entries that are looked at, and their models that may answer.
Checked(request, catalog) ==
    {e \in catalog : /\ e.id \notin Barred(request, {x.id : x \in catalog})
                     /\ request.role \in e.roles}

RouteCandidates(request, catalog) ==
    UNION {{[provider |-> e.id, model |-> m.id, quality |-> m.quality,
             rolePriority |-> IF request.role \in DOMAIN e.rolePriority
                              THEN e.rolePriority[request.role] ELSE e.priority,
             billing |-> BillingRank[m.billing]] :
                m \in {x \in e.models : /\ SupportsCapabilities(x, request.required)
                                        /\ Permits(request, e, x)}} :
             e \in {x \in Checked(request, catalog) : x.enabled /\ x.available}}

\* A bug for the mutants: every mode ranks as Balanced does.
RankBalanced(mode, c) ==
    <<c.rolePriority, c.billing, c.quality, c.provider, c.model>>

\* What counts first, second, ... in a mode; names decide between equals.
Rank(mode, c) ==
    (CASE mode = "Saver" -> <<c.billing, c.rolePriority, c.quality>>
       [] mode = "Highest Quality" -> <<c.quality, c.rolePriority, c.billing>>
       [] OTHER -> <<c.rolePriority, c.billing, c.quality>>) \o <<c.provider, c.model>>

Before(mode, left, right) ==
    \E k \in 1..5 : /\ Rank(mode, left)[k] < Rank(mode, right)[k]
                    /\ \A j \in 1..k - 1 : Rank(mode, left)[j] = Rank(mode, right)[j]

RouteAiRequest(request, catalog) ==
    LET candidates == RouteCandidates(request, catalog) IN
    IF candidates = {}
    THEN [kind |-> "defer", checked |-> {e.id : e \in Checked(request, catalog)}]
    ELSE LET c == CHOOSE x \in candidates :
                    \A y \in candidates \ {x} : Before(request.mode, x, y)
         IN [kind |-> "route", provider |-> c.provider, model |-> c.model]
=============================================================================
