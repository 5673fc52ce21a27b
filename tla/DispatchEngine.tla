--------------------------- MODULE DispatchEngine ---------------------------
(***************************************************************************)
(* Recommendations (app/dispatch): a request finds the applicable rules,    *)
(* consolidates what they require, fetches the resources around the         *)
(* incident with four SELECTs, sets aside those that cannot be sent, picks  *)
(* a composition and a reserve, and stores both with their explanation.     *)
(* What other requests commit between two of the SELECTs is seen in part.   *)
(***************************************************************************)
EXTENDS RuleConditions, Orderings, SequencesExt

CONSTANTS Askers, Nothing,
          Units,         \* resources
          UnitRows,      \* what a resource may look like
          RuleContents,  \* published versions that may be active
          Asks,          \* the requests that are made
          Capabilities,
          DefaultRadius, \* default_search_radius_meters
          MaxDistance,   \* max_distance_meters, where the distance scores nothing
          CandidateLimit,
          ExcludedCodes, \* excluded_status_codes
          MaxChanges     \* bound: how often other requests change resources or rules

VARIABLES unit,             \* the resources with their status, capabilities and areas
          rulebook,         \* active versions of the rules linked to the incident's type
          request,
          recommendations,  \* dispatch_recommendations of the incident, with all they own
          latest,           \* what the last GET of the incident's recommendation answered
          changes           \* made by others, bounded by MaxChanges

dispatchVars == <<unit, rulebook, request, recommendations, latest, changes>>

Priorities == <<"low", "normal", "high", "critical">>
Rank(priority) == CHOOSE i \in DOMAIN Priorities : Priorities[i] = priority
\* In the order of the tests; "not_selected" is nobody's fault.
Reasons == <<"manual_exclusion", "not_operational", "unavailable_status", "not_operational",
             "not_deployable", "missing_capability", "out_of_service_zone">>
Outcomes == {"recommended", "partial", "no_resources"}

\* The columns: what a resource provides is counted, a rule may hold any integer.
ASSUME DispatchAssumption ==
  /\ IsFiniteSet(Units)
  /\ \A row \in UnitRows :
       /\ DOMAIN row = {"status", "distance", "areas", "category", "organization", "provides"}
       /\ row.distance \in Nat /\ row.provides \in [Capabilities -> Nat]
  /\ \A content \in RuleContents :
       /\ content.priority \in ToSet(Priorities)
       /\ IsFiniteSet(DOMAIN content.counts) /\ IsFiniteSet(DOMAIN content.needs)
       /\ \A category \in DOMAIN content.counts :
            content.counts[category] \in [minimum : Int, recommended : Int, reserve : Int]
       /\ \A code \in DOMAIN content.needs :
            code \in Capabilities /\ content.needs[code].quantity \in Int
       /\ \A c \in content.conditions :
            DOMAIN c = {"type", "operator", "payload"} /\ DOMAIN c.payload = DOMAIN Payload
  /\ \A ask \in Asks : ask.preview \in BOOLEAN /\ ask.danger \in ToSet(Priorities) \cup {Nothing}
  /\ Nothing \notin [number : Nat, preview : BOOLEAN]
  /\ DefaultRadius \in Nat /\ MaxDistance \in Nat \ {0} /\ CandidateLimit \in Nat \ {0}

DispatchInit ==
  /\ unit \in [Units -> UnitRows]
  /\ rulebook \in SUBSET RuleContents /\ IsFiniteSet(rulebook)
  /\ request = [r \in Askers |-> [at |-> "new"]]
  /\ recommendations = {} /\ latest = Nothing /\ changes = 0

-----------------------------------------------------------------------------
(* Requirements: RequirementAggregator and RequirementSet.                 *)

Highest(numbers) == Max({0} \cup numbers)

\* Per category and per capability the strictest of what the rules say.
Aggregate(rules) ==
  LET naming(category) == {v.counts[category] : v \in {w \in rules : category \in DOMAIN w.counts}}
      asking(code) == {v.needs[code] : v \in {w \in rules : code \in DOMAIN w.needs}} IN
  [priority |-> IF rules = {} THEN "normal" ELSE Priorities[Max({Rank(v.priority) : v \in rules})],
   counts |-> [category \in UNION {DOMAIN v.counts : v \in rules} |->
     [minimum |-> Highest({c.minimum : c \in naming(category)}),
      recommended |-> Highest({c.recommended : c \in naming(category)}),
      reserve |-> Highest({c.reserve : c \in naming(category)})]],
   needs |-> [code \in UNION {DOMAIN v.needs : v \in rules} |->
     [quantity |-> Max({n.quantity : n \in asking(code)}),
      mandatory |-> \E n \in asking(code) : n.mandatory]]]

MinimumUnits(req) == Total([c \in DOMAIN req.counts |-> req.counts[c].minimum])
RecommendedUnits(req) ==
  Max({MinimumUnits(req), Total([c \in DOMAIN req.counts |-> req.counts[c].recommended])})
ReserveUnits(req) == Total([c \in DOMAIN req.counts |-> req.counts[c].reserve])
HasRequirements(req) == DOMAIN req.counts # {} \/ DOMAIN req.needs # {}
Mandatory(req) == {code \in DOMAIN req.needs : req.needs[code].mandatory}

\* PriorityResolver.resolve: the danger level is a floor.
ResolvePriority(req, danger) ==
  IF danger # Nothing THEN Priorities[Max({Rank(danger), Rank(req.priority)})] ELSE req.priority

-----------------------------------------------------------------------------
(* Candidates, from nearest to farthest; seen[u] is what the SELECTs read.  *)

Nearer == {pair \in Units \X Units : unit[pair[1]].distance < unit[pair[2]].distance}

FetchCandidates(ask, req) ==
  LET radius == IF ask.radius = Nothing THEN DefaultRadius ELSE ask.radius
      found == {u \in Units :
        /\ unit[u].distance <= radius
        /\ DOMAIN req.counts # {} => unit[u].category \in DOMAIN req.counts
        /\ ask.organizations # {} => unit[u].organization \in ask.organizations}
      order == Sorted(found, Nearer) IN
  ToSet(SubSeq(order, 1, Min({CandidateLimit, Len(order)})))

Provides(row, code) == row.provides[code] > 0
Provided(seen, crew, code) == Total([u \in crew |-> seen[u].provides[code]])

\* ExclusionPolicy with both of its flags set: the tests that hit.
Hits(ask, req, u, row) ==
  LET known == row.status # Nothing IN
  {i \in DOMAIN Reasons :
     \/ i = 1 /\ u \in ask.excluded
     \/ i = 2 /\ ~known
     \/ i = 3 /\ known /\ row.status.code \in ExcludedCodes
     \/ i = 4 /\ known /\ ~row.status.operational
     \/ i = 5 /\ known /\ ~row.status.deployable
     \/ i = 6 /\ DOMAIN req.needs # {} /\ \A code \in DOMAIN req.needs : ~Provides(row, code)
     \/ i = 7 /\ ask.area # Nothing /\ row.areas # {} /\ ask.area \notin row.areas}

\* DispatchEngine._exclusion_reason: the first test that hits.
ExclusionReason(ask, req, u, row) == Reasons[Min(Hits(ask, req, u, row))]

Eligible(ask, req, seen) == {u \in DOMAIN seen : Hits(ask, req, u, seen[u]) = {}}

\* Scorer: distance 0.4, readiness 0.3, matched capabilities 0.3, on one scale.
Score(req, row) ==
  LET codes == DOMAIN req.needs
      n == Highest({Cardinality(codes), 1})
      near == Highest({MaxDistance - row.distance})
      ready == CASE row.status = Nothing -> 1
                 [] row.status # Nothing /\ row.status.deployable -> 10
                 [] row.status # Nothing /\ ~row.status.deployable ->
                      IF row.status.operational THEN 5 ELSE 1
      matched == IF codes = {} THEN 1 ELSE Cardinality({c \in codes : Provides(row, c)}) IN
  40 * near * n + 3 * ready * MaxDistance * n + 30 * matched * MaxDistance

\* PriorityResolver.rank_candidates: the score, then the distance.
Better(req, row, other) ==
  \/ Score(req, row) > Score(req, other)
  \/ Score(req, row) = Score(req, other) /\ row.distance < other.distance
Ranked(req, seen, crew) ==
  Sorted(crew, {pair \in crew \X crew : Better(req, seen[pair[1]], seen[pair[2]])})

-----------------------------------------------------------------------------
(* Selection: the strategy, the reserve and the verdict.                   *)

Target(req, available) ==
  LET asked == IF RecommendedUnits(req) > 0 THEN RecommendedUnits(req)
               ELSE IF Mandatory(req) # {} THEN Cardinality(Mandatory(req))
               ELSE IF HasRequirements(req) THEN 1 ELSE 0 IN
  Min({asked, available})

\* Mutant: nothing is added after the best.
SelectBest(req, seen, ranked) == SubSeq(ranked, 1, Target(req, Len(ranked)))
\* GreedyCapabilitySelectionStrategy: the best, then whoever still covers a
\* mandatory capability that the composition lacks.
Lacks(req, seen, crew, code) == Provided(seen, ToSet(crew), code) < req.needs[code].quantity
TopUp(req, seen, crew, u) ==
  IF u \notin ToSet(crew)
     /\ \E code \in Mandatory(req) : Lacks(req, seen, crew, code) /\ Provides(seen[u], code)
  THEN Append(crew, u) ELSE crew
Select(req, seen, ranked) ==
  LET crew[n \in 0 .. Len(ranked)] ==
        IF n = 0 THEN SubSeq(ranked, 1, Target(req, Len(ranked)))
        ELSE TopUp(req, seen, crew[n - 1], ranked[n]) IN
  crew[Len(ranked)]

SelectReserve(req, ranked, primary) ==
  LET spare == Picked(ranked, ToSet(ranked) \ ToSet(primary)) IN
  SubSeq(spare, 1, Min({Len(spare), ReserveUnits(req)}))

Covered(req, seen, crew) ==
  {code \in DOMAIN req.needs : Provided(seen, crew, code) >= req.needs[code].quantity}

\* CoverageValidator and RecommendationBuilder._status.
Verdict(req, seen, crew) ==
  IF crew = {} THEN "no_resources"
  ELSE IF /\ Cardinality(crew) >= MinimumUnits(req)
          /\ Mandatory(req) \subseteq Covered(req, seen, crew)
       THEN "recommended" ELSE "partial"

-----------------------------------------------------------------------------
(* Askers.                                                               *)

Numbered == {request[r].number : r \in {q \in Askers : "number" \in DOMAIN request[q]}}

\* DispatchValidator, then the incident's type, then the point: a refused request
\* reads nothing else and stores nothing.
ValidPoint(ask) == ask.point = "coordinates" \/ (ask.point = "address" /\ ask.known)
Ask(r, ask) ==
  /\ request[r].at = "new"
  /\ request' = [request EXCEPT ![r] =
       IF ValidPoint(ask) /\ ask.typed
       THEN [at |-> "asked", number |-> Cardinality(Numbered) + 1, ask |-> ask]
       ELSE [at |-> "refused"]]
  /\ UNCHANGED <<unit, rulebook, recommendations, latest, changes>>

Applicable(version, facts) ==
  ComplexityMatches(version.complexities, facts) /\ IsApplicable(version.conditions, facts)

FindRules(r) ==
  /\ request[r].at = "asked"
  /\ request' = [request EXCEPT ![r] =
       [at |-> "found", number |-> @.number, ask |-> @.ask,
        rules |-> {v \in rulebook : Applicable(v, @.ask.facts)}]]
  /\ UNCHANGED <<unit, rulebook, recommendations, latest, changes>>

\* The resources with their status and distance; capabilities and areas follow.
Fetch(r) ==
  /\ request[r].at = "found"
  /\ LET near == FetchCandidates(request[r].ask, Aggregate(request[r].rules)) IN
     request' = [request EXCEPT ![r] =
       [at |-> "fetched", number |-> @.number, ask |-> @.ask, rules |-> @.rules,
        seen |-> [u \in near |-> unit[u]]]]
  /\ UNCHANGED <<unit, rulebook, recommendations, latest, changes>>

LoadCapabilities(r) ==
  /\ request[r].at = "fetched"
  /\ request' = [request EXCEPT ![r].at = "capable", ![r].seen =
       [u \in DOMAIN @ |-> [@[u] EXCEPT !.provides = unit[u].provides]]]
  /\ UNCHANGED <<unit, rulebook, recommendations, latest, changes>>

LoadServiceAreas(r) ==
  /\ request[r].at = "capable"
  /\ request' = [request EXCEPT ![r].at = "loaded", ![r].seen =
       [u \in DOMAIN @ |-> [@[u] EXCEPT !.areas = unit[u].areas]]]
  /\ UNCHANGED <<unit, rulebook, recommendations, latest, changes>>

\* The match log: a selected candidate, one that was not needed, or the reason.
MatchLog(ask, req, seen, chosen) ==
  [u \in DOMAIN seen |->
     IF u \in chosen THEN "selected"
     ELSE IF u \in Eligible(ask, req, seen) THEN "not_selected"
     ELSE ExclusionReason(ask, req, u, seen[u])]

Outcome(r) ==
  LET q == request[r]
      req == Aggregate(q.rules)
      ranked == Ranked(req, q.seen, Eligible(q.ask, req, q.seen))
      primary == Select(req, q.seen, ranked)
      reserve == IF q.ask.preview THEN <<>> ELSE SelectReserve(req, ranked, primary) IN
  [number |-> q.number, ask |-> q.ask, rules |-> q.rules, seen |-> q.seen,
   priority |-> ResolvePriority(req, q.ask.danger),
   primary |-> primary, reserve |-> reserve,
   matches |-> MatchLog(q.ask, req, q.seen, ToSet(primary) \cup ToSet(reserve)),
   covered |-> Covered(req, q.seen, ToSet(primary)),
   status |-> Verdict(req, q.seen, ToSet(primary))]

\* The rows and the whole explanation in one transaction; created_at is its start.
Store(r) ==
  /\ request[r].at = "loaded"
  /\ recommendations' = recommendations \cup {Outcome(r)}
  /\ request' = [request EXCEPT ![r].at = "done"]
  /\ UNCHANGED <<unit, rulebook, latest, changes>>

\* What the answer is told apart by.
Headline(x) == [number |-> x.number, preview |-> x.ask.preview]
Newest(rows) == CHOOSE x \in rows : \A y \in rows : y.number <= x.number

\* Mutant: previews are answered as well.
LatestOfAll(rows) == IF rows = {} THEN Nothing ELSE Headline(Newest(rows))
LatestForIncident(rows) ==
  LET full == {x \in rows : ~x.ask.preview} IN
  IF full = {} THEN Nothing ELSE Headline(Newest(full))

GetRecommendation ==
  /\ latest' = LatestForIncident(recommendations)
  /\ UNCHANGED <<unit, rulebook, request, recommendations, changes>>

\* Other requests commit: a resource's status, capabilities or areas, a rule.
OthersCommit ==
  /\ changes < MaxChanges /\ changes' = changes + 1
  /\ \/ \E u \in Units, row \in UnitRows : unit' = [unit EXCEPT ![u] = row] /\ UNCHANGED rulebook
     \/ \E v \in RuleContents :
          /\ rulebook' = IF v \in rulebook THEN rulebook \ {v} ELSE rulebook \cup {v}
          /\ UNCHANGED unit
  /\ UNCHANGED <<request, recommendations, latest>>

DispatchNext ==
  \/ \E r \in Askers :
       \/ \E ask \in Asks : Ask(r, ask)
       \/ FindRules(r) \/ Fetch(r) \/ LoadCapabilities(r) \/ LoadServiceAreas(r) \/ Store(r)
  \/ GetRecommendation \/ OthersCommit

DispatchSpec == DispatchInit /\ [][DispatchNext]_dispatchVars

-----------------------------------------------------------------------------
(* Properties of what is stored, against what the request read.             *)

RowIsWhole(x) ==
  x.status \in Outcomes /\ x.priority \in ToSet(Priorities) /\ x.rules \subseteq RuleContents
\* Nobody is an item twice, be it of the composition or of the reserve.
ItemsAreOnce(x) == IsInjective(x.primary \o x.reserve)
MatchesAreWhole(x) ==
  /\ DOMAIN x.matches = DOMAIN x.seen
  /\ \A u \in DOMAIN x.matches : x.matches[u] \in ToSet(Reasons) \cup {"selected", "not_selected"}

DispatchTypeOK ==
  /\ unit \in [Units -> UnitRows] /\ rulebook \subseteq RuleContents
  /\ \A r \in Askers :
       request[r].at \in {"new", "refused", "asked", "found", "fetched", "capable", "loaded",
                         "done"}
  /\ \A x \in recommendations : RowIsWhole(x) /\ ItemsAreOnce(x) /\ MatchesAreWhole(x)
  /\ latest \in {Headline(x) : x \in recommendations} \cup {Nothing}

Deployable(x) == {u \in DOMAIN x.matches : x.matches[u] \in {"selected", "not_selected"}}

\* The greedy strategy finds a sufficient composition whenever some set of the
\* eligible resources is one, and calls no other composition sufficient.
SufficientExactly ==
  \A x \in recommendations :
    LET req == Aggregate(x.rules) IN
    x.status = "recommended" <=>
      /\ HasRequirements(req)
      /\ \E crew \in SUBSET Deployable(x) :
           /\ crew # {} /\ Cardinality(crew) >= MinimumUnits(req)
           /\ \A code \in Mandatory(req) : Provided(x.seen, crew, code) >= req.needs[code].quantity

\* What satisfies the consolidated requirements satisfies every rule alone: its
\* number of units and each capability that it makes mandatory.
EveryRuleIsMet ==
  \A x \in recommendations : x.status = "recommended" =>
    \A v \in x.rules :
      /\ Len(x.primary) >= Total([c \in DOMAIN v.counts |-> v.counts[c].minimum])
      /\ \A code \in DOMAIN v.needs : v.needs[code].mandatory =>
           Provided(x.seen, ToSet(x.primary), code) >= v.needs[code].quantity

\* Nobody is left out or sent without cause: who is in the log as fit passes every
\* test of the policy on what was read, whoever is not fails the one that is named.
ReasonsAreTrue ==
  \A x \in recommendations : \A u \in DOMAIN x.seen :
    LET row == x.seen[u]  why == x.matches[u] IN
    /\ u \in Deployable(x) =>
         /\ u \notin x.ask.excluded /\ row.status # Nothing
         /\ row.status.operational /\ row.status.deployable
         /\ row.status.code \notin ExcludedCodes
         /\ x.ask.area # Nothing => row.areas = {} \/ x.ask.area \in row.areas
    /\ why = "missing_capability" => row.status # Nothing /\ row.status.deployable
    /\ why = "not_deployable" => row.status # Nothing /\ row.status.operational
    /\ (why = "manual_exclusion") <=> u \in x.ask.excluded

\* The reserve is apart from the composition, as large as the rules want or the
\* spare resources allow, and nobody better is left over.  A preview has none.
ReserveIsNextBest ==
  \A x \in recommendations :
    LET req == Aggregate(x.rules)
        spare == Deployable(x) \ ToSet(x.primary) IN
    /\ ToSet(x.reserve) \subseteq spare
    /\ Len(x.reserve) = IF x.ask.preview THEN 0 ELSE Min({ReserveUnits(req), Cardinality(spare)})
    /\ \A u \in ToSet(x.reserve), v \in spare \ ToSet(x.reserve) :
         Score(req, x.seen[v]) <= Score(req, x.seen[u])

\* The search keeps to the dispatcher's constraints, radius and organizations.
ConstraintsAreKept ==
  \A x \in recommendations : \A u \in DOMAIN x.seen :
    /\ x.seen[u].distance <= IF x.ask.radius = Nothing THEN DefaultRadius ELSE x.ask.radius
    /\ x.ask.organizations # {} => x.seen[u].organization \in x.ask.organizations

\* A fact decides between a condition and its opposite; without the fact neither
\* applies.  "between" is at least the one and at most the other.
FactsDecide ==
  \A v \in rulebook, r \in Askers : "ask" \in DOMAIN request[r] =>
    \A c \in v.conditions :
      LET fact == request[r].ask.facts[c.type]
          with(operator) == Evaluate([c EXCEPT !.operator = operator], fact)
          bounded(operator, limit) ==
            Evaluate([c EXCEPT !.operator = operator, !.payload.value = limit], fact) IN
      /\ fact.known => with("eq") # with("neq") /\ with("in") # with("not_in")
      /\ ~fact.known => \A operator \in ConditionOperators : ~with(operator)
      /\ with("between") <=> bounded("gte", c.payload.min) /\ bounded("lte", c.payload.max)

\* A recommendation is what the rules that apply want of the resources that were
\* read: sufficient if any composition is, fit for every rule, without anybody who
\* may not go, with the best in reserve.
CompositionIsSound ==
  /\ SufficientExactly /\ EveryRuleIsMet /\ ReasonsAreTrue
  /\ ReserveIsNextBest /\ ConstraintsAreKept /\ FactsDecide

\* Who asks for the recommendation of the incident never gets an earlier one than
\* before, nor a preview, whatever overlaps.
LatestNeverGoesBack ==
  [][/\ latest' # Nothing => ~latest'.preview
     /\ latest # Nothing => latest' # Nothing /\ latest'.number >= latest.number]_dispatchVars
=============================================================================
