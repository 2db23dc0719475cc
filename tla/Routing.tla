------------------------------- MODULE Routing -------------------------------
(***************************************************************************)
(* How the OmniRouter (eden/gateway/router/) chooses providers for one     *)
(* request: the filters, the five scores, the named strategies and the     *)
(* shortlist.  All of it is synchronous and, but for the round-robin       *)
(* cursor and the half-opening of breakers that Gateway's Route performs,  *)
(* a function of the request, the fleet and the health records.            *)
(*                                                                         *)
(* A fleet maps providers to their configuration.  Names sort as the       *)
(* numbers in `place` do.  The code's scores are floats in [0, 1]; here a  *)
(* signal is a numerator per candidate over one denominator for all, which *)
(* orders the candidates as exact arithmetic would.                        *)
(***************************************************************************)
EXTENDS Integers, Sequences, FiniteSets, FiniteSetsExt, Functions
LOCAL INSTANCE SequencesExt

NoModel == "no model"          \* the empty model name
NoFloor == -1                  \* minimum_privacy_tier is None
Infinite == -1                 \* float("inf")
MaxPrivacyTier == 3
Tier == 0 .. MaxPrivacyTier

-----------------------------------------------------------------------------
(* What a provider offers *)

\* The catalogue's first entry for a model, as a set of at most one.
Entry(p, model) ==
  LET at == {i \in DOMAIN p.models : p.models[i].name = model} IN
  IF at = {} THEN {} ELSE {p.models[Min(at)]}

\* A provider that declares nothing is taken to chat.
Capabilities(p) ==
  LET declared == UNION {p.models[i].capabilities : i \in DOMAIN p.models} IN
  IF declared = {} THEN {"chat"} ELSE declared

\* The model that would serve the request; NoModel where the code raises.
ResolveModel(q, p) ==
  CASE q.model # NoModel -> q.model
    [] q.model = NoModel /\ p.default_model # NoModel -> p.default_model
    [] OTHER -> IF p.models = <<>> THEN NoModel ELSE p.models[1].name

\* Whether a provider can serve the request at all.  One with an empty
\* catalogue takes any model on trust.
Supports(q, p) ==
  /\ q.required_capabilities \subseteq Capabilities(p)
  /\ q.floor # NoFloor => p.privacy_tier >= q.floor
  /\ IF q.model = NoModel THEN p.default_model # NoModel \/ p.models # <<>>
     ELSE p.models = <<>> \/ Entry(p, q.model) # {}

\* Estimated spend; free for a model the catalogue does not know.
EstimateCost(q, p) ==
  LET completion == IF q.max_tokens = 0 THEN q.prompt_tokens ELSE q.max_tokens IN
  SumSet({q.prompt_tokens * e.input_cost + completion * e.output_cost :
            e \in Entry(p, ResolveModel(q, p))})

DefaultLatency == 1000

ExpectedLatency(q, p) ==
  LET entry == Entry(p, ResolveModel(q, p)) IN
  CASE ResolveModel(q, p) = NoModel -> Infinite
    [] entry = {} -> DefaultLatency
    [] OTHER -> (CHOOSE e \in entry : TRUE).expected_latency

-----------------------------------------------------------------------------
(* The filters *)

\* The stricter of the configured and the request's own floor.
EffectiveFloor(q, config) == Max({config.minimum_privacy_tier, q.floor})

\* The reason a provider is left out for, or "none".  The breaker is asked
\* last, and only of a provider that nothing else excludes.
ExclusionReason(q, p, config, available) ==
  IF ~p.enabled THEN "disabled"
  ELSE IF p.privacy_tier < EffectiveFloor(q, config) THEN "privacy_tier_below_floor"
  ELSE IF ~(q.required_capabilities \subseteq Capabilities(p)) THEN "missing_capabilities"
  ELSE IF ~Supports(q, p) THEN "model_unavailable"
  ELSE IF ~available THEN "circuit_open"
  ELSE "none"

\* The providers whose breakers a request is routed by.
Demand(q, fleet, config) ==
  {n \in DOMAIN fleet : ExclusionReason(q, fleet[n], config, TRUE) = "none"}

-----------------------------------------------------------------------------
(* The scores, of a non-empty set of candidates.  `health` is what the breakers *)
(* left of the records when they were asked.                                  *)

\* The product of f over a set.
Product(f(_), S) ==
  MapThenFoldSet(LAMBDA a, b : a * b, 1, f, LAMBDA T : CHOOSE t \in T : TRUE, S)

Signal == {"cost", "latency", "health", "privacy", "preference"}

\* Inverts and rescales: the lowest value scores 1, the highest and the
\* infinite 0; all score 1 when there is nothing to tell them apart by.
LowerIsBetter(value) ==
  LET finite == Range(value) \ {Infinite}
      lowest == Min(finite)
      span   == Max(finite) - lowest
  IN CASE finite = {} -> [of |-> [n \in DOMAIN value |-> 1], over |-> 2]
       [] finite # {} /\ span = 0 -> [of |-> [n \in DOMAIN value |-> 1], over |-> 1]
       [] OTHER -> [of |-> [n \in DOMAIN value |->
                              IF value[n] = Infinite THEN 0 ELSE span - (value[n] - lowest)],
                    over |-> span]

CostScore(q, fleet, candidates) ==
  LowerIsBetter([n \in candidates |-> EstimateCost(q, fleet[n])])

\* What was observed wins over the configured prior.
LatencyScore(q, fleet, candidates, health) ==
  LowerIsBetter([n \in candidates |->
    IF health[n].latency > 0 THEN health[n].latency ELSE ExpectedLatency(q, fleet[n])])

\* The success rate less a tenth for every failure in a row, half at most, and
\* less two tenths while the breaker is half-open.
HealthScore(candidates, health) ==
  LET calls(n) == health[n].successes + health[n].failures
      all == 10 * Product(LAMBDA n : Max({1, calls(n)}), candidates)
      rate(n) == IF calls(n) = 0 THEN all ELSE (all \div calls(n)) * health[n].successes
      tenths(n) == Min({5, health[n].consecutive_failures})
                     + (IF health[n].circuit = "half_open" THEN 2 ELSE 0)
      of(n) == IF health[n].circuit = "open" THEN 0
               ELSE Max({0, rate(n) - tenths(n) * (all \div 10)})
  IN [of |-> [n \in candidates |-> of(n)], over |-> all]

PrivacyScore(fleet, candidates) ==
  [of |-> [n \in candidates |-> fleet[n].privacy_tier], over |-> MaxPrivacyTier]

\* The operator's weights, which are positive, as shares of the highest.  A
\* provider the request asks for scores 1, and the others half their share.
PreferenceScore(q, fleet, candidates) ==
  LET highest == Max({fleet[n].weight : n \in candidates})
      share(n) == CASE q.preferred_provider \notin candidates -> 2 * fleet[n].weight
                    [] n = q.preferred_provider -> 2 * highest
                    [] OTHER -> fleet[n].weight
  IN [of |-> [n \in candidates |-> share(n)], over |-> 2 * highest]

Scores(q, fleet, candidates, health) ==
  [cost       |-> CostScore(q, fleet, candidates),
   latency    |-> LatencyScore(q, fleet, candidates, health),
   health     |-> HealthScore(candidates, health),
   privacy    |-> PrivacyScore(fleet, candidates),
   preference |-> PreferenceScore(q, fleet, candidates)]

-----------------------------------------------------------------------------
(* The strategies *)

\* The presets' weights, in halves, as all of them are multiples of 0.5.
Preset ==
  [cheapest      |-> [cost |-> 16, latency |-> 1, health |-> 4, privacy |-> 0,  preference |-> 1],
   fastest       |-> [cost |-> 1, latency |-> 16, health |-> 4, privacy |-> 0,  preference |-> 1],
   privacy_first |-> [cost |-> 1, latency |-> 1,  health |-> 4, privacy |-> 16, preference |-> 1],
   round_robin   |-> [cost |-> 0, latency |-> 0,  health |-> 1, privacy |-> 0,  preference |-> 0]]

Strategies == DOMAIN Preset \union {"balanced"}

WeightsOf(config) ==
  IF config.strategy = "balanced" THEN config.weights ELSE Preset[config.strategy]

\* Best first, and by name where scores are equal.  Dividing by the total
\* weight, as the code does, orders nothing differently.
Rank(weights, q, fleet, candidates, health) ==
  LET scores == Scores(q, fleet, candidates, health)
      scale(s) == Product(LAMBDA t : scores[t].over, Signal \ {s})
      score == [n \in candidates |->
                  MapThenSumSet(LAMBDA s : weights[s] * scores[s].of[n] * scale(s), Signal)]
      before(m, n) == \/ score[m] > score[n]
                      \/ score[m] = score[n] /\ fleet[m].place < fleet[n].place
  IN IF candidates = {} THEN <<>> ELSE SetToSortSeq(candidates, before)

Rotated(order, by) ==
  LET offset == by % Len(order) IN
  IF order = <<>> THEN <<>>
  ELSE SubSeq(order, offset + 1, Len(order)) \o SubSeq(order, 1, offset)

\* The decision: the eligible providers, ranked, and for round_robin rotated by
\* the number of requests that were ranked before.
Decide(q, fleet, config, health, cursor) ==
  LET eligible == {n \in DOMAIN fleet :
                     ExclusionReason(q, fleet[n], config, health[n].circuit # "open") = "none"}
      ranked == Rank(WeightsOf(config), q, fleet, eligible, health)
  IN IF config.strategy = "round_robin" THEN Rotated(ranked, cursor) ELSE ranked

Select(q, fleet, config, health, cursor) ==
  LET order == Decide(q, fleet, config, health, cursor)
      limit == IF config.failover_enabled THEN 1 + config.max_failovers ELSE 1
  IN SubSeq(order, 1, Min({limit, Len(order)}))
=============================================================================
