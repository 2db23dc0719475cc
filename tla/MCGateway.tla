----------------------------- MODULE MCGateway -----------------------------
(* Instance of Gateway for TLC: concurrent requests on a fleet of two, of   *)
(* which Routing says which providers each may use.  The assumptions are    *)
(* checks of Routing itself on small fleets.                                *)
EXTENDS Gateway, Routing, TLC

CONSTANTS p1, p2, c1, c2

MCProviders == {p1, p2}
MCCalls == {c1, c2}

Offer(place, cost, latency, tier) ==
  [place |-> place, enabled |-> TRUE, privacy_tier |-> tier, weight |-> 1,
   default_model |-> NoModel,
   models |-> <<[name |-> "small", capabilities |-> {"chat", "streaming"},
                 input_cost |-> cost, output_cost |-> cost, expected_latency |-> latency]>>]

Asking(floor, preferred) ==
  [model |-> NoModel, required_capabilities |-> {"chat"}, floor |-> floor,
   preferred_provider |-> preferred, prompt_tokens |-> 1, max_tokens |-> 0]

Nobody == "nobody"

Router(strategy) ==
  [strategy |-> strategy, minimum_privacy_tier |-> 0, failover_enabled |-> TRUE,
   max_failovers |-> 1, weights |-> [s \in Signal |-> 1]]

\* A local provider and a cheaper one in the cloud.
Fleet == p1 :> Offer(1, 3, 2, 3) @@ p2 :> Offer(2, 1, 1, 0)

\* One caller's data stay at home, the other's may go anywhere.
Asks == {<<c1, "chat", Asking(3, Nobody)>>, <<c2, "chat", Asking(NoFloor, Nobody)>>,
         <<c2, "stream", Asking(NoFloor, Nobody)>>}
Routed == {<<a[1], a[2], Demand(a[3], Fleet, Router("balanced"))>> : a \in Asks}
MCRequests == Routed

MCPolicies ==
  {[failover_enabled |-> TRUE, max_failovers |-> 1, max_attempts |-> 1],
   [failover_enabled |-> FALSE, max_failovers |-> 1, max_attempts |-> 2]}

-----------------------------------------------------------------------------
(* Checks of Routing *)

Record(successes, failures, circuit) ==
  [successes |-> successes, failures |-> failures, latency |-> 0,
   consecutive_failures |-> failures, circuit |-> circuit]

Records == {Record(0, 0, "closed"), Record(1, 1, "closed"), Record(1, 2, "half_open")}
Offers(place) == {Offer(place, cost, latency, tier) :
                    cost \in {1, 3}, latency \in {1, 2}, tier \in {0, 1, 3}}

\* Every pair of offers with every pair of records.
Pairs == {[fleet |-> p1 :> a @@ p2 :> b, health |-> p1 :> g @@ p2 :> h] :
            a \in Offers(1), b \in Offers(2), g \in Records, h \in Records}

First(pair, strategy, preferred) ==
  Head(Select(Asking(NoFloor, preferred), pair.fleet, Router(strategy), pair.health, 0))

Cost(pair, n) == EstimateCost(Asking(NoFloor, Nobody), pair.fleet[n])
Speed(pair, n) == ExpectedLatency(Asking(NoFloor, Nobody), pair.fleet[n])

\* Between two providers of different cost "cheapest" tries the cheaper one
\* first, whatever their latency, health and the request's own wish: the other
\* weights of its preset cannot add up to that of cost.
ASSUME CheapestIsCheapest ==
  \A pair \in Pairs, preferred \in {Nobody, p1, p2} :
    Cost(pair, p1) < Cost(pair, p2) => First(pair, "cheapest", preferred) = p1

\* So does "fastest" with the faster one.
ASSUME FastestIsFastest ==
  \A pair \in Pairs, preferred \in {Nobody, p1, p2} :
    Speed(pair, p1) < Speed(pair, p2) => First(pair, "fastest", preferred) = p1

\* "privacy_first" is only sure of two tiers and more: one tier is a third of
\* the signal, and cost, latency and health together may outweigh it.
ASSUME PrivacyFirstTakesTwoTiers ==
  /\ \A pair \in Pairs :
       pair.fleet[p1].privacy_tier >= pair.fleet[p2].privacy_tier + 2
         => First(pair, "privacy_first", Nobody) = p1
  /\ \E pair \in Pairs :
       /\ pair.fleet[p1].privacy_tier = pair.fleet[p2].privacy_tier + 1
       /\ First(pair, "privacy_first", Nobody) = p2

\* The hint of a request is a preference: types.py:96 has the provider tried
\* first "if healthy", but every preset may put another one before it.
ASSUME HintMayLose ==
  \A strategy \in DOMAIN Preset : \E pair \in Pairs :
    /\ \A n \in {p1, p2} : pair.health[n] = Record(0, 0, "closed")
    /\ First(pair, strategy, p2) = p1

\* The floors are filters: whatever is configured, nothing on a shortlist is
\* below the request's floor or the router's, and a model serves it.
ASSUME FloorsHold ==
  \A pair \in Pairs, strategy \in Strategies, own \in {NoFloor, 1}, configured \in {0, 3} :
    LET q == Asking(own, p2)
        config == [Router(strategy) EXCEPT !.minimum_privacy_tier = configured] IN
    \A n \in Range(Select(q, pair.fleet, config, pair.health, 1)) :
      /\ pair.fleet[n].privacy_tier >= own /\ pair.fleet[n].privacy_tier >= configured
      /\ ResolveModel(q, pair.fleet[n]) # NoModel

\* As long as nothing changes round_robin starts with every provider in turn.
ASSUME RoundRobinIsEven ==
  \A pair \in Pairs :
    {Head(Decide(Asking(NoFloor, Nobody), pair.fleet, Router("round_robin"), pair.health, k)) :
       k \in {5, 6}} = {p1, p2}
=============================================================================
