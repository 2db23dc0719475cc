------------------------------ MODULE Gateway ------------------------------
(***************************************************************************)
(* The AI gateway: GatewayClient (eden/gateway/client.py), the OmniRouter  *)
(* in front of it and the call envelope of BaseProvider behind it, serving *)
(* several requests at once over one HealthTracker.                        *)
(*                                                                         *)
(* Routing is synchronous: filtering, ranking and the half-opening of      *)
(* cooled-down breakers happen in one step (Route).  The call then works   *)
(* through its shortlist, awaiting one provider after another, while other *)
(* calls change the health records its shortlist was made from.  chat and  *)
(* embed differ in nothing the model keeps and are both "chat" here.       *)
(***************************************************************************)
EXTENDS CircuitBreaker, Sequences, FiniteSets, SequencesExt

CONSTANTS
  Calls,            \* the concurrent callers, each making one request at a time
  Providers,        \* the configured fleet
  Requests,         \* who may ask for what: triples of a caller, a kind and
                    \*   the providers that are enabled, private enough and
                    \*   able to serve the request
  Policies          \* the router and retry configurations under study

Kind == {"chat", "stream"}

ASSUME GatewayAssumption ==
  /\ IsFiniteSet(Providers)
  /\ Requests \subseteq Calls \X Kind \X SUBSET Providers
  /\ Policies \subseteq [failover_enabled : BOOLEAN, max_failovers : Nat,
                          max_attempts : Nat \ {0}]

VARIABLES
  policy,     \* the frozen RouterConfig and RetryConfig, chosen once
  health,     \* HealthTracker._records
  pc,         \* where each call is
  kind,       \* "chat" or "stream"
  shortlist,  \* the providers still to try, the current one first
  tries       \* the attempt retry_async is at with the current provider

(* History, read by the properties only. *)
VARIABLES
  recent,     \* the last outcomes observed of each provider, oldest first
  regained,   \* successes in a row observed since the breaker half-opened, as far
              \*   as half_open_successes
  strays,     \* the calls that have had the provider on their list since before
              \*   its breaker last opened
  sent        \* requests a call has put to vendors

callVars == <<pc, kind, shortlist, tries, sent>>
seenVars == <<health, recent, regained, strays>>
vars == <<policy, health, pc, kind, shortlist, tries,
          recent, regained, strays, sent>>

Current(c) == Head(shortlist[c])
Holding(p) == {c \in Calls : pc[c] = "calling" /\ p \in Range(shortlist[c])}

-----------------------------------------------------------------------------
(* Observing outcomes.  `results` maps the providers observed in one step to *)
(* "ok" or "failed".                                                         *)

LastOf(seq) == IF Len(seq) > FailureThreshold THEN Tail(seq) ELSE seq

Observe(results) ==
  LET seen == DOMAIN results
      next == [p \in Providers |->
                 IF p \notin seen THEN health[p]
                 ELSE IF results[p] = "ok" THEN ObserveSuccess(health[p])
                 ELSE ObserveFailure(health[p])]
      opened == {p \in seen : health[p].circuit # "open" /\ next[p].circuit = "open"}
  IN /\ health' = next
     /\ recent' = [p \in Providers |->
                     IF p \in seen THEN LastOf(Append(recent[p], results[p]))
                     ELSE recent[p]]
     /\ regained' = [p \in Providers |->
                       IF p \notin seen \/ health[p].circuit # "half_open" THEN regained[p]
                       ELSE IF results[p] = "ok" THEN Longer(regained[p], HalfOpenSuccesses)
                       ELSE 0]
     /\ strays' = [p \in Providers |->
                     IF next[p].circuit = "closed" THEN {}
                     ELSE (IF p \in opened THEN Holding(p) ELSE strays[p]) \cap Holding(p)']

-----------------------------------------------------------------------------
(* Requests *)

\* The strategy orders the candidates by cost, latency, health, privacy and
\* preference; the model lets it choose any order.
Rankings(candidates) == SetToSeqs(candidates)

\* Faulty variant: without failover nothing is tried at all.
FailoversOnly == IF policy.failover_enabled THEN 1 + policy.max_failovers ELSE 0

\* The providers a chat may try.
Allowance == IF policy.failover_enabled THEN 1 + policy.max_failovers ELSE 1

Take(order, n) == SubSeq(order, 1, IF n < Len(order) THEN n ELSE Len(order))

\* Faulty variant: the failover switch is not looked at.
AlwaysFailsOver(k, order) ==
  IF k = "stream" THEN order ELSE Take(order, 1 + policy.max_failovers)

\* A chat is limited to the first choice and max_failovers more; a stream
\* walks the whole ranking.
Shortlist(k, order) == IF k = "stream" THEN order ELSE Take(order, Allowance)

\* A request arrives and is routed: providers that cannot serve it are left
\* out before their breaker is asked; the rest is ranked.
Route(c, k, demand) ==
  LET admitted == {p \in demand : IsAvailable(health[p])}
      halfOpened == {p \in demand : HalfOpens(health[p])} IN
  /\ pc[c] = "idle"
  /\ health' = [p \in Providers |-> IF p \in demand THEN Asked(health[p]) ELSE health[p]]
  /\ \E order \in Rankings(admitted) :
       IF order = <<>>
       THEN UNCHANGED callVars
       ELSE /\ pc' = [pc EXCEPT ![c] = "calling"]
            /\ kind' = [kind EXCEPT ![c] = k]
            /\ shortlist' = [shortlist EXCEPT ![c] = Shortlist(k, order)]
            /\ sent' = [sent EXCEPT ![c] = 1]
            /\ UNCHANGED tries
  /\ regained' = [p \in Providers |-> IF p \in halfOpened THEN 0 ELSE regained[p]]
  /\ UNCHANGED <<policy, recent, strays>>

\* The call is over, and with it its local variables.
End(c) ==
  /\ pc' = [pc EXCEPT ![c] = "idle"]
  /\ kind' = [kind EXCEPT ![c] = "chat"]
  /\ shortlist' = [shortlist EXCEPT ![c] = <<>>]
  /\ tries' = [tries EXCEPT ![c] = 1]
  /\ sent' = [sent EXCEPT ![c] = 0]

\* The current provider answers; of a stream this is its first chunk.
Succeeds(c) ==
  /\ pc[c] = "calling"
  /\ End(c)
  /\ Observe([p \in {Current(c)} |-> "ok"])
  /\ UNCHANGED policy

\* A retryable failure of an attempt stays inside the provider's envelope.
Retries(c) ==
  /\ pc[c] = "calling"
  /\ kind[c] = "chat"
  /\ tries[c] < policy.max_attempts
  /\ tries' = [tries EXCEPT ![c] = @ + 1]
  /\ sent' = [sent EXCEPT ![c] = @ + 1]
  /\ UNCHANGED <<policy, pc, kind, shortlist, seenVars>>

\* Faulty variant: the same provider is tried for ever.
NeverMovesOn(c) ==
  /\ pc[c] = "calling"
  /\ UNCHANGED <<policy, callVars>>
  /\ Observe([p \in {Current(c)} |-> "failed"])

\* The provider gives up: the failure is observed and the next one is tried.
FailsOver(c) ==
  /\ pc[c] = "calling"
  /\ IF Len(shortlist[c]) = 1 THEN End(c)
     ELSE /\ shortlist' = [shortlist EXCEPT ![c] = Tail(@)]
          /\ tries' = [tries EXCEPT ![c] = 1]
          /\ sent' = [sent EXCEPT ![c] = @ + 1]
          /\ UNCHANGED <<pc, kind>>
  /\ Observe([p \in {Current(c)} |-> "failed"])
  /\ UNCHANGED policy

\* The caller's task is cancelled, or a stream, whose opening nothing wraps,
\* raises an error that is not EDEN's own: nothing is observed.
Escapes(c) ==
  /\ pc[c] = "calling"
  /\ End(c)
  /\ strays' = [p \in Providers |-> strays[p] \ {c}]
  /\ UNCHANGED <<policy, health, recent, regained>>

\* probe_all: every provider is probed at once, and the outcomes are observed
\* together when the last probe has answered, whatever their breakers say.
ProbesEnd ==
  /\ UNCHANGED <<policy, callVars>>
  /\ \E results \in [Providers -> {"ok", "failed"}] : Observe(results)

\* reset_seconds have passed since the breaker opened.
CoolsDown(p) ==
  /\ health[p].circuit = "open" /\ ~health[p].elapsed
  /\ health' = [health EXCEPT ![p].elapsed = TRUE]
  /\ UNCHANGED <<policy, callVars, recent, regained, strays>>

Init ==
  /\ policy \in Policies
  /\ health = [p \in Providers |-> Fresh]
  /\ pc = [c \in Calls |-> "idle"]
  /\ kind = [c \in Calls |-> "chat"]
  /\ shortlist = [c \in Calls |-> <<>>]
  /\ tries = [c \in Calls |-> 1]
  /\ recent = [p \in Providers |-> <<>>]
  /\ regained = [p \in Providers |-> 0]
  /\ strays = [p \in Providers |-> {}]
  /\ sent = [c \in Calls |-> 0]

CallStep(c) == Succeeds(c) \/ Retries(c) \/ FailsOver(c)

Next ==
  \/ \E r \in Requests : Route(r[1], r[2], r[3])
  \/ \E c \in Calls :
       \/ CallStep(c)
       \/ Escapes(c)
  \/ \E p \in Providers : CoolsDown(p)
  \/ ProbesEnd

Spec == Init /\ [][Next]_vars

\* A provider answers or runs into its timeout, and time passes.  Nobody
\* promises requests, probes or a provider that works.
FairSpec ==
  /\ Spec
  /\ \A c \in Calls : WF_vars(CallStep(c))
  /\ \A p \in Providers : WF_vars(CoolsDown(p))

-----------------------------------------------------------------------------
(* Properties *)

GatewayTypeOK ==
  /\ policy \in Policies
  /\ health \in [Providers -> Health]
  /\ pc \in [Calls -> {"idle", "calling"}]
  /\ kind \in [Calls -> Kind]
  /\ shortlist \in [Calls -> Seq(Providers)]
  /\ \A c \in Calls : pc[c] = "calling" <=> shortlist[c] # <<>>
  /\ tries \in [Calls -> 1 .. policy.max_attempts]
  /\ recent \in [Providers -> Seq({"ok", "failed"})]
  /\ \A p \in Providers : Len(recent[p]) <= FailureThreshold
  /\ regained \in [Providers -> 0 .. HalfOpenSuccesses]
  /\ strays \in [Providers -> SUBSET Calls]
  /\ sent \in [Calls -> Nat]

\* A provider is taken out of rotation only when the last failure_threshold
\* outcomes seen of it, whichever calls and probes they came from and in
\* whatever order they arrived, were all failures.
OpensOnlyOnFailures ==
  [][\A p \in Providers :
       health[p].circuit # "open" /\ health'[p].circuit = "open" =>
         /\ Len(recent'[p]) = FailureThreshold
         /\ Range(recent'[p]) = {"failed"}]_vars

\* It is fully trusted again only after half_open_successes successes in a row
\* were seen since the breaker half-opened: what calls and probes under way
\* while it was open had to report before that does not count.
ClosesOnlyWhenRegained ==
  [][\A p \in Providers :
       health[p].circuit # "closed" /\ health'[p].circuit = "closed" =>
         regained'[p] = HalfOpenSuccesses]_vars

\* While a breaker is open, the only calls that may still reach its provider
\* are those that had it on their shortlist when it opened: routing never
\* hands an open provider to a new request.
NoNewTrafficWhileOpen ==
  \A p \in Providers : health[p].circuit = "open" => Holding(p) \subseteq strays[p]

\* Retries within a provider and failover between providers multiply, but no
\* chat puts more than (1 + max_failovers) * max_attempts requests to vendors,
\* and none at all beyond its first choice when failover is switched off; a
\* stream never asks a provider twice.
RequestsBounded ==
  \A c \in Calls :
    sent[c] <= IF kind[c] = "stream" THEN Cardinality(Providers)
               ELSE policy.max_attempts * Allowance

\* Every request ends, with an answer or with an error.
CallsEnd == \A c \in Calls : pc[c] = "calling" ~> pc[c] = "idle"

Answers(p) == \E c \in Holding(p) : Current(c) = p /\ Succeeds(c)
Fails(p)   == recent'[p] # recent[p] /\ recent'[p][Len(recent'[p])] = "failed"

\* A provider whose outage is over, and that keeps answering requests, is in
\* the end fully in rotation and stays there: no breaker is stuck.
Recovers ==
  \A p \in Providers :
    (<>[][~Fails(p)]_vars /\ []<><<Answers(p)>>_vars)
      => <>[](health[p].circuit = "closed")

\* "half-open [...] admits a single probe rather than the full load"
\* (gateway/health.py): while a breaker is half-open at most one request that
\* was admitted since is under way.  Nothing in is_available counts them.
SingleTrial ==
  \A p \in Providers :
    health[p].circuit = "half_open" => Cardinality(Holding(p) \ strays[p]) <= 1

-----------------------------------------------------------------------------
(* The inductive invariant behind the safety properties. *)

EndsInFailures(seen, n) ==
  /\ n <= Len(seen)
  /\ \A i \in 1 .. Len(seen) : i > Len(seen) - n => seen[i] = "failed"

\* A streak of failures is the end of what was observed.
StreakSeen(p) == EndsInFailures(recent[p], health[p].consecutive_failures)

\* While a breaker is half-open its streak of successes started there.
StreakRegained(p) ==
  health[p].circuit = "half_open" => regained[p] = health[p].consecutive_successes

GatewayIInv ==
  /\ GatewayTypeOK
  /\ NoNewTrafficWhileOpen
  /\ \A p \in Providers : StreakSeen(p) /\ StreakRegained(p)
=============================================================================
