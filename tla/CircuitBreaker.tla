--------------------------- MODULE CircuitBreaker ---------------------------
(***************************************************************************)
(* The health record of one provider and what HealthTracker does with it   *)
(* (eden/gateway/health.py), as functions from a record to the next one.   *)
(*                                                                         *)
(* The monotonic clock is abstracted to `elapsed`: whether reset_seconds   *)
(* have passed since the breaker last opened.  Both streaks are compared   *)
(* with a threshold and nothing else, so they stop counting there.  The    *)
(* totals, the latency average and the score they give only order the      *)
(* candidates of a request, and Gateway lets that order be anything.       *)
(***************************************************************************)
EXTENDS Naturals

CONSTANTS
  FailureThreshold,   \* circuit_breaker.failure_threshold
  HalfOpenSuccesses   \* circuit_breaker.half_open_successes

ASSUME ThresholdAssumption ==
  FailureThreshold \in Nat \ {0} /\ HalfOpenSuccesses \in Nat \ {0}

Circuit == {"closed", "open", "half_open"}

Health == [circuit : Circuit, elapsed : BOOLEAN,
           consecutive_failures : 0 .. FailureThreshold,
           consecutive_successes : 0 .. HalfOpenSuccesses]

Fresh == [circuit |-> "closed", elapsed |-> FALSE,
          consecutive_failures |-> 0, consecutive_successes |-> 0]

Longer(streak, limit) == IF streak < limit THEN streak + 1 ELSE limit

-----------------------------------------------------------------------------

\* Faulty variant: a success leaves the streak of failures standing.
ForgivesNothing(h) ==
  LET streak == Longer(h.consecutive_successes, HalfOpenSuccesses) IN
  [h EXCEPT !.consecutive_successes = streak,
            !.circuit = IF @ = "half_open" /\ streak >= HalfOpenSuccesses
                        THEN "closed" ELSE @]

\* Faulty variant: one success more than configured is asked for.
AsksOneMore(h) ==
  [h EXCEPT !.consecutive_failures = 0,
            !.consecutive_successes = Longer(@, HalfOpenSuccesses),
            !.circuit = IF @ = "half_open" /\ h.consecutive_successes > HalfOpenSuccesses
                        THEN "closed" ELSE @]

\* A success ends the streak of failures, and enough of them in a row close a
\* half-open breaker.
ObserveSuccess(h) ==
  LET streak == Longer(h.consecutive_successes, HalfOpenSuccesses) IN
  [circuit |-> IF h.circuit = "half_open" /\ streak >= HalfOpenSuccesses
               THEN "closed" ELSE h.circuit,
   elapsed |-> h.elapsed,
   consecutive_failures |-> 0, consecutive_successes |-> streak]

\* A failure ends the streak of successes; at the threshold the breaker opens
\* and its cool-down starts.  An open breaker only counts.
ObserveFailure(h) ==
  LET streak == Longer(h.consecutive_failures, FailureThreshold)
      opens  == h.circuit # "open" /\ streak >= FailureThreshold IN
  [circuit |-> IF opens THEN "open" ELSE h.circuit,
   elapsed |-> h.elapsed /\ ~opens,
   consecutive_failures |-> streak, consecutive_successes |-> 0]

\* Faulty variant: the cool-down is not waited for.
AlwaysAvailable(h) == h.circuit \in Circuit

\* is_available, its answer and its effect: asking about an open breaker that
\* has cooled down half-opens it.
IsAvailable(h) == h.circuit = "open" => h.elapsed

HalfOpens(h) == h.circuit = "open" /\ h.elapsed

\* Faulty variant: successes seen while the breaker was open are kept.
HalfOpenedAsIs(h) == IF HalfOpens(h) THEN [h EXCEPT !.circuit = "half_open"] ELSE h

Asked(h) ==
  IF HalfOpens(h)
  THEN [h EXCEPT !.circuit = "half_open", !.consecutive_successes = 0]
  ELSE h
=============================================================================
