--------------------------- MODULE GatewayProofs ---------------------------
(***************************************************************************)
(* Proofs about Gateway for any fleet, any callers and requests, any       *)
(* thresholds and any policies.                                            *)
(***************************************************************************)
EXTENDS Gateway, FiniteSetTheorems, SequenceTheorems, TLAPS

Outcome == {"ok", "failed"}

-----------------------------------------------------------------------------
(* The breaker, one record at a time. *)

LEMMA LongerType ==
  ASSUME NEW limit \in Nat \ {0}, NEW n \in 0 .. limit
  PROVE  Longer(n, limit) \in 1 .. limit
BY DEF Longer

LEMMA AfterSuccess ==
  ASSUME NEW h \in Health
  PROVE  LET next == ObserveSuccess(h) IN
         /\ next \in Health
         /\ next.consecutive_failures = 0
         /\ next.consecutive_successes = Longer(h.consecutive_successes, HalfOpenSuccesses)
         /\ next.circuit = "open" <=> h.circuit = "open"
         /\ next.circuit = "half_open" => h.circuit = "half_open"
         /\ (next.circuit = "closed" /\ h.circuit # "closed") =>
              h.circuit = "half_open" /\ next.consecutive_successes = HalfOpenSuccesses
<1> DEFINE streak == Longer(h.consecutive_successes, HalfOpenSuccesses)
           circuit == IF h.circuit = "half_open" /\ streak >= HalfOpenSuccesses
                      THEN "closed" ELSE h.circuit
           next == [circuit |-> circuit, elapsed |-> h.elapsed,
                    consecutive_failures |-> 0, consecutive_successes |-> streak]
<1>1. /\ h.circuit \in Circuit /\ h.elapsed \in BOOLEAN
      /\ h.consecutive_successes \in 0 .. HalfOpenSuccesses
  BY DEF Health
<1>2. streak \in 1 .. HalfOpenSuccesses
  BY <1>1, ThresholdAssumption, LongerType
<1>3. ObserveSuccess(h) = next
  BY DEF ObserveSuccess
<1>4. circuit \in Circuit
  BY <1>1 DEF Circuit
<1> HIDE DEF streak
<1>5. next \in Health
  BY <1>1, <1>2, <1>4, ThresholdAssumption DEF Health
<1>6. /\ circuit = "open" <=> h.circuit = "open"
      /\ circuit = "half_open" => h.circuit = "half_open"
      /\ (circuit = "closed" /\ h.circuit # "closed") =>
           h.circuit = "half_open" /\ streak = HalfOpenSuccesses
  BY <1>2, ThresholdAssumption
<1> QED
  BY <1>3, <1>5, <1>6 DEF streak

LEMMA AfterFailure ==
  ASSUME NEW h \in Health
  PROVE  LET next == ObserveFailure(h) IN
         /\ next \in Health
         /\ next.consecutive_successes = 0
         /\ next.consecutive_failures = Longer(h.consecutive_failures, FailureThreshold)
         /\ next.circuit = "half_open" => h.circuit = "half_open"
         /\ next.circuit = "closed" => h.circuit = "closed"
         /\ (next.circuit = "open" /\ h.circuit # "open") =>
              next.consecutive_failures = FailureThreshold
<1> DEFINE streak == Longer(h.consecutive_failures, FailureThreshold)
           opens == h.circuit # "open" /\ streak >= FailureThreshold
           circuit == IF opens THEN "open" ELSE h.circuit
           elapsed == h.elapsed /\ ~opens
           next == [circuit |-> circuit, elapsed |-> elapsed,
                    consecutive_failures |-> streak, consecutive_successes |-> 0]
<1>1. /\ h.circuit \in Circuit /\ h.elapsed \in BOOLEAN
      /\ h.consecutive_failures \in 0 .. FailureThreshold
  BY DEF Health
<1>2. streak \in 1 .. FailureThreshold
  BY <1>1, ThresholdAssumption, LongerType
<1>3. ObserveFailure(h) = next
  BY DEF ObserveFailure
<1>4. circuit \in Circuit /\ elapsed \in BOOLEAN
  BY <1>1 DEF Circuit
<1>5. /\ circuit = "half_open" => h.circuit = "half_open"
      /\ circuit = "closed" => h.circuit = "closed"
      /\ (circuit = "open" /\ h.circuit # "open") => streak = FailureThreshold
  BY <1>2, ThresholdAssumption
<1> HIDE DEF streak, circuit, elapsed
<1>6. next \in Health
  BY <1>1, <1>2, <1>4, ThresholdAssumption DEF Health
<1> QED
  BY <1>3, <1>5, <1>6 DEF streak

LEMMA AfterAsking ==
  ASSUME NEW h \in Health
  PROVE  /\ Asked(h) \in Health
         /\ Asked(h).consecutive_failures = h.consecutive_failures
         /\ HalfOpens(h) => Asked(h).circuit = "half_open" /\ Asked(h).consecutive_successes = 0
         /\ ~HalfOpens(h) => Asked(h) = h
         /\ Asked(h).circuit = "open" => ~IsAvailable(h) /\ h.circuit = "open"
<1>1. /\ h.circuit \in Circuit /\ h.elapsed \in BOOLEAN
      /\ h.consecutive_failures \in 0 .. FailureThreshold
  BY DEF Health
<1>2. CASE HalfOpens(h)
  <2> DEFINE next == [circuit |-> "half_open", elapsed |-> h.elapsed,
                      consecutive_failures |-> h.consecutive_failures,
                      consecutive_successes |-> 0]
  <2>1. Asked(h) = next
    BY <1>2 DEF Asked, Health
  <2>2. next \in Health
    BY <1>1, ThresholdAssumption DEF Health, Circuit
  <2> QED
    BY <1>2, <2>1, <2>2
<1>3. CASE ~HalfOpens(h)
  BY <1>1, <1>3 DEF Asked, HalfOpens, IsAvailable
<1> QED
  BY <1>2, <1>3

\* `recent` is a window on the outcomes observed: the oldest leaves it when it
\* is full.
LEMMA Window ==
  ASSUME NEW seen \in Seq(Outcome), Len(seen) <= FailureThreshold, NEW o \in Outcome
  PROVE  LET next == LastOf(Append(seen, o)) IN
         /\ next \in Seq(Outcome)
         /\ Len(next) = Longer(Len(seen), FailureThreshold)
         /\ next[Len(next)] = o
         /\ \A i \in 1 .. Len(next) - 1 : next[i] = seen[i + (Len(seen) + 1 - Len(next))]
<1>1. /\ Append(seen, o) \in Seq(Outcome)
      /\ Len(Append(seen, o)) = Len(seen) + 1
      /\ Append(seen, o)[Len(seen) + 1] = o
      /\ \A i \in 1 .. Len(seen) : Append(seen, o)[i] = seen[i]
      /\ Len(seen) \in Nat
  OBVIOUS
<1>2. CASE Len(seen) < FailureThreshold
  <2>1. LastOf(Append(seen, o)) = Append(seen, o)
    BY <1>1, <1>2, ThresholdAssumption DEF LastOf
  <2>2. Longer(Len(seen), FailureThreshold) = Len(seen) + 1
    BY <1>2 DEF Longer
  <2> QED
    BY <1>1, <2>1, <2>2
<1>3. CASE Len(seen) = FailureThreshold
  <2>1. LastOf(Append(seen, o)) = Tail(Append(seen, o))
    BY <1>1, <1>3, ThresholdAssumption DEF LastOf
  <2>2. /\ Tail(Append(seen, o)) \in Seq(Outcome)
        /\ Len(Tail(Append(seen, o))) = Len(seen)
        /\ \A i \in 1 .. Len(seen) : Tail(Append(seen, o))[i] = Append(seen, o)[i + 1]
    BY <1>1
  <2>3. Longer(Len(seen), FailureThreshold) = Len(seen) /\ Len(seen) >= 1
    BY <1>3, ThresholdAssumption DEF Longer
  <2> DEFINE next == LastOf(Append(seen, o))
  <2>4. next \in Seq(Outcome) /\ Len(next) = Len(seen)
    BY <2>1, <2>2
  <2>5. next[Len(next)] = o
    BY <1>1, <2>1, <2>2, <2>3
  <2>6. ASSUME NEW i \in 1 .. Len(next) - 1
        PROVE  next[i] = seen[i + (Len(seen) + 1 - Len(next))]
    <3>1. i \in 1 .. Len(seen) /\ i + 1 \in 1 .. Len(seen)
      BY <1>1, <2>4
    <3>2. next[i] = Append(seen, o)[i + 1]
      BY <2>1, <2>2, <3>1
    <3>3. Append(seen, o)[i + 1] = seen[i + 1]
      BY <1>1, <3>1
    <3>4. Len(seen) + 1 - Len(next) = 1
      BY <1>1, <2>4
    <3> HIDE DEF next
    <3> QED
      BY <3>2, <3>3, <3>4
  <2> QED
    BY <2>3, <2>4, <2>5, <2>6
<1> QED
  BY <1>1, <1>2, <1>3, ThresholdAssumption

\* One more failure makes both the streak and the window longer.
LEMMA StreakEnds ==
  ASSUME NEW seen \in Seq(Outcome), Len(seen) <= FailureThreshold,
         NEW n \in 0 .. FailureThreshold, EndsInFailures(seen, n)
  PROVE  EndsInFailures(LastOf(Append(seen, "failed")), Longer(n, FailureThreshold))
<1> DEFINE next == LastOf(Append(seen, "failed"))
           streak == Longer(n, FailureThreshold)
           shift == Len(seen) + 1 - Len(next)
<1>1. /\ next \in Seq(Outcome)
      /\ Len(next) = Longer(Len(seen), FailureThreshold)
      /\ next[Len(next)] = "failed"
      /\ \A i \in 1 .. Len(next) - 1 : next[i] = seen[i + shift]
  BY Window DEF Outcome
<1>2. n <= Len(seen) /\ \A i \in 1 .. Len(seen) : i > Len(seen) - n => seen[i] = "failed"
  BY DEF EndsInFailures
<1>3. /\ Len(seen) \in Nat /\ n \in Nat /\ streak \in Nat /\ Len(next) \in Nat
      /\ streak <= n + 1 /\ streak <= Len(next)
      /\ Len(next) <= Len(seen) + 1
  BY <1>1, <1>2, ThresholdAssumption DEF Longer
<1> HIDE DEF next, streak
<1>4. ASSUME NEW i \in 1 .. Len(next), i > Len(next) - streak
      PROVE  next[i] = "failed"
  <2>1. CASE i = Len(next)
    BY <1>1, <2>1
  <2>2. CASE i < Len(next)
    <3>1. i \in 1 .. Len(next) - 1 /\ i + shift \in 1 .. Len(seen) /\ i + shift > Len(seen) - n
      BY <1>3, <1>4, <2>2
    <3>2. next[i] = seen[i + shift]
      BY <1>1, <3>1
    <3> QED
      BY <1>2, <3>1, <3>2
  <2> QED
    BY <1>3, <2>1, <2>2
<1>5. EndsInFailures(next, streak)
  BY <1>3, <1>4 DEF EndsInFailures
<1> QED
  BY <1>5 DEF next, streak

LEMMA FullStreak ==
  ASSUME NEW seen \in Seq(Outcome), Len(seen) <= FailureThreshold,
         EndsInFailures(seen, FailureThreshold)
  PROVE  Len(seen) = FailureThreshold /\ Range(seen) = {"failed"}
<1>1. Len(seen) = FailureThreshold /\ FailureThreshold \in Nat \ {0}
  BY ThresholdAssumption DEF EndsInFailures
<1>2. DOMAIN seen = 1 .. FailureThreshold
  BY <1>1
<1>3. \A i \in 1 .. FailureThreshold : seen[i] = "failed"
  BY <1>1 DEF EndsInFailures
<1>4. 1 \in DOMAIN seen
  BY <1>1, <1>2
<1> QED
  BY <1>1, <1>2, <1>3, <1>4 DEF Range

-----------------------------------------------------------------------------
(* The invariant, in the two parts that different steps disturb.           *)

CallsOK ==
  /\ policy \in Policies
  /\ pc \in [Calls -> {"idle", "calling"}]
  /\ kind \in [Calls -> Kind]
  /\ shortlist \in [Calls -> Seq(Providers)]
  /\ \A c \in Calls : pc[c] = "calling" <=> shortlist[c] # <<>>
  /\ tries \in [Calls -> 1 .. policy.max_attempts]
  /\ sent \in [Calls -> Nat]

SeenOK ==
  /\ health \in [Providers -> Health]
  /\ recent \in [Providers -> Seq(Outcome)]
  /\ \A p \in Providers : Len(recent[p]) <= FailureThreshold
  /\ regained \in [Providers -> 0 .. HalfOpenSuccesses]
  /\ strays \in [Providers -> SUBSET Calls]
  /\ NoNewTrafficWhileOpen
  /\ \A p \in Providers : StreakSeen(p) /\ StreakRegained(p)

LEMMA TwoParts == GatewayIInv <=> CallsOK /\ SeenOK
BY DEF GatewayIInv, GatewayTypeOK, CallsOK, SeenOK, Outcome

\* What the two action properties say of a step and a provider.
OpensRight(p) ==
  health[p].circuit # "open" /\ health'[p].circuit = "open" =>
    Len(recent'[p]) = FailureThreshold /\ Range(recent'[p]) = {"failed"}

ClosesRight(p) ==
  health[p].circuit # "closed" /\ health'[p].circuit = "closed" =>
    regained'[p] = HalfOpenSuccesses

StepRight == \A p \in Providers : OpensRight(p) /\ ClosesRight(p)

\* Whatever is observed, as long as nobody takes on a provider in that step.
LEMMA ObserveKeeps ==
  ASSUME SeenOK, NEW results, \A p \in DOMAIN results : results[p] \in Outcome,
         Observe(results),
         \A p \in Providers : Holding(p)' \subseteq Holding(p)
  PROVE  SeenOK' /\ StepRight
<1> DEFINE
      Next_(p) == IF p \notin DOMAIN results THEN health[p]
                  ELSE IF results[p] = "ok" THEN ObserveSuccess(health[p])
                  ELSE ObserveFailure(health[p])
      opened == {p \in DOMAIN results :
                   health[p].circuit # "open" /\ health'[p].circuit = "open"}
<1>1. /\ health' = [p \in Providers |-> Next_(p)]
      /\ recent' = [p \in Providers |->
                      IF p \in DOMAIN results THEN LastOf(Append(recent[p], results[p]))
                      ELSE recent[p]]
      /\ regained' = [p \in Providers |->
                        IF p \notin DOMAIN results \/ health[p].circuit # "half_open"
                        THEN regained[p]
                        ELSE IF results[p] = "ok" THEN Longer(regained[p], HalfOpenSuccesses)
                        ELSE 0]
      /\ strays' = [p \in Providers |->
                      IF health'[p].circuit = "closed" THEN {}
                      ELSE (IF p \in opened THEN Holding(p) ELSE strays[p]) \cap Holding(p)']
  BY DEF Observe
<1>2. ASSUME NEW p \in Providers
      PROVE  /\ health'[p] \in Health
             /\ recent'[p] \in Seq(Outcome) /\ Len(recent'[p]) <= FailureThreshold
             /\ regained'[p] \in 0 .. HalfOpenSuccesses
             /\ StreakSeen(p)' /\ StreakRegained(p)'
             /\ OpensRight(p) /\ ClosesRight(p)
             /\ health'[p].circuit = "open" =>
                  p \in opened \/ health[p].circuit = "open"
  <2>1. /\ health[p] \in Health
        /\ recent[p] \in Seq(Outcome) /\ Len(recent[p]) <= FailureThreshold
        /\ regained[p] \in 0 .. HalfOpenSuccesses
        /\ EndsInFailures(recent[p], health[p].consecutive_failures)
        /\ health[p].circuit = "half_open" => regained[p] = health[p].consecutive_successes
    BY DEF SeenOK, StreakSeen, StreakRegained
  <2>2. CASE p \notin DOMAIN results
    <3>1. health'[p] = health[p] /\ recent'[p] = recent[p] /\ regained'[p] = regained[p]
      BY <1>1, <2>2
    <3> QED
      BY <2>1, <3>1 DEF StreakSeen, StreakRegained, OpensRight, ClosesRight
  <2>3. CASE p \in DOMAIN results /\ results[p] = "ok"
    <3>1. /\ health'[p] = ObserveSuccess(health[p])
          /\ recent'[p] = LastOf(Append(recent[p], "ok"))
          /\ regained'[p] = IF health[p].circuit # "half_open" THEN regained[p]
                            ELSE Longer(regained[p], HalfOpenSuccesses)
      BY <1>1, <2>3
    <3>2. /\ health'[p] \in Health
          /\ health'[p].consecutive_failures = 0
          /\ health'[p].consecutive_successes =
               Longer(health[p].consecutive_successes, HalfOpenSuccesses)
          /\ health'[p].circuit = "open" <=> health[p].circuit = "open"
          /\ health'[p].circuit = "half_open" => health[p].circuit = "half_open"
          /\ (health'[p].circuit = "closed" /\ health[p].circuit # "closed") =>
               /\ health[p].circuit = "half_open"
               /\ health'[p].consecutive_successes = HalfOpenSuccesses
      BY <2>1, <3>1, AfterSuccess
    <3>3. /\ recent'[p] \in Seq(Outcome)
          /\ Len(recent'[p]) = Longer(Len(recent[p]), FailureThreshold)
      BY <2>1, <3>1, Window DEF Outcome
    <3>4. Len(recent'[p]) <= FailureThreshold
      BY <2>1, <3>3, ThresholdAssumption DEF Longer
    <3>5. regained'[p] \in 0 .. HalfOpenSuccesses
      BY <2>1, <3>1, ThresholdAssumption DEF Longer
    <3>6. StreakSeen(p)'
      BY <3>2, <3>3 DEF StreakSeen, EndsInFailures
    <3>7. health[p].circuit = "half_open" => regained'[p] = health'[p].consecutive_successes
      BY <2>1, <3>1, <3>2
    <3> QED
      BY <3>2, <3>3, <3>4, <3>5, <3>6, <3>7 DEF StreakRegained, OpensRight, ClosesRight
  <2>4. CASE p \in DOMAIN results /\ results[p] = "failed"
    <3>1. /\ health'[p] = ObserveFailure(health[p])
          /\ recent'[p] = LastOf(Append(recent[p], "failed"))
          /\ regained'[p] = IF health[p].circuit # "half_open" THEN regained[p] ELSE 0
      BY <1>1, <2>4
    <3>2. /\ health'[p] \in Health
          /\ health'[p].consecutive_successes = 0
          /\ health'[p].consecutive_failures =
               Longer(health[p].consecutive_failures, FailureThreshold)
          /\ health'[p].circuit = "half_open" => health[p].circuit = "half_open"
          /\ health'[p].circuit = "closed" => health[p].circuit = "closed"
          /\ (health'[p].circuit = "open" /\ health[p].circuit # "open") =>
               health'[p].consecutive_failures = FailureThreshold
      BY <2>1, <3>1, AfterFailure
    <3>3. /\ recent'[p] \in Seq(Outcome)
          /\ Len(recent'[p]) = Longer(Len(recent[p]), FailureThreshold)
      BY <2>1, <3>1, Window DEF Outcome
    <3>4. Len(recent'[p]) <= FailureThreshold
      BY <2>1, <3>3, ThresholdAssumption DEF Longer
    <3>5. regained'[p] \in 0 .. HalfOpenSuccesses
      BY <2>1, <3>1, ThresholdAssumption
    <3>6. EndsInFailures(recent'[p], health'[p].consecutive_failures)
      <4>1. health[p].consecutive_failures \in 0 .. FailureThreshold
        BY <2>1 DEF Health
      <4> QED
        BY <2>1, <3>1, <3>2, <4>1, StreakEnds
    <3>7. OpensRight(p)
      BY <3>2, <3>3, <3>4, <3>6, FullStreak DEF OpensRight
    <3>8. StreakRegained(p)' /\ ClosesRight(p)
      BY <3>1, <3>2 DEF StreakRegained, ClosesRight
    <3> QED
      BY <2>4, <3>2, <3>3, <3>4, <3>5, <3>6, <3>7, <3>8 DEF StreakSeen
  <2> QED
    BY <2>2, <2>3, <2>4 DEF Outcome
<1> HIDE DEF opened
<1>3. ASSUME NEW p \in Providers
      PROVE  /\ strays'[p] \in SUBSET Calls
             /\ health'[p].circuit = "open" => Holding(p)' \subseteq strays'[p]
  <2>1. strays'[p] = IF health'[p].circuit = "closed" THEN {}
                     ELSE (IF p \in opened THEN Holding(p) ELSE strays[p]) \cap Holding(p)'
    BY <1>1
  <2>2. strays[p] \in SUBSET Calls /\ Holding(p) \in SUBSET Calls
    BY DEF SeenOK, Holding
  <2>3. health[p].circuit = "open" => Holding(p) \subseteq strays[p]
    BY DEF SeenOK, NoNewTrafficWhileOpen
  <2>4. Holding(p)' \subseteq Holding(p)
    OBVIOUS
  <2> QED
    BY <1>2, <2>1, <2>2, <2>3, <2>4
<1>4. /\ health' \in [Providers -> Health]
      /\ recent' \in [Providers -> Seq(Outcome)]
      /\ regained' \in [Providers -> 0 .. HalfOpenSuccesses]
      /\ strays' \in [Providers -> SUBSET Calls]
  <2>1. /\ health' = [p \in Providers |-> health'[p]]
        /\ recent' = [p \in Providers |-> recent'[p]]
        /\ regained' = [p \in Providers |-> regained'[p]]
        /\ strays' = [p \in Providers |-> strays'[p]]
    BY <1>1
  <2> QED
    BY <1>2, <1>3, <2>1
<1>5. NoNewTrafficWhileOpen'
  BY <1>3 DEF NoNewTrafficWhileOpen
<1>6. SeenOK'
  BY <1>2, <1>4, <1>5 DEF SeenOK
<1> QED
  BY <1>2, <1>6 DEF StepRight

-----------------------------------------------------------------------------
(* Calls *)

\* A shortlist drawn from a ranking names nobody the ranking does not.
LEMMA ShortlistType ==
  ASSUME CallsOK, NEW admitted \in SUBSET Providers, NEW k \in Kind,
         NEW order \in Rankings(admitted), order # <<>>
  PROVE  /\ Shortlist(k, order) \in Seq(Providers)
         /\ Shortlist(k, order) # <<>>
         /\ Range(Shortlist(k, order)) \subseteq admitted
<1>1. Cardinality(admitted) \in Nat
  BY GatewayAssumption, FS_Subset, FS_CardinalityType
<1>2. order \in [1 .. Cardinality(admitted) -> admitted]
  BY DEF Rankings, SetToSeqs
<1>3. /\ order \in Seq(admitted) /\ Len(order) \in Nat /\ Len(order) > 0
      /\ \A i \in 1 .. Len(order) : order[i] \in admitted
  BY <1>1, <1>2
<1>4. Allowance \in Nat \ {0}
  <2>1. policy.failover_enabled \in BOOLEAN /\ policy.max_failovers \in Nat
    BY GatewayAssumption DEF CallsOK
  <2> QED
    BY <2>1 DEF Allowance
<1>5. Shortlist(k, order) \in Seq(admitted) /\ Len(Shortlist(k, order)) > 0
  <2>1. CASE k = "stream"
    BY <1>3, <2>1 DEF Shortlist
  <2>2. CASE k # "stream"
    <3> DEFINE n == IF Allowance < Len(order) THEN Allowance ELSE Len(order)
    <3>1. n \in Int /\ n >= 1 /\ n <= Len(order)
      BY <1>3, <1>4
    <3>2. Shortlist(k, order) = SubSeq(order, 1, n)
      BY <2>2 DEF Shortlist, Take
    <3> HIDE DEF n
    <3>3. SubSeq(order, 1, n) \in Seq(admitted) /\ Len(SubSeq(order, 1, n)) = n
      <4>1. \A i \in 1 .. n : order[i] \in admitted
        BY <1>3, <3>1
      <4>2. /\ SubSeq(order, 1, n) \in Seq(admitted)
            /\ Len(SubSeq(order, 1, n)) = IF 1 <= n THEN n - 1 + 1 ELSE 0
        BY <3>1, <4>1, SubSeqProperties
      <4> QED
        BY <3>1, <4>2
    <3> QED
      BY <3>1, <3>2, <3>3
  <2> QED
    BY <2>1, <2>2
<1> HIDE DEF Shortlist
<1>6. /\ Shortlist(k, order) \in Seq(Providers)
      /\ Shortlist(k, order) # <<>>
  BY <1>5
<1>7. Range(Shortlist(k, order)) \subseteq admitted
  BY <1>5 DEF Range
<1> QED
  BY <1>6, <1>7

\* Routing puts providers on a list only when their breaker admits them.
LEMMA RouteKeeps ==
  ASSUME CallsOK, SeenOK, NEW c \in Calls, NEW k \in Kind, NEW demand \in SUBSET Providers,
         Route(c, k, demand)
  PROVE  CallsOK' /\ SeenOK' /\ StepRight
<1> DEFINE admitted == {p \in demand : IsAvailable(health[p])}
           halfOpened == {p \in demand : HalfOpens(health[p])}
<1>1. /\ health' = [p \in Providers |-> IF p \in demand THEN Asked(health[p]) ELSE health[p]]
      /\ regained' = [p \in Providers |-> IF p \in halfOpened THEN 0 ELSE regained[p]]
      /\ UNCHANGED <<policy, recent, strays>>
      /\ pc[c] = "idle"
  BY DEF Route
<1>2. PICK order \in Rankings(admitted) :
         IF order = <<>>
         THEN UNCHANGED callVars
         ELSE /\ pc' = [pc EXCEPT ![c] = "calling"]
              /\ kind' = [kind EXCEPT ![c] = k]
              /\ shortlist' = [shortlist EXCEPT ![c] = Shortlist(k, order)]
              /\ sent' = [sent EXCEPT ![c] = 1]
              /\ UNCHANGED tries
  BY DEF Route
<1> HIDE DEF admitted
<1>3. CallsOK' /\ \A p \in Providers \ admitted : Holding(p)' \subseteq Holding(p)
  <2>1. CASE order = <<>>
    <3>1. UNCHANGED <<policy, pc, kind, shortlist, tries, sent>>
      BY <1>1, <1>2, <2>1 DEF callVars
    <3>2. CallsOK'
      BY <3>1 DEF CallsOK
    <3>3. \A p \in Providers : Holding(p)' = Holding(p)
      BY <3>1 DEF Holding
    <3> QED
      BY <3>2, <3>3
  <2>2. CASE order # <<>>
    <3> DEFINE list == Shortlist(k, order)
    <3>1. /\ pc' = [pc EXCEPT ![c] = "calling"]
          /\ kind' = [kind EXCEPT ![c] = k]
          /\ shortlist' = [shortlist EXCEPT ![c] = list]
          /\ sent' = [sent EXCEPT ![c] = 1]
          /\ UNCHANGED <<policy, tries>>
      BY <1>1, <1>2, <2>2
    <3>2. admitted \in SUBSET Providers
      BY DEF admitted
    <3>3. list \in Seq(Providers) /\ list # <<>> /\ Range(list) \subseteq admitted
      BY <2>2, <3>2, ShortlistType
    <3> HIDE DEF list
    <3>4. CallsOK'
      BY <3>1, <3>3 DEF CallsOK
    <3>5. ASSUME NEW p \in Providers \ admitted, NEW d \in Holding(p)'
          PROVE  d \in Holding(p)
      <4>1. d \in Calls /\ pc'[d] = "calling" /\ p \in Range(shortlist'[d])
        BY <3>5 DEF Holding
      <4>2. d # c
        <5>1. shortlist'[c] = list
          BY <3>1 DEF CallsOK
        <5> QED
          BY <3>3, <3>5, <4>1, <5>1
      <4>3. pc'[d] = pc[d] /\ shortlist'[d] = shortlist[d]
        BY <3>1, <4>1, <4>2 DEF CallsOK
      <4> QED
        BY <4>1, <4>3 DEF Holding
    <3> QED
      BY <3>4, <3>5
  <2> QED
    BY <2>1, <2>2
<1>4. ASSUME NEW p \in Providers
      PROVE  /\ health'[p] \in Health
             /\ regained'[p] \in 0 .. HalfOpenSuccesses
             /\ StreakSeen(p)' /\ StreakRegained(p)'
             /\ health'[p].circuit = "open" => p \notin admitted /\ health[p].circuit = "open"
             /\ health'[p].circuit = "closed" => health[p].circuit = "closed"
  <2>1. /\ health[p] \in Health
        /\ regained[p] \in 0 .. HalfOpenSuccesses
        /\ EndsInFailures(recent[p], health[p].consecutive_failures)
        /\ health[p].circuit = "half_open" => regained[p] = health[p].consecutive_successes
    BY DEF SeenOK, StreakSeen, StreakRegained
  <2>2. CASE p \in halfOpened
    <3>1. /\ health'[p] = Asked(health[p]) /\ regained'[p] = 0 /\ recent' = recent
          /\ HalfOpens(health[p])
      BY <1>1, <2>2
    <3>2. /\ Asked(health[p]) \in Health
          /\ Asked(health[p]).consecutive_failures = health[p].consecutive_failures
          /\ Asked(health[p]).circuit = "half_open"
          /\ Asked(health[p]).consecutive_successes = 0
      BY <2>1, <3>1, AfterAsking
    <3> QED
      BY <2>1, <3>1, <3>2, ThresholdAssumption DEF StreakSeen, StreakRegained
  <2>3. CASE p \notin halfOpened
    <3>1. health'[p] = health[p] /\ regained'[p] = regained[p] /\ recent' = recent
      BY <1>1, <2>1, <2>3, AfterAsking
    <3>2. p \in admitted => health[p].circuit # "open"
      BY <2>3 DEF admitted, IsAvailable, HalfOpens
    <3> QED
      BY <2>1, <3>1, <3>2 DEF StreakSeen, StreakRegained
  <2> QED
    BY <2>2, <2>3
<1>5. health' \in [Providers -> Health] /\ regained' \in [Providers -> 0 .. HalfOpenSuccesses]
  <2>1. /\ health' = [p \in Providers |-> health'[p]]
        /\ regained' = [p \in Providers |-> regained'[p]]
    BY <1>1
  <2> QED
    BY <1>4, <2>1
<1>6. NoNewTrafficWhileOpen'
  BY <1>1, <1>3, <1>4 DEF NoNewTrafficWhileOpen, SeenOK
<1>7. SeenOK'
  BY <1>1, <1>4, <1>5, <1>6 DEF SeenOK
<1>8. StepRight
  BY <1>4 DEF StepRight, OpensRight, ClosesRight
<1> QED
  BY <1>3, <1>7, <1>8

\* A call that ends, or moves on, lets go of providers and takes on none.
LEMMA EndKeeps ==
  ASSUME CallsOK, UNCHANGED policy, NEW c \in Calls, End(c)
  PROVE  CallsOK' /\ \A p \in Providers : Holding(p)' \subseteq Holding(p) \ {c}
<1>1. policy \in Policies /\ policy.max_attempts \in Nat \ {0}
  BY GatewayAssumption DEF CallsOK
<1>2. CallsOK'
  <2>1. 1 \in 1 .. policy.max_attempts /\ <<>> \in Seq(Providers)
    BY <1>1
  <2> QED
    BY <2>1 DEF CallsOK, End, Kind
<1>3. ASSUME NEW p \in Providers, NEW d \in Holding(p)'
      PROVE  d \in Holding(p) \ {c}
  <2>1. d \in Calls /\ pc'[d] = "calling" /\ p \in Range(shortlist'[d])
    BY <1>3 DEF Holding
  <2>2. d # c
    BY <2>1 DEF End, CallsOK
  <2>3. pc'[d] = pc[d] /\ shortlist'[d] = shortlist[d]
    BY <2>1, <2>2 DEF End, CallsOK
  <2> QED
    BY <2>1, <2>2, <2>3 DEF Holding
<1> QED
  BY <1>2, <1>3

LEMMA MovesOnKeeps ==
  ASSUME CallsOK, UNCHANGED <<policy, pc, kind>>, NEW c \in Calls,
         pc[c] = "calling", Len(shortlist[c]) # 1,
         shortlist' = [shortlist EXCEPT ![c] = Tail(@)],
         tries' = [tries EXCEPT ![c] = 1],
         sent' = [sent EXCEPT ![c] = @ + 1]
  PROVE  CallsOK' /\ \A p \in Providers : Holding(p)' \subseteq Holding(p)
<1> DEFINE list == shortlist[c]
<1>1. list \in Seq(Providers) /\ Len(list) \in Nat /\ Len(list) > 1
  <2>1. list \in Seq(Providers) /\ list # <<>> /\ Len(list) # 1
    BY DEF CallsOK
  <2>2. Len(list) \in Nat \ {0}
    BY <2>1, EmptySeq
  <2> DEFINE n == Len(list)
  <2>3. n \in Nat \ {0} /\ n # 1
    BY <2>1, <2>2
  <2> HIDE DEF n
  <2>4. n \in Nat /\ n > 1
    BY <2>3
  <2> QED
    BY <2>1, <2>4 DEF n
<1>2. /\ Tail(list) \in Seq(Providers) /\ Len(Tail(list)) = Len(list) - 1
      /\ \A i \in 1 .. Len(list) - 1 : Tail(list)[i] = list[i + 1]
  BY <1>1
<1>3. Tail(list) # <<>>
  <2>1. Len(Tail(list)) # 0
    BY <1>1, <1>2
  <2> QED
    BY <2>1, EmptySeq
<1>4. Range(Tail(list)) \subseteq Range(list)
  <2>1. DOMAIN list = 1 .. Len(list) /\ DOMAIN Tail(list) = 1 .. Len(list) - 1
    BY <1>1, <1>2
  <2>2. \A i \in 1 .. Len(list) - 1 : i + 1 \in 1 .. Len(list)
    BY <1>1
  <2> QED
    BY <1>2, <2>1, <2>2 DEF Range
<1>5. shortlist' = [shortlist EXCEPT ![c] = Tail(list)]
  OBVIOUS
<1> HIDE DEF list
<1>6. CallsOK'
  <2>1. policy.max_attempts \in Nat \ {0}
    BY GatewayAssumption DEF CallsOK
  <2>2. 1 \in 1 .. policy.max_attempts
    BY <2>1
  <2> QED
    BY <1>2, <1>3, <1>5, <2>2 DEF CallsOK
<1>7. ASSUME NEW p \in Providers, NEW d \in Holding(p)'
      PROVE  d \in Holding(p)
  <2>1. d \in Calls /\ pc[d] = "calling" /\ p \in Range(shortlist'[d])
    BY <1>7 DEF Holding
  <2>2. Range(shortlist'[d]) \subseteq Range(shortlist[d])
    BY <1>4, <1>5, <2>1 DEF CallsOK, list
  <2> QED
    BY <2>1, <2>2 DEF Holding
<1> QED
  BY <1>6, <1>7

-----------------------------------------------------------------------------
(* The invariant is inductive, and no step breaks the action properties.   *)

LEMMA InitEstablishes == Init => GatewayIInv
<1> SUFFICES ASSUME Init PROVE GatewayIInv
  OBVIOUS
<1>1. /\ policy \in Policies /\ policy.max_attempts \in Nat \ {0}
      /\ 1 \in 1 .. policy.max_attempts
  BY GatewayAssumption DEF Init
<1>2. /\ Fresh \in Health /\ Fresh.circuit = "closed" /\ Fresh.consecutive_failures = 0
  BY ThresholdAssumption DEF Fresh, Health, Circuit
<1>3. <<>> \in Seq(Providers) /\ <<>> \in Seq(Outcome) /\ Len(<<>>) = 0
  OBVIOUS
<1>4. CallsOK
  BY <1>1, <1>3 DEF CallsOK, Init, Kind
<1>5. SeenOK
  <2>1. /\ health \in [Providers -> Health]
        /\ recent \in [Providers -> Seq(Outcome)]
        /\ regained \in [Providers -> 0 .. HalfOpenSuccesses]
        /\ strays \in [Providers -> SUBSET Calls]
    BY <1>2, <1>3, ThresholdAssumption DEF Init
  <2>2. \A p \in Providers : health[p] = Fresh /\ recent[p] = <<>>
    BY DEF Init
  <2>3. NoNewTrafficWhileOpen /\ \A p \in Providers : StreakRegained(p)
    BY <1>2, <2>2 DEF NoNewTrafficWhileOpen, StreakRegained
  <2>4. \A p \in Providers : StreakSeen(p) /\ Len(recent[p]) <= FailureThreshold
    BY <1>2, <1>3, <2>2, ThresholdAssumption DEF StreakSeen, EndsInFailures
  <2> QED
    BY <2>1, <2>3, <2>4 DEF SeenOK
<1> QED
  BY <1>4, <1>5, TwoParts

LEMMA StepKeeps == GatewayIInv /\ [Next]_vars => GatewayIInv' /\ StepRight
<1> SUFFICES ASSUME CallsOK, SeenOK, [Next]_vars PROVE CallsOK' /\ SeenOK' /\ StepRight
  BY TwoParts, PTL
<1>1. ASSUME NEW r \in Requests, Route(r[1], r[2], r[3])
      PROVE  CallsOK' /\ SeenOK' /\ StepRight
  <2>1. r[1] \in Calls /\ r[2] \in Kind /\ r[3] \in SUBSET Providers
    BY GatewayAssumption
  <2> QED
    BY <1>1, <2>1, RouteKeeps
<1>2. ASSUME NEW c \in Calls, Succeeds(c)
      PROVE  CallsOK' /\ SeenOK' /\ StepRight
  <2>1. End(c) /\ UNCHANGED policy /\ Observe([p \in {Current(c)} |-> "ok"])
    BY <1>2 DEF Succeeds
  <2>2. CallsOK' /\ \A p \in Providers : Holding(p)' \subseteq Holding(p)
    BY <2>1, EndKeeps
  <2> QED
    BY <2>1, <2>2, ObserveKeeps DEF Outcome
<1>3. ASSUME NEW c \in Calls, FailsOver(c)
      PROVE  CallsOK' /\ SeenOK' /\ StepRight
  <2>1. UNCHANGED policy /\ Observe([p \in {Current(c)} |-> "failed"])
    BY <1>3 DEF FailsOver
  <2>2. CallsOK' /\ \A p \in Providers : Holding(p)' \subseteq Holding(p)
    <3>1. CASE Len(shortlist[c]) = 1
      <4>1. End(c)
        BY <1>3, <3>1 DEF FailsOver
      <4> QED
        BY <2>1, <4>1, EndKeeps
    <3>2. CASE Len(shortlist[c]) # 1
      BY <1>3, <2>1, <3>2, MovesOnKeeps DEF FailsOver
    <3> QED
      BY <3>1, <3>2
  <2> QED
    BY <2>1, <2>2, ObserveKeeps DEF Outcome
<1>4. ASSUME NEW c \in Calls, Retries(c)
      PROVE  CallsOK' /\ SeenOK' /\ StepRight
  <2>1. /\ UNCHANGED <<policy, pc, kind, shortlist, health, recent, regained, strays>>
        /\ tries[c] < policy.max_attempts
        /\ tries' = [tries EXCEPT ![c] = @ + 1]
        /\ sent' = [sent EXCEPT ![c] = @ + 1]
    BY <1>4 DEF Retries, seenVars
  <2>2. policy.max_attempts \in Nat \ {0}
    BY GatewayAssumption DEF CallsOK
  <2>3. tries[c] + 1 \in 1 .. policy.max_attempts /\ sent[c] + 1 \in Nat
    BY <2>1, <2>2 DEF CallsOK
  <2>4. CallsOK'
    BY <2>1, <2>3 DEF CallsOK
  <2> QED
    BY <2>1, <2>4 DEF SeenOK, NoNewTrafficWhileOpen, Holding, StreakSeen,
                      StreakRegained, StepRight, OpensRight, ClosesRight
<1>5. ASSUME NEW c \in Calls, Escapes(c)
      PROVE  CallsOK' /\ SeenOK' /\ StepRight
  <2>1. /\ End(c) /\ UNCHANGED <<policy, health, recent, regained>>
        /\ strays' = [p \in Providers |-> strays[p] \ {c}]
    BY <1>5 DEF Escapes
  <2>2. CallsOK' /\ \A p \in Providers : Holding(p)' \subseteq Holding(p) \ {c}
    BY <2>1, EndKeeps
  <2>3. strays' \in [Providers -> SUBSET Calls] /\ NoNewTrafficWhileOpen'
    BY <2>1, <2>2 DEF SeenOK, NoNewTrafficWhileOpen
  <2> QED
    BY <2>1, <2>2, <2>3 DEF SeenOK, StreakSeen, StreakRegained,
                            StepRight, OpensRight, ClosesRight
<1>6. ASSUME NEW q \in Providers, CoolsDown(q)
      PROVE  CallsOK' /\ SeenOK' /\ StepRight
  <2>1. /\ UNCHANGED <<policy, pc, kind, shortlist, tries, sent, recent, regained, strays>>
        /\ health' = [health EXCEPT ![q].elapsed = TRUE]
    BY <1>6 DEF CoolsDown, callVars
  <2>2. CallsOK'
    BY <2>1 DEF CallsOK
  <2>3. ASSUME NEW p \in Providers
        PROVE  /\ health'[p] \in Health
               /\ health'[p].circuit = health[p].circuit
               /\ health'[p].consecutive_failures = health[p].consecutive_failures
               /\ health'[p].consecutive_successes = health[p].consecutive_successes
    BY <2>1 DEF SeenOK, Health
  <2>4. health' \in [Providers -> Health]
    BY <2>1, <2>3 DEF SeenOK
  <2>5. NoNewTrafficWhileOpen'
    BY <2>1, <2>3 DEF SeenOK, NoNewTrafficWhileOpen, Holding
  <2>6. \A p \in Providers : StreakSeen(p)' /\ StreakRegained(p)'
    BY <2>1, <2>3 DEF SeenOK, StreakSeen, StreakRegained
  <2>7. SeenOK'
    BY <2>1, <2>4, <2>5, <2>6 DEF SeenOK
  <2> QED
    BY <2>2, <2>3, <2>7 DEF StepRight, OpensRight, ClosesRight
<1>7. ASSUME ProbesEnd
      PROVE  CallsOK' /\ SeenOK' /\ StepRight
  <2>1. UNCHANGED <<policy, pc, kind, shortlist, tries, sent>>
    BY <1>7 DEF ProbesEnd, callVars
  <2>2. CallsOK'
    BY <2>1 DEF CallsOK
  <2>3. \A p \in Providers : Holding(p)' \subseteq Holding(p)
    BY <2>1 DEF Holding
  <2>4. PICK results \in [Providers -> Outcome] : Observe(results)
    BY <1>7 DEF ProbesEnd, Outcome
  <2> QED
    BY <2>2, <2>3, <2>4, ObserveKeeps
<1>8. CASE UNCHANGED vars
  BY <1>8 DEF vars, CallsOK, SeenOK, NoNewTrafficWhileOpen, Holding, StreakSeen,
              StreakRegained, StepRight, OpensRight, ClosesRight
<1> QED
  BY <1>1, <1>2, <1>3, <1>4, <1>5, <1>6, <1>7, <1>8 DEF Next, CallStep

\* The inductive invariant holds of every state the gateway reaches.
THEOREM InvariantHolds == Spec => []GatewayIInv
<1>1. GatewayIInv /\ [Next]_vars => GatewayIInv'
  BY StepKeeps
<1> QED
  BY InitEstablishes, <1>1, PTL DEF Spec

\* Health records, shortlists and attempts stay in their ranges, and a call is
\* under way exactly while it has a provider left to try.
THEOREM TypeCorrect == Spec => []GatewayTypeOK
<1>1. GatewayIInv => GatewayTypeOK
  BY DEF GatewayIInv
<1> QED
  BY InvariantHolds, <1>1, PTL

\* Routing never hands an open provider to a new request: HealthTracker asks
\* the breaker and half-opens it in the same step as the ranking.
THEOREM OpenMeansNoNewTraffic == Spec => []NoNewTrafficWhileOpen
<1>1. GatewayIInv => NoNewTrafficWhileOpen
  BY DEF GatewayIInv
<1> QED
  BY InvariantHolds, <1>1, PTL

\* A breaker opens only on failure_threshold failures in a row, whichever calls
\* and probes reported them.
THEOREM OpeningIsEarned == Spec => OpensOnlyOnFailures
<1>1. GatewayIInv /\ [Next]_vars =>
        [\A p \in Providers :
           health[p].circuit # "open" /\ health'[p].circuit = "open" =>
             /\ Len(recent'[p]) = FailureThreshold
             /\ Range(recent'[p]) = {"failed"}]_vars
  BY StepKeeps DEF StepRight, OpensRight
<1> QED
  BY InvariantHolds, <1>1, PTL DEF Spec, OpensOnlyOnFailures

\* It closes only on half_open_successes successes in a row since it
\* half-opened.
THEOREM ClosingIsEarned == Spec => ClosesOnlyWhenRegained
<1>1. GatewayIInv /\ [Next]_vars =>
        [\A p \in Providers :
           health[p].circuit # "closed" /\ health'[p].circuit = "closed" =>
             regained'[p] = HalfOpenSuccesses]_vars
  BY StepKeeps DEF StepRight, ClosesRight
<1> QED
  BY InvariantHolds, <1>1, PTL DEF Spec, ClosesOnlyWhenRegained

-----------------------------------------------------------------------------
(* The number of requests.  What a call has sent and what it may still send   *)
(* with the attempts and providers it has left stay within its allowance.     *)

InBudget(c) ==
  LET most == policy.max_attempts
      left == Len(shortlist[c]) IN
  /\ pc[c] = "idle" => sent[c] = 0 /\ tries[c] = 1 /\ kind[c] = "chat"
  /\ pc[c] = "calling" =>
       IF kind[c] = "stream" THEN sent[c] + left <= Cardinality(Providers) + 1
       ELSE sent[c] + most * left <= most * Allowance + tries[c]

LEMMA MoreOfTheSame ==
  ASSUME NEW k \in Nat, NEW m \in Nat, NEW n \in Nat, m <= n
  PROVE  k * m <= k * n /\ k * m \in Nat /\ k * n \in Nat
<1>1. PICK d \in Nat : n = m + d
  <2>1. n - m \in Nat /\ n = m + (n - m)
    OBVIOUS
  <2> QED
    BY <2>1
<1>2. k * n = k * m + k * d
  BY <1>1
<1>3. k * m \in Nat /\ k * d \in Nat
  BY <1>1
<1> QED
  BY <1>2, <1>3

LEMMA AllowanceType ==
  ASSUME CallsOK
  PROVE  Allowance \in Nat \ {0} /\ policy.max_attempts \in Nat \ {0}
<1>1. /\ policy.failover_enabled \in BOOLEAN /\ policy.max_failovers \in Nat
      /\ policy.max_attempts \in Nat \ {0}
  BY GatewayAssumption DEF CallsOK
<1> QED
  BY <1>1 DEF Allowance

\* A chat's shortlist is no longer than its allowance, a stream's no longer than
\* the fleet.
LEMMA ShortlistLength ==
  ASSUME CallsOK, NEW admitted \in SUBSET Providers, NEW k \in Kind,
         NEW order \in Rankings(admitted), order # <<>>
  PROVE  /\ k = "stream" => Len(Shortlist(k, order)) <= Cardinality(Providers)
         /\ k # "stream" => Len(Shortlist(k, order)) <= Allowance
<1>1. /\ Cardinality(admitted) \in Nat /\ Cardinality(Providers) \in Nat
      /\ Cardinality(admitted) <= Cardinality(Providers)
  BY GatewayAssumption, FS_Subset, FS_CardinalityType
<1>2. order \in [1 .. Cardinality(admitted) -> admitted]
  BY DEF Rankings, SetToSeqs
<1>3. /\ order \in Seq(admitted) /\ Len(order) = Cardinality(admitted)
      /\ Len(order) \in Nat \ {0}
  <2>1. order \in Seq(admitted) /\ Len(order) = Cardinality(admitted)
    BY <1>1, <1>2
  <2> QED
    BY <1>1, <2>1, EmptySeq
<1>4. CASE k = "stream"
  BY <1>1, <1>3, <1>4 DEF Shortlist
<1>5. CASE k # "stream"
  <2> DEFINE n == IF Allowance < Len(order) THEN Allowance ELSE Len(order)
  <2>1. n \in Nat \ {0} /\ n <= Len(order) /\ n <= Allowance
    BY <1>3, AllowanceType
  <2>2. Shortlist(k, order) = SubSeq(order, 1, n)
    BY <1>5 DEF Shortlist, Take
  <2> HIDE DEF n
  <2>3. Len(SubSeq(order, 1, n)) = n
    <3>1. \A i \in 1 .. n : order[i] \in admitted
      BY <1>3, <2>1
    <3>2. Len(SubSeq(order, 1, n)) = IF 1 <= n THEN n - 1 + 1 ELSE 0
      BY <2>1, <3>1, SubSeqProperties
    <3> QED
      BY <2>1, <3>2
  <2> QED
    BY <1>5, <2>1, <2>2, <2>3
<1> QED
  BY <1>4, <1>5

\* A call that is at something else stays as it is.
LEMMA OthersStay ==
  ASSUME UNCHANGED policy, NEW d, InBudget(d),
         pc'[d] = pc[d], kind'[d] = kind[d], shortlist'[d] = shortlist[d],
         tries'[d] = tries[d], sent'[d] = sent[d]
  PROVE  InBudget(d)'
BY DEF InBudget, Allowance

LEMMA RouteInBudget ==
  ASSUME CallsOK, \A d \in Calls : InBudget(d), NEW c \in Calls, NEW k \in Kind,
         NEW demand \in SUBSET Providers, Route(c, k, demand), NEW d \in Calls
  PROVE  InBudget(d)'
<1> DEFINE admitted == {p \in demand : IsAvailable(health[p])}
<1>1. PICK order \in Rankings(admitted) :
         IF order = <<>>
         THEN UNCHANGED callVars
         ELSE /\ pc' = [pc EXCEPT ![c] = "calling"]
              /\ kind' = [kind EXCEPT ![c] = k]
              /\ shortlist' = [shortlist EXCEPT ![c] = Shortlist(k, order)]
              /\ sent' = [sent EXCEPT ![c] = 1]
              /\ UNCHANGED tries
  BY DEF Route
<1>2. policy' = policy /\ pc[c] = "idle"
  BY DEF Route
<1>3. admitted \in SUBSET Providers
  OBVIOUS
<1> HIDE DEF admitted
<1>4. CASE order = <<>>
  BY <1>1, <1>2, <1>4, OthersStay DEF callVars
<1>5. CASE order # <<>> /\ d # c
  BY <1>1, <1>2, <1>5, OthersStay DEF CallsOK
<1>6. CASE order # <<>> /\ d = c
  <2> DEFINE list == Shortlist(k, order)
  <2>1. list \in Seq(Providers) /\ Len(list) \in Nat
    BY <1>3, <1>6, ShortlistType
  <2>2. /\ k = "stream" => Len(list) <= Cardinality(Providers)
        /\ k # "stream" => Len(list) <= Allowance
    BY <1>3, <1>6, ShortlistLength
  <2> HIDE DEF list
  <2>3. /\ pc'[c] = "calling" /\ kind'[c] = k /\ shortlist'[c] = list
        /\ sent'[c] = 1 /\ tries'[c] = 1
    BY <1>1, <1>2, <1>6 DEF CallsOK, InBudget, list
  <2>4. Cardinality(Providers) \in Nat
    BY GatewayAssumption, FS_CardinalityType
  <2>5. k # "stream" => policy.max_attempts * Len(list) <= policy.max_attempts * Allowance
    BY <2>1, <2>2, AllowanceType, MoreOfTheSame
  <2>6. policy.max_attempts * Len(list) \in Int /\ policy.max_attempts * Allowance \in Int
    BY <2>1, AllowanceType
  <2>7. Allowance' = Allowance
    BY <1>2 DEF Allowance
  <2>8. CASE k = "stream"
    BY <1>6, <2>1, <2>2, <2>3, <2>4, <2>8 DEF InBudget
  <2>9. CASE k # "stream"
    <3> DEFINE a == policy.max_attempts * Len(list)
               b == policy.max_attempts * Allowance
    <3>1. a \in Int /\ b \in Int /\ a <= b
      BY <2>5, <2>6, <2>9
    <3>2. InBudget(c)' <=> 1 + a <= b + 1
      BY <1>2, <2>3, <2>7, <2>9 DEF InBudget
    <3> HIDE DEF a, b
    <3> QED
      BY <1>6, <3>1, <3>2
  <2> QED
    BY <2>8, <2>9
<1> QED
  BY <1>4, <1>5, <1>6

LEMMA EndInBudget ==
  ASSUME CallsOK, \A d \in Calls : InBudget(d), UNCHANGED policy, NEW c \in Calls, End(c),
         NEW d \in Calls
  PROVE  InBudget(d)'
<1>1. CASE d = c
  <2>1. pc'[c] = "idle" /\ sent'[c] = 0 /\ tries'[c] = 1 /\ kind'[c] = "chat"
    BY DEF End, CallsOK
  <2> QED
    BY <1>1, <2>1 DEF InBudget
<1>2. CASE d # c
  BY <1>2, OthersStay DEF End, CallsOK
<1> QED
  BY <1>1, <1>2

LEMMA RetriesInBudget ==
  ASSUME CallsOK, \A d \in Calls : InBudget(d), NEW c \in Calls, Retries(c), NEW d \in Calls
  PROVE  InBudget(d)'
<1>1. /\ UNCHANGED <<policy, pc, kind, shortlist>> /\ kind[c] = "chat" /\ pc[c] = "calling"
      /\ tries' = [tries EXCEPT ![c] = @ + 1]
      /\ sent' = [sent EXCEPT ![c] = @ + 1]
  BY DEF Retries
<1>2. CASE d = c
  <2> DEFINE a == policy.max_attempts * Len(shortlist[c])
             b == policy.max_attempts * Allowance
  <2>1. sent[c] + a <= b + tries[c]
    BY <1>1 DEF InBudget
  <2>2. a \in Int /\ b \in Int /\ sent[c] \in Nat /\ tries[c] \in Nat
    <3>1. shortlist[c] \in Seq(Providers) /\ Len(shortlist[c]) \in Nat
      BY DEF CallsOK
    <3>2. policy.max_attempts \in Nat \ {0} /\ Allowance \in Nat \ {0}
      BY AllowanceType
    <3>3. sent[c] \in Nat /\ tries[c] \in Nat
      BY <3>2 DEF CallsOK
    <3>4. a \in Int /\ b \in Int
      BY <3>1, <3>2
    <3> QED
      BY <3>3, <3>4
  <2>3. InBudget(c)' <=> sent[c] + 1 + a <= b + (tries[c] + 1)
    BY <1>1 DEF InBudget, Allowance, CallsOK
  <2> HIDE DEF a, b
  <2> QED
    BY <1>2, <2>1, <2>2, <2>3
<1>3. CASE d # c
  BY <1>1, <1>3, OthersStay DEF CallsOK
<1> QED
  BY <1>2, <1>3

LEMMA FailsOverInBudget ==
  ASSUME CallsOK, \A d \in Calls : InBudget(d), NEW c \in Calls, FailsOver(c), NEW d \in Calls
  PROVE  InBudget(d)'
<1>1. policy' = policy /\ pc[c] = "calling"
  BY DEF FailsOver
<1>2. CASE Len(shortlist[c]) = 1
  BY <1>1, <1>2, EndInBudget DEF FailsOver
<1>3. CASE Len(shortlist[c]) # 1
  <2>1. /\ shortlist' = [shortlist EXCEPT ![c] = Tail(@)]
        /\ tries' = [tries EXCEPT ![c] = 1]
        /\ sent' = [sent EXCEPT ![c] = @ + 1]
        /\ UNCHANGED <<pc, kind>>
    BY <1>3 DEF FailsOver
  <2>2. CASE d # c
    BY <1>1, <2>1, <2>2, OthersStay DEF CallsOK
  <2>3. CASE d = c
    <3> DEFINE most == policy.max_attempts
               left == Len(shortlist[c])
               a == most * left
               b == most * Allowance
    <3>1. shortlist[c] \in Seq(Providers) /\ shortlist[c] # <<>>
      BY <1>1 DEF CallsOK
    <3>2. left \in Nat \ {0} /\ Len(Tail(shortlist[c])) = left - 1
      BY <3>1, EmptySeq
    <3>3. most \in Nat \ {0} /\ Allowance \in Nat /\ sent[c] \in Nat
          /\ tries[c] \in 1 .. most
      BY AllowanceType DEF CallsOK
    <3>4. a \in Int /\ b \in Int /\ most * (left - 1) = a - most
      BY <3>2, <3>3
    <3>5. shortlist'[c] = Tail(shortlist[c]) /\ tries'[c] = 1 /\ sent'[c] = sent[c] + 1
      BY <2>1 DEF CallsOK
    <3>6. CASE kind[c] = "stream"
      <4>1. Cardinality(Providers) \in Nat
        BY GatewayAssumption, FS_CardinalityType
      <4>2. sent[c] + left <= Cardinality(Providers) + 1
        BY <1>1, <3>6 DEF InBudget
      <4>3. InBudget(c)' <=> (sent[c] + 1) + (left - 1) <= Cardinality(Providers) + 1
        BY <1>1, <2>1, <3>2, <3>5, <3>6 DEF InBudget
      <4> HIDE DEF left
      <4> QED
        BY <2>3, <3>2, <3>3, <4>1, <4>2, <4>3
    <3>7. CASE kind[c] # "stream"
      <4>1. sent[c] + a <= b + tries[c]
        BY <1>1, <3>7 DEF InBudget
      <4>2. Allowance' = Allowance
        BY <1>1 DEF Allowance
      <4>3. InBudget(c)' <=> (sent[c] + 1) + most * (left - 1) <= b + 1
        BY <1>1, <2>1, <3>2, <3>5, <3>7, <4>2 DEF InBudget
      <4> HIDE DEF a, b, most, left
      <4> QED
        BY <2>3, <3>3, <3>4, <4>1, <4>3
    <3> QED
      BY <3>6, <3>7
  <2> QED
    BY <2>2, <2>3
<1> QED
  BY <1>2, <1>3

\* No request goes beyond what its kind and the policy allow: retries and
\* failovers multiply, and streams ask each provider once.
THEOREM RequestsStayBounded == Spec => []RequestsBounded
<1> DEFINE Inv == CallsOK /\ \A d \in Calls : InBudget(d)
<1>1. GatewayIInv => CallsOK
  BY TwoParts
<1>2. Init => \A d \in Calls : InBudget(d)
  BY DEF Init, InBudget
<1>3. CallsOK /\ (\A d \in Calls : InBudget(d)) /\ [Next]_vars => (\A d \in Calls : InBudget(d))'
  <2> SUFFICES ASSUME CallsOK, \A d \in Calls : InBudget(d), [Next]_vars, NEW d \in Calls
               PROVE  InBudget(d)'
    OBVIOUS
  <2>1. ASSUME NEW r \in Requests, Route(r[1], r[2], r[3])
        PROVE  InBudget(d)'
    <3>1. r[1] \in Calls /\ r[2] \in Kind /\ r[3] \in SUBSET Providers
      BY GatewayAssumption
    <3> QED
      BY <2>1, <3>1, RouteInBudget
  <2>2. ASSUME NEW c \in Calls, Succeeds(c) \/ Escapes(c)
        PROVE  InBudget(d)'
    BY <2>2, EndInBudget DEF Succeeds, Escapes
  <2>3. ASSUME NEW c \in Calls, Retries(c)
        PROVE  InBudget(d)'
    BY <2>3, RetriesInBudget
  <2>4. ASSUME NEW c \in Calls, FailsOver(c)
        PROVE  InBudget(d)'
    BY <2>4, FailsOverInBudget
  <2>5. ASSUME ProbesEnd \/ UNCHANGED vars \/ \E p \in Providers : CoolsDown(p)
        PROVE  InBudget(d)'
    <3>1. UNCHANGED <<policy, pc, kind, shortlist, tries, sent>>
      BY <2>5 DEF ProbesEnd, CoolsDown, vars, callVars
    <3> QED
      BY <3>1, OthersStay
  <2> QED
    BY <2>1, <2>2, <2>3, <2>4, <2>5 DEF Next, CallStep
<1>4. CallsOK /\ (\A d \in Calls : InBudget(d)) => RequestsBounded
  <2> SUFFICES ASSUME CallsOK, NEW c \in Calls, InBudget(c)
               PROVE  sent[c] <= IF kind[c] = "stream" THEN Cardinality(Providers)
                                 ELSE policy.max_attempts * Allowance
    BY DEF RequestsBounded
  <2> DEFINE most == policy.max_attempts
             left == Len(shortlist[c])
             a == most * left
             b == most * Allowance
  <2>1. most \in Nat \ {0} /\ Allowance \in Nat \ {0} /\ sent[c] \in Nat
        /\ tries[c] \in 1 .. most
    BY AllowanceType DEF CallsOK
  <2>2. Cardinality(Providers) \in Nat
    BY GatewayAssumption, FS_CardinalityType
  <2>3. b \in Nat
    BY <2>1
  <2>4. CASE pc[c] = "idle"
    BY <2>1, <2>3, <2>4 DEF InBudget
  <2>5. CASE pc[c] = "calling"
    <3>1. shortlist[c] \in Seq(Providers) /\ shortlist[c] # <<>>
      BY <2>5 DEF CallsOK
    <3>2. left \in Nat \ {0}
      BY <3>1, EmptySeq
    <3>3. a \in Int /\ most <= a
      <4>1. most * 1 <= most * left
        BY <2>1, <3>2, MoreOfTheSame
      <4> QED
        BY <2>1, <3>2, <4>1
    <3>4. CASE kind[c] = "stream"
      <4>1. sent[c] + left <= Cardinality(Providers) + 1
        BY <2>5, <3>4 DEF InBudget
      <4> HIDE DEF left
      <4> QED
        BY <2>1, <2>2, <3>2, <3>4, <4>1
    <3>5. CASE kind[c] # "stream"
      <4>1. sent[c] + a <= b + tries[c]
        BY <2>5, <3>5 DEF InBudget
      <4> HIDE DEF a, b, most
      <4>2. sent[c] <= b
        BY <2>1, <2>3, <3>3, <4>1
      <4> QED
        BY <3>5, <4>2 DEF b, most
    <3> QED
      BY <3>4, <3>5
  <2> QED
    BY <2>4, <2>5 DEF CallsOK
<1> QED
  BY InvariantHolds, <1>1, <1>2, <1>3, <1>4, PTL DEF Spec
=============================================================================
