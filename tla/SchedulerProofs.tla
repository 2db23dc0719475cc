-------------------------- MODULE SchedulerProofs --------------------------
(***************************************************************************)
(* Proofs about Scheduler for any rules, triggers, periods and limits: the *)
(* types, that no rule overlaps itself, that the semaphore's ceiling is    *)
(* kept, and that an event rule starts only for a signal nobody has run    *)
(* for.  Runs leave the queue from the middle, so most of the work is to   *)
(* say which place of the queue becomes which, and to count places.        *)
(***************************************************************************)
EXTENDS Scheduler, FiniteSetTheorems, SequenceTheorems, TLAPS

-----------------------------------------------------------------------------
(* Counting places of a sequence *)

\* Places of a sequence are finitely many.
LEMMA Counted ==
  ASSUME NEW n \in Nat, NEW S \in SUBSET (1 .. n)
  PROVE  IsFiniteSet(S) /\ Cardinality(S) \in 0 .. n
<1>1. IsFiniteSet(1 .. n) /\ Cardinality(1 .. n) = n
  BY FS_Interval
<1>2. IsFiniteSet(S) /\ Cardinality(S) <= n
  BY <1>1, FS_Subset
<1>3. Cardinality(S) \in Nat
  BY <1>2, FS_CardinalityType
<1> QED
  BY <1>2, <1>3

\* f takes the places S of one sequence one to one to the places T of another.
Matches(f, m, n, S, T) ==
  /\ S \in SUBSET (1 .. m) /\ T \in SUBSET (1 .. n)
  /\ \A i, j \in 1 .. m : f[i] = f[j] => i = j
  /\ \A j \in 1 .. m : j \in S <=> f[j] \in T
  /\ \A i \in T : \E j \in 1 .. m : f[j] = i

LEMMA SameCount ==
  ASSUME NEW m \in Nat, NEW n \in Nat, NEW f, NEW S, NEW T, Matches(f, m, n, S, T)
  PROVE  Cardinality(S) = Cardinality(T)
<1> DEFINE g == [j \in S |-> f[j]]
<1>1. IsFiniteSet(S) /\ IsFiniteSet(T)
  BY Counted DEF Matches
<1>2. g \in Bijection(S, T)
  <2>1. g \in [S -> T]
    BY DEF Matches
  <2>2. \A i, j \in S : g[i] = g[j] => i = j
    BY DEF Matches
  <2>3. \A i \in T : \E j \in S : g[j] = i
    BY DEF Matches
  <2> QED
    BY <2>1, <2>2, <2>3 DEF Bijection, Injection, Surjection, IsInjective
<1>3. ExistsBijection(S, T)
  BY <1>2 DEF ExistsBijection
<1> QED
  BY <1>1, <1>3, FS_Bijection

LEMMA Embeds ==
  ASSUME NEW m \in Nat, NEW n \in Nat, NEW f \in [1 .. m -> 1 .. n],
         \A i, j \in 1 .. m : f[i] = f[j] => i = j
  PROVE  m <= n
<1>1. f \in Injection(1 .. m, 1 .. n)
  BY DEF Injection, IsInjective
<1>2. IsFiniteSet(1 .. n) /\ Cardinality(1 .. m) = m /\ Cardinality(1 .. n) = n
  BY FS_Interval
<1> QED
  BY <1>1, <1>2, FS_Injection

\* The place in s of the j-th element of RemoveAt(s, i).
Shift(i, j) == IF j < i THEN j ELSE j + 1

LEMMA Removed ==
  ASSUME NEW S, NEW s \in Seq(S), NEW i \in 1 .. Len(s)
  PROVE  /\ RemoveAt(s, i) \in Seq(S)
         /\ Len(RemoveAt(s, i)) = Len(s) - 1
         /\ \A j \in 1 .. Len(s) - 1 : RemoveAt(s, i)[j] = s[Shift(i, j)]
<1>1. /\ SubSeq(s, 1, i - 1) \in Seq(S) /\ Len(SubSeq(s, 1, i - 1)) = i - 1
      /\ \A j \in 1 .. i - 1 : SubSeq(s, 1, i - 1)[j] = s[j]
  OBVIOUS
<1>2. /\ SubSeq(s, i + 1, Len(s)) \in Seq(S) /\ Len(SubSeq(s, i + 1, Len(s))) = Len(s) - i
      /\ \A j \in 1 .. Len(s) - i : SubSeq(s, i + 1, Len(s))[j] = s[j + i]
  OBVIOUS
<1> DEFINE a == SubSeq(s, 1, i - 1)
           b == SubSeq(s, i + 1, Len(s))
<1> HIDE DEF a, b
<1>3. RemoveAt(s, i) = a \o b
  BY DEF RemoveAt, a, b
<1>4. /\ a \in Seq(S) /\ Len(a) = i - 1 /\ b \in Seq(S) /\ Len(b) = Len(s) - i
      /\ \A j \in 1 .. i - 1 : a[j] = s[j]
      /\ \A j \in 1 .. Len(s) - i : b[j] = s[j + i]
  BY <1>1, <1>2 DEF a, b
<1>5. /\ a \o b \in Seq(S) /\ Len(a \o b) = Len(a) + Len(b)
      /\ \A j \in 1 .. Len(a) + Len(b) :
           (a \o b)[j] = IF j <= Len(a) THEN a[j] ELSE b[j - Len(a)]
  BY <1>4, ConcatProperties
<1>6. Len(s) \in Nat /\ Len(a) + Len(b) = Len(s) - 1
  BY <1>4
<1>7. ASSUME NEW j \in 1 .. Len(s) - 1 PROVE (a \o b)[j] = s[Shift(i, j)]
  <2>1. CASE j < i
    BY <2>1, <1>4, <1>5, <1>6 DEF Shift
  <2>2. CASE ~(j < i)
    <3>1. (a \o b)[j] = b[j - (i - 1)]
      BY <2>2, <1>4, <1>5, <1>6
    <3>2. j - (i - 1) \in 1 .. Len(s) - i /\ j - (i - 1) + i = j + 1
      BY <2>2, <1>6
    <3> QED
      BY <2>2, <3>1, <3>2, <1>4 DEF Shift
  <2> QED
    BY <2>1, <2>2
<1> QED
  BY <1>3, <1>5, <1>6, <1>7

-----------------------------------------------------------------------------
(* The invariant *)

\* A run is stamped with an age its rule's period bounds, and there are at most
\* as many as the model allows.
AgesOK ==
  /\ Len(live) <= MaxLive
  /\ \A i \in 1 .. Len(live) : live[i].age <= Period(live[i].rule)

\* The runs a tick waits for are the youngest, and it does wait for them.
TickWaits ==
  /\ \A i, j \in 1 .. Len(live) : i < j /\ live[i].mine => live[j].mine
  /\ \A i \in 1 .. Len(live) : live[i].mine => loop = "waiting"

\* The signals nobody has run for: one that is pending, and one per queued run.
SignalsKept ==
  /\ armed \subseteq Family("event")
  /\ \A r \in Rules :
       owed[r] = IF r \in Family("event")
                 THEN Cardinality(Queued(r)) + (IF r \in armed THEN 1 ELSE 0)
                 ELSE 0

\* The types but for the bound on owed, which follows.
Typed ==
  /\ rules \in Seq(Rules) /\ IsInjective(rules)
  /\ enabled \subseteq Registered /\ armed \subseteq Registered
  /\ DOMAIN since \subseteq Rules
  /\ \A r \in DOMAIN since : since[r] \in 0 .. Period(r)
  /\ loop \in {"stopped", "ready", "waiting", "sleeping"}
  /\ live \in Seq(Run)
  /\ byHand \subseteq Rules
  /\ recorded \in 0 .. HistoryLimit
  /\ hour \in 0 .. Day - 1
  /\ owed \in [Rules -> Nat]

SInv == Typed /\ AgesOK /\ TickWaits /\ SignalsKept /\ NoOverlap /\ CeilingHeld

-----------------------------------------------------------------------------
(* What becomes of the runs *)

\* The runs of live' are runs of live, in their order: the j-th was the f[j]-th.
Survives(f) ==
  /\ live' \in Seq(Run)
  /\ f \in [1 .. Len(live') -> 1 .. Len(live)]
  /\ \A i, j \in 1 .. Len(live') : i < j => f[i] < f[j]
  /\ \A j \in 1 .. Len(live') :
       live'[j].rule = live[f[j]].rule /\ live'[j].age <= Period(live'[j].rule)

\* None of them is added to those the tick waits for.
StaysMine(f) ==
  \/ \A j \in 1 .. Len(live') : ~live'[j].mine
  \/ \A j \in 1 .. Len(live') : live'[j].mine <=> live[f[j]].mine

LEMMA SurvivorsKeep ==
  ASSUME SInv, NEW f, Survives(f), StaysMine(f),
         (\E j \in 1 .. Len(live') : live'[j].mine) => loop' = "waiting"
  PROVE  AgesOK' /\ TickWaits' /\ NoOverlap'
<1>1. Len(live) \in Nat /\ Len(live') \in Nat
  BY DEF SInv, Typed, Survives
<1>2. \A i, j \in 1 .. Len(live') : f[i] = f[j] => i = j
  BY <1>1 DEF Survives
<1>3. AgesOK'
  <2>5. f \in [1 .. Len(live') -> 1 .. Len(live)]
    BY DEF Survives
  <2>6. Len(live') <= Len(live)
    BY <1>1, <1>2, <2>5, Embeds
  <2> QED
    BY <1>1, <2>6, SchedulerAssumption DEF SInv, AgesOK, Survives
<1>4. TickWaits'
  BY DEF SInv, TickWaits, Survives, StaysMine
<1>5. NoOverlap'
  <2>1. CASE \A j \in 1 .. Len(live') : ~live'[j].mine
    BY <2>1 DEF NoOverlap
  <2>2. CASE \A j \in 1 .. Len(live') : live'[j].mine <=> live[f[j]].mine
    <3> SUFFICES ASSUME NEW i \in 1 .. Len(live'), NEW j \in 1 .. Len(live'),
                        live'[i].rule = live'[j].rule, live'[i].mine, live'[j].mine
                 PROVE  i = j
      BY DEF NoOverlap
    <3>1. f[i] \in 1 .. Len(live) /\ f[j] \in 1 .. Len(live)
      BY DEF Survives
    <3>2. live[f[i]].rule = live[f[j]].rule /\ live[f[i]].mine /\ live[f[j]].mine
      BY <2>2 DEF Survives
    <3> QED
      BY <1>2, <3>1, <3>2 DEF SInv, NoOverlap
  <2> QED
    BY <2>1, <2>2 DEF StaysMine
<1> QED
  BY <1>3, <1>4, <1>5

\* A run leaves the queue, and the others stay or become orphans.
LEMMA Drops ==
  ASSUME SInv, NEW i \in 1 .. Len(live),
         live' = Without(i) \/ live' = Orphaned(Without(i)),
         (\E j \in 1 .. Len(live') : live'[j].mine) => loop' = "waiting"
  PROVE  /\ live' \in Seq(Run)
         /\ AgesOK' /\ TickWaits' /\ NoOverlap'
         /\ \A r \in Rules : Cardinality(Queued(r)') = Cardinality(Queued(r) \ {i})
         /\ \A r \in Rules : Cardinality(RunningFor(r)') = Cardinality(RunningFor(r) \ {i})
         /\ Cardinality(Running') = Cardinality(Running \ {i})
<1> DEFINE f == [j \in 1 .. Len(live') |-> Shift(i, j)]
<1>1. live \in Seq(Run) /\ Len(live) \in Nat \ {0} /\ i \in 1 .. Len(live)
  BY DEF SInv, Typed
<1>2. /\ Without(i) \in Seq(Run) /\ Len(Without(i)) = Len(live) - 1
      /\ \A j \in 1 .. Len(live) - 1 : Without(i)[j] = live[Shift(i, j)]
  BY <1>1, Removed DEF Without
<1>3. /\ live' \in Seq(Run) /\ Len(live') = Len(live) - 1
      /\ \A j \in 1 .. Len(live) - 1 :
           /\ live'[j].rule = live[Shift(i, j)].rule
           /\ live'[j].stage = live[Shift(i, j)].stage
           /\ live'[j].age = live[Shift(i, j)].age
  <2>1. CASE live' = Without(i)
    BY <1>2, <2>1
  <2>2. CASE live' = Orphaned(Without(i))
    <3> DEFINE w == Without(i)
    <3> HIDE DEF w
    <3>1. /\ w \in Seq(Run) /\ Len(w) \in Nat /\ live' = Orphaned(w)
          /\ \A j \in 1 .. Len(w) : w[j] \in Run
      BY <1>1, <1>2, <2>2 DEF w
    <3>2. live' = [j \in 1 .. Len(w) |-> [w[j] EXCEPT !.mine = FALSE]]
      BY <3>1 DEF Orphaned
    <3>3. ASSUME NEW j \in 1 .. Len(w)
          PROVE  /\ live'[j] \in Run
                 /\ live'[j].rule = w[j].rule
                 /\ live'[j].stage = w[j].stage
                 /\ live'[j].age = w[j].age
      <4>1. w[j] \in Run /\ live'[j] = [w[j] EXCEPT !.mine = FALSE]
        BY <3>1, <3>2
      <4>2. \A run \in Run : /\ [run EXCEPT !.mine = FALSE] \in Run
                             /\ [run EXCEPT !.mine = FALSE].rule = run.rule
                             /\ [run EXCEPT !.mine = FALSE].stage = run.stage
                             /\ [run EXCEPT !.mine = FALSE].age = run.age
        BY DEF Run
      <4> QED
        BY <4>1, <4>2
    <3>4. live' \in Seq(Run) /\ Len(live') = Len(w)
      BY <3>1, <3>2, <3>3
    <3> QED
      BY <1>1, <1>2, <3>3, <3>4 DEF w
  <2> QED
    BY <2>1, <2>2
<1>4. StaysMine(f)
  <2>1. CASE live' = Without(i)
    BY <1>2, <1>3, <2>1 DEF StaysMine
  <2>2. CASE live' = Orphaned(Without(i))
    BY <1>1, <1>2, <2>2 DEF StaysMine, Orphaned, Run
  <2> QED
    BY <2>1, <2>2
<1>5. \A j \in 1 .. Len(live') : f[j] = Shift(i, j) /\ f[j] \in 1 .. Len(live) /\ f[j] # i
  BY <1>1, <1>3 DEF Shift
<1>6. f \in [1 .. Len(live') -> 1 .. Len(live)]
  BY <1>5
<1>7. \A j, k \in 1 .. Len(live') : j < k => f[j] < f[k]
  BY <1>1, <1>3 DEF Shift
<1>8. \A k \in 1 .. Len(live) : k # i => \E j \in 1 .. Len(live') : f[j] = k
  <2> SUFFICES ASSUME NEW k \in 1 .. Len(live), k # i
               PROVE  \E j \in 1 .. Len(live') : Shift(i, j) = k
    BY <1>5
  <2>1. CASE k < i
    BY <1>1, <1>3, <2>1 DEF Shift
  <2>2. CASE k > i
    <3>1. k - 1 \in 1 .. Len(live') /\ Shift(i, k - 1) = k
      BY <1>1, <1>3, <2>2 DEF Shift
    <3> QED
      BY <3>1
  <2> QED
    BY <1>1, <2>1, <2>2
<1> HIDE DEF f
<1>9. Survives(f)
  BY <1>3, <1>5, <1>6, <1>7 DEF Survives, SInv, AgesOK
<1>10. AgesOK' /\ TickWaits' /\ NoOverlap'
  BY <1>4, <1>9, SurvivorsKeep
<1>11. ASSUME NEW S \in SUBSET (1 .. Len(live')), NEW T \in SUBSET (1 .. Len(live)),
              i \notin T, \A j \in 1 .. Len(live') : j \in S <=> f[j] \in T
       PROVE  Cardinality(S) = Cardinality(T)
  <2>1. Len(live') \in Nat /\ Len(live) \in Nat
    BY <1>1, <1>3
  <2>2. \A j, k \in 1 .. Len(live') : f[j] = f[k] => j = k
    BY <2>1, <1>6, <1>7
  <2>3. \A k \in T : \E j \in 1 .. Len(live') : f[j] = k
    BY <1>8, <1>11
  <2>4. Matches(f, Len(live'), Len(live), S, T)
    BY <1>11, <2>2, <2>3 DEF Matches
  <2> QED
    BY <2>1, <2>4, SameCount
<1>12. ASSUME NEW r \in Rules
       PROVE  Cardinality(Queued(r)') = Cardinality(Queued(r) \ {i})
  <2>1. /\ Queued(r)' \in SUBSET (1 .. Len(live')) /\ i \notin Queued(r) \ {i}
        /\ Queued(r) \ {i} \in SUBSET (1 .. Len(live))
    BY DEF Queued
  <2>2. \A j \in 1 .. Len(live') : j \in Queued(r)' <=> f[j] \in Queued(r) \ {i}
    BY <1>3, <1>5 DEF Queued
  <2> QED
    BY <2>1, <2>2, <1>11
<1>13. Cardinality(Running') = Cardinality(Running \ {i})
  <2>1. /\ Running' \in SUBSET (1 .. Len(live')) /\ i \notin Running \ {i}
        /\ Running \ {i} \in SUBSET (1 .. Len(live))
    BY DEF Running
  <2>2. \A j \in 1 .. Len(live') : j \in Running' <=> f[j] \in Running \ {i}
    BY <1>3, <1>5 DEF Running
  <2> QED
    BY <2>1, <2>2, <1>11
<1>14. ASSUME NEW r \in Rules
       PROVE  Cardinality(RunningFor(r)') = Cardinality(RunningFor(r) \ {i})
  <2>1. /\ RunningFor(r)' \in SUBSET (1 .. Len(live')) /\ i \notin RunningFor(r) \ {i}
        /\ RunningFor(r) \ {i} \in SUBSET (1 .. Len(live))
    BY DEF Running, RunningFor
  <2>2. \A j \in 1 .. Len(live') : j \in RunningFor(r)' <=> f[j] \in RunningFor(r) \ {i}
    BY <1>3, <1>5 DEF Running, RunningFor
  <2> QED
    BY <2>1, <2>2, <1>11
<1> QED
  BY <1>3, <1>10, <1>12, <1>13, <1>14

\* The runs are left alone.
LEMMA Undisturbed ==
  ASSUME SInv, live' = live, loop' = loop \/ loop # "waiting"
  PROVE  /\ AgesOK' /\ TickWaits' /\ NoOverlap' /\ CeilingHeld'
         /\ \A r \in Rules : Queued(r)' = Queued(r)
<1>1. AgesOK'
  BY DEF SInv, AgesOK
<1>2. TickWaits'
  BY DEF SInv, TickWaits
<1>3. NoOverlap'
  BY DEF SInv, NoOverlap
<1>4. CeilingHeld'
  BY DEF SInv, CeilingHeld, Running
<1> QED
  BY <1>1, <1>2, <1>3, <1>4 DEF Queued
-----------------------------------------------------------------------------
(* Every step keeps the invariant *)

LEMMA Counts ==
  ASSUME SInv
  PROVE  /\ Len(live) \in Nat /\ \A i \in 1 .. Len(live) : live[i] \in Run
         /\ \A r \in Rules : /\ IsFiniteSet(Queued(r)) /\ Cardinality(Queued(r)) \in Nat
                             /\ IsFiniteSet(RunningFor(r))
                             /\ Cardinality(RunningFor(r)) \in Nat
         /\ IsFiniteSet(Running) /\ Cardinality(Running) \in Nat
         /\ \A S \in SUBSET Running : /\ Cardinality(S) \in Nat
                                      /\ Cardinality(S) <= Cardinality(Running)
<1>1. Len(live) \in Nat /\ \A i \in 1 .. Len(live) : live[i] \in Run
  BY DEF SInv, Typed
<1>2. Running \in SUBSET (1 .. Len(live))
  BY DEF Running
<1>3. \A r \in Rules : /\ Queued(r) \in SUBSET (1 .. Len(live))
                       /\ RunningFor(r) \in SUBSET (1 .. Len(live))
  BY DEF Queued, Running, RunningFor
<1>4. ASSUME NEW S \in SUBSET (1 .. Len(live))
      PROVE  IsFiniteSet(S) /\ Cardinality(S) \in Nat
  BY <1>1, Counted
<1>5. ASSUME NEW S \in SUBSET Running
      PROVE  Cardinality(S) \in Nat /\ Cardinality(S) <= Cardinality(Running)
  BY <1>2, <1>4, FS_Subset
<1> QED
  BY <1>1, <1>2, <1>3, <1>4, <1>5

LEMMA RunEndsKeeps ==
  ASSUME SInv, NEW q \in Rules, RunEnds(q)
  PROVE  /\ SInv'
         /\ \A r \in Rules : /\ Cardinality(RunningFor(r)') \in Nat
                             /\ Cardinality(RunningFor(r)') <= Cardinality(RunningFor(r))
<1>1. PICK i \in 1 .. Len(live) :
        /\ live[i].stage = "running" /\ live' = Without(i)
        /\ loop' = IF live[i].mine /\ \A j \in (1 .. Len(live)) \ {i} : ~live[j].mine
                   THEN "sleeping" ELSE loop
  BY DEF RunEnds
<1>2. /\ Record
      /\ UNCHANGED <<rules, enabled, armed, since, byHand, hour, owed>>
  BY DEF RunEnds, ruleVars
<1>3. live \in Seq(Run) /\ Len(live) \in Nat
  BY DEF SInv, Typed
<1>4. (\E j \in 1 .. Len(live') : live'[j].mine) => loop' = "waiting"
  <2> SUFFICES ASSUME NEW j \in 1 .. Len(live'), live'[j].mine
               PROVE  loop' = "waiting"
    OBVIOUS
  <2>1. live'[j] = live[Shift(i, j)] /\ Len(live') = Len(live) - 1
    BY <1>1, <1>3, Removed DEF Without
  <2>2. Shift(i, j) \in (1 .. Len(live)) \ {i}
    BY <1>3, <2>1 DEF Shift
  <2>3. loop' = loop
    BY <1>1, <2>1, <2>2
  <2> QED
    BY <2>1, <2>2, <2>3 DEF SInv, TickWaits
<1>5. /\ live' \in Seq(Run) /\ AgesOK' /\ TickWaits' /\ NoOverlap'
      /\ \A r \in Rules : Cardinality(Queued(r)') = Cardinality(Queued(r) \ {i})
      /\ Cardinality(Running') = Cardinality(Running \ {i})
  BY <1>1, <1>4, Drops
<1>6. Typed'
  <2>1. recorded' \in 0 .. HistoryLimit
    BY <1>2, SchedulerAssumption DEF Record, SInv, Typed
  <2>2. loop' \in {"stopped", "ready", "waiting", "sleeping"}
    BY <1>1 DEF SInv, Typed
  <2> QED
    BY <1>2, <1>5, <2>1, <2>2 DEF SInv, Typed, Registered
<1>7. SignalsKept'
  <2>1. \A r \in Rules : Queued(r) \ {i} = Queued(r)
    BY <1>1 DEF Queued
  <2> QED
    BY <1>2, <1>5, <2>1 DEF SInv, SignalsKept
<1>8. CeilingHeld'
  <2>1. Running \ {i} \in SUBSET Running
    OBVIOUS
  <2> QED
    BY <1>5, <2>1, Counts, SchedulerAssumption DEF SInv, CeilingHeld
<1>9. ASSUME NEW r \in Rules
      PROVE  /\ Cardinality(RunningFor(r)') \in Nat
             /\ Cardinality(RunningFor(r)') <= Cardinality(RunningFor(r))
  <2>1. Cardinality(RunningFor(r)') = Cardinality(RunningFor(r) \ {i})
    BY <1>1, <1>4, Drops
  <2>2. IsFiniteSet(RunningFor(r)) /\ RunningFor(r) \ {i} \in SUBSET RunningFor(r)
    BY Counts
  <2> QED
    BY <2>1, <2>2, FS_Subset, FS_CardinalityType
<1> QED
  BY <1>5, <1>6, <1>7, <1>8, <1>9 DEF SInv

LEMMA StartRunKeeps ==
  ASSUME SInv, StartRun
  PROVE  /\ SInv'
         /\ \A r \in Family("event") :
              Cardinality(RunningFor(r))' > Cardinality(RunningFor(r)) => owed[r] > 0
<1>1. PICK i \in 1 .. Len(live) :
        /\ live[i].stage = "queued"
        /\ since' = [r \in DOMAIN since \cup {live[i].rule} |->
                       IF r = live[i].rule THEN live[i].age ELSE since[r]]
        /\ owed' = [owed EXCEPT ![live[i].rule] = Less(@, 1)]
        /\ \/ /\ live' = [live EXCEPT ![i].stage = "running"]
              /\ loop' = loop
           \/ /\ live' = IF live[i].mine THEN Orphaned(Without(i)) ELSE Without(i)
              /\ loop' = IF live[i].mine THEN "sleeping" ELSE loop
  BY DEF StartRun
<1>2. Slot /\ UNCHANGED <<rules, enabled, armed, byHand, recorded, hour>>
  BY DEF StartRun, ruleVars
<1> DEFINE q == live[i].rule
<1>3. /\ live \in Seq(Run) /\ Len(live) \in Nat /\ live[i] \in Run
      /\ q \in Rules /\ live[i].age \in 0 .. Period(q)
  <2>1. live \in Seq(Run) /\ Len(live) \in Nat
    BY DEF SInv, Typed
  <2>2. live[i] \in Run
    BY <2>1
  <2> QED
    BY <2>1, <2>2, SchedulerAssumption DEF SInv, AgesOK, Run, Period
<1>4. DOMAIN since' \subseteq Rules /\ \A r \in DOMAIN since' : since'[r] \in 0 .. Period(r)
  BY <1>1, <1>3 DEF SInv, Typed
<1>5. owed' \in [Rules -> Nat]
  BY <1>1, <1>3 DEF SInv, Typed, Less
<1>6. \A r \in Rules : owed'[r] =
        IF r = q /\ r \in Family("event") THEN owed[r] - 1 ELSE owed[r]
  <2>1. q \in Family("event") => owed[q] > 0
    <3>1. i \in Queued(q) /\ Queued(q) # {}
      BY <1>1, <1>3 DEF Queued
    <3>2. IsFiniteSet(Queued(q)) /\ Cardinality(Queued(q)) > 0
      BY <1>3, <3>1, Counts, FS_EmptySet
    <3> QED
      BY <1>3, <3>2, Counts DEF SInv, SignalsKept
  <2>2. q \notin Family("event") => owed[q] = 0
    BY <1>3 DEF SInv, SignalsKept
  <2>3. owed \in [Rules -> Nat]
    BY DEF SInv, Typed
  <2> QED
    BY <1>1, <1>3, <2>1, <2>2, <2>3 DEF Less
<1>7. \A r \in Rules : Cardinality(Queued(r) \ {i}) =
        IF r = q THEN Cardinality(Queued(r)) - 1 ELSE Cardinality(Queued(r))
  <2>1. \A r \in Rules : i \in Queued(r) <=> r = q
    BY <1>1, <1>3 DEF Queued
  <2> QED
    BY <2>1, Counts, FS_RemoveElement
<1>8. ASSUME live' \in Seq(Run), loop' \in {"stopped", "ready", "waiting", "sleeping"},
             \A r \in Rules : Cardinality(Queued(r)') = Cardinality(Queued(r) \ {i})
      PROVE  Typed' /\ SignalsKept'
  <2>1. Typed'
    BY <1>2, <1>4, <1>5, <1>8 DEF SInv, Typed, Registered
  <2>2. SignalsKept'
    <3> SUFFICES ASSUME NEW r \in Rules
                 PROVE  owed'[r] = IF r \in Family("event")
                          THEN Cardinality(Queued(r) \ {i}) + (IF r \in armed THEN 1 ELSE 0)
                          ELSE 0
      BY <1>2, <1>8 DEF SInv, SignalsKept
    <3>1. owed[r] = IF r \in Family("event")
                    THEN Cardinality(Queued(r)) + (IF r \in armed THEN 1 ELSE 0) ELSE 0
      BY DEF SInv, SignalsKept
    <3> QED
      BY <1>6, <1>7, <3>1, Counts
  <2> QED
    BY <2>1, <2>2
<1>9. CASE live' = [live EXCEPT ![i].stage = "running"] /\ loop' = loop
  <2>1. /\ live' \in Seq(Run) /\ Len(live') = Len(live)
        /\ \A j \in 1 .. Len(live) :
             /\ live'[j].rule = live[j].rule /\ live'[j].age = live[j].age
             /\ live'[j].stage = IF j = i THEN "running" ELSE live[j].stage
    BY <1>3, <1>9 DEF Run
  <2>2. \A j \in 1 .. Len(live) : live'[j].mine = live[j].mine
    BY <1>3, <1>9 DEF Run
  <2> DEFINE f == [j \in 1 .. Len(live') |-> j]
  <2>3. Survives(f) /\ StaysMine(f)
    BY <1>3, <2>1, <2>2 DEF Survives, StaysMine, SInv, AgesOK
  <2>4. (\E j \in 1 .. Len(live') : live'[j].mine) => loop' = "waiting"
    BY <1>9, <2>1, <2>2 DEF SInv, TickWaits
  <2>5. AgesOK' /\ TickWaits' /\ NoOverlap'
    BY <2>3, <2>4, SurvivorsKeep
  <2>6. \A r \in Rules : Queued(r)' = Queued(r) \ {i}
    BY <1>1, <1>3, <2>1 DEF Queued
  <2>7. CeilingHeld'
    <3>1. Running' = Running \cup {i} /\ i \notin Running
      BY <1>1, <1>3, <2>1 DEF Running
    <3>2. Cardinality(Running') = Cardinality(Running) + 1
      BY <3>1, Counts, FS_AddElement
    <3> QED
      BY <1>2, <3>2, Counts, SchedulerAssumption DEF CeilingHeld, Slot
  <2>8. Typed' /\ SignalsKept'
    BY <1>8, <1>9, <2>1, <2>6 DEF SInv, Typed
  <2>9. ASSUME NEW r \in Family("event"), r # q
        PROVE  RunningFor(r)' = RunningFor(r)
    BY <1>1, <1>3, <2>1, <2>9 DEF Running, RunningFor
  <2>10. q \in Family("event") => owed[q] > 0
    BY <1>3, <1>5, <1>6 DEF SInv, Typed
  <2> QED
    BY <2>5, <2>7, <2>8, <2>9, <2>10, Counts DEF SInv, Family
<1>10. CASE /\ live' = IF live[i].mine THEN Orphaned(Without(i)) ELSE Without(i)
            /\ loop' = IF live[i].mine THEN "sleeping" ELSE loop
  <2>1. Len(Without(i)) = Len(live) - 1 /\
        \A j \in 1 .. Len(live) - 1 : Without(i)[j] = live[Shift(i, j)]
    BY <1>3, Removed DEF Without
  <2>2. (\E j \in 1 .. Len(live') : live'[j].mine) => loop' = "waiting"
    <3>1. CASE live[i].mine
      <4>1. live' = [j \in 1 .. Len(live) - 1 |-> [Without(i)[j] EXCEPT !.mine = FALSE]]
        BY <1>10, <2>1, <3>1 DEF Orphaned
      <4>2. \A j \in 1 .. Len(live) - 1 : Without(i)[j] \in Run
        BY <1>3, <2>1 DEF Shift
      <4>3. \A run \in Run : ~[run EXCEPT !.mine = FALSE].mine
        BY DEF Run
      <4>4. Len(live') = Len(live) - 1
        BY <1>3, <4>1
      <4> QED
        BY <4>1, <4>2, <4>3, <4>4
    <3>2. CASE ~live[i].mine
      <4>1. \A j \in 1 .. Len(live') : /\ live'[j] = live[Shift(i, j)]
                                       /\ Shift(i, j) \in 1 .. Len(live)
        BY <1>3, <1>10, <2>1, <3>2 DEF Shift
      <4> QED
        BY <1>10, <3>2, <4>1 DEF SInv, TickWaits
    <3> QED
      BY <3>1, <3>2
  <2>3. /\ live' \in Seq(Run) /\ AgesOK' /\ TickWaits' /\ NoOverlap'
        /\ \A r \in Rules : Cardinality(Queued(r)') = Cardinality(Queued(r) \ {i})
        /\ Cardinality(Running') = Cardinality(Running \ {i})
    BY <1>10, <2>2, Drops
  <2>4. Typed' /\ SignalsKept'
    BY <1>8, <1>10, <2>3 DEF SInv, Typed
  <2>5. i \notin Running
    BY <1>1 DEF Running
  <2>6. CeilingHeld'
    <3>1. Running \ {i} \in SUBSET Running
      OBVIOUS
    <3> QED
      BY <2>3, <3>1, Counts, SchedulerAssumption DEF SInv, CeilingHeld
  <2>7. ASSUME NEW r \in Rules
        PROVE  Cardinality(RunningFor(r)') = Cardinality(RunningFor(r))
    <3>1. RunningFor(r) \ {i} = RunningFor(r)
      BY <2>5 DEF RunningFor
    <3>2. Cardinality(RunningFor(r)') = Cardinality(RunningFor(r) \ {i})
      BY <1>10, <2>2, Drops
    <3> QED
      BY <3>1, <3>2
  <2> QED
    BY <2>3, <2>4, <2>6, <2>7, Counts DEF SInv, Family
<1> QED
  BY <1>1, <1>9, <1>10

LEMMA TickKeeps ==
  ASSUME SInv, Tick
  PROVE  SInv' /\ \A r \in Rules : RunningFor(r)' \in SUBSET RunningFor(r)
<1>1. PICK due \in Due :
        /\ Len(live) + Len(due) <= MaxLive
        /\ live' = live \o [i \in 1 .. Len(due) |->
                              [rule |-> due[i], stage |-> "queued", age |-> 0, mine |-> TRUE]]
        /\ armed' = armed \ Range(due)
        /\ loop' = IF due = <<>> THEN "sleeping" ELSE "waiting"
  BY DEF Tick, ConsumesSignals, Awaiting
<1>2. loop = "ready" /\ UNCHANGED <<rules, enabled, since, byHand, recorded, hour, owed>>
  BY DEF Tick
<1> DEFINE Fire == {r \in Registered \cap enabled : ShouldFire(r)}
           new == [i \in 1 .. Len(due) |->
                     [rule |-> due[i], stage |-> "queued", age |-> 0, mine |-> TRUE]]
<1>3. /\ due \in Seq(Fire) /\ Len(due) \in Nat
      /\ \A i, j \in 1 .. Len(due) : due[i] = due[j] => i = j
  <2>1. due \in SetToSeqs(Fire)
    BY DEF Due
  <2>2. Registered \subseteq Rules
    BY DEF SInv, Typed, Registered, Range
  <2>3. IsFiniteSet(Fire) /\ Cardinality(Fire) \in Nat
    BY <2>2, SchedulerAssumption, FS_Subset, FS_CardinalityType
  <2> HIDE DEF Fire
  <2>4. /\ due \in [1 .. Cardinality(Fire) -> Fire]
        /\ \A i, j \in 1 .. Cardinality(Fire) : i # j => due[i] # due[j]
    BY <2>1 DEF SetToSeqs
  <2> QED
    BY <2>3, <2>4
<1>4. \A i \in 1 .. Len(due) : /\ due[i] \in Rules /\ due[i] \in enabled
                              /\ ShouldFire(due[i])
  BY <1>3 DEF SInv, Typed, Registered, Range
<1> HIDE DEF Fire
<1>5. live \in Seq(Run) /\ Len(live) \in Nat
  BY DEF SInv, Typed
<1>6. /\ new \in Seq(Run) /\ Len(new) = Len(due)
      /\ \A i \in 1 .. Len(due) : new[i] = [rule |-> due[i], stage |-> "queued",
                                            age |-> 0, mine |-> TRUE]
  BY <1>3, <1>4 DEF Run
<1>7. live' = live \o new
  BY <1>1
<1> HIDE DEF new
<1>8. /\ live' \in Seq(Run) /\ Len(live') = Len(live) + Len(due)
      /\ \A j \in 1 .. Len(live) + Len(due) :
           live'[j] = IF j <= Len(live) THEN live[j] ELSE new[j - Len(live)]
  <2>1. /\ live \o new \in Seq(Run) /\ Len(live \o new) = Len(live) + Len(new)
        /\ \A j \in 1 .. Len(live) + Len(new) :
             (live \o new)[j] = IF j <= Len(live) THEN live[j] ELSE new[j - Len(live)]
    <3>1. live \in Seq(Run) /\ new \in Seq(Run)
      BY <1>5, <1>6
    <3> QED
      BY <3>1, ConcatProperties
  <2>2. Len(new) = Len(due)
    BY <1>6
  <2> QED
    BY <1>7, <2>1, <2>2
<1>9. /\ \A j \in 1 .. Len(live) : live'[j] = live[j] /\ ~live[j].mine
      /\ \A j \in Len(live) + 1 .. Len(live) + Len(due) :
           /\ live'[j].rule = due[j - Len(live)] /\ live'[j].stage = "queued"
           /\ live'[j].age = 0 /\ live'[j].mine /\ j - Len(live) \in 1 .. Len(due)
  <2>1. \A j \in 1 .. Len(live) : live'[j] = live[j] /\ ~live[j].mine
    BY <1>2, <1>3, <1>5, <1>8 DEF SInv, TickWaits
  <2>2. ASSUME NEW j \in Len(live) + 1 .. Len(live) + Len(due)
        PROVE  /\ live'[j].rule = due[j - Len(live)] /\ live'[j].stage = "queued"
               /\ live'[j].age = 0 /\ live'[j].mine /\ j - Len(live) \in 1 .. Len(due)
    <3>1. live'[j] = new[j - Len(live)] /\ j - Len(live) \in 1 .. Len(due)
      BY <1>3, <1>5, <1>8
    <3>2. live'[j] = [rule |-> due[j - Len(live)], stage |-> "queued",
                      age |-> 0, mine |-> TRUE]
      BY <1>6, <3>1
    <3> QED
      BY <3>1, <3>2
  <2> QED
    BY <2>1, <2>2
<1>10. AgesOK'
  <2>1. \A r \in Rules : 0 <= Period(r)
    BY SchedulerAssumption DEF Period
  <2>2. ASSUME NEW j \in 1 .. Len(live')
        PROVE  live'[j].age <= Period(live'[j].rule)
    <3>1. CASE j <= Len(live)
      BY <1>5, <1>8, <1>9, <3>1 DEF SInv, AgesOK
    <3>2. CASE ~(j <= Len(live))
      <4>1. j \in Len(live) + 1 .. Len(live) + Len(due)
        BY <1>3, <1>5, <1>8, <3>2
      <4>2. live'[j].age = 0 /\ live'[j].rule \in Rules
        BY <1>4, <1>9, <4>1
      <4> QED
        BY <2>1, <4>2
    <3> QED
      BY <3>1, <3>2
  <2> QED
    BY <1>1, <1>8, <2>2 DEF AgesOK
<1>11. TickWaits'
  <2>1. ASSUME NEW i \in 1 .. Len(live'), live'[i].mine
        PROVE  i > Len(live) /\ loop' = "waiting"
    <3>1. i > Len(live)
      BY <1>3, <1>5, <1>8, <1>9, <2>1
    <3>2. due # <<>>
      BY <1>3, <1>5, <1>8, <3>1
    <3> QED
      BY <1>1, <3>1, <3>2
  <2>2. ASSUME NEW i \in 1 .. Len(live'), NEW j \in 1 .. Len(live'), i < j, live'[i].mine
        PROVE  live'[j].mine
    BY <1>3, <1>5, <1>8, <1>9, <2>1, <2>2
  <2> QED
    BY <2>1, <2>2 DEF TickWaits
<1>12. NoOverlap'
  <2> SUFFICES ASSUME NEW i \in 1 .. Len(live'), NEW j \in 1 .. Len(live'),
                      live'[i].rule = live'[j].rule, live'[i].mine, live'[j].mine
               PROVE  i = j
    BY DEF NoOverlap
  <2>1. i > Len(live) /\ j > Len(live)
    BY <1>3, <1>5, <1>8, <1>9
  <2>2. /\ i - Len(live) \in 1 .. Len(due) /\ j - Len(live) \in 1 .. Len(due)
        /\ due[i - Len(live)] = due[j - Len(live)]
    BY <1>3, <1>5, <1>8, <1>9, <2>1
  <2>3. i - Len(live) = j - Len(live)
    BY <1>3, <2>2
  <2> QED
    BY <1>3, <1>5, <1>8, <2>3
<1>13. CeilingHeld' /\ \A r \in Rules : RunningFor(r)' = RunningFor(r)
  <2>1. Running' = Running
    BY <1>3, <1>5, <1>8, <1>9 DEF Running
  <2>2. \A r \in Rules : RunningFor(r)' = RunningFor(r)
    BY <1>3, <1>5, <1>8, <1>9, <2>1 DEF Running, RunningFor
  <2> QED
    BY <2>1, <2>2 DEF SInv, CeilingHeld
<1>14. SignalsKept'
  <2>1. armed' \subseteq Family("event")
    BY <1>1 DEF SInv, SignalsKept
  <2>2. ASSUME NEW r \in Family("event")
        PROVE  owed[r] = Cardinality(Queued(r)') + (IF r \in armed' THEN 1 ELSE 0)
    <3>1. r \in Rules /\ owed[r] = Cardinality(Queued(r)) + (IF r \in armed THEN 1 ELSE 0)
      BY DEF SInv, SignalsKept, Family
    <3>2. IsFiniteSet(Queued(r)) /\ Cardinality(Queued(r)) \in Nat
      BY <3>1, Counts
    <3>3. CASE \E k \in 1 .. Len(due) : due[k] = r
      <4>1. PICK k \in 1 .. Len(due) : due[k] = r
        BY <3>3
      <4>2. r \in armed
        BY <1>4, <4>1 DEF ShouldFire, Family
      <4>3. r \notin armed'
        <5>1. r \in Range(due)
          BY <1>3, <4>1 DEF Range
        <5> QED
          BY <1>1, <5>1
      <4>4. Queued(r)' = Queued(r) \cup {Len(live) + k} /\ Len(live) + k \notin Queued(r)
        <5>1. ASSUME NEW j \in 1 .. Len(live')
              PROVE  j \in Queued(r)' <=> j \in Queued(r) \cup {Len(live) + k}
          <6>1. CASE j <= Len(live)
            BY <1>3, <1>5, <1>8, <1>9, <4>1, <6>1 DEF Queued
          <6>2. CASE ~(j <= Len(live))
            <7>1. j \in Queued(r)' <=> due[j - Len(live)] = r
              BY <1>3, <1>5, <1>8, <1>9, <6>2 DEF Queued
            <7>2. due[j - Len(live)] = r <=> j - Len(live) = k
              BY <1>3, <1>5, <1>8, <1>9, <4>1, <6>2
            <7>3. j - Len(live) = k <=> j = Len(live) + k
              BY <1>3, <1>5, <1>8
            <7> QED
              BY <1>5, <6>2, <7>1, <7>2, <7>3 DEF Queued
          <6> QED
            BY <6>1, <6>2
        <5>2. Queued(r)' \subseteq 1 .. Len(live') /\ Queued(r) \subseteq 1 .. Len(live)
          BY DEF Queued
        <5>3. Len(live) + k \in 1 .. Len(live') /\ 1 .. Len(live) \subseteq 1 .. Len(live')
              /\ Len(live) + k \notin 1 .. Len(live)
          BY <1>3, <1>5, <1>8
        <5> QED
          BY <5>1, <5>2, <5>3
      <4>5. Cardinality(Queued(r)') = Cardinality(Queued(r)) + 1
        BY <3>2, <4>4, FS_AddElement
      <4> QED
        BY <3>1, <3>2, <4>2, <4>3, <4>5
    <3>4. CASE ~\E k \in 1 .. Len(due) : due[k] = r
      <4>1. r \in armed' <=> r \in armed
        BY <1>1, <1>3, <3>4 DEF Range
      <4>2. Queued(r)' = Queued(r)
        BY <1>3, <1>5, <1>8, <1>9, <3>4 DEF Queued
      <4> QED
        BY <3>1, <4>1, <4>2
    <3> QED
      BY <3>3, <3>4
  <2>3. \A r \in Rules : r \notin Family("event") => owed[r] = 0
    BY DEF SInv, SignalsKept
  <2> QED
    BY <1>2, <2>1, <2>2, <2>3 DEF SignalsKept
<1>15. Typed'
  BY <1>1, <1>2, <1>8 DEF SInv, Typed, Registered
<1> QED
  BY <1>10, <1>11, <1>12, <1>13, <1>14, <1>15 DEF SInv

LEMMA TimePassesKeeps ==
  ASSUME SInv, TimePasses
  PROVE  SInv' /\ \A r \in Rules : RunningFor(r)' \in SUBSET RunningFor(r)
<1>1. /\ since' = [r \in DOMAIN since |-> Older(r, since[r])]
      /\ live' = [i \in 1 .. Len(live) |->
                    [live[i] EXCEPT !.age = Older(live[i].rule, live[i].age)]]
      /\ hour' = (hour + 1) % Day
      /\ loop' = IF loop = "sleeping" THEN "ready" ELSE loop
      /\ UNCHANGED <<rules, enabled, armed, byHand, recorded, owed>>
  BY DEF TimePasses, ruleVars
<1>2. live \in Seq(Run) /\ Len(live) \in Nat /\ \A i \in 1 .. Len(live) : live[i] \in Run
  BY DEF SInv, Typed
<1>3. \A r \in Rules : Period(r) \in Nat
  BY SchedulerAssumption DEF Period
<1>4. \A r \in Rules, age \in Nat :
        age <= Period(r) => Older(r, age) \in Nat /\ Older(r, age) <= Period(r)
  BY <1>3 DEF Older
<1>5. ASSUME NEW i \in 1 .. Len(live)
      PROVE  /\ live'[i] \in Run /\ live'[i].rule = live[i].rule
             /\ live'[i].stage = live[i].stage /\ live'[i].mine = live[i].mine
             /\ live'[i].age <= Period(live[i].rule)
  <2>1. /\ live'[i] = [live[i] EXCEPT !.age = Older(live[i].rule, live[i].age)]
        /\ live[i] \in Run
    BY <1>1, <1>2
  <2>2. /\ Older(live[i].rule, live[i].age) \in Nat
        /\ Older(live[i].rule, live[i].age) <= Period(live[i].rule)
    BY <1>4, <2>1 DEF SInv, AgesOK, Run
  <2>3. \A run \in Run, n \in Nat :
           /\ [run EXCEPT !.age = n] \in Run /\ [run EXCEPT !.age = n].rule = run.rule
           /\ [run EXCEPT !.age = n].stage = run.stage
           /\ [run EXCEPT !.age = n].age = n
    BY DEF Run
  <2>4. \A run \in Run, n \in Nat : [run EXCEPT !.age = n].mine = run.mine
    BY DEF Run
  <2> QED
    BY <2>1, <2>2, <2>3, <2>4
<1>6. live' \in Seq(Run) /\ Len(live') = Len(live)
  BY <1>1, <1>2, <1>5
<1> DEFINE f == [j \in 1 .. Len(live') |-> j]
<1>7. Survives(f) /\ StaysMine(f)
  BY <1>2, <1>5, <1>6 DEF Survives, StaysMine
<1>8. (\E j \in 1 .. Len(live') : live'[j].mine) => loop' = "waiting"
  BY <1>1, <1>5, <1>6 DEF SInv, TickWaits
<1>9. AgesOK' /\ TickWaits' /\ NoOverlap'
  BY <1>7, <1>8, SurvivorsKeep
<1>10. /\ Running' = Running
       /\ \A r \in Rules : Queued(r)' = Queued(r) /\ RunningFor(r)' = RunningFor(r)
  BY <1>5, <1>6 DEF Running, Queued, RunningFor
<1>11. Typed'
  <2>1. hour' \in 0 .. Day - 1
    BY <1>1, SchedulerAssumption DEF SInv, Typed
  <2>2. DOMAIN since' \subseteq Rules /\ \A r \in DOMAIN since' : since'[r] \in 0 .. Period(r)
    BY <1>1, <1>3, <1>4 DEF SInv, Typed
  <2>3. loop' \in {"stopped", "ready", "waiting", "sleeping"}
    BY <1>1 DEF SInv, Typed
  <2> QED
    BY <1>1, <1>6, <2>1, <2>2, <2>3 DEF SInv, Typed, Registered
<1> QED
  BY <1>1, <1>9, <1>10, <1>11 DEF SInv, SignalsKept, CeilingHeld

LEMMA StopKeeps ==
  ASSUME SInv, Stop
  PROVE  SInv' /\ \A r \in Rules : RunningFor(r)' \in SUBSET RunningFor(r)
<1>1. PICK n \in 0 .. Len(live) :
        /\ \A i \in 1 .. Len(live) : live[i].mine <=> i > n
        /\ live' = SubSeq(live, 1, n)
  BY DEF Stop
<1>2. /\ loop' = "stopped"
      /\ owed' = [r \in Rules |->
                    Less(owed[r], Cardinality({i \in Queued(r) : live[i].mine}))]
      /\ UNCHANGED <<rules, enabled, armed, since, byHand, recorded, hour>>
  BY DEF Stop, ruleVars
<1>3. live \in Seq(Run) /\ Len(live) \in Nat
  BY DEF SInv, Typed
<1>4. /\ live' \in Seq(Run) /\ Len(live') = n
      /\ \A i \in 1 .. n : live'[i] = live[i] /\ ~live[i].mine
  BY <1>1, <1>3
<1> DEFINE f == [j \in 1 .. Len(live') |-> j]
<1>5. Survives(f) /\ StaysMine(f)
  BY <1>3, <1>4 DEF Survives, StaysMine, SInv, AgesOK
<1>6. AgesOK' /\ TickWaits' /\ NoOverlap'
  BY <1>4, <1>5, SurvivorsKeep
<1>7. CeilingHeld'
  <2>1. Running' \in SUBSET Running
    BY <1>3, <1>4 DEF Running
  <2> QED
    BY <2>1, Counts, SchedulerAssumption DEF SInv, CeilingHeld
<1>8. ASSUME NEW r \in Rules
      PROVE  /\ owed'[r] \in Nat
             /\ owed'[r] = IF r \in Family("event")
                           THEN Cardinality(Queued(r)') + (IF r \in armed THEN 1 ELSE 0)
                           ELSE 0
  <2> DEFINE Mine == {i \in Queued(r) : live[i].mine}
  <2>1. Queued(r)' = Queued(r) \ Mine /\ Queued(r) \cap Mine = Mine
    BY <1>1, <1>3, <1>4 DEF Queued
  <2>2. IsFiniteSet(Queued(r)) /\ Cardinality(Queued(r)) \in Nat
    BY Counts
  <2>3. Mine \in SUBSET Queued(r)
    OBVIOUS
  <2>4. owed'[r] = Less(owed[r], Cardinality(Mine))
    BY <1>2
  <2> HIDE DEF Mine
  <2>5. Cardinality(Mine) \in Nat /\ Cardinality(Mine) <= Cardinality(Queued(r))
    BY <2>2, <2>3, FS_Subset, FS_CardinalityType
  <2>6. Cardinality(Queued(r)') = Cardinality(Queued(r)) - Cardinality(Mine)
    BY <2>1, <2>2, FS_Difference
  <2>7. owed[r] = IF r \in Family("event")
                  THEN Cardinality(Queued(r)) + (IF r \in armed THEN 1 ELSE 0) ELSE 0
    BY DEF SInv, SignalsKept
  <2> QED
    BY <2>2, <2>4, <2>5, <2>6, <2>7 DEF Less
<1>9. SignalsKept'
  BY <1>2, <1>8 DEF SInv, SignalsKept
<1>10. Typed'
  BY <1>2, <1>4, <1>8 DEF SInv, Typed, Registered
<1>11. \A r \in Rules : RunningFor(r)' \in SUBSET RunningFor(r)
  BY <1>3, <1>4 DEF Running, RunningFor
<1> QED
  BY <1>6, <1>7, <1>9, <1>10, <1>11 DEF SInv

LEMMA SignalKeeps ==
  ASSUME SInv, Signal
  PROVE  SInv'
<1> DEFINE listening == Registered \cap Family("event")
<1>1. /\ armed' = armed \cup listening
      /\ owed' = [r \in Rules |-> IF r \in listening \ armed THEN owed[r] + 1 ELSE owed[r]]
      /\ UNCHANGED <<rules, enabled, since, loop, live, byHand, recorded, hour>>
  BY DEF Signal
<1>2. /\ AgesOK' /\ TickWaits' /\ NoOverlap' /\ CeilingHeld'
      /\ \A r \in Rules : Queued(r)' = Queued(r)
  BY <1>1, Undisturbed
<1>3. Typed'
  BY <1>1 DEF SInv, Typed, Registered
<1>4. SignalsKept'
  <2>1. armed' \subseteq Family("event")
    BY <1>1 DEF SInv, SignalsKept
  <2>2. ASSUME NEW r \in Rules
        PROVE  owed'[r] = IF r \in Family("event")
                          THEN Cardinality(Queued(r)) + (IF r \in armed' THEN 1 ELSE 0)
                          ELSE 0
    <3>1. owed[r] = IF r \in Family("event")
                    THEN Cardinality(Queued(r)) + (IF r \in armed THEN 1 ELSE 0) ELSE 0
      BY DEF SInv, SignalsKept
    <3> QED
      BY <1>1, <3>1, Counts
  <2> QED
    BY <1>2, <2>1, <2>2 DEF SignalsKept
<1> QED
  BY <1>2, <1>3, <1>4 DEF SInv

LEMMA ForgetKeeps ==
  ASSUME SInv, NEW q \in Rules, Forget(q),
         \A r \in Rules : Queued(r)' = Queued(r)
  PROVE  SignalsKept' /\ owed' \in [Rules -> Nat] /\ armed' = armed \ {q}
<1>1. owed' \in [Rules -> Nat] /\ armed' = armed \ {q}
  BY DEF SInv, Typed, Forget, Less
<1>2. ASSUME NEW r \in Rules
      PROVE  owed'[r] = IF r \in Family("event")
                        THEN Cardinality(Queued(r)) + (IF r \in armed' THEN 1 ELSE 0)
                        ELSE 0
  <2>1. owed[r] = IF r \in Family("event")
                  THEN Cardinality(Queued(r)) + (IF r \in armed THEN 1 ELSE 0) ELSE 0
    BY DEF SInv, SignalsKept
  <2>2. owed'[r] = IF r = q /\ q \in armed THEN Less(owed[r], 1) ELSE owed[r]
    BY DEF SInv, Typed, Forget
  <2>3. armed \subseteq Family("event") /\ Cardinality(Queued(r)) \in Nat
    BY Counts DEF SInv, SignalsKept
  <2> QED
    BY <1>1, <2>1, <2>2, <2>3 DEF Less
<1> QED
  BY <1>1, <1>2 DEF SInv, SignalsKept

LEMMA RegisterKeeps ==
  ASSUME SInv, NEW q \in Rules, NEW on \in BOOLEAN, Register(q, on)
  PROVE  SInv'
<1>1. /\ rules' = IF q \in Registered THEN rules ELSE Append(rules, q)
      /\ enabled' = IF on THEN enabled \cup {q} ELSE enabled \ {q}
      /\ Forget(q)
      /\ UNCHANGED <<since, loop, live, byHand, recorded, hour>>
  BY DEF Register
<1>2. /\ AgesOK' /\ TickWaits' /\ NoOverlap' /\ CeilingHeld'
      /\ \A r \in Rules : Queued(r)' = Queued(r)
  BY <1>1, Undisturbed
<1>3. SignalsKept' /\ owed' \in [Rules -> Nat] /\ armed' = armed \ {q}
  BY <1>1, <1>2, ForgetKeeps
<1>4. rules \in Seq(Rules) /\ IsInjective(rules) /\ Len(rules) \in Nat
  BY DEF SInv, Typed
<1>5. /\ rules' \in Seq(Rules) /\ IsInjective(rules')
      /\ Registered' = Registered \cup {q}
  <2>1. CASE q \in Registered
    BY <1>1, <1>4, <2>1 DEF Registered
  <2>2. CASE q \notin Registered
    <3>1. rules' = Append(rules, q)
      BY <1>1, <2>2
    <3>2. /\ rules' \in Seq(Rules) /\ Len(rules') = Len(rules) + 1
          /\ \A i \in 1 .. Len(rules) : rules'[i] = rules[i]
          /\ rules'[Len(rules) + 1] = q
      BY <1>4, <3>1
    <3>3. \A i \in 1 .. Len(rules) : rules[i] # q
      BY <1>4, <2>2 DEF Registered, Range
    <3>4. IsInjective(rules')
      BY <1>4, <3>2, <3>3 DEF IsInjective
    <3>5. Registered' = Registered \cup {q}
      <4>1. DOMAIN rules' = DOMAIN rules \cup {Len(rules) + 1}
            /\ DOMAIN rules = 1 .. Len(rules)
        BY <1>4, <3>2
      <4> QED
        BY <1>4, <3>2, <4>1 DEF Registered, Range
    <3> QED
      BY <3>2, <3>4, <3>5
  <2> QED
    BY <2>1, <2>2
<1>6. Typed'
  BY <1>1, <1>3, <1>5 DEF SInv, Typed
<1> QED
  BY <1>2, <1>3, <1>6 DEF SInv

LEMMA UnregisterKeeps ==
  ASSUME SInv, NEW q \in Rules, Unregister(q)
  PROVE  SInv'
<1>1. PICK i \in 1 .. Len(rules) : rules[i] = q /\ rules' = RemoveAt(rules, i)
  BY DEF Unregister
<1>2. /\ enabled' = enabled \ {q}
      /\ since' = Restrict(since, DOMAIN since \ {q})
      /\ Forget(q)
      /\ UNCHANGED <<loop, live, byHand, recorded, hour>>
  BY DEF Unregister
<1>3. /\ AgesOK' /\ TickWaits' /\ NoOverlap' /\ CeilingHeld'
      /\ \A r \in Rules : Queued(r)' = Queued(r)
  BY <1>2, Undisturbed
<1>4. SignalsKept' /\ owed' \in [Rules -> Nat] /\ armed' = armed \ {q}
  BY <1>2, <1>3, ForgetKeeps
<1>5. rules \in Seq(Rules) /\ IsInjective(rules) /\ Len(rules) \in Nat
  BY DEF SInv, Typed
<1>6. /\ rules' \in Seq(Rules) /\ Len(rules') = Len(rules) - 1
      /\ \A j \in 1 .. Len(rules) - 1 : rules'[j] = rules[Shift(i, j)]
  BY <1>1, <1>5, Removed
<1>7. IsInjective(rules')
  <2> SUFFICES ASSUME NEW j \in 1 .. Len(rules) - 1, NEW k \in 1 .. Len(rules) - 1,
                      rules'[j] = rules'[k]
               PROVE  j = k
    BY <1>5, <1>6 DEF IsInjective
  <2>1. Shift(i, j) \in 1 .. Len(rules) /\ Shift(i, k) \in 1 .. Len(rules)
    BY <1>5 DEF Shift
  <2>2. Shift(i, j) = Shift(i, k)
    BY <1>5, <1>6, <2>1 DEF IsInjective
  <2> QED
    BY <1>5, <2>2 DEF Shift
<1>8. Registered \ {q} \subseteq Registered'
  <2> SUFFICES ASSUME NEW k \in 1 .. Len(rules), k # i
               PROVE  rules[k] \in Registered'
    BY <1>1, <1>5 DEF Registered, Range
  <2>1. CASE k < i
    BY <1>5, <1>6, <2>1 DEF Registered, Range, Shift
  <2>2. CASE k > i
    <3>1. k - 1 \in 1 .. Len(rules) - 1 /\ Shift(i, k - 1) = k
      BY <1>5, <2>2 DEF Shift
    <3> QED
      BY <1>5, <1>6, <3>1 DEF Registered, Range
  <2> QED
    BY <1>5, <2>1, <2>2
<1>9. DOMAIN since' \subseteq Rules /\ \A r \in DOMAIN since' : since'[r] \in 0 .. Period(r)
  BY <1>2 DEF SInv, Typed, Restrict
<1>10. Typed'
  BY <1>2, <1>4, <1>6, <1>7, <1>8, <1>9 DEF SInv, Typed
<1> QED
  BY <1>3, <1>4, <1>10 DEF SInv

LEMMA OthersKeep ==
  ASSUME SInv, Start \/ \E r \in Requested : RunByHand(r) \/ ByHandEnds(r)
  PROVE  SInv'
<1>1. /\ live' = live /\ (loop' = loop \/ loop # "waiting")
      /\ UNCHANGED <<rules, enabled, armed, since, hour, owed>>
  BY DEF Start, RunByHand, ByHandEnds, ruleVars
<1>2. loop' \in {"stopped", "ready", "waiting", "sleeping"}
  BY DEF Start, RunByHand, ByHandEnds, SInv, Typed
<1>3. byHand' \subseteq Rules /\ recorded' \in 0 .. HistoryLimit
  <2>1. Requested \subseteq Rules /\ byHand \subseteq Rules /\ recorded \in 0 .. HistoryLimit
    BY SchedulerAssumption DEF SInv, Typed
  <2>2. CASE Start
    BY <2>1, <2>2 DEF Start
  <2>3. ASSUME NEW r \in Requested, RunByHand(r)
        PROVE  byHand' \subseteq Rules /\ recorded' \in 0 .. HistoryLimit
    BY <2>1, <2>3 DEF RunByHand
  <2>4. ASSUME NEW r \in Requested, ByHandEnds(r)
        PROVE  byHand' \subseteq Rules /\ recorded' \in 0 .. HistoryLimit
    BY <2>1, <2>4, SchedulerAssumption DEF ByHandEnds, Record
  <2> QED
    BY <2>2, <2>3, <2>4
<1>4. /\ AgesOK' /\ TickWaits' /\ NoOverlap' /\ CeilingHeld'
      /\ \A r \in Rules : Queued(r)' = Queued(r)
  BY <1>1, Undisturbed
<1>5. Typed'
  BY <1>1, <1>2, <1>3 DEF SInv, Typed, Registered
<1> QED
  BY <1>1, <1>4, <1>5 DEF SInv, SignalsKept

-----------------------------------------------------------------------------
(* The theorems *)

LEMMA InitInv == Init => SInv
<1> SUFFICES ASSUME Init PROVE SInv
  OBVIOUS
<1> USE DEF Init
<1>1. IsFiniteSet(Rules) /\ Cardinality(Rules) \in Nat
  BY SchedulerAssumption, FS_CardinalityType
<1>2. /\ rules \in [1 .. Cardinality(Rules) -> Rules]
      /\ \A i, j \in 1 .. Cardinality(Rules) : i # j => rules[i] # rules[j]
  BY DEF SetToSeqs
<1>3. rules \in Seq(Rules) /\ IsInjective(rules)
  BY <1>1, <1>2 DEF IsInjective
<1>4. Registered = Rules
  <2>1. rules \in Injection(1 .. Cardinality(Rules), Rules)
    BY <1>2 DEF Injection, IsInjective
  <2>2. Cardinality(1 .. Cardinality(Rules)) = Cardinality(Rules)
    BY <1>1, FS_Interval
  <2>3. rules \in Surjection(1 .. Cardinality(Rules), Rules)
    BY <1>1, <2>1, <2>2, FS_Injection
  <2> QED
    BY <1>2, <2>3 DEF Surjection, Registered, Range
<1>5. live \in Seq(Run) /\ Len(live) = 0 /\ DOMAIN since = {}
  OBVIOUS
<1>6. Typed
  BY <1>3, <1>4, <1>5, SchedulerAssumption DEF Typed
<1>7. AgesOK /\ TickWaits /\ NoOverlap
  BY <1>5, SchedulerAssumption DEF AgesOK, TickWaits, NoOverlap
<1>8. Running = {} /\ \A r \in Rules : Queued(r) = {}
  BY <1>5 DEF Running, Queued
<1>9. Cardinality(Running) = 0 /\ \A r \in Rules : Cardinality(Queued(r)) = 0
  BY <1>8, FS_EmptySet
<1>10. CeilingHeld
  BY <1>9, SchedulerAssumption DEF CeilingHeld
<1>11. SignalsKept
  BY <1>9 DEF SignalsKept
<1> QED
  BY <1>6, <1>7, <1>10, <1>11 DEF SInv

\* The bound on owed follows from the rest.
LEMMA OwedIsBounded == SInv => SchedulerTypeOK
<1> SUFFICES ASSUME SInv PROVE SchedulerTypeOK
  OBVIOUS
<1>1. ASSUME NEW r \in Rules PROVE owed[r] \in 0 .. MaxLive + 1
  <2>1. Queued(r) \in SUBSET (1 .. Len(live)) /\ Len(live) \in Nat
    BY Counts DEF Queued
  <2>2. Cardinality(Queued(r)) \in 0 .. Len(live)
    BY <2>1, Counted
  <2>3. owed[r] = IF r \in Family("event")
                  THEN Cardinality(Queued(r)) + (IF r \in armed THEN 1 ELSE 0) ELSE 0
    BY DEF SInv, SignalsKept
  <2> QED
    BY <2>1, <2>2, <2>3, SchedulerAssumption DEF SInv, AgesOK
<1> QED
  BY <1>1 DEF SInv, Typed, SchedulerTypeOK

LEMMA StutterKeeps == SInv /\ UNCHANGED vars => SInv'
<1> SUFFICES ASSUME SInv, UNCHANGED vars PROVE SInv'
  OBVIOUS
<1>1. /\ AgesOK' /\ TickWaits' /\ NoOverlap' /\ CeilingHeld'
      /\ \A r \in Rules : Queued(r)' = Queued(r)
  BY Undisturbed DEF vars
<1> QED
  BY <1>1 DEF vars, SInv, Typed, Registered, SignalsKept

LEMMA EditKeeps ==
  ASSUME SInv, NEW e \in Edits, Unregister(e[1]) \/ Register(e[1], e[2])
  PROVE  SInv' /\ live' = live
<1>1. e[1] \in Rules /\ e[2] \in BOOLEAN
  BY SchedulerAssumption
<1>2. SInv'
  BY <1>1, UnregisterKeeps, RegisterKeeps
<1> QED
  BY <1>2 DEF Unregister, Register

LEMMA NextInv == SInv /\ [Next]_vars => SInv'
<1> SUFFICES ASSUME SInv, [Next]_vars PROVE SInv'
  OBVIOUS
<1>1. CASE Tick
  BY <1>1, TickKeeps
<1>2. CASE StartRun
  BY <1>2, StartRunKeeps
<1>3. CASE TimePasses
  BY <1>3, TimePassesKeeps
<1>4. CASE Signal
  BY <1>4, SignalKeeps
<1>5. CASE Start \/ \E r \in Requested : RunByHand(r) \/ ByHandEnds(r)
  BY <1>5, OthersKeep
<1>6. CASE Stop
  BY <1>6, StopKeeps
<1>7. CASE \E r \in Rules : RunEnds(r)
  BY <1>7, RunEndsKeeps
<1>8. CASE \E e \in Edits : Unregister(e[1]) \/ Register(e[1], e[2])
  BY <1>8, EditKeeps
<1>9. CASE UNCHANGED vars
  BY <1>9, StutterKeeps
<1> QED
  BY <1>1, <1>2, <1>3, <1>4, <1>5, <1>6, <1>7, <1>8, <1>9 DEF Next

\* The strengthened invariant: besides the properties, a tick waits for exactly
\* its own runs, which are the youngest, and the signals owed are the pending
\* one and one per queued run.
THEOREM SchedulerInvariant == Spec => []SInv
<1>1. Init => SInv
  BY InitInv
<1>2. SInv /\ [Next]_vars => SInv'
  BY NextInv
<1> QED
  BY <1>1, <1>2, PTL DEF Spec

\* The scheduler's state has the types its code gives it.
THEOREM SchedulerTypeCorrect == Spec => []SchedulerTypeOK
<1>1. SInv => SchedulerTypeOK
  BY OwedIsBounded
<1> QED
  BY <1>1, SchedulerInvariant, PTL

\* Whatever the rules and however they are edited, signalled, stopped and
\* restarted, no rule has two runs of the loop's own alive at once.
THEOREM NeverOverlaps == Spec => []NoOverlap
<1>1. SInv => NoOverlap
  BY DEF SInv
<1> QED
  BY <1>1, SchedulerInvariant, PTL

\* One semaphore serves every tick, failed ones and restarts included.
THEOREM CeilingIsHeld == Spec => []CeilingHeld
<1>1. SInv => CeilingHeld
  BY DEF SInv
<1> QED
  BY <1>1, SchedulerInvariant, PTL

\* An event rule's run starts only for a signal that nothing has run for.
THEOREM RunsOncePerSignal == Spec => OncePerSignal
<1> DEFINE Once == \A r \in Family("event") :
             Cardinality(RunningFor(r))' > Cardinality(RunningFor(r)) => owed[r] > 0
<1>1. ASSUME SInv, [Next]_vars PROVE [Once]_vars
  <2>1. CASE StartRun
    BY <1>1, <2>1, StartRunKeeps
  <2>2. ASSUME \A r \in Rules : /\ Cardinality(RunningFor(r)') \in Nat
                                /\ Cardinality(RunningFor(r)') <= Cardinality(RunningFor(r))
        PROVE  Once
    BY <1>1, <2>2, Counts DEF Family
  <2>3. CASE Tick \/ Stop \/ TimePasses
    <3>1. \A r \in Rules : RunningFor(r)' \in SUBSET RunningFor(r)
      BY <1>1, <2>3, TickKeeps, StopKeeps, TimePassesKeeps
    <3>2. \A r \in Rules : /\ Cardinality(RunningFor(r)') \in Nat
                           /\ Cardinality(RunningFor(r)') <= Cardinality(RunningFor(r))
      BY <1>1, <3>1, Counts, FS_Subset, FS_CardinalityType
    <3> QED
      BY <2>2, <3>2
  <2>4. CASE \E r \in Rules : RunEnds(r)
    <3>1. \A r \in Rules : /\ Cardinality(RunningFor(r)') \in Nat
                           /\ Cardinality(RunningFor(r)') <= Cardinality(RunningFor(r))
      BY <1>1, <2>4, RunEndsKeeps
    <3> QED
      BY <2>2, <3>1
  <2>5. CASE live' = live
    <3>1. \A r \in Rules : RunningFor(r)' = RunningFor(r)
      BY <2>5 DEF RunningFor, Running
    <3>2. \A r \in Rules : /\ Cardinality(RunningFor(r)') \in Nat
                           /\ Cardinality(RunningFor(r)') <= Cardinality(RunningFor(r))
      BY <1>1, <3>1, Counts
    <3> QED
      BY <2>2, <3>2
  <2>6. ASSUME \/ Signal \/ Start
               \/ \E r \in Requested : RunByHand(r) \/ ByHandEnds(r)
               \/ \E e \in Edits : Unregister(e[1]) \/ Register(e[1], e[2])
               \/ UNCHANGED vars
        PROVE  live' = live
    BY <2>6 DEF Signal, Start, RunByHand, ByHandEnds, Unregister, Register, vars
  <2> QED
    BY <1>1, <2>1, <2>3, <2>4, <2>5, <2>6 DEF Next
<1> QED
  BY <1>1, SchedulerInvariant, PTL DEF Spec, OncePerSignal
=============================================================================
