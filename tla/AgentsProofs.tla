---------------------------- MODULE AgentsProofs ----------------------------
(***************************************************************************)
(* Proofs about Agents for any callers, batches, rosters, plans, files and *)
(* judgements: what a report says of a task is so.                         *)
(***************************************************************************)
EXTENDS Agents, FiniteSetTheorems, SequenceTheorems, WellFoundedInduction, TLAPS

Status == {"succeeded", "failed", "skipped"}
Capture == Contents \union {NoUndo, Idle}
\* Where a task has a plan, and its effects are looked after.
AtWork == Running \ {"planning"}
\* Where it has captured what undoing the current effect takes.
Acting == {"preparing", "deciding", "writing"}

Typed ==
  /\ world \in [Paths -> Contents]
  /\ \A o \in orphans : o.path \in Paths /\ o.content \in Contents
  /\ agent \in [Tasks -> Range(Roster) \union {NoAgent}]
  /\ phase \in [Tasks -> Running \union {"waiting", "done"}]
  /\ DOMAIN plan = Tasks /\ \A t \in Tasks : WellMade(plan[t])
  /\ outcomes \in [Tasks -> Seq(Status)]
  /\ undo \in [Tasks -> Seq(Capture)]
  /\ seen \in [Tasks -> Capture]
  /\ left \in [Tasks -> SUBSET Nat] /\ intact \in [Tasks -> BOOLEAN]
  /\ DOMAIN report = Tasks
  /\ applied \in [Tasks -> SUBSET Nat] /\ undone \in [Tasks -> SUBSET Nat]
  /\ before \in [Tasks -> [Paths -> Contents]]
  /\ DOMAIN strayed = Tasks

\* What a task has got to at each place.
Placed(t) ==
  /\ phase[t] \in {"waiting", "planning"} =>
       outcomes[t] = <<>> /\ undo[t] = <<>> /\ applied[t] = {}
  /\ phase[t] \in Running => agent[t] # NoAgent
  /\ phase[t] \in {"reviewing", "thinking"} =>
       Len(undo[t]) = Len(outcomes[t]) /\ Len(outcomes[t]) < Len(plan[t])
  /\ phase[t] \in Acting =>
       Len(undo[t]) = Len(outcomes[t]) + 1 /\ Len(outcomes[t]) < Len(plan[t])
  /\ phase[t] \in {"reviewing"} \union Acting => IsEffect(Step(t))
  /\ phase[t] = "thinking" => ~IsEffect(Step(t))
  /\ phase[t] \in {"judging", "undoing"} => Len(outcomes[t]) = Len(plan[t])
  /\ phase[t] # "done" => report[t] = NoReport
  /\ phase[t] \notin {"undoing", "done"} => undone[t] = {}

\* What was applied is what the outcomes say, and only a file can be undone.
Booked(t) ==
  /\ Len(outcomes[t]) <= Len(plan[t])
  /\ \A i \in DOMAIN outcomes[t] : outcomes[t][i] = "succeeded" => i \in DOMAIN undo[t]
  /\ Len(undo[t]) <= Len(plan[t])
  /\ \A i \in DOMAIN undo[t] : undo[t][i] # NoUndo => OnFile(plan[t][i])
  /\ applied[t] = {i \in DOMAIN outcomes[t] : IsEffect(plan[t][i]) /\ outcomes[t][i] = "succeeded"}
  /\ undone[t] \subseteq Reversible(t)

\* What is left to be undone lies before what was.
Ordered(t) ==
  phase[t] = "undoing" =>
    /\ left[t] # {} /\ left[t] \subseteq Reversible(t)
    /\ \A i \in left[t], j \in undone[t] : i < j
    /\ intact[t] => left[t] \union undone[t] = Reversible(t)

\* The steps that wrote to a file, and those that were not undone.
Touching(t, f) == {i \in applied[t] : OnFile(plan[t][i]) /\ plan[t][i].path = f}
Standing(t, f) == Touching(t, f) \ undone[t]

\* The content captured by the i-th step.
Captures(t, i, content) ==
  \/ undo[t][i] = content
  \/ undo[t][i] = Idle /\ content = Absent /\ plan[t][i].content = Absent

\* It is what the last of these steps left of f, or what the task found.
LeftBy(t, f, steps, content) ==
  /\ steps = {} => content = before[t][f]
  /\ \A i \in steps : (\A j \in steps : j <= i) => content = plan[t][i].content

\* A file each change of which can be undone is as its last standing change left
\* it, and each captured it as the one before left it.
Traced(t, f) ==
  (\A i \in Touching(t, f) : undo[t][i] # NoUndo) =>
    /\ LeftBy(t, f, Standing(t, f), world[f])
    /\ \A i \in Touching(t, f) : \E content \in Contents :
         /\ Captures(t, i, content)
         /\ LeftBy(t, f, {j \in Touching(t, f) : j < i}, content)

Pending(t) ==
  phase[t] \in Acting /\ OnFile(Step(t)) =>
    LET n == Len(outcomes[t]) + 1
    IN undo[t][n] # NoUndo => Captures(t, n, world[Step(t).path])

\* Where nobody disturbs it and no undoing has failed.
Tidy(t) == phase[t] \in AtWork /\ t \notin disturbed /\ (phase[t] = "undoing" => intact[t])

Kempt(t) ==
  Tidy(t) =>
    Pending(t) /\ \A f \in PathsOf(t) : Traced(t, f)

TaskInv(t) == Placed(t) /\ Booked(t) /\ Ordered(t) /\ Kempt(t) /\ Tells(t)

\* The inductive invariant.
IInv == Typed /\ \A t \in Tasks : TaskInv(t)

LEMMA Lengths ==
  ASSUME Typed, NEW t \in Tasks
  PROVE  /\ Len(plan[t]) \in Nat /\ DOMAIN plan[t] = 1 .. Len(plan[t])
         /\ Len(outcomes[t]) \in Nat /\ DOMAIN outcomes[t] = 1 .. Len(outcomes[t])
         /\ Len(undo[t]) \in Nat /\ DOMAIN undo[t] = 1 .. Len(undo[t])
BY DEF Typed, WellMade

-----------------------------------------------------------------------------
(* What the others do *)

\* Nothing of the task itself changes.
Same(d) ==
  /\ agent'[d] = agent[d] /\ phase'[d] = phase[d] /\ plan'[d] = plan[d]
  /\ outcomes'[d] = outcomes[d] /\ undo'[d] = undo[d] /\ left'[d] = left[d]
  /\ intact'[d] = intact[d] /\ report'[d] = report[d] /\ applied'[d] = applied[d]
  /\ undone'[d] = undone[d] /\ before'[d] = before[d] /\ strayed'[d] = strayed[d]

\* The others keep what they have, and whose files change is disturbed.
Apart(d) ==
  /\ Same(d)
  /\ d \in disturbed => d \in disturbed'
  /\ InRun(d) /\ d \notin disturbed' => \A f \in PathsOf(d) : world'[f] = world[f]

LEMMA SameParts ==
  ASSUME NEW d \in Tasks, Same(d)
  PROVE  /\ Step(d)' = Step(d) /\ PathsOf(d)' = PathsOf(d) /\ Reversible(d)' = Reversible(d)
         /\ Effects(d)' = Effects(d) /\ Kept(d)' = Kept(d) /\ InRun(d)' = InRun(d)
         /\ \A f : Touching(d, f)' = Touching(d, f) /\ Standing(d, f)' = Standing(d, f)
         /\ \A i, content : Captures(d, i, content)' = Captures(d, i, content)
         /\ \A f, steps, content : LeftBy(d, f, steps, content)' = LeftBy(d, f, steps, content)
BY DEF Same, Step, PathsOf, Reversible, Effects, Kept, InRun, Touching, Standing, Captures, LeftBy

LEMMA ApartTraced ==
  ASSUME NEW d \in Tasks, Same(d), NEW f, world'[f] = world[f], Traced(d, f)
  PROVE  Traced(d, f)'
<1>1. undo'[d] = undo[d]
  BY DEF Same
<1> QED
  BY <1>1, SameParts DEF Traced

LEMMA Untouched ==
  ASSUME Typed, NEW d \in Tasks, TaskInv(d), Apart(d)
  PROVE  TaskInv(d)'
<1>0. Same(d)
  BY DEF Apart
<1>1. Placed(d)'
  BY <1>0, SameParts DEF TaskInv, Placed, Same
<1>2. Booked(d)'
  BY <1>0, SameParts DEF TaskInv, Booked, Same
<1>3. Ordered(d)'
  BY <1>0, SameParts DEF TaskInv, Ordered, Same
<1>4. Tells(d)'
  <2>1. d \notin disturbed' => d \notin disturbed
    BY DEF Apart
  <2> QED
    BY <1>0, <2>1, SameParts DEF TaskInv, Tells, Same
<1>5. ASSUME Tidy(d)' PROVE Pending(d)' /\ \A f \in PathsOf(d)' : Traced(d, f)'
  <2>1. /\ Pending(d) /\ \A f \in PathsOf(d) : Traced(d, f)
        /\ phase[d] \in AtWork
        /\ \A f \in PathsOf(d) : world'[f] = world[f]
    BY <1>0, <1>5 DEF TaskInv, Kempt, Tidy, Apart, Same, InRun, AtWork
  <2>2. \A f \in PathsOf(d)' : Traced(d, f)'
    BY <1>0, <2>1, SameParts, ApartTraced
  <2>3. Pending(d)'
    <3> SUFFICES ASSUME phase[d] \in Acting, OnFile(Step(d)), undo[d][Len(outcomes[d]) + 1] # NoUndo
                 PROVE  Captures(d, Len(outcomes[d]) + 1, world'[Step(d).path])
      BY <1>0, SameParts DEF Pending, Same
    <3>1. Captures(d, Len(outcomes[d]) + 1, world[Step(d).path])
      BY <2>1 DEF Pending
    <3>2. Len(outcomes[d]) + 1 \in DOMAIN plan[d]
      BY Lengths DEF TaskInv, Placed
    <3>3. Step(d).path \in PathsOf(d)
      BY <3>2 DEF Step, PathsOf
    <3> QED
      BY <2>1, <3>1, <3>3
  <2> QED
    BY <2>2, <2>3
<1> QED
  BY <1>1, <1>2, <1>3, <1>4, <1>5 DEF TaskInv, Kempt

-----------------------------------------------------------------------------
(* What is undone next, and who is chosen *)

NatLess == {ss \in Nat \X Nat : ss[1] < ss[2]}

LEMMA LeastNumber ==
  ASSUME NEW T, T \subseteq Nat, T # {}
  PROVE  \E n \in T : \A m \in T : n <= m
<1>1. PICK x \in T : \A y \in T : <<y, x>> \notin NatLess
  <2>1. IsWellFoundedOn(NatLess, Nat)
    BY NatLessThanWellFounded DEF OpToRel, NatLess
  <2> QED
    BY <2>1, WFMin
<1>2. ASSUME NEW y \in T PROVE x <= y
  <2>1. <<y, x>> \in Nat \X Nat /\ ~(y < x)
    BY <1>1 DEF NatLess
  <2> QED
    BY <2>1
<1> QED
  BY <1>2

LEMMA GreatestNumber ==
  ASSUME NEW n \in Nat, NEW S, S \subseteq 1 .. n, S # {}
  PROVE  Max(S) \in S /\ \A j \in S : j <= Max(S)
<1> DEFINE gaps == {n - i : i \in S}
<1>1. gaps \subseteq Nat /\ gaps # {}
  <2>1. \A i \in S : i \in Nat /\ n - i \in Nat
    OBVIOUS
  <2> QED
    BY <2>1
<1>2. PICK m \in gaps : \A k \in gaps : m <= k
  <2> HIDE DEF gaps
  <2> QED
    BY <1>1, LeastNumber
<1>3. PICK i \in S : m = n - i
  OBVIOUS
<1>4. \A j \in S : i >= j
  <2> SUFFICES ASSUME NEW j \in S PROVE i >= j
    OBVIOUS
  <2>1. n - j \in gaps
    OBVIOUS
  <2>2. n - i <= n - j
    BY <1>2, <1>3, <2>1
  <2> QED
    BY <2>2
<1>5. Max(S) \in S /\ \A j \in S : Max(S) >= j
  BY <1>4 DEF Max
<1> QED
  BY <1>5

LEMMA LastIsNext ==
  ASSUME Typed, NEW t \in Tasks, TaskInv(t), phase[t] = "undoing"
  PROVE  NextUndone(t) \in left[t] /\ \A j \in left[t] : j <= NextUndone(t)
<1>1. left[t] \subseteq 1 .. Len(outcomes[t]) /\ left[t] # {} /\ Len(outcomes[t]) \in Nat
  BY Lengths DEF TaskInv, Ordered, Reversible
<1> QED
  BY <1>1, GreatestNumber DEF NextUndone

\* Among the first n agents there is one that goes before the others that are
\* willing, if any is.
LEMMA SomeoneGoesFirst ==
  ASSUME NEW t \in Tasks, Willing(t) # {}
  PROVE  \E i \in Willing(t) : \A j \in Willing(t) : GoesBefore(t, i, j)
<1> DEFINE Among(n) == {j \in Willing(t) : j <= n}
           T == {n \in Nat : Among(n) # {} =>
                   \E i \in Among(n) : \A j \in Among(n) : GoesBefore(t, i, j)}
<1>1. Willing(t) \subseteq 1 .. Len(Roster) /\ Len(Roster) \in Nat
  BY AgentsAssumption DEF Willing
<1>2. \A i \in Willing(t) : Score[t][Roster[i]] \in Nat
  <2>1. \A i \in DOMAIN Roster : Roster[i] \in Range(Roster)
    BY DEF Range
  <2>2. Score \in [Tasks -> [Range(Roster) -> Nat]]
    BY AgentsAssumption
  <2> QED
    BY <2>1, <2>2 DEF Willing
<1>3. 0 \in T
  BY <1>1
<1>4. ASSUME NEW n \in Nat, n \in T PROVE n + 1 \in T
  <2>1. CASE n + 1 \notin Willing(t)
    <3>1. Among(n + 1) = Among(n)
      BY <1>1, <2>1
    <3> QED
      BY <1>4, <3>1
  <2>2. CASE n + 1 \in Willing(t) /\ Among(n) = {}
    <3>1. Among(n + 1) = {n + 1}
      BY <1>1, <2>2
    <3>2. GoesBefore(t, n + 1, n + 1)
      BY <1>2, <2>2 DEF GoesBefore
    <3> QED
      BY <3>1, <3>2
  <2>3. CASE n + 1 \in Willing(t) /\ Among(n) # {}
    <3>1. PICK i \in Among(n) : \A j \in Among(n) : GoesBefore(t, i, j)
      BY <1>4, <2>3
    <3>2. Among(n + 1) = Among(n) \union {n + 1} /\ i \in Willing(t) /\ i \in Nat /\ i <= n
      BY <1>1, <2>3
    <3>3. CASE Score[t][Roster[i]] >= Score[t][Roster[n + 1]]
      <4>1. GoesBefore(t, i, n + 1)
        BY <1>2, <2>3, <3>2, <3>3 DEF GoesBefore
      <4> QED
        BY <3>1, <3>2, <4>1
    <3>4. CASE ~(Score[t][Roster[i]] >= Score[t][Roster[n + 1]])
      <4>1. \A j \in Among(n) : GoesBefore(t, n + 1, j)
        BY <1>2, <2>3, <3>1, <3>2, <3>4 DEF GoesBefore
      <4>2. GoesBefore(t, n + 1, n + 1)
        BY <1>2, <2>3 DEF GoesBefore
      <4> QED
        BY <3>2, <4>1, <4>2
    <3> QED
      BY <3>3, <3>4
  <2> QED
    BY <2>1, <2>2, <2>3
<1>5. Nat \subseteq T
  <2> SUFFICES ASSUME Nat \ T # {} PROVE FALSE
    OBVIOUS
  <2> HIDE DEF T
  <2>1. PICK n \in Nat \ T : \A m \in Nat \ T : n <= m
    BY LeastNumber
  <2>2. n # 0 /\ n - 1 \in Nat /\ ~(n <= n - 1) /\ (n - 1) + 1 = n
    BY <1>3, <2>1
  <2> QED
    BY <1>4, <2>1, <2>2
<1>6. Among(Len(Roster)) = Willing(t)
  BY <1>1
<1>7. Len(Roster) \in T
  <2> HIDE DEF T
  <2> QED
    BY <1>1, <1>5
<1> QED
  BY <1>6, <1>7

LEMMA ChosenListed ==
  ASSUME NEW t \in Tasks
  PROVE  Chosen(t) \in Range(Roster) \union {NoAgent}
<1>1. CASE Forced[t] # NoAgent
  BY <1>1, AgentsAssumption DEF Chosen
<1>2. CASE Forced[t] = NoAgent /\ Willing(t) = {}
  BY <1>2 DEF Chosen
<1>3. CASE Forced[t] = NoAgent /\ Willing(t) # {}
  <2> DEFINE first == CHOOSE i \in Willing(t) : \A j \in Willing(t) : GoesBefore(t, i, j)
  <2>1. first \in Willing(t)
    BY <1>3, SomeoneGoesFirst
  <2>2. Chosen(t) = Roster[first]
    BY <1>3 DEF Chosen
  <2> QED
    BY <2>1, <2>2 DEF Willing, Range
<1> QED
  BY <1>1, <1>2, <1>3

-----------------------------------------------------------------------------
(* Ends of steps and of tasks *)

\* What a step of a task has to show.
Keeps(t) == Typed' /\ TaskInv(t)' /\ \A d \in Tasks \ {t} : Apart(d)

LEMMA Untold ==
  ASSUME NEW t \in Tasks, report'[t] = NoReport
  PROVE  Tells(t)'
BY DEF Tells, NoReport

\* The outcomes told once the n-th step of a task has ended.
TellsEnd(t, n, status, told) ==
  /\ told \in Seq(Status)
  /\ n <= Len(told) /\ Len(told) <= Len(plan[t])
  /\ \A i \in 1 .. Len(outcomes[t]) : told[i] = outcomes[t][i]
  /\ told[n] = status
  /\ \A i \in n + 1 .. Len(told) : told[i] = "skipped"
  /\ Len(told) = n \/ Len(told) = Len(plan[t])

\* Those of a step that is abandoned with k to go.
LEMMA Padded ==
  ASSUME NEW s \in Seq(Status), NEW status \in Status, NEW k \in Nat,
         NEW skipped \in Seq(Status), Len(skipped) = k, \A i \in 1 .. k : skipped[i] = "skipped",
         NEW told, told = Append(s, status) \o skipped
  PROVE  /\ told \in Seq(Status) /\ Len(told) = Len(s) + 1 + k
         /\ \A i \in 1 .. Len(s) : told[i] = s[i]
         /\ told[Len(s) + 1] = status
         /\ \A i \in Len(s) + 2 .. Len(told) : told[i] = "skipped"
<1> DEFINE ended == Append(s, status)
<1>1. /\ ended \in Seq(Status) /\ Len(ended) = Len(s) + 1 /\ Len(s) \in Nat
      /\ \A i \in 1 .. Len(s) : ended[i] = s[i]
      /\ ended[Len(s) + 1] = status
  OBVIOUS
<1>2. told = ended \o skipped
  OBVIOUS
<1> HIDE DEF ended
<1>3. /\ told \in Seq(Status) /\ Len(told) = Len(s) + 1 + k
      /\ \A i \in 1 .. Len(told) :
           told[i] = IF i <= Len(ended) THEN ended[i] ELSE skipped[i - Len(ended)]
  <2>1. /\ ended \o skipped \in Seq(Status)
        /\ Len(ended \o skipped) = Len(ended) + Len(skipped)
        /\ \A i \in 1 .. Len(ended) + Len(skipped) :
             (ended \o skipped)[i] = IF i <= Len(ended) THEN ended[i] ELSE skipped[i - Len(ended)]
    BY <1>1, ConcatProperties
  <2> QED
    BY <1>1, <1>2, <2>1
<1>4. \A i \in Len(s) + 2 .. Len(told) :
        i \in 1 .. Len(told) /\ ~(i <= Len(ended)) /\ i - Len(ended) \in 1 .. k
  BY <1>1, <1>3
<1>5. \A i \in 1 .. Len(s) + 1 : i \in 1 .. Len(told) /\ i <= Len(ended)
  BY <1>1, <1>3
<1>6. \A i \in Len(s) + 2 .. Len(told) : told[i] = "skipped"
  BY <1>1, <1>3, <1>4
<1> QED
  BY <1>1, <1>3, <1>5, <1>6

LEMMA StepEndsTells ==
  ASSUME Typed, NEW t \in Tasks, NEW status \in {"succeeded", "failed"}, StepEnds(t, status),
         NEW n \in Nat, Len(outcomes[t]) + 1 = n, n <= Len(plan[t])
  PROVE  \E told :
           /\ TellsEnd(t, n, status, told)
           /\ outcomes' = [outcomes EXCEPT ![t] = told]
           /\ phase' = [phase EXCEPT ![t] =
                IF Len(told) = Len(plan[t]) THEN "judging" ELSE BeginsWith(plan[t][n + 1])]
<1>1. /\ Len(outcomes[t]) \in Nat /\ n \in Nat /\ Len(plan[t]) \in Nat /\ Len(plan[t]) - n \in Nat
      /\ outcomes[t] \in Seq(Status) /\ status \in Status
  BY Lengths DEF Typed, Status
<1>2. PICK told :
        /\ told = IF status = "failed" /\ ~Step(t).optional
                  THEN Append(outcomes[t], status) \o [i \in 1 .. Len(plan[t]) - n |-> "skipped"]
                  ELSE Append(outcomes[t], status)
        /\ outcomes' = [outcomes EXCEPT ![t] = told]
        /\ phase' = [phase EXCEPT ![t] =
             IF Len(told) = Len(plan[t]) THEN "judging" ELSE BeginsWith(plan[t][n + 1])]
  <2> DEFINE told == IF status = "failed" /\ ~Step(t).optional
                     THEN Append(outcomes[t], status) \o [i \in 1 .. Len(plan[t]) - n |-> "skipped"]
                     ELSE Append(outcomes[t], status)
  <2>1. /\ outcomes' = [outcomes EXCEPT ![t] = told]
        /\ phase' = [phase EXCEPT ![t] =
             IF Len(told) = Len(plan[t]) THEN "judging" ELSE BeginsWith(plan[t][n + 1])]
    BY DEF StepEnds, Enters
  <2> HIDE DEF told
  <2>2. PICK w : w = told
    OBVIOUS
  <2>3. w = IF status = "failed" /\ ~Step(t).optional
            THEN Append(outcomes[t], status) \o [i \in 1 .. Len(plan[t]) - n |-> "skipped"]
            ELSE Append(outcomes[t], status)
    BY <2>2 DEF told
  <2> QED
    BY <2>1, <2>2, <2>3
<1>3. TellsEnd(t, n, status, told)
  <2>1. CASE status = "failed" /\ ~Step(t).optional
    <3>0. told = Append(outcomes[t], status) \o [i \in 1 .. Len(plan[t]) - n |-> "skipped"]
      BY <1>2, <2>1
    <3>1. PICK k \in Nat : Len(plan[t]) - n = k
      BY <1>1
    <3>2. PICK s \in Seq(Status) : outcomes[t] = s
      BY <1>1
    <3>3. PICK skipped \in Seq(Status) :
            /\ skipped = [i \in 1 .. k |-> "skipped"]
            /\ Len(skipped) = k /\ \A i \in 1 .. k : skipped[i] = "skipped"
      <4> DEFINE skipped == [i \in 1 .. k |-> "skipped"]
      <4>1. skipped \in Seq(Status) /\ Len(skipped) = k /\ \A i \in 1 .. k : skipped[i] = "skipped"
        BY DEF Status
      <4>2. skipped = [i \in 1 .. k |-> "skipped"]
        OBVIOUS
      <4> HIDE DEF skipped
      <4> QED
        BY <4>1, <4>2
    <3>4. told = Append(s, status) \o skipped
      BY <3>0, <3>1, <3>2, <3>3
    <3>5. /\ told \in Seq(Status) /\ Len(told) = Len(s) + 1 + k
          /\ \A i \in 1 .. Len(s) : told[i] = s[i]
          /\ told[Len(s) + 1] = status
          /\ \A i \in Len(s) + 2 .. Len(told) : told[i] = "skipped"
      BY <1>1, <3>3, <3>4, Padded
    <3>6. Len(s) \in Nat /\ Len(told) = Len(s) + 1 + k /\ Len(s) + 1 = n
      BY <3>2, <3>5
    <3>7. Len(told) = Len(plan[t]) /\ n + 1 = Len(s) + 2
      BY <1>1, <3>1, <3>6
    <3>8. told[n] = status /\ \A i \in n + 1 .. Len(told) : told[i] = "skipped"
      BY <3>5, <3>6, <3>7
    <3>9. \A i \in 1 .. Len(outcomes[t]) : told[i] = outcomes[t][i]
      BY <3>2, <3>5
    <3>10. told \in Seq(Status) /\ n <= Len(told)
      BY <3>5, <3>6
    <3> QED
      BY <3>7, <3>8, <3>9, <3>10 DEF TellsEnd
  <2>2. CASE ~(status = "failed" /\ ~Step(t).optional)
    <3>1. told = Append(outcomes[t], status)
      BY <1>2, <2>2
    <3> QED
      BY <1>1, <3>1 DEF TellsEnd
  <2> QED
    BY <2>1, <2>2
<1> QED
  BY <1>2, <1>3

\* A step that ends where it can keeps what is booked.
LEMMA StepEndsKeeps ==
  ASSUME IInv, NEW t \in Tasks, NEW status \in {"succeeded", "failed"}, StepEnds(t, status),
         phase[t] \in {"reviewing", "thinking"} \union Acting,
         UNCHANGED <<plan, agent, left, report, undone, before, strayed, intact>>,
         undo'[t] \in Seq(Capture), Len(undo'[t]) = Len(outcomes[t]) + 1,
         \A i \in 1 .. Len(outcomes[t]) : undo'[t][i] = undo[t][i],
         undo'[t][Len(outcomes[t]) + 1] # NoUndo => OnFile(Step(t)),
         applied'[t] = IF status = "succeeded" /\ IsEffect(Step(t))
                       THEN applied[t] \union {Len(outcomes[t]) + 1} ELSE applied[t]
  PROVE  /\ outcomes' \in [Tasks -> Seq(Status)]
         /\ phase' \in [Tasks -> Running \union {"waiting", "done"}]
         /\ \A d \in Tasks \ {t} : outcomes'[d] = outcomes[d] /\ phase'[d] = phase[d] /\ seen'[d] = seen[d]
         /\ seen' \in [Tasks -> Capture]
         /\ phase'[t] \in {"reviewing", "thinking", "judging"}
         /\ undone[t] = {}
         /\ Placed(t)' /\ Booked(t)' /\ Ordered(t)' /\ Tells(t)'
<1> SUFFICES ASSUME NEW n, Len(outcomes[t]) + 1 = n
             PROVE  /\ outcomes' \in [Tasks -> Seq(Status)]
                    /\ phase' \in [Tasks -> Running \union {"waiting", "done"}]
                    /\ \A d \in Tasks \ {t} :
                         outcomes'[d] = outcomes[d] /\ phase'[d] = phase[d] /\ seen'[d] = seen[d]
                    /\ seen' \in [Tasks -> Capture]
                    /\ phase'[t] \in {"reviewing", "thinking", "judging"}
                    /\ undone[t] = {}
                    /\ Placed(t)' /\ Booked(t)' /\ Ordered(t)' /\ Tells(t)'
  OBVIOUS
<1>1. /\ Len(outcomes[t]) \in Nat /\ n \in Nat /\ n <= Len(plan[t])
      /\ Len(plan[t]) \in Nat /\ undone[t] = {} /\ report[t] = NoReport /\ agent[t] # NoAgent
  BY Lengths DEF IInv, TaskInv, Placed, Acting, Running
<1>2. PICK told :
        /\ TellsEnd(t, n, status, told)
        /\ outcomes' = [outcomes EXCEPT ![t] = told]
        /\ phase' = [phase EXCEPT ![t] =
                IF Len(told) = Len(plan[t]) THEN "judging" ELSE BeginsWith(plan[t][n + 1])]
  BY <1>1, StepEndsTells DEF IInv
<1>3. /\ outcomes' \in [Tasks -> Seq(Status)] /\ outcomes'[t] = told
      /\ \A d \in Tasks \ {t} : outcomes'[d] = outcomes[d]
  BY <1>2 DEF IInv, Typed, TellsEnd
<1>4. seen' \in [Tasks -> Capture] /\ \A d \in Tasks \ {t} : seen'[d] = seen[d]
  BY DEF StepEnds, IInv, Typed, Capture
<1>5. /\ phase' \in [Tasks -> Running \union {"waiting", "done"}]
      /\ \A d \in Tasks \ {t} : phase'[d] = phase[d]
      /\ \/ phase'[t] = "judging" /\ Len(told) = Len(plan[t])
         \/ /\ phase'[t] = BeginsWith(plan[t][n + 1])
            /\ phase'[t] \in {"reviewing", "thinking"}
            /\ Len(told) = n /\ n < Len(plan[t])
  BY <1>1, <1>2 DEF IInv, Typed, BeginsWith, Running, TellsEnd
<1>6. /\ told \in Seq(Status) /\ DOMAIN told = 1 .. Len(told) /\ Len(told) \in Nat
      /\ DOMAIN undo'[t] = 1 .. n
      /\ n <= Len(told) /\ Len(told) <= Len(plan[t])
      /\ \A i \in 1 .. Len(outcomes[t]) : told[i] = outcomes[t][i]
      /\ told[n] = status
      /\ \A i \in n + 1 .. Len(told) : told[i] = "skipped"
  BY <1>1, <1>2 DEF TellsEnd
<1>7. Step(t) = plan[t][n]
  BY DEF Step
<1>8. Placed(t)'
  <2>1. phase'[t] \in {"reviewing", "thinking"} =>
          /\ Step(t)' = plan[t][n + 1]
          /\ phase'[t] = IF IsEffect(plan[t][n + 1]) THEN "reviewing" ELSE "thinking"
    BY <1>3, <1>5 DEF Step, BeginsWith
  <2>2. /\ phase'[t] \in {"reviewing", "thinking"} =>
             Len(undo'[t]) = Len(told) /\ Len(told) < Len(plan[t])
        /\ phase'[t] = "judging" => Len(told) = Len(plan[t])
        /\ phase'[t] \in {"reviewing", "thinking", "judging"}
    BY <1>5
  <2> QED
    BY <1>1, <1>3, <2>1, <2>2 DEF Placed, Acting
<1>9. Booked(t)'
  <2>1. /\ applied[t] = {i \in 1 .. Len(outcomes[t]) : IsEffect(plan[t][i]) /\ outcomes[t][i] = "succeeded"}
        /\ \A i \in 1 .. Len(undo[t]) : undo[t][i] # NoUndo => OnFile(plan[t][i])
        /\ Len(outcomes[t]) <= Len(undo[t])
        /\ Len(undo[t]) \in Nat
    BY Lengths DEF IInv, TaskInv, Booked, Placed, Acting
  <2>2. \A i \in DOMAIN told : told[i] = "succeeded" => i \in 1 .. n
    <3> SUFFICES ASSUME NEW i \in 1 .. Len(told), ~(i \in 1 .. n) PROVE told[i] # "succeeded"
      BY <1>6
    <3>1. i \in n + 1 .. Len(told)
      BY <1>1, <1>6
    <3> QED
      BY <1>6, <3>1
  <2>3. \A i \in 1 .. n : undo'[t][i] # NoUndo => OnFile(plan[t][i])
    <3> SUFFICES ASSUME NEW i \in 1 .. n, undo'[t][i] # NoUndo PROVE OnFile(plan[t][i])
      OBVIOUS
    <3>1. CASE i = n
      BY <1>7, <3>1
    <3>2. CASE i # n
      <4>1. i \in 1 .. Len(outcomes[t]) /\ i \in 1 .. Len(undo[t])
        BY <1>1, <2>1, <3>2
      <4> QED
        BY <2>1, <4>1
    <3> QED
      BY <3>1, <3>2
  <2>4. \A i \in DOMAIN told : i # n /\ told[i] = "succeeded" => i \in 1 .. Len(outcomes[t])
    BY <1>1, <2>2
  <2>5. \A i \in 1 .. Len(outcomes[t]) : i \in DOMAIN told /\ i # n
    BY <1>1, <1>6
  <2>6. applied'[t] = {i \in DOMAIN told : IsEffect(plan[t][i]) /\ told[i] = "succeeded"}
    <3>1. n \in DOMAIN told
      BY <1>1, <1>6
    <3>2. ASSUME NEW i
          PROVE  i \in applied[t] <=>
                   i \in DOMAIN told /\ i # n /\ IsEffect(plan[t][i]) /\ told[i] = "succeeded"
      BY <1>6, <2>1, <2>4, <2>5
    <3> HIDE DEF IsEffect
    <3> QED
      BY <1>6, <1>7, <3>1, <3>2
  <2> QED
    BY <1>1, <1>3, <1>6, <2>2, <2>3, <2>6 DEF Booked
<1>10. Ordered(t)' /\ Tells(t)'
  BY <1>1, <1>5, Untold DEF Ordered
<1> QED
  BY <1>1, <1>3, <1>4, <1>5, <1>8, <1>9, <1>10

-----------------------------------------------------------------------------
(* The steps of a plan *)

\* A file that keeps its content and its changes remains traced.
LEMMA StaysTraced ==
  ASSUME NEW t \in Tasks, NEW f, Traced(t, f), world'[f] = world[f], plan'[t] = plan[t],
         applied'[t] = applied[t], undone'[t] = undone[t], before'[t] = before[t],
         \A i \in applied[t] : undo'[t][i] = undo[t][i]
  PROVE  Traced(t, f)'
<1>1. Touching(t, f)' = Touching(t, f) /\ Standing(t, f)' = Standing(t, f)
  BY DEF Touching, Standing
<1>2. \A i \in Touching(t, f) : undo'[t][i] = undo[t][i]
  BY DEF Touching
<1>3. \A i \in Touching(t, f) : \A content : Captures(t, i, content) => Captures(t, i, content)'
  BY <1>2 DEF Captures
<1>4. \A steps, content : LeftBy(t, f, steps, content)' <=> LeftBy(t, f, steps, content)
  BY DEF LeftBy
<1> QED
  BY <1>1, <1>2, <1>3, <1>4 DEF Traced

\* So do all files of a task that is done with a step and wrote nothing.
LEMMA CalmKempt ==
  ASSUME IInv, NEW t \in Tasks, phase[t] \in AtWork \ {"undoing"},
         phase'[t] \in {"reviewing", "thinking", "judging"},
         plan'[t] = plan[t], applied'[t] = applied[t], undone'[t] = undone[t],
         before'[t] = before[t], \A i \in applied[t] : undo'[t][i] = undo[t][i],
         t \in disturbed => t \in disturbed',
         t \notin disturbed' => \A f \in PathsOf(t) : world'[f] = world[f]
  PROVE  Kempt(t)'
<1> SUFFICES ASSUME t \notin disturbed'
             PROVE  Pending(t)' /\ \A f \in PathsOf(t)' : Traced(t, f)'
  BY DEF Kempt, Tidy
<1>1. Kempt(t) /\ Tidy(t) /\ PathsOf(t)' = PathsOf(t)
  BY DEF IInv, TaskInv, Tidy, PathsOf
<1>2. \A f \in PathsOf(t)' : Traced(t, f)'
  BY <1>1, StaysTraced DEF Kempt
<1>3. Pending(t)'
  BY DEF Pending, Acting
<1> QED
  BY <1>2, <1>3

LEMMA UndoGrows ==
  ASSUME Typed, NEW t \in Tasks, NEW c \in Capture, undo' = [undo EXCEPT ![t] = Append(@, c)],
         Len(undo[t]) = Len(outcomes[t])
  PROVE  /\ undo' \in [Tasks -> Seq(Capture)]
         /\ undo'[t] \in Seq(Capture) /\ Len(undo'[t]) = Len(outcomes[t]) + 1
         /\ \A i \in 1 .. Len(outcomes[t]) : undo'[t][i] = undo[t][i]
         /\ undo'[t][Len(outcomes[t]) + 1] = c
         /\ \A d \in Tasks \ {t} : undo'[d] = undo[d]
<1>1. /\ undo \in [Tasks -> Seq(Capture)] /\ undo[t] \in Seq(Capture)
      /\ Len(undo[t]) \in Nat /\ undo'[t] = Append(undo[t], c)
  BY DEF Typed
<1>2. Append(undo[t], c) \in Seq(Capture)
  BY <1>1
<1> QED
  BY <1>1, <1>2

\* What is captured of a step: what it is about to change, if that can be put back.
LEMMA CapturedContent ==
  ASSUME Typed, NEW t \in Tasks, NEW i \in 1 .. Len(plan[t])
  PROVE  /\ Captured(plan[t][i]) \in Capture
         /\ Captured(plan[t][i]) # NoUndo =>
              /\ OnFile(plan[t][i])
              /\ \/ Captured(plan[t][i]) = world[plan[t][i].path]
                 \/ /\ Captured(plan[t][i]) = Idle /\ world[plan[t][i].path] = Absent
                    /\ plan[t][i].content = Absent
<1>1. OnFile(plan[t][i]) =>
        /\ plan[t][i].path \in Paths
        /\ plan[t][i].kind = "delete" => plan[t][i].content = Absent
  BY Lengths DEF Typed, WellMade
<1>2. world \in [Paths -> Contents]
  BY DEF Typed
<1> HIDE DEF OnFile
<1> QED
  BY <1>1, <1>2 DEF Captured, Capture

\* A step that ends without an effect.
LEMMA QuietEndKeeps ==
  ASSUME IInv, NEW t \in Tasks, NEW status \in {"succeeded", "failed"}, StepEnds(t, status),
         ~(status = "succeeded" /\ IsEffect(Step(t))),
         phase[t] \in {"reviewing", "thinking"} \union Acting,
         UNCHANGED <<world, orphans, agent, plan, left, intact, report, applied, undone,
                     before, disturbed, strayed>>,
         undo' \in [Tasks -> Seq(Capture)], \A d \in Tasks \ {t} : undo'[d] = undo[d],
         Len(undo'[t]) = Len(outcomes[t]) + 1,
         \A i \in 1 .. Len(outcomes[t]) : undo'[t][i] = undo[t][i],
         undo'[t][Len(outcomes[t]) + 1] # NoUndo => OnFile(Step(t))
  PROVE  Keeps(t)
<1>1. /\ outcomes' \in [Tasks -> Seq(Status)]
      /\ phase' \in [Tasks -> Running \union {"waiting", "done"}]
      /\ \A d \in Tasks \ {t} : outcomes'[d] = outcomes[d] /\ phase'[d] = phase[d] /\ seen'[d] = seen[d]
      /\ seen' \in [Tasks -> Capture]
      /\ phase'[t] \in {"reviewing", "thinking", "judging"}
      /\ Placed(t)' /\ Booked(t)' /\ Ordered(t)' /\ Tells(t)'
  <2>1. applied'[t] = IF status = "succeeded" /\ IsEffect(Step(t))
                      THEN applied[t] \union {Len(outcomes[t]) + 1} ELSE applied[t]
    OBVIOUS
  <2>2. undo'[t] \in Seq(Capture)
    OBVIOUS
  <2> QED
    BY <2>1, <2>2, StepEndsKeeps
<1>2. Kempt(t)'
  <2>1. applied[t] \subseteq 1 .. Len(outcomes[t])
    BY Lengths DEF IInv, TaskInv, Booked
  <2> QED
    BY <1>1, <2>1, CalmKempt DEF AtWork, Running, Acting
<1>3. Typed'
  BY <1>1 DEF IInv, Typed
<1>4. \A d \in Tasks \ {t} : Apart(d)
  BY <1>1 DEF Apart, Same
<1> QED
  BY <1>1, <1>2, <1>3, <1>4 DEF Keeps, TaskInv

LEMMA ThoughtKeeps ==
  ASSUME IInv, NEW t \in Tasks, Thought(t)
  PROVE  Keeps(t)
<1>1. PICK status \in Thoughts[agent[t]] : StepEnds(t, status)
  BY DEF Thought
<1>2. /\ phase[t] = "thinking" /\ undo' = [undo EXCEPT ![t] = Append(@, NoUndo)]
      /\ UNCHANGED <<world, orphans, agent, plan, left, intact, report, applied, undone,
                     before, disturbed, strayed>>
  BY DEF Thought, historyVars
<1>3. Len(undo[t]) = Len(outcomes[t]) /\ ~IsEffect(Step(t)) /\ agent[t] # NoAgent
  BY <1>2 DEF IInv, TaskInv, Placed, Running
<1>4. status \in {"succeeded", "failed"}
  <2>1. agent[t] \in Range(Roster)
    BY <1>3 DEF IInv, Typed
  <2> QED
    BY <1>1, <2>1, AgentsAssumption
<1>5. /\ undo' \in [Tasks -> Seq(Capture)] /\ Len(undo'[t]) = Len(outcomes[t]) + 1
      /\ \A i \in 1 .. Len(outcomes[t]) : undo'[t][i] = undo[t][i]
      /\ undo'[t][Len(outcomes[t]) + 1] = NoUndo
      /\ \A d \in Tasks \ {t} : undo'[d] = undo[d]
  BY <1>2, <1>3, UndoGrows DEF IInv, Capture
<1>6. phase[t] \in {"reviewing", "thinking"} \union Acting
  BY <1>2
<1>7. ~(status = "succeeded" /\ IsEffect(Step(t)))
  BY <1>3
<1> QED
  BY <1>1, <1>2, <1>4, <1>5, <1>6, <1>7, QuietEndKeeps

\* The review captures what is there, before the engine prepares the action.
LEMMA ReviewedKeeps ==
  ASSUME IInv, NEW t \in Tasks, Reviewed(t)
  PROVE  Keeps(t)
<1>1. /\ phase[t] = "reviewing" /\ undo' = [undo EXCEPT ![t] = Append(@, Captured(Step(t)))]
      /\ UNCHANGED <<world, orphans, agent, plan, left, intact, report, applied, undone,
                     before, disturbed, strayed>>
  BY DEF Reviewed, historyVars
<1>2. /\ Len(undo[t]) = Len(outcomes[t]) /\ Len(outcomes[t]) < Len(plan[t])
      /\ IsEffect(Step(t)) /\ agent[t] # NoAgent /\ undone[t] = {} /\ report[t] = NoReport
  BY <1>1 DEF IInv, TaskInv, Placed, Running
<1>3. PICK n \in 1 .. Len(plan[t]) : Len(outcomes[t]) + 1 = n
  BY <1>2, Lengths DEF IInv
<1>4. Step(t) = plan[t][n]
  BY <1>3 DEF Step
<1>5. /\ Captured(Step(t)) \in Capture
      /\ Captured(Step(t)) # NoUndo =>
           /\ OnFile(Step(t))
           /\ \/ Captured(Step(t)) = world[Step(t).path]
              \/ /\ Captured(Step(t)) = Idle /\ world[Step(t).path] = Absent
                 /\ plan[t][n].content = Absent
  BY <1>4, CapturedContent DEF IInv
<1>6. /\ undo' \in [Tasks -> Seq(Capture)] /\ Len(undo'[t]) = Len(outcomes[t]) + 1
      /\ \A i \in 1 .. Len(outcomes[t]) : undo'[t][i] = undo[t][i]
      /\ undo'[t][Len(outcomes[t]) + 1] = Captured(Step(t))
      /\ \A d \in Tasks \ {t} : undo'[d] = undo[d]
  BY <1>1, <1>2, <1>5, UndoGrows DEF IInv
<1>7. CASE StepEnds(t, "failed")
  <2>1. phase[t] \in {"reviewing", "thinking"} \union Acting
    BY <1>1
  <2>2. undo'[t][Len(outcomes[t]) + 1] # NoUndo => OnFile(Step(t))
    BY <1>5, <1>6
  <2> QED
    BY <1>1, <1>6, <1>7, <2>1, <2>2, QuietEndKeeps
<1>8. CASE Enters(t, "preparing") /\ UNCHANGED <<outcomes, seen>>
  <2>1. /\ phase' \in [Tasks -> Running \union {"waiting", "done"}] /\ phase'[t] = "preparing"
        /\ \A d \in Tasks \ {t} : phase'[d] = phase[d]
    BY <1>8 DEF Enters, IInv, Typed, Running
  <2>2. Typed'
    BY <1>1, <1>6, <1>8, <2>1 DEF IInv, Typed
  <2>3. \A d \in Tasks \ {t} : Apart(d)
    BY <1>1, <1>6, <1>8, <2>1 DEF Apart, Same
  <2>4. Step(t)' = Step(t) /\ PathsOf(t)' = PathsOf(t)
    BY <1>1, <1>8 DEF Step, PathsOf
  <2>5. Placed(t)'
    BY <1>1, <1>2, <1>6, <1>8, <2>1, <2>4 DEF Placed, Acting, Running
  <2>6. Booked(t)'
    <3>1. /\ DOMAIN undo[t] = 1 .. Len(outcomes[t]) /\ DOMAIN undo'[t] = 1 .. n
          /\ Len(outcomes[t]) \in Nat /\ Len(undo'[t]) = n
      BY <1>2, <1>3, <1>6, <2>2, Lengths DEF IInv, Typed
    <3>2. \A i \in 1 .. n : i = n \/ i \in 1 .. Len(outcomes[t])
      BY <1>3, <3>1
    <3>3. \A i \in DOMAIN undo'[t] : undo'[t][i] # NoUndo => OnFile(plan[t][i])
      BY <1>3, <1>4, <1>5, <1>6, <3>1, <3>2 DEF IInv, TaskInv, Booked
    <3>4. DOMAIN undo[t] \subseteq DOMAIN undo'[t]
      BY <1>3, <3>1
    <3> QED
      BY <1>1, <1>2, <1>3, <1>8, <3>1, <3>3, <3>4 DEF IInv, TaskInv, Booked
  <2>7. Ordered(t)' /\ Tells(t)'
    BY <1>1, <1>2, <2>1, Untold DEF Ordered
  <2>8. Kempt(t)'
    <3> SUFFICES ASSUME t \notin disturbed'
                 PROVE  Pending(t)' /\ \A f \in PathsOf(t) : Traced(t, f)'
      BY <2>4 DEF Kempt, Tidy
    <3>1. \A f \in PathsOf(t) : Traced(t, f)
      BY <1>1 DEF IInv, TaskInv, Kempt, Tidy, AtWork, Running
    <3>2. applied[t] \subseteq 1 .. Len(outcomes[t])
      BY Lengths DEF IInv, TaskInv, Booked
    <3>3. \A f \in PathsOf(t) : Traced(t, f)'
      BY <1>1, <1>6, <3>1, <3>2, StaysTraced
    <3>4. Pending(t)'
      <4>1. undo'[t][n] # NoUndo => Captures(t, n, world[Step(t).path])'
        BY <1>1, <1>3, <1>5, <1>6, <2>4 DEF Captures
      <4> QED
        BY <1>1, <1>3, <1>8, <2>4, <4>1 DEF Pending
    <3> QED
      BY <3>3, <3>4
  <2> QED
    BY <2>2, <2>3, <2>5, <2>6, <2>7, <2>8 DEF Keeps, TaskInv
<1> QED
  BY <1>7, <1>8 DEF Reviewed

\* A task that goes on with its effect, on its way through the engine.
LEMMA GoesOnKeeps ==
  ASSUME IInv, NEW t \in Tasks, phase[t] \in Acting, NEW where \in Acting, Enters(t, where),
         UNCHANGED <<world, orphans, agent, plan, outcomes, undo, left, intact, report,
                     applied, undone, before, disturbed, strayed>>,
         seen' \in [Tasks -> Capture]
  PROVE  Keeps(t)
<1>1. /\ phase' \in [Tasks -> Running \union {"waiting", "done"}] /\ phase'[t] = where
      /\ \A d \in Tasks \ {t} : phase'[d] = phase[d]
  BY DEF Enters, IInv, Typed, Running, Acting
<1>2. Typed'
  BY <1>1 DEF IInv, Typed
<1>3. \A d \in Tasks \ {t} : Apart(d)
  BY <1>1 DEF Apart, Same
<1>4. Step(t)' = Step(t) /\ PathsOf(t)' = PathsOf(t)
  BY DEF Step, PathsOf
<1>5. Placed(t)' /\ Booked(t)'
  BY <1>1, <1>4 DEF IInv, TaskInv, Placed, Acting, Running, Booked, Reversible
<1>6. Ordered(t)' /\ Tells(t)'
  <2>1. report[t] = NoReport
    BY DEF IInv, TaskInv, Placed, Acting
  <2> QED
    BY <1>1, <2>1, Untold DEF Ordered, Acting
<1>7. Kempt(t)'
  <2> SUFFICES ASSUME t \notin disturbed
               PROVE  Pending(t)' /\ \A f \in PathsOf(t) : Traced(t, f)'
    BY <1>4 DEF Kempt, Tidy
  <2>1. Pending(t) /\ \A f \in PathsOf(t) : Traced(t, f)
    BY DEF IInv, TaskInv, Kempt, Tidy, AtWork, Running, Acting
  <2>2. \A f \in PathsOf(t) : Traced(t, f)'
    BY <2>1, StaysTraced
  <2>3. Pending(t)'
    BY <1>1, <1>4, <2>1 DEF Pending, Captures
  <2> QED
    BY <2>2, <2>3
<1> QED
  BY <1>2, <1>3, <1>5, <1>6, <1>7 DEF Keeps, TaskInv

LEMMA PreparedKeeps ==
  ASSUME IInv, NEW t \in Tasks, Prepared(t)
  PROVE  Keeps(t)
<1>1. Len(outcomes[t]) + 1 \in 1 .. Len(plan[t])
  BY Lengths DEF IInv, TaskInv, Placed, Prepared, Acting
<1>2. Captured(Step(t)) \in Capture
  BY <1>1, CapturedContent DEF IInv, Step
<1>3. seen' \in [Tasks -> Capture]
  BY <1>2 DEF Prepared, IInv, Typed
<1> QED
  BY <1>3, GoesOnKeeps DEF Prepared, historyVars, Acting

LEMMA DecidedKeeps ==
  ASSUME IInv, NEW t \in Tasks, Decided(t)
  PROVE  Keeps(t)
<1>1. /\ phase[t] = "deciding" /\ phase[t] \in Acting
      /\ UNCHANGED <<world, orphans, agent, plan, undo, left, intact, report, applied, undone,
                     before, disturbed, strayed>>
  BY DEF Decided, historyVars, Acting
<1>2. CASE Enters(t, "writing") /\ UNCHANGED <<outcomes, seen>>
  BY <1>1, <1>2, GoesOnKeeps DEF IInv, Typed, Acting
<1>3. CASE StepEnds(t, "failed")
  <2>1. undo' \in [Tasks -> Seq(Capture)] /\ Len(undo'[t]) = Len(outcomes[t]) + 1
    BY <1>1 DEF IInv, Typed, TaskInv, Placed
  <2>2. undo'[t][Len(outcomes[t]) + 1] # NoUndo => OnFile(Step(t))
    <3>1. Len(outcomes[t]) + 1 \in DOMAIN undo[t]
      BY <1>1, Lengths DEF IInv, TaskInv, Placed
    <3> QED
      BY <1>1, <3>1 DEF IInv, TaskInv, Booked, Step
  <2> QED
    BY <1>1, <1>3, <2>1, <2>2, QuietEndKeeps
<1> QED
  BY <1>2, <1>3 DEF Decided

-----------------------------------------------------------------------------
(* Writes *)

LEMMA PathsAmong ==
  ASSUME Typed, NEW t \in Tasks
  PROVE  PathsOf(t) \subseteq Paths
BY DEF Typed, WellMade, PathsOf

LEMMA StepOnFile ==
  ASSUME IInv, NEW t \in Tasks, phase[t] \in Acting, OnFile(Step(t))
  PROVE  Step(t).path \in PathsOf(t) /\ Step(t).path \in Paths /\ Step(t).content \in Contents
<1>1. Len(outcomes[t]) + 1 \in DOMAIN plan[t]
  BY Lengths DEF IInv, TaskInv, Placed
<1>2. WellMade(plan[t])
  BY DEF IInv, Typed
<1> QED
  BY <1>1, <1>2 DEF Step, PathsOf, WellMade

LEMMA WritesDisturb ==
  ASSUME Typed, NEW t \in Tasks, NEW path \in Paths, NEW content \in Contents,
         Writes(t, path, content)
  PROVE  /\ world' \in [Paths -> Contents] /\ world'[path] = content
         /\ \A f \in Paths \ {path} : world'[f] = world[f]
         /\ t \in disturbed' <=> t \in disturbed
         /\ \A d \in Tasks \ {t} :
              /\ d \in disturbed => d \in disturbed'
              /\ InRun(d) /\ d \notin disturbed' => \A f \in PathsOf(d) : world'[f] = world[f]
<1>1. \A d \in Tasks : PathsOf(d) \subseteq Paths
  BY PathsAmong
<1>2. /\ world' \in [Paths -> Contents] /\ world'[path] = content
      /\ \A f \in Paths \ {path} : world'[f] = world[f]
  BY DEF Typed, Writes
<1> QED
  BY <1>1, <1>2 DEF Writes

LEMMA FailedWriteDisturbs ==
  ASSUME Typed, NEW t \in Tasks, NEW path \in Paths, NEW contents, contents \subseteq Contents,
         FailedWrite(t, path, contents)
  PROVE  /\ world' \in [Paths -> Contents]
         /\ \A d \in Tasks :
              /\ d \in disturbed => d \in disturbed'
              /\ InRun(d) /\ d \notin disturbed' => \A f \in PathsOf(d) : world'[f] = world[f]
<1>1. \A d \in Tasks : PathsOf(d) \subseteq Paths
  BY PathsAmong
<1>2. PICK content \in contents \union {world[path], Torn} :
        /\ world' = [world EXCEPT ![path] = content]
        /\ disturbed' = disturbed \union
             {d \in Tasks : InRun(d) /\ path \in PathsOf(d) /\ content # world[path]}
  BY DEF FailedWrite
<1>3. content \in Contents
  BY AgentsAssumption DEF Typed
<1>4. world' \in [Paths -> Contents] /\ \A f \in Paths \ {path} : world'[f] = world[f]
  BY <1>2, <1>3 DEF Typed
<1>5. world'[path] = content
  BY <1>2 DEF Typed
<1> QED
  BY <1>1, <1>2, <1>4, <1>5

\* The last change of a file is traced to the one before it.
LEMMA WriteTraced ==
  ASSUME IInv, NEW t \in Tasks, phase[t] = "writing", OnFile(Step(t)),
         NEW n, Len(outcomes[t]) + 1 = n, NEW f, Step(t).path = f, Kempt(t), Tidy(t),
         UNCHANGED <<plan, undo, undone, before>>,
         applied'[t] = applied[t] \union {n},
         world'[f] = Step(t).content
  PROVE  Traced(t, f)'
<1>1. /\ n \in Nat /\ n \in DOMAIN plan[t] /\ undone[t] = {} /\ Step(t) = plan[t][n]
      /\ \A i \in applied[t] : i \in Nat /\ i < n
  BY Lengths DEF IInv, TaskInv, Placed, Booked, Acting, Step
<1>2. f \in PathsOf(t) /\ f \in Paths
  BY StepOnFile DEF Acting
<1>3. Traced(t, f) /\ (undo[t][n] # NoUndo => Captures(t, n, world[f]))
  BY <1>2 DEF Kempt, Tidy, Pending, Acting
<1>4. /\ Touching(t, f)' = Touching(t, f) \union {n} /\ Standing(t, f)' = Touching(t, f)'
      /\ Standing(t, f) = Touching(t, f)
      /\ \A i \in Touching(t, f) : i \in Nat /\ i < n
  BY <1>1 DEF Touching, Standing
<1> SUFFICES ASSUME \A i \in Touching(t, f)' : undo[t][i] # NoUndo
             PROVE  /\ LeftBy(t, f, Standing(t, f), world[f])'
                    /\ \A i \in Touching(t, f)' : \E content \in Contents :
                         /\ Captures(t, i, content)'
                         /\ LeftBy(t, f, {j \in Touching(t, f) : j < i}, content)'
  BY DEF Traced
<1>5. /\ LeftBy(t, f, Touching(t, f), world[f])
      /\ \A i \in Touching(t, f) : \E content \in Contents :
           /\ Captures(t, i, content)
           /\ LeftBy(t, f, {j \in Touching(t, f) : j < i}, content)
      /\ Captures(t, n, world[f])
  BY <1>3, <1>4 DEF Traced
<1>6. \A i, content : Captures(t, i, content)' <=> Captures(t, i, content)
  BY DEF Captures
<1>7. \A i \in Nat : \A content : LeftBy(t, f, {j \in Touching(t, f)' : j < i}, content) =>
                              LeftBy(t, f, {j \in Touching(t, f) : j < i}, content)'
  BY DEF LeftBy
<1>8. LeftBy(t, f, Standing(t, f), world[f])'
  <2>1. ASSUME NEW i \in Touching(t, f)', \A j \in Touching(t, f)' : j <= i PROVE i = n
    <3>1. n <= i
      BY <1>4, <2>1
    <3>2. i \in Touching(t, f) => ~(n <= i)
      BY <1>1, <1>4
    <3> QED
      BY <1>4, <3>1, <3>2
  <2>2. n \in Touching(t, f)' /\ world'[f] = plan'[t][n].content
    BY <1>1, <1>4
  <2> QED
    BY <1>4, <2>1, <2>2 DEF LeftBy
<1>9. ASSUME NEW i \in Touching(t, f)'
      PROVE  \E content \in Contents :
               /\ Captures(t, i, content)
               /\ LeftBy(t, f, {j \in Touching(t, f)' : j < i}, content)
  <2>1. CASE i = n
    <3>1. {j \in Touching(t, f)' : j < i} = Touching(t, f)
      BY <1>1, <1>4, <2>1
    <3>2. world[f] \in Contents
      BY <1>2 DEF IInv, Typed
    <3> QED
      BY <1>5, <2>1, <3>1, <3>2
  <2>2. CASE i # n
    <3>1. i \in Touching(t, f)
      BY <1>4, <2>2
    <3>2. {j \in Touching(t, f)' : j < i} = {j \in Touching(t, f) : j < i}
      BY <1>1, <1>4, <3>1
    <3> QED
      BY <1>5, <3>1, <3>2
  <2> QED
    BY <2>1, <2>2
<1>10. \A i \in Touching(t, f)' : i \in Nat
  BY <1>1, <1>4
<1>11. \A i \in Touching(t, f)' : \E content \in Contents :
         /\ Captures(t, i, content)'
         /\ LeftBy(t, f, {j \in Touching(t, f) : j < i}, content)'
  BY <1>6, <1>7, <1>9, <1>10
<1> QED
  BY <1>8, <1>11

LEMMA StillTraced ==
  ASSUME NEW t \in Tasks, NEW f, Traced(t, f), world'[f] = world[f],
         UNCHANGED <<plan, undo, undone, before>>, Touching(t, f)' = Touching(t, f)
  PROVE  Traced(t, f)'
<1>1. Standing(t, f)' = Standing(t, f)
  BY DEF Standing
<1>2. \A i, content : Captures(t, i, content)' <=> Captures(t, i, content)
  BY DEF Captures
<1>3. \A steps, content : LeftBy(t, f, steps, content)' <=> LeftBy(t, f, steps, content)
  BY DEF LeftBy
<1> QED
  BY <1>1, <1>2, <1>3 DEF Traced

\* The effect takes place, or it fails and the engine puts things right or not.
LEMMA ExecutedKeeps ==
  ASSUME IInv, NEW t \in Tasks, Executed(t)
  PROVE  Keeps(t)
<1>1. /\ phase[t] = "writing"
      /\ UNCHANGED <<orphans, agent, plan, undo, left, intact, report, undone, before, strayed>>
  BY DEF Executed
<1>2. PICK n : Len(outcomes[t]) + 1 = n
  OBVIOUS
<1>3. /\ Len(undo[t]) = n /\ Len(undo[t]) = Len(outcomes[t]) + 1 /\ n \in DOMAIN plan[t]
      /\ n \in DOMAIN undo[t] /\ n \in Nat /\ IsEffect(Step(t)) /\ Step(t) = plan[t][n]
      /\ Len(outcomes[t]) \in Nat /\ undone[t] = {}
  BY <1>1, <1>2, Lengths DEF IInv, TaskInv, Placed, Acting, Step
<1>4. undo'[t] \in Seq(Capture) /\ (undo'[t][n] # NoUndo => OnFile(Step(t)))
  <2>1. undo'[t] \in Seq(Capture)
    BY <1>1 DEF IInv, Typed
  <2>2. undo[t][n] # NoUndo => OnFile(plan[t][n])
    BY <1>3 DEF IInv, TaskInv, Booked
  <2> QED
    BY <1>1, <1>3, <2>1, <2>2
<1>5. OnFile(Step(t)) =>
        Step(t).path \in PathsOf(t) /\ Step(t).path \in Paths /\ Step(t).content \in Contents
  BY <1>1, StepOnFile DEF Acting
<1>6. ASSUME NEW status \in {"succeeded", "failed"}, StepEnds(t, status),
             applied' = [applied EXCEPT ![t] = IF status = "succeeded" THEN @ \union {n} ELSE @],
             world' \in [Paths -> Contents],
             \A d \in Tasks \ {t} :
               /\ d \in disturbed => d \in disturbed'
               /\ InRun(d) /\ d \notin disturbed' => \A f \in PathsOf(d) : world'[f] = world[f],
             Kempt(t)'
      PROVE  Keeps(t)
  <2>1. /\ applied'[t] = IF status = "succeeded" THEN applied[t] \union {n} ELSE applied[t]
        /\ applied' \in [Tasks -> SUBSET Nat]
        /\ \A d \in Tasks \ {t} : applied'[d] = applied[d]
    BY <1>3, <1>6 DEF IInv, Typed
  <2>2. applied'[t] = IF status = "succeeded" /\ IsEffect(Step(t))
                      THEN applied[t] \union {Len(outcomes[t]) + 1} ELSE applied[t]
    BY <1>2, <1>3, <2>1
  <2>3. phase[t] \in {"reviewing", "thinking"} \union Acting
    BY <1>1 DEF Acting
  <2>4. undo'[t][Len(outcomes[t]) + 1] # NoUndo => OnFile(Step(t))
    BY <1>2, <1>4
  <2>5. Len(undo'[t]) = Len(outcomes[t]) + 1 /\ \A i \in 1 .. Len(outcomes[t]) : undo'[t][i] = undo[t][i]
    BY <1>1, <1>3
  <2>6. UNCHANGED <<plan, agent, left, report, undone, before, strayed, intact>>
    BY <1>1
  <2>7. /\ outcomes' \in [Tasks -> Seq(Status)]
        /\ phase' \in [Tasks -> Running \union {"waiting", "done"}]
        /\ \A d \in Tasks \ {t} : outcomes'[d] = outcomes[d] /\ phase'[d] = phase[d] /\ seen'[d] = seen[d]
        /\ seen' \in [Tasks -> Capture]
        /\ Placed(t)' /\ Booked(t)' /\ Ordered(t)' /\ Tells(t)'
    BY <1>4, <1>6, <2>2, <2>3, <2>4, <2>5, <2>6, StepEndsKeeps
  <2>8. Typed'
    BY <1>1, <1>6, <2>1, <2>7 DEF IInv, Typed
  <2>9. \A d \in Tasks \ {t} : Apart(d)
    BY <1>1, <1>6, <2>1, <2>7 DEF Apart, Same
  <2> QED
    BY <1>6, <2>7, <2>8, <2>9 DEF Keeps, TaskInv
<1>7. ASSUME NEW status \in {"succeeded", "failed"}, StepEnds(t, status)
      PROVE  phase'[t] \in {"reviewing", "thinking", "judging"}
  BY <1>7 DEF StepEnds, Enters, BeginsWith, IInv, Typed
<1>8. CASE /\ IF OnFile(Step(t)) THEN Writes(t, Step(t).path, Step(t).content)
              ELSE UNCHANGED <<world, disturbed>>
           /\ applied' = [applied EXCEPT ![t] = @ \union {Len(outcomes[t]) + 1}]
           /\ StepEnds(t, "succeeded")
  <2>1. applied'[t] = applied[t] \union {n}
    BY <1>2, <1>8 DEF IInv, Typed
  <2>2. phase'[t] \in {"reviewing", "thinking", "judging"}
    BY <1>7, <1>8
  <2>3. UNCHANGED <<plan, undo, undone, before>> /\ PathsOf(t)' = PathsOf(t)
    BY <1>1 DEF PathsOf
  <2>4. CASE OnFile(Step(t))
    <3>1. PICK path \in Paths : Step(t).path = path
      BY <1>5, <2>4
    <3>2. /\ world' \in [Paths -> Contents] /\ world'[path] = Step(t).content
          /\ \A f \in Paths \ {path} : world'[f] = world[f]
          /\ t \in disturbed' <=> t \in disturbed
          /\ \A d \in Tasks \ {t} :
               /\ d \in disturbed => d \in disturbed'
               /\ InRun(d) /\ d \notin disturbed' => \A f \in PathsOf(d) : world'[f] = world[f]
      <4>1. PICK content \in Contents : Step(t).content = content
        BY <1>5, <2>4
      <4>2. Writes(t, path, content)
        BY <1>8, <2>4, <3>1, <4>1
      <4> QED
        BY <4>1, <4>2, WritesDisturb DEF IInv
    <3>3. Kempt(t)'
      <4> SUFFICES ASSUME Tidy(t)'
                   PROVE  Pending(t)' /\ \A f \in PathsOf(t) : Traced(t, f)'
        BY <2>3 DEF Kempt
      <4>1. Tidy(t) /\ Kempt(t) /\ \A f \in PathsOf(t) : Traced(t, f)
        BY <1>1, <3>2 DEF Tidy, AtWork, Running, IInv, TaskInv, Kempt
      <4>2. Traced(t, path)'
        BY <1>1, <1>2, <2>1, <2>3, <2>4, <3>1, <3>2, <4>1, WriteTraced
      <4>3. ASSUME NEW f \in PathsOf(t), f # path PROVE Traced(t, f)'
        <5>1. f \in Paths /\ world'[f] = world[f]
          BY <3>2, <4>3, PathsAmong DEF IInv
        <5>2. Touching(t, f)' = Touching(t, f)
          BY <1>1, <1>3, <2>1, <3>1, <4>3 DEF Touching
        <5> QED
          BY <2>3, <4>1, <5>1, <5>2, StillTraced
      <4>4. Pending(t)'
        BY <2>2 DEF Pending, Acting
      <4> QED
        BY <4>2, <4>3, <4>4
    <3> QED
      BY <1>2, <1>6, <1>8, <3>2, <3>3
  <2>5. CASE ~OnFile(Step(t))
    <3>1. world' = world /\ disturbed' = disturbed
      BY <1>8, <2>5
    <3>2. Kempt(t)'
      <4> SUFFICES ASSUME Tidy(t)'
                   PROVE  Pending(t)' /\ \A f \in PathsOf(t) : Traced(t, f)'
        BY <2>3 DEF Kempt
      <4>1. \A f \in PathsOf(t) : Traced(t, f)
        BY <1>1, <3>1 DEF Tidy, AtWork, Running, IInv, TaskInv, Kempt
      <4>2. \A f : Touching(t, f)' = Touching(t, f)
        BY <1>1, <1>3, <2>1, <2>5 DEF Touching
      <4>3. \A f \in PathsOf(t) : Traced(t, f)'
        BY <2>3, <3>1, <4>1, <4>2, StillTraced
      <4>4. Pending(t)'
        BY <2>2 DEF Pending, Acting
      <4> QED
        BY <4>3, <4>4
    <3>3. world' \in [Paths -> Contents]
      BY <3>1 DEF IInv, Typed
    <3> QED
      BY <1>2, <1>6, <1>8, <3>1, <3>2, <3>3
  <2> QED
    BY <2>4, <2>5
<1>9. CASE /\ IF OnFile(Step(t)) THEN FailedWrite(t, Step(t).path, {seen[t]} \intersect Contents)
              ELSE UNCHANGED <<world, disturbed>>
           /\ StepEnds(t, "failed")
           /\ UNCHANGED applied
  <2>1. /\ world' \in [Paths -> Contents]
        /\ \A d \in Tasks :
             /\ d \in disturbed => d \in disturbed'
             /\ InRun(d) /\ d \notin disturbed' => \A f \in PathsOf(d) : world'[f] = world[f]
    <3>1. CASE OnFile(Step(t))
      <4>1. PICK path \in Paths : Step(t).path = path
        BY <1>5, <3>1
      <4>2. FailedWrite(t, path, {seen[t]} \intersect Contents)
        BY <1>9, <3>1, <4>1
      <4>3. PICK contents : {seen[t]} \intersect Contents = contents
        OBVIOUS
      <4>4. contents \subseteq Contents /\ FailedWrite(t, path, contents)
        BY <4>2, <4>3
      <4> QED
        BY <4>4, FailedWriteDisturbs DEF IInv
    <3>2. CASE ~OnFile(Step(t))
      BY <1>9, <3>2 DEF IInv, Typed
    <3> QED
      BY <3>1, <3>2
  <2>2. Kempt(t)'
    <3>1. phase[t] \in AtWork \ {"undoing"} /\ InRun(t)
      BY <1>1 DEF AtWork, Running, InRun
    <3>2. phase'[t] \in {"reviewing", "thinking", "judging"}
      BY <1>7, <1>9
    <3>3. t \notin disturbed' => \A f \in PathsOf(t) : world'[f] = world[f]
      BY <2>1, <3>1
    <3> QED
      BY <1>1, <1>9, <2>1, <3>1, <3>2, <3>3, CalmKempt
  <2>3. applied' = [applied EXCEPT ![t] = applied[t]]
    BY <1>9 DEF IInv, Typed
  <2> QED
    BY <1>6, <1>9, <2>1, <2>2, <2>3
<1> QED
  BY <1>8, <1>9 DEF Executed

-----------------------------------------------------------------------------
(* The end of a task *)

LEMMA Reports ==
  ASSUME Typed, NEW t \in Tasks, NEW status, NEW told, Ends(t, status, told)
  PROVE  /\ phase'[t] = "done" /\ report'[t] = [status |-> status, told |-> told]
         /\ strayed'[t] = IF status = "rolled_back"
                          THEN {f \in Paths : world'[f] # before[t][f]} ELSE {}
BY DEF Ends, Enters, Typed

\* Whatever a task has, its report is all that changes.
LEMMA EndsKeeps ==
  ASSUME IInv, NEW t \in Tasks, NEW status, NEW told, Ends(t, status, told),
         UNCHANGED <<plan, outcomes, undo, seen, applied>>,
         world' \in [Paths -> Contents],
         \A o \in orphans' : o.path \in Paths /\ o.content \in Contents,
         agent' \in [Tasks -> Range(Roster) \union {NoAgent}],
         undone' \in [Tasks -> SUBSET Nat], undone'[t] \subseteq Reversible(t),
         \A d \in Tasks \ {t} :
           /\ agent'[d] = agent[d] /\ undone'[d] = undone[d]
           /\ d \in disturbed => d \in disturbed'
           /\ InRun(d) /\ d \notin disturbed' => \A f \in PathsOf(d) : world'[f] = world[f],
         Tells(t)'
  PROVE  Keeps(t)
<1>1. /\ phase' \in [Tasks -> Running \union {"waiting", "done"}]
      /\ left' \in [Tasks -> SUBSET Nat] /\ intact' \in [Tasks -> BOOLEAN]
      /\ before' \in [Tasks -> [Paths -> Contents]]
      /\ DOMAIN report' = Tasks /\ DOMAIN strayed' = Tasks
  <2>1. InitialWorld \in [Paths -> Contents]
    BY AgentsAssumption
  <2> QED
    BY <2>1 DEF Ends, Enters, IInv, Typed
<1>2. phase'[t] = "done"
  BY Reports DEF IInv
<1>3. \A d \in Tasks \ {t} :
        /\ phase'[d] = phase[d] /\ left'[d] = left[d] /\ intact'[d] = intact[d]
        /\ before'[d] = before[d] /\ report'[d] = report[d] /\ strayed'[d] = strayed[d]
  BY DEF Ends, Enters, IInv, Typed
<1>4. Typed'
  BY <1>1 DEF IInv, Typed
<1>5. \A d \in Tasks \ {t} : Apart(d)
  BY <1>3 DEF Apart, Same
<1>6. Placed(t)' /\ Ordered(t)' /\ Kempt(t)'
  BY <1>2 DEF Placed, Ordered, Kempt, Tidy, Acting, Running, AtWork
<1>7. Booked(t)'
  BY DEF IInv, TaskInv, Booked, Reversible
<1> QED
  BY <1>4, <1>5, <1>6, <1>7 DEF Keeps, TaskInv

\* A task that ends without a change to the files.
LEMMA QuietlyEndsKeeps ==
  ASSUME IInv, NEW t \in Tasks, NEW status, NEW told, Ends(t, status, told),
         UNCHANGED <<world, plan, outcomes, undo, seen, applied, undone, disturbed>>,
         \A o \in orphans' : o.path \in Paths /\ o.content \in Contents,
         agent' \in [Tasks -> Range(Roster) \union {NoAgent}],
         \A d \in Tasks \ {t} : agent'[d] = agent[d],
         Tells(t)'
  PROVE  Keeps(t)
<1>1. undone'[t] \subseteq Reversible(t)
  BY DEF IInv, TaskInv, Booked
<1>2. world' \in [Paths -> Contents] /\ undone' \in [Tasks -> SUBSET Nat]
  BY DEF IInv, Typed
<1> QED
  BY <1>1, <1>2, EndsKeeps

LEMMA FailsUntold ==
  ASSUME Typed, NEW t \in Tasks, Ends(t, "failed", <<>>)
  PROVE  Tells(t)'
<1>1. report'[t].status = "failed" /\ report'[t].told = <<>>
  <2>1. report'[t] = [status |-> "failed", told |-> <<>>]
    BY DEF Ends, Typed
  <2> QED
    BY <2>1
<1> QED
  BY <1>1 DEF Tells

\* The outcomes of a plan that has been gone through are those of its steps.
LEMMA BookedEffects ==
  ASSUME IInv, NEW t \in Tasks, phase[t] \in {"judging", "undoing"}
  PROVE  /\ DOMAIN outcomes[t] = DOMAIN plan[t]
         /\ applied[t] = {i \in Effects(t) : outcomes[t][i] = "succeeded"}
BY Lengths DEF IInv, TaskInv, Placed, Booked, Effects

LEMMA FailsTold ==
  ASSUME IInv, NEW t \in Tasks, phase[t] \in {"judging", "undoing"},
         Ends(t, "failed", outcomes[t]), UNCHANGED <<plan, applied>>
  PROVE  Tells(t)'
<1>1. report'[t] = [status |-> "failed", told |-> outcomes[t]]
  BY Reports DEF IInv
<1>2. PICK told : outcomes[t] = told
  OBVIOUS
<1>3. applied'[t] = {i \in Effects(t)' : told[i] = "succeeded"}
  BY <1>2, BookedEffects DEF Effects
<1> QED
  BY <1>1, <1>2, <1>3 DEF Tells

LEMMA ErrsKeeps ==
  ASSUME IInv, NEW t \in Tasks, Errs(t)
  PROVE  Keeps(t)
<1>1. /\ Ends(t, "failed", <<>>)
      /\ UNCHANGED <<world, orphans, agent, plan, outcomes, undo, seen, applied, undone, disturbed>>
  BY DEF Errs
<1>2. Tells(t)'
  BY <1>1, FailsUntold DEF IInv
<1> QED
  BY <1>1, <1>2, QuietlyEndsKeeps DEF IInv, Typed

\* Nobody hears of a task whose exception ends the batch.
LEMMA RaisesKeeps ==
  ASSUME IInv, NEW t \in Tasks, Raises(t)
  PROVE  Keeps(t)
<1>1. /\ UNCHANGED <<world, orphans, agent, plan, outcomes, undo, seen, left, intact, report,
                     applied, undone, before, disturbed, strayed>>
      /\ phase[t] \in {"planning", "judging"} /\ Enters(t, "done")
  BY DEF Raises, historyVars
<1>2. /\ phase' \in [Tasks -> Running \union {"waiting", "done"}] /\ phase'[t] = "done"
      /\ \A d \in Tasks \ {t} : phase'[d] = phase[d]
  BY <1>1 DEF Enters, IInv, Typed
<1>3. Typed'
  BY <1>1, <1>2 DEF IInv, Typed
<1>4. \A d \in Tasks \ {t} : Apart(d)
  BY <1>1, <1>2 DEF Apart, Same
<1>5. Placed(t)' /\ Ordered(t)' /\ Kempt(t)'
  BY <1>2 DEF Placed, Ordered, Kempt, Tidy, Acting, Running, AtWork
<1>6. Booked(t)'
  BY <1>1 DEF IInv, TaskInv, Booked, Reversible
<1>7. Tells(t)'
  <2>1. report'[t] = NoReport
    BY <1>1 DEF IInv, TaskInv, Placed
  <2> QED
    BY <2>1, Untold
<1> QED
  BY <1>3, <1>4, <1>5, <1>6, <1>7 DEF Keeps, TaskInv

\* The budget runs out, and the write that goes on is one of the plan or puts a
\* captured content back.
LEMMA TimesOutKeeps ==
  ASSUME IInv, NEW t \in Tasks, TimesOut(t)
  PROVE  Keeps(t)
<1>1. /\ Ends(t, "failed", <<>>) /\ InRun(t)
      /\ UNCHANGED <<world, agent, plan, outcomes, undo, seen, applied, undone, disturbed>>
  BY DEF TimesOut, MayTimeOut
<1>2. Tells(t)'
  BY <1>1, FailsUntold DEF IInv
<1>3. ASSUME NEW o \in orphans', o \notin orphans
      PROVE  o.path \in Paths /\ o.content \in Contents
  <2>1. CASE phase[t] = "writing" /\ OnFile(Step(t))
    <3>1. o = [path |-> Step(t).path, content |-> Step(t).content]
      BY <1>3, <2>1 DEF TimesOut
    <3> QED
      BY <2>1, <3>1, StepOnFile DEF Acting
  <2>2. CASE phase[t] = "undoing" /\ undo[t][NextUndone(t)] # Idle
    <3>1. PICK i : i = NextUndone(t)
      OBVIOUS
    <3>2. o = [path |-> plan[t][i].path, content |-> undo[t][i]]
      BY <1>3, <2>2, <3>1 DEF TimesOut
    <3>3. i \in DOMAIN outcomes[t] /\ outcomes[t][i] = "succeeded" /\ undo[t][i] # NoUndo
      BY <2>2, <3>1, LastIsNext DEF IInv, TaskInv, Ordered, Reversible
    <3>4. i \in DOMAIN undo[t] /\ i \in DOMAIN plan[t] /\ OnFile(plan[t][i])
      BY <2>2, <3>3, BookedEffects DEF IInv, TaskInv, Booked
    <3>5. undo[t][i] \in Capture /\ plan[t][i].path \in Paths
      <4>1. undo[t] \in Seq(Capture) /\ WellMade(plan[t])
        BY DEF IInv, Typed
      <4> QED
        BY <3>4, <4>1 DEF WellMade
    <3> QED
      BY <2>2, <3>1, <3>2, <3>3, <3>5 DEF Capture
  <2>3. CASE /\ ~(phase[t] = "writing" /\ OnFile(Step(t)))
             /\ ~(phase[t] = "undoing" /\ undo[t][NextUndone(t)] # Idle)
    BY <1>3, <2>3 DEF TimesOut
  <2> QED
    BY <2>1, <2>2, <2>3
<1>4. \A o \in orphans' : o.path \in Paths /\ o.content \in Contents
  BY <1>3 DEF IInv, Typed
<1> QED
  BY <1>1, <1>2, <1>4, QuietlyEndsKeeps DEF IInv, Typed

-----------------------------------------------------------------------------
(* The beginning of a task, and its judgement *)

LEMMA DispatchKeeps ==
  ASSUME IInv, NEW t \in Tasks, Dispatch(t)
  PROVE  Keeps(t)
<1>1. PICK chosen \in Range(Roster) \union {NoAgent} :
        /\ agent' = [agent EXCEPT ![t] = chosen]
        /\ IF chosen = NoAgent \/ Score[t][chosen] = 0
           THEN Ends(t, "rejected", <<>>)
           ELSE Enters(t, "planning") /\ UNCHANGED <<report, broken, left, intact, before, strayed>>
  BY ChosenListed DEF Dispatch
<1>2. /\ phase[t] = "waiting"
      /\ UNCHANGED <<world, orphans, plan, outcomes, undo, seen, applied, undone, disturbed>>
  BY DEF Dispatch
<1>3. /\ agent' \in [Tasks -> Range(Roster) \union {NoAgent}] /\ agent'[t] = chosen
      /\ \A d \in Tasks \ {t} : agent'[d] = agent[d]
  BY <1>1 DEF IInv, Typed
<1>4. outcomes[t] = <<>> /\ undo[t] = <<>> /\ applied[t] = {} /\ undone[t] = {} /\ report[t] = NoReport
  BY <1>2 DEF IInv, TaskInv, Placed
<1>5. CASE Ends(t, "rejected", <<>>)
  <2>1. report'[t].status = "rejected"
    <3>1. report'[t] = [status |-> "rejected", told |-> <<>>]
      BY <1>5 DEF Ends, IInv, Typed
    <3> QED
      BY <3>1
  <2>2. Tells(t)'
    BY <1>2, <1>4, <2>1 DEF Tells
  <2> QED
    BY <1>2, <1>3, <1>5, <2>2, QuietlyEndsKeeps DEF IInv, Typed
<1>6. CASE /\ Enters(t, "planning") /\ chosen # NoAgent
           /\ UNCHANGED <<report, broken, left, intact, before, strayed>>
  <2>1. /\ phase' \in [Tasks -> Running \union {"waiting", "done"}] /\ phase'[t] = "planning"
        /\ \A d \in Tasks \ {t} : phase'[d] = phase[d]
    BY <1>6 DEF Enters, IInv, Typed, Running
  <2>2. Typed'
    BY <1>2, <1>3, <1>6, <2>1 DEF IInv, Typed
  <2>3. \A d \in Tasks \ {t} : Apart(d)
    BY <1>2, <1>3, <1>6, <2>1 DEF Apart, Same
  <2>4. Placed(t)'
    BY <1>2, <1>3, <1>4, <1>6, <2>1 DEF Placed, Acting
  <2>5. Booked(t)'
    BY <1>2 DEF IInv, TaskInv, Booked, Reversible
  <2>6. Ordered(t)' /\ Kempt(t)' /\ Tells(t)'
    BY <1>4, <1>6, <2>1, Untold DEF Ordered, Kempt, Tidy, AtWork
  <2> QED
    BY <2>2, <2>3, <2>4, <2>5, <2>6 DEF Keeps, TaskInv
<1> QED
  BY <1>1, <1>5, <1>6

\* The files are as the task finds them, and it has changed none.
LEMMA PlannedKeeps ==
  ASSUME IInv, NEW t \in Tasks, Planned(t)
  PROVE  Keeps(t)
<1>1. PICK p \in Plans[t][agent[t]] :
        /\ p # <<>> /\ plan' = [plan EXCEPT ![t] = p]
        /\ phase' = [phase EXCEPT ![t] = BeginsWith(p[1])]
  BY DEF Planned, Enters
<1>2. /\ phase[t] = "planning" /\ before' = [before EXCEPT ![t] = world]
      /\ UNCHANGED <<world, orphans, agent, outcomes, undo, seen, left, intact, report,
                     applied, undone, disturbed, strayed>>
  BY DEF Planned
<1>3. /\ outcomes[t] = <<>> /\ undo[t] = <<>> /\ applied[t] = {} /\ undone[t] = {}
      /\ report[t] = NoReport /\ agent[t] # NoAgent
  BY <1>2 DEF IInv, TaskInv, Placed, Running
<1>4. WellMade(p) /\ Len(p) \in Nat \ {0}
  <2>1. agent[t] \in Range(Roster)
    BY <1>3 DEF IInv, Typed
  <2>2. WellMade(p)
    BY <2>1, AgentsAssumption
  <2>3. PICK S : p \in Seq(S)
    BY <2>2 DEF WellMade
  <2> QED
    BY <1>1, <2>2, <2>3, EmptySeq
<1>5. /\ DOMAIN plan' = Tasks /\ plan'[t] = p /\ \A d \in Tasks \ {t} : plan'[d] = plan[d]
      /\ before' \in [Tasks -> [Paths -> Contents]] /\ before'[t] = world
      /\ \A d \in Tasks \ {t} : before'[d] = before[d]
  BY <1>1, <1>2 DEF IInv, Typed
<1>6. /\ phase' \in [Tasks -> Running \union {"waiting", "done"}]
      /\ phase'[t] = IF IsEffect(p[1]) THEN "reviewing" ELSE "thinking"
      /\ \A d \in Tasks \ {t} : phase'[d] = phase[d]
  <2> HIDE DEF IsEffect
  <2> QED
    BY <1>1 DEF BeginsWith, IInv, Typed, Running
<1>7. Typed'
  BY <1>2, <1>4, <1>5, <1>6 DEF IInv, Typed
<1>8. \A d \in Tasks \ {t} : Apart(d)
  BY <1>2, <1>5, <1>6 DEF Apart, Same
<1>9. Len(outcomes'[t]) = 0 /\ Len(undo'[t]) = 0 /\ DOMAIN outcomes'[t] = {} /\ DOMAIN undo'[t] = {}
  BY <1>2, <1>3
<1>10. Placed(t)'
  <2>1. Step(t)' = p[1]
    BY <1>5, <1>9 DEF Step
  <2>2. phase'[t] \in {"reviewing", "thinking"} /\ (phase'[t] = "reviewing" <=> IsEffect(p[1]))
    BY <1>6
  <2> QED
    BY <1>2, <1>3, <1>4, <1>5, <1>9, <2>1, <2>2 DEF Placed, Acting, Running
<1>11. Booked(t)'
  BY <1>2, <1>3, <1>4, <1>5, <1>9 DEF Booked
<1>12. Ordered(t)' /\ Tells(t)'
  BY <1>2, <1>3, <1>6, Untold DEF Ordered
<1>13. Kempt(t)'
  <2>1. Pending(t)'
    BY <1>6 DEF Pending, Acting
  <2>2. \A f : Touching(t, f)' = {} /\ Standing(t, f)' = {}
    BY <1>2, <1>3 DEF Touching, Standing
  <2>3. \A f : LeftBy(t, f, {}, world[f])'
    BY <1>2, <1>5 DEF LeftBy
  <2>4. \A f : Traced(t, f)'
    BY <2>2, <2>3 DEF Traced
  <2> QED
    BY <2>1, <2>4 DEF Kempt
<1> QED
  BY <1>7, <1>8, <1>10, <1>11, <1>12, <1>13 DEF Keeps, TaskInv

LEMMA JudgedKeeps ==
  ASSUME IInv, NEW t \in Tasks, Judged(t)
  PROVE  Keeps(t)
<1>1. /\ phase[t] = "judging"
      /\ UNCHANGED <<world, orphans, agent, plan, outcomes, undo, seen, applied, undone, disturbed>>
  BY DEF Judged
<1>2. /\ undone[t] = {} /\ report[t] = NoReport /\ Len(outcomes[t]) = Len(plan[t])
      /\ DOMAIN outcomes[t] = DOMAIN plan[t]
      /\ applied[t] = {i \in Effects(t) : outcomes[t][i] = "succeeded"}
      /\ agent[t] # NoAgent
  BY <1>1, BookedEffects DEF IInv, TaskInv, Placed, Running
<1>3. CASE Satisfied(t) /\ Ends(t, "completed", outcomes[t])
  <2>1. report'[t].status = "completed"
    <3>1. report'[t] = [status |-> "completed", told |-> outcomes[t]]
      BY <1>3 DEF Ends, IInv, Typed
    <3> QED
      BY <3>1
  <2>2. applied'[t] = Effects(t)' /\ undone'[t] = {}
    BY <1>1, <1>2, <1>3 DEF Effects, Satisfied
  <2>3. Tells(t)'
    BY <2>1, <2>2 DEF Tells
  <2> QED
    BY <1>1, <1>3, <2>3, QuietlyEndsKeeps DEF IInv, Typed
<1>4. CASE Ends(t, "failed", outcomes[t])
  <2>1. Tells(t)'
    BY <1>1, <1>4, FailsTold
  <2> QED
    BY <1>1, <1>4, <2>1, QuietlyEndsKeeps DEF IInv, Typed
<1>5. CASE /\ Reversible(t) # {} /\ Enters(t, "undoing")
           /\ left' = [left EXCEPT ![t] = Reversible(t)]
           /\ intact' = [intact EXCEPT ![t] = TRUE]
           /\ UNCHANGED <<report, broken, before, strayed>>
  <2>1. /\ phase' \in [Tasks -> Running \union {"waiting", "done"}] /\ phase'[t] = "undoing"
        /\ \A d \in Tasks \ {t} : phase'[d] = phase[d]
    BY <1>5 DEF Enters, IInv, Typed, Running
  <2>2. Reversible(t) \subseteq Nat /\ Reversible(t)' = Reversible(t)
    BY <1>1, Lengths DEF IInv, Reversible
  <2>3. /\ left' \in [Tasks -> SUBSET Nat] /\ left'[t] = Reversible(t)
        /\ intact' \in [Tasks -> BOOLEAN]
        /\ \A d \in Tasks \ {t} : left'[d] = left[d] /\ intact'[d] = intact[d]
    BY <1>5, <2>2 DEF IInv, Typed
  <2>4. Typed'
    BY <1>1, <1>5, <2>1, <2>3 DEF IInv, Typed
  <2>5. \A d \in Tasks \ {t} : Apart(d)
    BY <1>1, <1>5, <2>1, <2>3 DEF Apart, Same
  <2>6. Placed(t)'
    BY <1>1, <1>2, <1>5, <2>1 DEF Placed, Acting
  <2>7. Booked(t)'
    BY <1>1, <2>2 DEF IInv, TaskInv, Booked
  <2>8. Ordered(t)'
    BY <1>1, <1>2, <1>5, <2>2, <2>3 DEF Ordered
  <2>9. Tells(t)'
    BY <1>2, <1>5, Untold
  <2>10. Kempt(t)'
    <3> SUFFICES ASSUME t \notin disturbed
                 PROVE  Pending(t)' /\ \A f \in PathsOf(t)' : Traced(t, f)'
      BY <1>1 DEF Kempt, Tidy
    <3>1. \A f \in PathsOf(t) : Traced(t, f)
      BY <1>1 DEF IInv, TaskInv, Kempt, Tidy, AtWork, Running
    <3>2. \A f \in PathsOf(t)' : Traced(t, f)'
      BY <1>1, <1>5, <3>1, StaysTraced DEF PathsOf
    <3>3. Pending(t)'
      BY <2>1 DEF Pending, Acting
    <3> QED
      BY <3>2, <3>3
  <2> QED
    BY <2>4, <2>5, <2>6, <2>7, <2>8, <2>9, <2>10 DEF Keeps, TaskInv
<1> QED
  BY <1>3, <1>4, <1>5 DEF Judged

\* A write nobody waits for disturbs the tasks that have that file in their plans.
LEMMA OrphanLandsApart ==
  ASSUME IInv, NEW o \in orphans, OrphanLands(o)
  PROVE  Typed' /\ \A d \in Tasks : Apart(d)
<1>1. PICK path \in Paths : o.path = path
  BY DEF IInv, Typed
<1>2. PICK content \in {o.content, world[path], Torn} :
        /\ world' = [world EXCEPT ![path] = content]
        /\ disturbed' = disturbed \union
             {d \in Tasks : InRun(d) /\ path \in PathsOf(d) /\ content # world[path]}
  BY <1>1 DEF OrphanLands
<1>3. /\ orphans' \subseteq orphans
      /\ UNCHANGED <<agent, phase, plan, outcomes, undo, seen, left, intact, report,
                     applied, undone, before, strayed>>
  BY DEF OrphanLands, taskVars
<1>4. content \in Contents
  BY AgentsAssumption, <1>1 DEF IInv, Typed
<1>5. world' \in [Paths -> Contents] /\ \A f \in Paths \ {path} : world'[f] = world[f]
  BY <1>2, <1>4 DEF IInv, Typed
<1>6. world'[path] = content
  BY <1>2 DEF IInv, Typed
<1>7. \A d \in Tasks : PathsOf(d) \subseteq Paths
  BY PathsAmong DEF IInv
<1>8. Typed'
  BY <1>3, <1>5 DEF IInv, Typed
<1>9. \A d \in Tasks : Apart(d)
  BY <1>2, <1>3, <1>5, <1>6, <1>7 DEF Apart, Same
<1> QED
  BY <1>8, <1>9

-----------------------------------------------------------------------------
(* The compensation *)

\* The step that is undone next can be, and is the last of those that are left.
LEMMA NextCanBeUndone ==
  ASSUME IInv, NEW t \in Tasks, phase[t] = "undoing", NEW i, NextUndone(t) = i
  PROVE  /\ i \in left[t] /\ i \in Reversible(t) /\ i \in applied[t] /\ i \in Nat
         /\ OnFile(plan[t][i]) /\ plan[t][i].path \in Paths /\ plan[t][i].path \in PathsOf(t)
         /\ undo[t][i] \in Contents \union {Idle}
         /\ \A j \in left[t] : j <= i
         /\ \A j \in undone[t] : i < j
<1>1. i \in left[t] /\ i \in Reversible(t) /\ \A j \in left[t] : j <= i
  BY LastIsNext DEF IInv, TaskInv, Ordered
<1>2. i \in DOMAIN outcomes[t] /\ outcomes[t][i] = "succeeded" /\ undo[t][i] # NoUndo /\ i \in Nat
  BY <1>1, Lengths DEF IInv, Reversible
<1>3. i \in DOMAIN undo[t] /\ i \in DOMAIN plan[t] /\ OnFile(plan[t][i])
  BY <1>2, BookedEffects DEF IInv, TaskInv, Booked
<1>4. i \in applied[t]
  <2>1. IsEffect(plan[t][i])
    BY <1>3 DEF OnFile, IsEffect
  <2> QED
    BY <1>2, <2>1 DEF IInv, TaskInv, Booked
<1>5. undo[t][i] \in Capture /\ plan[t][i].path \in Paths
  <2>1. undo[t] \in Seq(Capture) /\ WellMade(plan[t])
    BY DEF IInv, Typed
  <2> QED
    BY <1>3, <2>1 DEF WellMade
<1>6. \A j \in undone[t] : i < j
  BY <1>1 DEF IInv, TaskInv, Ordered
<1>7. plan[t][i].path \in PathsOf(t)
  BY <1>3 DEF PathsOf
<1> QED
  BY <1>1, <1>2, <1>3, <1>4, <1>5, <1>6, <1>7 DEF Capture

\* Putting a content back leaves each file as the change before the last one did.
LEMMA PutBack ==
  ASSUME IInv, NEW t \in Tasks, phase[t] = "undoing", Tidy(t), NEW i, NextUndone(t) = i,
         NEW f \in PathsOf(t), \A j \in Touching(t, f) : undo[t][j] # NoUndo,
         NEW content,
         IF plan[t][i].path = f /\ undo[t][i] # Idle
         THEN undo[t][i] = content ELSE world[f] = content
  PROVE  LeftBy(t, f, Touching(t, f) \ (undone[t] \union {i}), content)
<1>1. /\ i \in left[t] /\ i \in applied[t] /\ i \in Nat /\ OnFile(plan[t][i])
      /\ undo[t][i] \in Contents \union {Idle}
      /\ \A j \in left[t] : j <= i
      /\ \A j \in undone[t] : i < j
  BY NextCanBeUndone
<1>2. /\ LeftBy(t, f, Standing(t, f), world[f])
      /\ \A j \in Touching(t, f) : \E c \in Contents :
           Captures(t, j, c) /\ LeftBy(t, f, {k \in Touching(t, f) : k < j}, c)
  BY DEF IInv, TaskInv, Kempt, Traced
<1>3. \A j \in Touching(t, f) : j \in Nat /\ j \in Reversible(t)
  BY Lengths DEF IInv, TaskInv, Booked, Touching, Reversible
<1>4. left[t] \union undone[t] = Reversible(t)
  BY DEF IInv, TaskInv, Ordered, Tidy
<1>5. CASE plan[t][i].path # f
  <2>1. Touching(t, f) \ (undone[t] \union {i}) = Standing(t, f)
    BY <1>5 DEF Touching, Standing
  <2> QED
    BY <1>2, <1>5, <2>1
<1>6. CASE plan[t][i].path = f
  <2>1. i \in Touching(t, f)
    BY <1>1, <1>6 DEF Touching
  <2>2. PICK c \in Contents : Captures(t, i, c) /\ LeftBy(t, f, {k \in Touching(t, f) : k < i}, c)
    BY <1>2, <2>1
  <2>3. {k \in Touching(t, f) : k < i} = Touching(t, f) \ (undone[t] \union {i})
    <3>1. ASSUME NEW k \in Touching(t, f), k < i PROVE k \notin undone[t] /\ k # i
      BY <1>1, <1>3, <3>1
    <3>2. ASSUME NEW k \in Touching(t, f), k \notin undone[t], k # i PROVE k < i
      <4>1. k \in left[t] /\ k \in Nat
        BY <1>3, <1>4, <3>2
      <4> QED
        BY <1>1, <3>2, <4>1
    <3> QED
      BY <3>1, <3>2
  <2>4. c = content
    <3>1. CASE undo[t][i] = c
      <4>1. c # Idle
        BY AgentsAssumption
      <4> QED
        BY <1>6, <3>1, <4>1
    <3>2. CASE undo[t][i] = Idle /\ c = Absent /\ plan[t][i].content = Absent
      <4>1. i \in Standing(t, f)
        BY <1>1, <2>1 DEF Standing
      <4>2. \A j \in Standing(t, f) : j <= i
        BY <1>1, <1>3, <1>4 DEF Standing
      <4>3. world[f] = plan[t][i].content
        BY <1>2, <4>1, <4>2 DEF LeftBy
      <4> QED
        BY <3>2, <4>3
    <3> QED
      BY <2>2, <3>1, <3>2 DEF Captures
  <2> QED
    BY <2>2, <2>3, <2>4
<1> QED
  BY <1>5, <1>6

\* What one rollback of the engine comes to.
LEMMA UndoneCases ==
  ASSUME NEW t \in Tasks, Undone(t), NEW i, NextUndone(t) = i
  PROVE  \E well \in {intact[t], FALSE} :
           /\ \/ /\ well = intact[t]
                 /\ IF undo[t][i] = Idle THEN UNCHANGED <<world, disturbed>>
                    ELSE Writes(t, plan[t][i].path, undo[t][i])
                 /\ undone' = [undone EXCEPT ![t] = @ \union {i}]
              \/ /\ well = FALSE
                 /\ undo[t][i] # Idle /\ FailedWrite(t, plan[t][i].path, {})
                 /\ UNCHANGED undone
           /\ IF left[t] \ {i} # {}
              THEN /\ left' = [left EXCEPT ![t] = left[t] \ {i}]
                   /\ intact' = [intact EXCEPT ![t] = well]
                   /\ UNCHANGED <<phase, report, broken, before, strayed>>
              ELSE IF well THEN Ends(t, "rolled_back", RolledBack(t))
                   ELSE Ends(t, "failed", outcomes[t])
BY DEF Undone

LEMMA UndoneKeeps ==
  ASSUME IInv, NEW t \in Tasks, Undone(t)
  PROVE  Keeps(t)
<1>1. PICK i : NextUndone(t) = i
  OBVIOUS
<1>2. PICK well \in {intact[t], FALSE} :
        /\ \/ /\ well = intact[t]
              /\ IF undo[t][i] = Idle THEN UNCHANGED <<world, disturbed>>
                 ELSE Writes(t, plan[t][i].path, undo[t][i])
              /\ undone' = [undone EXCEPT ![t] = @ \union {i}]
           \/ /\ well = FALSE
              /\ undo[t][i] # Idle /\ FailedWrite(t, plan[t][i].path, {})
              /\ UNCHANGED undone
        /\ IF left[t] \ {i} # {}
           THEN /\ left' = [left EXCEPT ![t] = left[t] \ {i}]
                /\ intact' = [intact EXCEPT ![t] = well]
                /\ UNCHANGED <<phase, report, broken, before, strayed>>
           ELSE IF well THEN Ends(t, "rolled_back", RolledBack(t))
                ELSE Ends(t, "failed", outcomes[t])
  BY <1>1, UndoneCases
<1>3. /\ phase[t] = "undoing"
      /\ UNCHANGED <<orphans, agent, plan, outcomes, undo, seen, applied>>
  BY DEF Undone
<1>4. /\ i \in left[t] /\ i \in Reversible(t) /\ i \in applied[t] /\ i \in Nat
      /\ OnFile(plan[t][i]) /\ plan[t][i].path \in Paths /\ plan[t][i].path \in PathsOf(t)
      /\ undo[t][i] \in Contents \union {Idle}
      /\ \A j \in left[t] : j <= i
      /\ \A j \in undone[t] : i < j
  BY <1>1, <1>3, NextCanBeUndone
<1>5. well \in BOOLEAN
  BY DEF IInv, Typed
<1>6. PICK path \in Paths : plan[t][i].path = path
  BY <1>4
<1>7. Writes(t, path, undo[t][i]) /\ undo[t][i] # Idle =>
        /\ world' \in [Paths -> Contents] /\ world'[path] = undo[t][i]
        /\ \A f \in Paths \ {path} : world'[f] = world[f]
        /\ t \in disturbed' <=> t \in disturbed
        /\ \A d \in Tasks \ {t} :
             /\ d \in disturbed => d \in disturbed'
             /\ InRun(d) /\ d \notin disturbed' => \A f \in PathsOf(d) : world'[f] = world[f]
  <2> SUFFICES ASSUME NEW content \in Contents, undo[t][i] = content, Writes(t, path, content)
               PROVE  /\ world' \in [Paths -> Contents] /\ world'[path] = content
                      /\ \A f \in Paths \ {path} : world'[f] = world[f]
                      /\ t \in disturbed' <=> t \in disturbed
                      /\ \A d \in Tasks \ {t} :
                           /\ d \in disturbed => d \in disturbed'
                           /\ InRun(d) /\ d \notin disturbed' =>
                                \A f \in PathsOf(d) : world'[f] = world[f]
    BY <1>4
  <2> QED
    BY WritesDisturb DEF IInv
<1>8. /\ world' \in [Paths -> Contents]
      /\ t \in disturbed => t \in disturbed'
      /\ \A d \in Tasks \ {t} :
           /\ d \in disturbed => d \in disturbed'
           /\ InRun(d) /\ d \notin disturbed' => \A f \in PathsOf(d) : world'[f] = world[f]
  <2>1. CASE FailedWrite(t, path, {})
    BY <2>1, FailedWriteDisturbs DEF IInv
  <2>2. CASE UNCHANGED <<world, disturbed>>
    BY <2>2 DEF IInv, Typed
  <2>3. CASE Writes(t, path, undo[t][i]) /\ undo[t][i] # Idle
    BY <1>7, <2>3
  <2> QED
    BY <1>2, <1>6, <2>1, <2>2, <2>3
<1>9. /\ undone' \in [Tasks -> SUBSET Nat] /\ undone'[t] \subseteq undone[t] \union {i}
      /\ well => undone'[t] = undone[t] \union {i}
      /\ \A d \in Tasks \ {t} : undone'[d] = undone[d]
  <2>1. CASE undone' = [undone EXCEPT ![t] = @ \union {i}]
    <3>1. undone \in [Tasks -> SUBSET Nat]
      BY DEF IInv, Typed
    <3> QED
      BY <1>4, <2>1, <3>1
  <2>2. CASE ~well /\ UNCHANGED undone
    BY <2>2 DEF IInv, Typed
  <2> QED
    BY <1>2, <2>1, <2>2
<1>10. undone'[t] \subseteq Reversible(t) /\ Reversible(t)' = Reversible(t)
  BY <1>3, <1>4, <1>9 DEF IInv, TaskInv, Booked, Reversible
<1>11. ASSUME well, t \notin disturbed'
       PROVE  /\ Tidy(t)
              /\ \A f \in PathsOf(t) : (\A j \in Touching(t, f) : undo[t][j] # NoUndo) =>
                   LeftBy(t, f, Touching(t, f) \ (undone[t] \union {i}), world'[f])
  <2>1. Tidy(t)
    BY <1>2, <1>3, <1>8, <1>11 DEF Tidy, AtWork, Running
  <2>2. ASSUME NEW f \in PathsOf(t), \A j \in Touching(t, f) : undo[t][j] # NoUndo
        PROVE  LeftBy(t, f, Touching(t, f) \ (undone[t] \union {i}), world'[f])
    <3>1. PICK content : world'[f] = content
      OBVIOUS
    <3>2. IF plan[t][i].path = f /\ undo[t][i] # Idle
          THEN undo[t][i] = content ELSE world[f] = content
      <4>1. f \in Paths
        BY PathsAmong DEF IInv
      <4>2. CASE undo[t][i] = Idle
        BY <1>2, <1>11, <3>1, <4>2
      <4>3. CASE undo[t][i] # Idle
        BY <1>2, <1>6, <1>7, <1>11, <3>1, <4>1, <4>3
      <4> QED
        BY <4>2, <4>3
    <3>3. LeftBy(t, f, Touching(t, f) \ (undone[t] \union {i}), content)
      BY <1>1, <1>3, <2>1, <2>2, <3>2, PutBack
    <3> QED
      BY <3>1, <3>3
  <2> QED
    BY <2>1, <2>2
<1>12. CASE left[t] \ {i} # {}
  <2>1. /\ left' = [left EXCEPT ![t] = left[t] \ {i}]
        /\ intact' = [intact EXCEPT ![t] = well]
        /\ UNCHANGED <<phase, report, broken, before, strayed>>
    BY <1>2, <1>12
  <2>2. /\ left' \in [Tasks -> SUBSET Nat] /\ left'[t] = left[t] \ {i}
        /\ intact' \in [Tasks -> BOOLEAN] /\ intact'[t] = well
        /\ \A d \in Tasks \ {t} : left'[d] = left[d] /\ intact'[d] = intact[d]
    BY <1>5, <2>1 DEF IInv, Typed
  <2>3. Typed'
    BY <1>3, <1>8, <1>9, <2>1, <2>2 DEF IInv, Typed
  <2>4. \A d \in Tasks \ {t} : Apart(d)
    BY <1>3, <1>8, <1>9, <2>1, <2>2 DEF Apart, Same
  <2>5. Placed(t)'
    BY <1>3, <2>1 DEF IInv, TaskInv, Placed, Acting, Step
  <2>6. Booked(t)'
    BY <1>3, <1>10 DEF IInv, TaskInv, Booked
  <2>7. Ordered(t)'
    <3>1. left'[t] # {} /\ left'[t] \subseteq Reversible(t)
      BY <1>3, <1>12, <2>2 DEF IInv, TaskInv, Ordered
    <3>2. ASSUME NEW j \in left'[t], NEW k \in undone'[t] PROVE j < k
      <4>1. j \in left[t] /\ j # i /\ j \in Nat
        BY <2>2, <3>2 DEF IInv, Typed
      <4>2. CASE k = i
        BY <1>4, <4>1, <4>2
      <4>3. CASE k \in undone[t]
        BY <1>3, <4>1, <4>3 DEF IInv, TaskInv, Ordered
      <4> QED
        BY <1>9, <4>2, <4>3
    <3>3. intact'[t] => left'[t] \union undone'[t] = Reversible(t)
      <4> SUFFICES ASSUME well PROVE left'[t] \union undone'[t] = Reversible(t)
        BY <2>2
      <4>1. intact[t]
        BY <1>2
      <4>2. left[t] \union undone[t] = Reversible(t)
        BY <1>3, <4>1 DEF IInv, TaskInv, Ordered
      <4> QED
        BY <1>4, <1>9, <2>2, <4>2
    <3> QED
      BY <1>10, <3>1, <3>2, <3>3 DEF Ordered
  <2>8. Tells(t)'
    BY <1>3, <2>1, Untold DEF IInv, TaskInv, Placed
  <2>9. Kempt(t)'
    <3> SUFFICES ASSUME Tidy(t)'
                 PROVE  Pending(t)' /\ \A f \in PathsOf(t) : Traced(t, f)'
      BY <1>3 DEF Kempt, PathsOf
    <3>1. well /\ t \notin disturbed'
      BY <1>3, <2>1, <2>2 DEF Tidy
    <3>2. Pending(t)'
      BY <1>3, <2>1 DEF Pending, Acting
    <3>3. ASSUME NEW f \in PathsOf(t) PROVE Traced(t, f)'
      <4>1. /\ Touching(t, f)' = Touching(t, f)
            /\ Standing(t, f)' = Touching(t, f) \ (undone[t] \union {i})
        BY <1>3, <1>9, <3>1 DEF Touching, Standing
      <4>2. \A j, c : Captures(t, j, c)' <=> Captures(t, j, c)
        BY <1>3 DEF Captures
      <4>3. \A steps, c : LeftBy(t, f, steps, c)' <=> LeftBy(t, f, steps, c)
        BY <1>3, <2>1 DEF LeftBy
      <4> SUFFICES ASSUME \A j \in Touching(t, f) : undo[t][j] # NoUndo
                   PROVE  /\ LeftBy(t, f, Standing(t, f), world[f])'
                          /\ \A j \in Touching(t, f) : \E c \in Contents :
                               /\ Captures(t, j, c)'
                               /\ LeftBy(t, f, {k \in Touching(t, f) : k < j}, c)'
        BY <1>3, <4>1 DEF Traced
      <4>4. LeftBy(t, f, Standing(t, f), world[f])'
        BY <1>11, <3>1, <3>3, <4>1, <4>3
      <4>5. Traced(t, f)
        BY <1>11, <3>1 DEF IInv, TaskInv, Kempt
      <4>6. \A j \in Touching(t, f) : \E c \in Contents :
              /\ Captures(t, j, c)
              /\ LeftBy(t, f, {k \in Touching(t, f) : k < j}, c)
        BY <4>5 DEF Traced
      <4>7. \A j, c : LeftBy(t, f, {k \in Touching(t, f) : k < j}, c) =>
                      LeftBy(t, f, {k \in Touching(t, f) : k < j}, c)'
        BY <1>3, <2>1, <4>1 DEF LeftBy
      <4> QED
        BY <4>2, <4>4, <4>6, <4>7
    <3> QED
      BY <3>2, <3>3
  <2> QED
    BY <2>3, <2>4, <2>5, <2>6, <2>7, <2>8, <2>9 DEF Keeps, TaskInv
<1>13. CASE left[t] \ {i} = {} /\ ~well
  <2>1. Ends(t, "failed", outcomes[t])
    BY <1>2, <1>13
  <2>2. Tells(t)'
    BY <1>3, <2>1, FailsTold
  <2>3. /\ \A o \in orphans' : o.path \in Paths /\ o.content \in Contents
        /\ agent' \in [Tasks -> Range(Roster) \union {NoAgent}]
        /\ \A d \in Tasks \ {t} : agent'[d] = agent[d]
        /\ UNCHANGED <<plan, outcomes, undo, seen, applied>>
    BY <1>3 DEF IInv, Typed
  <2> QED
    BY <1>8, <1>9, <1>10, <2>1, <2>2, <2>3, EndsKeeps
<1>14. CASE left[t] \ {i} = {} /\ well
  <2>1. Ends(t, "rolled_back", RolledBack(t))
    BY <1>2, <1>14
  <2>2. undone'[t] = Reversible(t)
    <3>1. intact[t]
      BY <1>2, <1>14
    <3>2. left[t] \union undone[t] = Reversible(t)
      BY <1>3, <3>1 DEF IInv, TaskInv, Ordered
    <3> QED
      BY <1>4, <1>9, <1>14, <3>2
  <2>3. Tells(t)'
    <3>1. PICK told : RolledBack(t) = told
      OBVIOUS
    <3>2. /\ report'[t] = [status |-> "rolled_back", told |-> told]
          /\ strayed'[t] = {f \in Paths : world'[f] # before[t][f]}
      BY <2>1, <3>1, Reports DEF IInv
    <3>3. /\ DOMAIN told = DOMAIN outcomes[t]
          /\ \A j \in DOMAIN outcomes[t] :
               told[j] = IF j \in Reversible(t) THEN "rolled_back" ELSE outcomes[t][j]
      BY <3>1 DEF RolledBack
    <3>4. ASSUME NEW j \in DOMAIN told
          PROVE  /\ told[j] = "rolled_back" <=> j \in undone'[t]
                 /\ told[j] = "succeeded" /\ j \in Effects(t)' => undo'[t][j] = NoUndo
      <4>1. outcomes[t][j] # "rolled_back"
        <5>1. outcomes[t] \in Seq(Status)
          BY DEF IInv, Typed
        <5>2. outcomes[t][j] \in Status
          BY <3>3, <3>4, <5>1
        <5> QED
          BY <5>2 DEF Status
      <4>2. j \notin Reversible(t) /\ outcomes[t][j] = "succeeded" => undo[t][j] = NoUndo
        BY <3>3, <3>4 DEF Reversible
      <4> QED
        BY <1>3, <2>2, <3>3, <3>4, <4>1, <4>2
    <3>5. ASSUME t \notin disturbed', NEW f \in PathsOf(t)', f \in strayed'[t]
          PROVE  f \in Kept(t)'
      <4>1. f \in PathsOf(t) /\ world'[f] # before[t][f]
        BY <1>3, <3>2, <3>5 DEF PathsOf
      <4>2. SUFFICES ASSUME f \notin Kept(t)' PROVE FALSE
        OBVIOUS
      <4>3. Touching(t, f) \ undone'[t] = {}
        BY <1>3, <4>2 DEF Kept, Touching
      <4>4. \A j \in Touching(t, f) : undo[t][j] # NoUndo
        BY <2>2, <4>3 DEF Reversible
      <4>5. LeftBy(t, f, Touching(t, f) \ (undone[t] \union {i}), world'[f])
        BY <1>11, <1>14, <3>5, <4>1, <4>4
      <4>6. Touching(t, f) \ (undone[t] \union {i}) = {}
        BY <1>9, <1>14, <4>3
      <4>7. world'[f] = before[t][f]
        BY <4>5, <4>6 DEF LeftBy
      <4> QED
        BY <4>1, <4>7
    <3>6. report'[t].status = "rolled_back" /\ report'[t].told = told
      BY <3>2
    <3> HIDE DEF RolledBack, Kept, PathsOf, Effects
    <3> QED
      BY <3>4, <3>5, <3>6 DEF Tells
  <2>4. /\ \A o \in orphans' : o.path \in Paths /\ o.content \in Contents
        /\ agent' \in [Tasks -> Range(Roster) \union {NoAgent}]
        /\ \A d \in Tasks \ {t} : agent'[d] = agent[d]
        /\ UNCHANGED <<plan, outcomes, undo, seen, applied>>
    BY <1>3 DEF IInv, Typed
  <2>5. PICK told : RolledBack(t) = told
    OBVIOUS
  <2>6. Ends(t, "rolled_back", told)
    BY <2>1, <2>5
  <2> QED
    BY <1>8, <1>9, <1>10, <2>3, <2>4, <2>6, EndsKeeps
<1> QED
  BY <1>12, <1>13, <1>14

-----------------------------------------------------------------------------
(* The theorems *)

LEMMA InitIInv == Init => IInv
<1> SUFFICES ASSUME Init PROVE IInv
  OBVIOUS
<1>1. WellMade(<<>>) /\ DOMAIN plan = Tasks /\ \A t \in Tasks : plan[t] = <<>>
  BY DEF WellMade, Init
<1>2. Typed
  <2>1. InitialWorld \in [Paths -> Contents]
    BY AgentsAssumption
  <2> QED
    BY <1>1, <2>1 DEF Typed, Init, Capture, Running, NoReport
<1>3. ASSUME NEW t \in Tasks PROVE TaskInv(t)
  <2>1. /\ phase[t] = "waiting" /\ outcomes[t] = <<>> /\ undo[t] = <<>> /\ plan[t] = <<>>
        /\ applied[t] = {} /\ undone[t] = {} /\ report[t] = NoReport
    BY DEF Init
  <2>2. Len(outcomes[t]) = 0 /\ Len(undo[t]) = 0 /\ Len(plan[t]) = 0 /\ DOMAIN outcomes[t] = {}
        /\ DOMAIN undo[t] = {}
    BY <2>1
  <2>3. Placed(t)
    BY <2>1, <2>2 DEF Placed, Acting, Running
  <2>4. Booked(t)
    BY <2>1, <2>2 DEF Booked
  <2>5. Ordered(t) /\ Kempt(t) /\ Tells(t)
    BY <2>1 DEF Ordered, Kempt, Tidy, AtWork, Running, Tells, NoReport
  <2> QED
    BY <2>3, <2>4, <2>5 DEF TaskInv
<1> QED
  BY <1>2, <1>3 DEF IInv

\* A task keeps what holds of it, and so do those it is apart from.
LEMMA KeepsIInv ==
  ASSUME IInv, NEW t \in Tasks, Keeps(t)
  PROVE  IInv'
<1>1. \A d \in Tasks \ {t} : TaskInv(d)'
  BY Untouched DEF IInv, Keeps
<1> QED
  BY <1>1 DEF IInv, Keeps

LEMMA StutterKeeps ==
  ASSUME IInv, UNCHANGED vars
  PROVE  IInv'
<1>1. Typed'
  BY DEF IInv, Typed, vars, taskVars, historyVars
<1>2. \A d \in Tasks : Apart(d)
  BY DEF Apart, Same, vars, taskVars, historyVars
<1> QED
  BY <1>1, <1>2, Untouched DEF IInv

LEMMA NextIInv == IInv /\ [Next]_vars => IInv'
<1> SUFFICES ASSUME IInv, [Next]_vars PROVE IInv'
  OBVIOUS
<1>1. ASSUME NEW t \in Tasks, Lives(t) PROVE IInv'
  <2>1. Keeps(t)
    BY <1>1, DispatchKeeps, PlannedKeeps, ErrsKeeps, RaisesKeeps, ThoughtKeeps, ReviewedKeeps,
       PreparedKeeps, DecidedKeeps, ExecutedKeeps, JudgedKeeps, UndoneKeeps, TimesOutKeeps
       DEF Lives, Acts
  <2> QED
    BY <2>1, KeepsIInv
<1>2. ASSUME NEW o \in orphans, OrphanLands(o) PROVE IInv'
  BY <1>2, OrphanLandsApart, Untouched DEF IInv
<1>3. CASE UNCHANGED vars
  BY <1>3, StutterKeeps
<1> QED
  BY <1>1, <1>2, <1>3 DEF Next

\* In every reachable state the books of each task agree with what it has done, and
\* each file that only it writes to is as its last change left it, which captured
\* what the one before it left (AgentContext.act and BaseAgent's compensation).
THEOREM BooksAgree == Spec => []IInv
BY InitIInv, NextIInv, PTL DEF Spec

\* Every report tells what was done and undone, whatever tasks run next to it,
\* effects fail and budgets run out (BaseAgent._run_lifecycle, report): a completed
\* task has performed its whole plan, one that is rolled back has put its files back,
\* a failed one lists the effects it performed, and a rejected one has done nothing.
THEOREM ReportsAreTrue == Spec => []ReportsTell
<1>1. IInv => ReportsTell
  BY DEF IInv, TaskInv, ReportsTell
<1> QED
  BY <1>1, BooksAgree, PTL
=============================================================================
