----------------------------- MODULE Scheduler -----------------------------
(***************************************************************************)
(* AutomationScheduler (eden/automation/scheduler.py): the tick loop, the  *)
(* runs it starts behind a semaphore, and the calls others make meanwhile  *)
(* on the same event loop: register, unregister, signal, run, start, stop. *)
(* All event rules listen for one event; a rule that is replaced keeps its *)
(* trigger family and gets a new trigger.                                  *)
(*                                                                         *)
(* tick() fires what is due and gathers the runs; each of them waits for   *)
(* the semaphore, stamps its rule as fired at the tick's time and looks    *)
(* the rule up again by name.  A rule removed in between makes that lookup *)
(* raise: the tick fails at once, and the other runs it had started go on  *)
(* with nobody waiting for them ("orphans").                               *)
(*                                                                         *)
(* Time is counted in units of tick_seconds, and only as ages: how long    *)
(* ago a rule fired, how long ago a queued run's tick was.  An age stops   *)
(* counting at the rule's period, beyond which nothing looks at it.        *)
(***************************************************************************)
EXTENDS Naturals, Sequences, FiniteSets, Functions, SequencesExt

CONSTANTS
  Rules,              \* the names rules are registered under
  TriggerOf,          \* the trigger family of each
  Interval,           \* the period of the interval rules
  Day,                \* the length of a day
  Target,             \* the time of day of the daily rules
  MaxConcurrentRuns,  \* automation.max_concurrent_runs
  HistoryLimit,       \* automation.history_limit
  Edits,              \* bound of the model: the rules that are replaced and
                      \*   removed, each with the values of `enabled` it is given
  Requested,          \* bound of the model: the rules run on request
  MaxLive             \* bound of the model: runs alive at once

TriggerKind == {"interval", "deferred", "daily", "event", "manual"}

ASSUME SchedulerAssumption ==
  /\ IsFiniteSet(Rules) /\ TriggerOf \in [Rules -> TriggerKind]
  /\ Interval \in Nat \ {0} /\ Day \in Nat \ {0} /\ Target \in 0 .. Day - 1
  /\ MaxConcurrentRuns \in Nat \ {0} /\ HistoryLimit \in Nat \ {0}
  /\ Edits \subseteq Rules \X BOOLEAN /\ Requested \subseteq Rules /\ MaxLive \in Nat

VARIABLES
  rules,      \* the keys of _rules, in order of insertion
  enabled,    \* the rules whose `enabled` is set
  armed,      \* the event triggers with a signal pending
  since,      \* _last_fired: of each rule that has fired, how long ago
  loop,       \* "stopped", "ready" to tick, "waiting" for the tick's runs, "sleeping"
  live,       \* the guarded runs that have not ended, in the order they were made
  byHand,     \* the rules run() is running on request
  recorded,   \* the length of the history
  hour        \* the time of day

(* History, read by the properties only. *)
VARIABLE
  owed        \* the signals to each rule that no run has started for yet, those
              \*   that found it armed already not counted

ruleVars == <<rules, enabled, armed>>
vars == <<rules, enabled, armed, since, loop, live, byHand, recorded, hour,
          owed>>

Run == [rule : Rules, stage : {"queued", "running"}, age : Nat, mine : BOOLEAN]

Family(k) == {r \in Rules : TriggerOf[r] = k}
Registered == Range(rules)
Period(r) == CASE TriggerOf[r] = "daily" -> Day
               [] TriggerOf[r] \in {"interval", "deferred"} -> Interval
               [] OTHER -> 0
Older(r, age) == IF age < Period(r) THEN age + 1 ELSE age

\* Places in the queue of runs: of those at work, and of those that wait for the
\* semaphore on behalf of a rule.
Running == {i \in 1 .. Len(live) : live[i].stage = "running"}
RunningFor(r) == {i \in Running : live[i].rule = r}
Queued(r) == {i \in 1 .. Len(live) : live[i].rule = r /\ live[i].stage = "queued"}
Less(n, m) == IF n > m THEN n - m ELSE 0

-----------------------------------------------------------------------------
(* The tick *)

Fired(r) == r \in DOMAIN since

\* Faulty variant: a full period is not yet enough.
MoreThanElapsed(r) == Fired(r) /\ since[r] > Period(r)

Elapsed(r) == Fired(r) /\ since[r] >= Period(r)

\* should_fire.  An interval that does not fire immediately has nothing to
\* count from before its first firing.
ShouldFire(r) ==
  CASE TriggerOf[r] = "interval" -> Fired(r) => Elapsed(r)
    [] TriggerOf[r] = "deferred" -> Elapsed(r)
    [] TriggerOf[r] = "daily"    -> hour >= Target /\ (Fired(r) => Elapsed(r))
    [] TriggerOf[r] = "event"    -> r \in armed
    [] TriggerOf[r] = "manual"   -> FALSE

\* The rules that are due, in the order they are registered in.
Precedes(r, s) == \E i, j \in 1 .. Len(rules) : i < j /\ rules[i] = r /\ rules[j] = s
Due ==
  {due \in SetToSeqs({r \in Registered \cap enabled : ShouldFire(r)}) :
     \A i, j \in 1 .. Len(due) : i < j => Precedes(due[i], due[j])}

\* Faulty variant: an event trigger reports its signal without consuming it.
KeepsSignals(due) == UNCHANGED armed

\* Asking an event trigger whether it fires consumes its signal.
ConsumesSignals(due) == armed' = armed \ Range(due)

\* Faulty variant: the runs are started and not waited for.
NotAwaiting(due) == "sleeping"

\* gather returns at once when there is nothing to wait for.
Awaiting(due) == IF due = <<>> THEN "sleeping" ELSE "waiting"

\* tick, up to the gather: every due rule gets a run that queues for the
\* semaphore.
Tick ==
  /\ loop = "ready"
  /\ \E due \in Due :
       /\ Len(live) + Len(due) <= MaxLive
       /\ live' = live \o [i \in 1 .. Len(due) |->
                             [rule |-> due[i], stage |-> "queued", age |-> 0, mine |-> TRUE]]
       /\ ConsumesSignals(due)
       /\ loop' = Awaiting(due)
  /\ UNCHANGED <<rules, enabled, since, byHand, recorded, hour, owed>>

Without(i) == RemoveAt(live, i)

\* Faulty variant: a run that fails takes the others of its tick with it.
OrphansCancelled(runs) == SelectSeq(runs, LAMBDA run : ~run.mine)

\* What a tick that raised leaves behind: the loop logs it and goes to sleep.
Orphaned(runs) == [i \in 1 .. Len(runs) |-> [runs[i] EXCEPT !.mine = FALSE]]

\* Faulty variant: the semaphore is made anew by every tick.
SlotOfThisTick == Cardinality({i \in Running : live[i].mine}) < MaxConcurrentRuns

Slot == Cardinality(Running) < MaxConcurrentRuns

\* _guarded_run gets the semaphore, in the order of the queue: the rule is
\* stamped, then looked up by name, which may fail by now.
StartRun ==
  /\ Slot
  /\ \E i \in 1 .. Len(live) :
       LET run == live[i] IN
       /\ run.stage = "queued"
       /\ \A j \in 1 .. i - 1 : live[j].stage # "queued"
       /\ since' = [r \in DOMAIN since \cup {run.rule} |->
                      IF r = run.rule THEN run.age ELSE since[r]]
       /\ owed' = [owed EXCEPT ![run.rule] = Less(@, 1)]
       /\ \/ /\ run.rule \in Registered
             /\ live' = [live EXCEPT ![i].stage = "running"]
             /\ UNCHANGED loop
          \/ /\ run.rule \notin Registered
             /\ live' = IF run.mine THEN Orphaned(Without(i)) ELSE Without(i)
             /\ loop' = IF run.mine THEN "sleeping" ELSE loop
  /\ UNCHANGED <<ruleVars, byHand, recorded, hour>>

\* Faulty variant: the history is trimmed before the run is added to it.
TrimsTooEarly == recorded' = (IF recorded > HistoryLimit THEN HistoryLimit ELSE recorded) + 1

\* _record: the run is added, then the history trimmed.
Record == recorded' = IF recorded < HistoryLimit THEN recorded + 1 ELSE HistoryLimit

\* A run ends: its payload returned, raised or ran out of its budget, or no
\* runner takes it.  The last one a tick waits for ends the tick.
RunEnds(r) ==
  /\ \E i \in 1 .. Len(live) :
       /\ live[i].rule = r /\ live[i].stage = "running"
       /\ live' = Without(i)
       /\ loop' = IF live[i].mine /\ \A j \in (1 .. Len(live)) \ {i} : ~live[j].mine
                  THEN "sleeping" ELSE loop
  /\ Record
  /\ UNCHANGED <<ruleVars, since, byHand, hour, owed>>

-----------------------------------------------------------------------------
(* What others call *)

\* run() on request, by the HTTP interface or the command line: no semaphore,
\* no stamp.  One run per rule at a time is a bound of the model.
RunByHand(r) ==
  /\ r \in Registered \ byHand
  /\ byHand' = byHand \cup {r}
  /\ UNCHANGED <<ruleVars, since, loop, live, recorded, hour, owed>>

ByHandEnds(r) ==
  /\ r \in byHand
  /\ byHand' = byHand \ {r}
  /\ Record
  /\ UNCHANGED <<ruleVars, since, loop, live, hour, owed>>

\* Every rule that listens for the event is armed, even a disabled one.
Signal ==
  LET listening == Registered \cap Family("event") IN
  /\ armed' = armed \cup listening
  /\ owed' = [r \in Rules |-> IF r \in listening \ armed THEN owed[r] + 1 ELSE owed[r]]
  /\ UNCHANGED <<rules, enabled, since, loop, live, byHand, recorded, hour>>

\* The trigger object goes, and with it its signal.
Forget(r) ==
  /\ armed' = armed \ {r}
  /\ owed' = [owed EXCEPT ![r] = IF r \in armed THEN Less(@, 1) ELSE @]

\* register a new rule, or replace the one of that name, which keeps its
\* place and the time it last fired.
Register(r, on) ==
  /\ rules' = IF r \in Registered THEN rules ELSE Append(rules, r)
  /\ enabled' = IF on THEN enabled \cup {r} ELSE enabled \ {r}
  /\ Forget(r)
  /\ UNCHANGED <<since, loop, live, byHand, recorded, hour>>

Unregister(r) ==
  /\ \E i \in 1 .. Len(rules) : rules[i] = r /\ rules' = RemoveAt(rules, i)
  /\ enabled' = enabled \ {r}
  /\ since' = Restrict(since, DOMAIN since \ {r})
  /\ Forget(r)
  /\ UNCHANGED <<loop, live, byHand, recorded, hour>>

Start ==
  /\ loop = "stopped"
  /\ loop' = "ready"
  /\ UNCHANGED <<ruleVars, since, live, byHand, recorded, hour, owed>>

\* stop cancels the loop and with it the runs it waits for, queued or running:
\* they leave no record.  Orphans, which are all older than the tick, go on.
Stop ==
  /\ loop # "stopped"
  /\ loop' = "stopped"
  /\ \E n \in 0 .. Len(live) :
       /\ \A i \in 1 .. Len(live) : live[i].mine <=> i > n
       /\ live' = SubSeq(live, 1, n)
  /\ owed' = [r \in Rules |-> Less(owed[r], Cardinality({i \in Queued(r) : live[i].mine}))]
  /\ UNCHANGED <<ruleVars, since, byHand, recorded, hour>>

\* One tick_seconds passes.
TimePasses ==
  /\ since' = [r \in DOMAIN since |-> Older(r, since[r])]
  /\ live' = [i \in 1 .. Len(live) |->
                [live[i] EXCEPT !.age = Older(live[i].rule, live[i].age)]]
  /\ hour' = (hour + 1) % Day
  /\ loop' = IF loop = "sleeping" THEN "ready" ELSE loop
  /\ UNCHANGED <<ruleVars, byHand, recorded, owed>>

-----------------------------------------------------------------------------
Init ==
  /\ rules \in SetToSeqs(Rules)
  /\ enabled = Rules
  /\ armed = {}
  /\ since = <<>>
  /\ loop = "stopped"
  /\ live = <<>>
  /\ byHand = {}
  /\ recorded = 0
  /\ hour = 0
  /\ owed = [r \in Rules |-> 0]

Next ==
  \/ Tick \/ StartRun \/ TimePasses \/ Signal \/ Start \/ Stop
  \/ \E r \in Rules : RunEnds(r)
  \/ \E r \in Requested : RunByHand(r) \/ ByHandEnds(r)
  \/ \E e \in Edits : Unregister(e[1]) \/ Register(e[1], e[2])

Spec == Init /\ [][Next]_vars

\* The event loop runs every ready task, time passes, and every run is bounded
\* by run_timeout_seconds.  Nobody promises a signal, a request or a start.
FairSpec ==
  /\ Spec
  /\ WF_vars(Tick) /\ WF_vars(StartRun) /\ WF_vars(TimePasses)
  /\ \A r \in Rules : WF_vars(RunEnds(r))

-----------------------------------------------------------------------------
(* Properties *)

SchedulerTypeOK ==
  /\ rules \in Seq(Rules) /\ IsInjective(rules)
  /\ enabled \subseteq Registered /\ armed \subseteq Registered
  /\ DOMAIN since \subseteq Rules
  /\ \A r \in DOMAIN since : since[r] \in 0 .. Period(r)
  /\ loop \in {"stopped", "ready", "waiting", "sleeping"}
  /\ live \in Seq(Run)
  /\ byHand \subseteq Rules
  /\ recorded \in 0 .. HistoryLimit
  /\ hour \in 0 .. Day - 1
  /\ owed \in [Rules -> 0 .. MaxLive + 1]

\* A slow rule is never started again behind its own back: the tick waits for
\* its runs, so whatever is registered, replaced, signalled or stopped in
\* between, two runs of a rule are alive at once only when one of them is an
\* orphan of a failed tick, which the next tick knows nothing of.
NoOverlap ==
  \A i, j \in 1 .. Len(live) :
    (live[i].rule = live[j].rule /\ live[i].mine /\ live[j].mine) => i = j

\* Even across failed ticks and restarts, the loop never has more than
\* max_concurrent_runs runs at work.
CeilingHeld == Cardinality(Running) <= MaxConcurrentRuns

\* An event rule runs at most once per signal: it starts only when a signal is
\* left that nothing has run for, through failed ticks, restarts of the loop
\* and replacements of the rule.
OncePerSignal ==
  [][\A r \in Family("event") :
       Cardinality(RunningFor(r))' > Cardinality(RunningFor(r)) => owed[r] > 0]_vars

Eligible(r) == r \in Registered \cap enabled /\ loop # "stopped"
AtWork(r) == RunningFor(r) # {}

\* No signal is lost but with the rule object that holds it: while the loop
\* runs, a signalled rule gets to run, even when the tick that noticed the
\* signal fails.
SignalServed ==
  \A r \in Family("event") :
    (owed[r] > 0 /\ Eligible(r)) ~> (AtWork(r) \/ owed[r] = 0 \/ ~Eligible(r))

\* Interval rules fire again and again while the loop runs, however slow or
\* broken the other rules are.
RulesKeepFiring ==
  \A r \in Family("interval") : Eligible(r) ~> (AtWork(r) \/ ~Eligible(r))

\* "fire_immediately: Whether the first tick fires before one full interval has
\* elapsed" (automation/scheduler.py): a rule that waits one interval first
\* fires after it.  Nothing ever starts its clock.
DeferredFires ==
  \A r \in Family("deferred") : Eligible(r) ~> (AtWork(r) \/ ~Eligible(r))
=============================================================================
