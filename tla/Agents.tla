------------------------------- MODULE Agents -------------------------------
(***************************************************************************)
(* The agents (eden/agents): the orchestrator that routes tasks to them    *)
(* and runs batches of tasks (orchestrator.py), the lifecycle every agent  *)
(* goes through (base.py), and the capabilities it has (context.py).       *)
(*                                                                         *)
(* Callers run their batches concurrently, each one task at a time.  A     *)
(* task is planned, its steps are run, the agent judges the result and may *)
(* have its effects undone.  An effect is performed by the execution       *)
(* engine, of which this module keeps what an agent sees: a preparation,   *)
(* a refusal or a grant that may be long in coming, and a write of a file, *)
(* done in a worker thread, that succeeds or fails.  ExecutionEngine has   *)
(* the rest.                                                               *)
(***************************************************************************)
EXTENDS Naturals, FiniteSets, Sequences, SequencesExt

CONSTANTS
  Callers,          \* concurrent users of dispatch_all; dispatch is a batch of one
  Tasks,
  Batch,            \* the tasks of each caller, in order
  Roster,           \* the registered agents, in the order of their names
  Score,            \* how well each agent suits each task; 0 when it declines
  Forced,           \* the agent a dispatch names, NoAgent to have the task routed
  NoAgent,
  MinSuitability,   \* agents.min_suitability
  Plans,            \* the plans each agent may make for each task
  Thoughts,         \* how a thought of each agent may end
  Judges,           \* what each may find when no step failed: the goal is "met" or
                    \* "unmet", "undo" for one to roll back, "error" when it raises
  MaxPlanSteps,     \* agents.max_plan_steps
  RollbackOnFailure,\* agents.rollback_on_verification_failure
  Handled,          \* the kinds of action the engine has a handler for
  Paths, Contents, InitialWorld,
  Absent,           \* the content of a file that is not there
  Unreadable,       \* contents a handler cannot capture
  Torn,             \* what a failed write may leave
  NoUndo,           \* an effect that cannot be undone
  Idle              \* an effect there is nothing to undo of

OnFile(step) == step.kind \in {"write", "delete"}

\* A plan is a sequence of steps; those on files say which, and what is in it
\* afterwards.
WellMade(p) ==
  /\ p \in Seq(Range(p))
  /\ \A i \in DOMAIN p : OnFile(p[i]) =>
       /\ p[i].path \in Paths /\ p[i].content \in Contents
       /\ p[i].kind = "delete" => p[i].content = Absent

ASSUME AgentsAssumption ==
  /\ Batch \in [Callers -> Seq(Tasks)]
  /\ \A t \in Tasks : \E c \in Callers : Contains(Batch[c], t)
  /\ Torn \in Contents /\ Unreadable \subseteq Contents /\ {NoUndo, Idle} \intersect Contents = {}
  /\ NoUndo # Idle
  /\ InitialWorld \in [Paths -> Contents]
  /\ MaxPlanSteps \in Nat \ {0}
  /\ Roster \in Seq(Range(Roster)) /\ NoAgent \notin Range(Roster)
  /\ Score \in [Tasks -> [Range(Roster) -> Nat]]
  /\ Forced \in [Tasks -> Range(Roster) \union {NoAgent}]
  /\ \A a \in Range(Roster) : Thoughts[a] \subseteq {"succeeded", "failed"}
  /\ \A t \in Tasks : \A a \in Range(Roster) : \A p \in Plans[t][a] : WellMade(p)

VARIABLES
  world,      \* the content of each file
  orphans,    \* writes whose task no longer waits for them
  agent,      \* the agent that has it
  phase,      \* what each task awaits
  plan,       \* its plan
  outcomes,   \* the outcomes of its steps so far
  undo,       \* the content each step captured, or NoUndo
  seen,       \* the content the engine itself captured for the current step
  left,       \* the steps still to be undone
  intact,     \* whether all those undone so far succeeded
  report,     \* what its report says: a status and the outcomes it lists
  broken      \* callers whose batch an exception ended

(* History, read by the properties only. *)
VARIABLES
  applied,    \* the steps of each task whose write took effect
  undone,     \* those of them whose undoing did
  before,     \* the files as a task found them when its plan was made
  disturbed,  \* tasks whose files something else wrote to meanwhile
  strayed     \* for one that is rolled back, the files that are then not so

taskVars == <<agent, phase, plan, outcomes, undo, seen, left, intact, report, broken>>
historyVars == <<applied, undone, before, disturbed, strayed>>
vars == <<world, orphans, taskVars, historyVars>>

NoReport == [status |-> "none", told |-> <<>>]
Running == {"planning", "reviewing", "preparing", "deciding", "writing", "thinking",
            "judging", "undoing"}

IsEffect(step) == step.kind # "thought"
Step(t) == plan[t][Len(outcomes[t]) + 1]
PathsOf(t) == {plan[t][i].path : i \in {j \in DOMAIN plan[t] : OnFile(plan[t][j])}}
InRun(t) == phase[t] \in Running

Enters(t, where) == phase' = [phase EXCEPT ![t] = where]

\* A write by the engine, on behalf of a task or of one that has gone.
Writes(t, path, content) ==
  /\ world' = [world EXCEPT ![path] = content]
  /\ disturbed' = disturbed \union {d \in Tasks : d # t /\ InRun(d) /\ path \in PathsOf(d)}

\* A write that fails changes nothing, or is compensated by the engine, or
\* leaves a torn file.
FailedWrite(t, path, contents) ==
  \E content \in contents \union {world[path], Torn} :
    /\ world' = [world EXCEPT ![path] = content]
    /\ disturbed' = disturbed \union
         {d \in Tasks : InRun(d) /\ path \in PathsOf(d) /\ content # world[path]}

Ends(t, status, told) ==
  /\ Enters(t, "done")
  /\ report' = [report EXCEPT ![t] = [status |-> status, told |-> told]]
  /\ strayed' = [strayed EXCEPT ![t] =
       IF status = "rolled_back" THEN {f \in Paths : world'[f] # before[t][f]} ELSE {}]
  /\ before' = [before EXCEPT ![t] = InitialWorld]
  /\ left' = [left EXCEPT ![t] = {}]
  /\ intact' = [intact EXCEPT ![t] = TRUE]
  /\ UNCHANGED broken

-----------------------------------------------------------------------------
(* AgentOrchestrator *)

\* The tasks of a batch are dispatched one after the other.
Current(c, t) ==
  /\ c \notin broken
  /\ \E i \in DOMAIN Batch[c] :
       /\ Batch[c][i] = t
       /\ \A j \in 1 .. i - 1 : phase[Batch[c][j]] = "done"

Willing(t) ==
  {i \in DOMAIN Roster : Score[t][Roster[i]] > 0 /\ Score[t][Roster[i]] >= MinSuitability}

\* A better score goes first, and a name among equals.
GoesBefore(t, i, j) ==
  \/ Score[t][Roster[i]] > Score[t][Roster[j]]
  \/ Score[t][Roster[i]] = Score[t][Roster[j]] /\ i <= j

\* The agent a task is given: the one that is named, or the first of the willing.
Chosen(t) ==
  IF Forced[t] # NoAgent THEN Forced[t]
  ELSE IF Willing(t) = {} THEN NoAgent
  ELSE Roster[CHOOSE i \in Willing(t) : \A j \in Willing(t) : GoesBefore(t, i, j)]

\* A task nobody takes is reported as rejected, and so is one whose named agent
\* declines it.
Dispatch(t) ==
  /\ phase[t] = "waiting"
  /\ \E c \in Callers : Current(c, t)
  /\ UNCHANGED world
  /\ LET chosen == Chosen(t) IN
       /\ agent' = [agent EXCEPT ![t] = chosen]
       /\ IF chosen = NoAgent \/ Score[t][chosen] = 0
          THEN Ends(t, "rejected", <<>>)
          ELSE Enters(t, "planning") /\ UNCHANGED <<report, broken, left, intact, before, strayed>>
  /\ UNCHANGED <<orphans, plan, outcomes, undo, seen, applied, undone, disturbed>>

-----------------------------------------------------------------------------
(* BaseAgent, from the plan to the judgement *)

\* No step failed or was skipped.
Satisfied(t) == \A i \in DOMAIN outcomes[t] : outcomes[t][i] = "succeeded"

\* The await the next step of a plan begins with.
BeginsWith(step) == IF IsEffect(step) THEN "reviewing" ELSE "thinking"

\* The plan is made and found usable.
Planned(t) ==
  /\ phase[t] = "planning"
  /\ \E p \in Plans[t][agent[t]] :
       /\ p # <<>> /\ Len(p) <= MaxPlanSteps
       /\ plan' = [plan EXCEPT ![t] = p]
       /\ Enters(t, BeginsWith(p[1]))
  /\ before' = [before EXCEPT ![t] = world]
  /\ UNCHANGED <<world, orphans, agent, outcomes, undo, seen, left, intact, report, broken,
                 applied, undone, disturbed, strayed>>

\* An error of the EDEN family ends the task wherever it is raised outside of a
\* step: in planning, on a plan that is empty or too long, in the judgement.
\* The report lists nothing.
Errs(t) ==
  /\ \/ phase[t] = "planning"
     \/ phase[t] = "judging" /\ Satisfied(t) /\ "error" \in Judges[agent[t]]
  /\ UNCHANGED world
  /\ Ends(t, "failed", <<>>)
  /\ UNCHANGED <<orphans, agent, plan, outcomes, undo, seen, applied, undone, disturbed>>

\* Any other exception leaves run, dispatch and dispatch_all.
Raises(t) ==
  /\ \/ phase[t] = "planning"
     \/ phase[t] = "judging" /\ Satisfied(t) /\ "error" \in Judges[agent[t]]
  /\ Enters(t, "done")
  /\ broken' = broken \union {c \in Callers : Contains(Batch[c], t)}
  /\ UNCHANGED <<world, orphans, agent, plan, outcomes, undo, seen, left, intact, report, historyVars>>

\* The step ends and the next one begins; when it failed and was required the
\* others are skipped.
StepEnds(t, status) ==
  LET n == Len(outcomes[t]) + 1
      abandoned == status = "failed" /\ ~Step(t).optional
      told == IF abandoned
              THEN Append(outcomes[t], status)
                   \o [i \in 1 .. Len(plan[t]) - n |-> "skipped"]
              ELSE Append(outcomes[t], status)
  IN /\ outcomes' = [outcomes EXCEPT ![t] = told]
     /\ seen' = [seen EXCEPT ![t] = NoUndo]
     /\ Enters(t, IF Len(told) = Len(plan[t]) THEN "judging" ELSE BeginsWith(plan[t][n + 1]))

\* AgentContext.think answers or fails.
Thought(t) ==
  /\ phase[t] = "thinking"
  /\ \E status \in Thoughts[agent[t]] : StepEnds(t, status)
  /\ undo' = [undo EXCEPT ![t] = Append(@, NoUndo)]
  /\ UNCHANGED <<world, orphans, agent, plan, left, intact, report, broken, historyVars>>

Captured(step) ==
  IF ~OnFile(step) THEN NoUndo
  ELSE IF world[step.path] \in Unreadable THEN NoUndo
  ELSE IF step.kind = "delete" /\ world[step.path] = Absent THEN Idle
  ELSE world[step.path]

\* AgentContext.act: review comes first, so that the agent has what undoing
\* takes; it fails for a kind of action that has no handler.
Reviewed(t) ==
  /\ phase[t] = "reviewing"
  /\ undo' = [undo EXCEPT ![t] = Append(@, Captured(Step(t)))]
  /\ IF Step(t).kind \in Handled
     THEN Enters(t, "preparing") /\ UNCHANGED <<outcomes, seen>>
     ELSE StepEnds(t, "failed")
  /\ UNCHANGED <<world, orphans, agent, plan, left, intact, report, broken, historyVars>>

\* submit prepares again.
Prepared(t) ==
  /\ phase[t] = "preparing"
  /\ seen' = [seen EXCEPT ![t] = Captured(Step(t))]
  /\ Enters(t, "deciding")
  /\ UNCHANGED <<world, orphans, agent, plan, outcomes, undo, left, intact, report, broken, historyVars>>

\* A verdict, a permit and the switch for dry runs let the action through, or not.
Decided(t) ==
  /\ phase[t] = "deciding"
  /\ \/ Enters(t, "writing") /\ UNCHANGED <<outcomes, seen>>
     \/ StepEnds(t, "failed")
  /\ UNCHANGED <<world, orphans, agent, plan, undo, left, intact, report, broken, historyVars>>

\* The handler is done.
Executed(t) ==
  /\ phase[t] = "writing"
  /\ LET step == Step(t) IN
       \/ /\ IF OnFile(step) THEN Writes(t, step.path, step.content)
             ELSE UNCHANGED <<world, disturbed>>
          /\ applied' = [applied EXCEPT ![t] = @ \union {Len(outcomes[t]) + 1}]
          /\ StepEnds(t, "succeeded")
       \/ /\ IF OnFile(step) THEN FailedWrite(t, step.path, {seen[t]} \intersect Contents)
             ELSE UNCHANGED <<world, disturbed>>
          /\ StepEnds(t, "failed")
          /\ UNCHANGED applied
  /\ UNCHANGED <<orphans, agent, plan, undo, left, intact, report, broken, undone, before, strayed>>

-----------------------------------------------------------------------------
(* The judgement and the compensation *)

\* The steps whose effect can be undone.
Reversible(t) == {i \in DOMAIN outcomes[t] : outcomes[t][i] = "succeeded" /\ undo[t][i] # NoUndo}

\* Faulty variant: what was done first is undone first.
UndoneFirst(t) == Min(left[t])

\* What was done last is undone first.
NextUndone(t) == Max(left[t])

\* verify: the goal is met only when no step failed or was skipped, and an agent
\* of its own may still find that it is not, with or without a compensation.
Judged(t) ==
  /\ phase[t] = "judging"
  /\ UNCHANGED world
  /\ \/ /\ Satisfied(t)
        /\ "met" \in Judges[agent[t]]
        /\ Ends(t, "completed", outcomes[t])
     \/ /\ IF Satisfied(t) THEN {"unmet", "undo"} \intersect Judges[agent[t]] # {} ELSE TRUE
        /\ \/ ~RollbackOnFailure \/ Reversible(t) = {}
           \/ Satisfied(t) /\ "unmet" \in Judges[agent[t]]
        /\ Ends(t, "failed", outcomes[t])
     \/ /\ Satisfied(t) => "undo" \in Judges[agent[t]]
        /\ RollbackOnFailure /\ Reversible(t) # {}
        /\ Enters(t, "undoing")
        /\ left' = [left EXCEPT ![t] = Reversible(t)]
        /\ intact' = [intact EXCEPT ![t] = TRUE]
        /\ UNCHANGED <<report, broken, before, strayed>>
  /\ UNCHANGED <<orphans, agent, plan, outcomes, undo, seen, applied, undone, disturbed>>

RolledBack(t) ==
  [i \in DOMAIN outcomes[t] |->
     IF i \in Reversible(t) THEN "rolled_back" ELSE outcomes[t][i]]

\* One rollback of the engine.  The others go on after one that fails, and then
\* the report lists the outcomes as they were.
Undone(t) ==
  /\ phase[t] = "undoing"
  /\ LET i == NextUndone(t)
         rest == left[t] \ {i}
         path == plan[t][i].path
         Goes(well) ==
           IF rest # {}
           THEN /\ left' = [left EXCEPT ![t] = rest]
                /\ intact' = [intact EXCEPT ![t] = well]
                /\ UNCHANGED <<phase, report, broken, before, strayed>>
           ELSE IF well THEN Ends(t, "rolled_back", RolledBack(t))
                ELSE Ends(t, "failed", outcomes[t])
     IN \/ /\ IF undo[t][i] = Idle THEN UNCHANGED <<world, disturbed>>
              ELSE Writes(t, path, undo[t][i])
           /\ undone' = [undone EXCEPT ![t] = @ \union {i}]
           /\ Goes(intact[t])
        \/ /\ undo[t][i] # Idle
           /\ FailedWrite(t, path, {})
           /\ Goes(FALSE)
           /\ UNCHANGED undone
  /\ UNCHANGED <<orphans, agent, plan, outcomes, undo, seen, applied>>

-----------------------------------------------------------------------------
(* The time budget *)

\* Faulty variant: a task that waits for an approver is not interrupted.
MayTimeOutUnlessAsked(t) == InRun(t) /\ phase[t] # "deciding"

MayTimeOut(t) == InRun(t)

\* The budget runs out: the coroutine is cancelled where it awaits, and the
\* report lists nothing.  A write in a worker thread goes on without it.
TimesOut(t) ==
  /\ MayTimeOut(t)
  /\ UNCHANGED world
  /\ Ends(t, "failed", <<>>)
  /\ orphans' = orphans \union
       (CASE phase[t] = "writing" /\ OnFile(Step(t)) ->
               {[path |-> Step(t).path, content |-> Step(t).content]}
          [] phase[t] = "undoing" /\ undo[t][NextUndone(t)] # Idle ->
               {[path |-> plan[t][NextUndone(t)].path, content |-> undo[t][NextUndone(t)]]}
          [] OTHER -> {})
  /\ UNCHANGED <<agent, plan, outcomes, undo, seen, applied, undone, disturbed>>

OrphanLands(o) ==
  /\ orphans' = orphans \ {o}
  /\ \E content \in {o.content, world[o.path], Torn} :
       /\ world' = [world EXCEPT ![o.path] = content]
       /\ disturbed' = disturbed \union
            {d \in Tasks : InRun(d) /\ o.path \in PathsOf(d) /\ content # world[o.path]}
  /\ UNCHANGED <<taskVars, applied, undone, before, strayed>>

-----------------------------------------------------------------------------
Init ==
  /\ world = InitialWorld
  /\ orphans = {}
  /\ agent = [t \in Tasks |-> NoAgent]
  /\ phase = [t \in Tasks |-> "waiting"]
  /\ plan = [t \in Tasks |-> <<>>]
  /\ outcomes = [t \in Tasks |-> <<>>]
  /\ undo = [t \in Tasks |-> <<>>]
  /\ seen = [t \in Tasks |-> NoUndo]
  /\ left = [t \in Tasks |-> {}]
  /\ intact = [t \in Tasks |-> TRUE]
  /\ report = [t \in Tasks |-> NoReport]
  /\ broken = {}
  /\ applied = [t \in Tasks |-> {}]
  /\ undone = [t \in Tasks |-> {}]
  /\ before = [t \in Tasks |-> InitialWorld]
  /\ disturbed = {}
  /\ strayed = [t \in Tasks |-> {}]

Acts(t) == Reviewed(t) \/ Prepared(t) \/ Decided(t) \/ Executed(t)
Lives(t) ==
  Dispatch(t) \/ Planned(t) \/ Errs(t) \/ Raises(t) \/ Thought(t) \/ Acts(t)
  \/ Judged(t) \/ Undone(t) \/ TimesOut(t)

Next == (\E t \in Tasks : Lives(t)) \/ (\E o \in orphans : OrphanLands(o))

Spec == Init /\ [][Next]_vars

\* What the event loop guarantees: a batch goes on to its next task, and the
\* timer of a task fires.  Providers, approvers and drivers may never answer.
FairSpec == Spec /\ \A t \in Tasks : WF_vars(Dispatch(t)) /\ WF_vars(TimesOut(t))

-----------------------------------------------------------------------------
(* Properties *)

Effects(t) == {i \in DOMAIN plan[t] : IsEffect(plan[t][i])}
\* The files a task wrote to without being able to undo it.
Kept(t) == {plan[t][i].path : i \in {j \in applied[t] \ undone[t] : OnFile(plan[t][j])}}

\* What the report of a task says is so.  A completed task has performed every
\* effect of its plan and undone none.  One that is rolled back has undone each
\* effect it reports as such, kept none it could undo, and, when nothing else
\* wrote to its files meanwhile, left those it no longer has a part in as it found
\* them.  A failed one that lists outcomes performed the effects listed as
\* succeeded and no other.  A rejected one has done nothing.
Tells(t) ==
  LET told == report[t].told IN
  /\ report[t].status = "completed" => applied[t] = Effects(t) /\ undone[t] = {}
  /\ report[t].status = "rolled_back" =>
       /\ \A i \in DOMAIN told :
            /\ told[i] = "rolled_back" <=> i \in undone[t]
            /\ told[i] = "succeeded" /\ i \in Effects(t) => undo[t][i] = NoUndo
       /\ t \notin disturbed => PathsOf(t) \intersect strayed[t] \subseteq Kept(t)
  /\ report[t].status = "failed" /\ told # <<>> =>
       applied[t] = {i \in Effects(t) : told[i] = "succeeded"}
  /\ report[t].status = "rejected" => applied[t] = {}

\* Every report tells what was done and undone, however the tasks interleave, their
\* effects fail and their budgets run out (BaseAgent._run_lifecycle, report).
ReportsTell == \A t \in Tasks : Tells(t)

\* Every task of a batch is reported on in the end, whatever provider, approver
\* or driver never answers, unless an exception of another family has ended the
\* batch.
Accounted ==
  \A c \in Callers : \A i \in DOMAIN Batch[c] :
    <>(c \in broken \/ report[Batch[c][i]] # NoReport)
=============================================================================
