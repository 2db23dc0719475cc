-------------------------- MODULE ExecutionEngine --------------------------
(***************************************************************************)
(* ExecutionEngine.submit (eden/execution/engine.py) run by several asyncio*)
(* tasks at once over one workspace, with the policy engine                *)
(* (permissions.py), the web approval gate (interface/server.py) and the   *)
(* journal (journal.py).                                                   *)
(*                                                                         *)
(*     prepare -> verify -> permit -> execute -> (rollback) -> journal     *)
(*                                                                         *)
(* Code between two awaits runs without interruption, so it is one action  *)
(* here; every await is a value of `pc`:                                   *)
(*   preparing     handler.prepare is reading the file in a thread         *)
(*   asking        gate.request waits for a human or for its timer         *)
(*   executing     handler.execute waits for its worker                    *)
(*   compensating  a rollback step waits for its worker                    *)
(*   journalling   journal.append waits for its lock and its thread        *)
(* A task may be cancelled at any of them (the agent's task timeout, the   *)
(* scheduler's run timeout, shutdown); its worker thread may not.          *)
(***************************************************************************)
EXTENDS ActionHandlers

CONSTANTS
  Tasks,    \* the asyncio tasks that call submit, each once
  Actions   \* the actions they may submit

ASSUME ActionsAssumption == Actions \subseteq Action

NoAction == [kind |-> "none"]
NoPreparation == [reversible |-> FALSE, existed |-> FALSE, plan |-> <<>>]
NoVerdict == [findings |-> {}, reversible |-> FALSE]
NoPermit == [granted |-> FALSE, mode |-> "none"]

VARIABLES
  config,       \* the frozen ExecutionConfig, chosen once
  workspace,    \* what is found at each path
  pc,           \* where each task is suspended
  action,       \* the local variables of submit: the action,
  preparation,  \*   what prepare captured,
  verdict,      \*   what verification found,
  permit,       \*   what policy decided,
  undo,         \*   and the rollback steps still to run
  worker,       \* the state of the worker thread (or child process) of a task
  pending,      \* WebApprovalGate._pending: the tasks whose approval is open
  answer,       \* the approval futures
  status,       \* the status of the record submit has built
  journal       \* the statuses journalled for each task, in order

(* History, read by the properties only. *)
VARIABLES
  approved,     \* tasks for which a human said yes
  silenced,     \* tasks whose approval timer fired
  ran,          \* tasks whose own action was handed to its handler and ran
  origin,       \* what was at the action's path when its plan was captured
  disturbed,    \* tasks whose path another worker has changed since then
  lost          \* tasks whose journal line the disk refused

gateVars    == <<pending, answer>>
historyVars == <<approved, silenced, ran, origin, disturbed, lost>>
vars == <<config, workspace, pc, action, preparation, verdict, permit, undo,
          worker, pending, answer, status, journal,
          approved, silenced, ran, origin, disturbed, lost>>

Suspended == {"preparing", "asking", "executing", "compensating", "journalling"}
Ended     == {"raised", "done", "cancelled"}
Status    == {"rejected", "denied", "skipped", "succeeded", "failed", "rolled_back"}

-----------------------------------------------------------------------------
(* The pieces submit is made of.  Each fixes pc, permit, status, worker,    *)
(* undo and pending; the actions below fix the rest.                        *)

\* `_finish`: the record is built; journal.append is awaited next.
Finish(t, s, perm) ==
  /\ pc'     = [pc EXCEPT ![t] = "journalling"]
  /\ status' = [status EXCEPT ![t] = s]
  /\ permit' = [permit EXCEPT ![t] = perm]
  /\ worker' = [worker EXCEPT ![t] = "none"]
  /\ undo'   = [undo EXCEPT ![t] = <<>>]

\* The no-op handler never suspends; every other handler waits for a worker.
Started(kind) == IF kind = "noop" THEN "ok" ELSE "queued"

\* `_execute` calls the handler.
Execute(t, a, perm) ==
  /\ pc'     = [pc EXCEPT ![t] = "executing"]
  /\ permit' = [permit EXCEPT ![t] = perm]
  /\ worker' = [worker EXCEPT ![t] = Started(a.kind)]
  /\ UNCHANGED <<status, undo>>

\* Faulty variant: the dry-run switch is forgotten.
ProceedIgnoringDryRun(t, a, perm) == Execute(t, a, perm)

\* A granted permit: a dry run stops here, anything else executes.
Proceed(t, a, perm) ==
  IF config.dry_run THEN Finish(t, "skipped", perm) ELSE Execute(t, a, perm)

\* The policy engine asks its gate.
AskGate(t, a) ==
  CASE config.gate = "denying" ->
         /\ Finish(t, "denied", [granted |-> FALSE, mode |-> "confirm"])
         /\ UNCHANGED pending
    [] config.gate = "approving" ->
         /\ Proceed(t, a, [granted |-> TRUE, mode |-> "confirm"])
         /\ UNCHANGED pending
    [] config.gate = "web" ->
         /\ pc' = [pc EXCEPT ![t] = "asking"]
         /\ pending' = pending \cup {t}
         /\ UNCHANGED <<permit, status, worker, undo>>

Refused == [granted |-> FALSE, mode |-> "deny"]

\* Everything between the preparation and the next await: verification, the
\* decision ladder, and the first step it leads to.
Authorise(t, a, p) ==
  LET v == Verify(a, p) IN
  /\ preparation' = [preparation EXCEPT ![t] = p]
  /\ verdict' = [verdict EXCEPT ![t] = v]
  /\ origin' = [origin EXCEPT ![t] = workspace[a.path]]
  /\ disturbed' = disturbed \ {t}
  /\ CASE Decision(config, v) = "refuse" ->
            /\ Finish(t, IF Blocked(config, v) THEN "rejected" ELSE "denied", Refused)
            /\ UNCHANGED pending
       [] Decision(config, v) = "proceed" ->
            /\ Proceed(t, a, [granted |-> TRUE, mode |-> "automatic"])
            /\ UNCHANGED pending
       [] Decision(config, v) = "ask" -> AskGate(t, a)

-----------------------------------------------------------------------------
(* submit *)

\* handler_for raises: nothing is journalled and nothing happened.
SubmitUnhandled(t, a) ==
  /\ pc[t] = "idle"
  /\ a.kind \notin config.handlers
  /\ pc' = [pc EXCEPT ![t] = "raised"]
  /\ action' = [action EXCEPT ![t] = a]
  /\ UNCHANGED <<config, workspace, preparation, verdict, permit, undo, worker,
                 status, journal, gateVars, historyVars>>

\* The preparation needs no read: submit runs on to its next await.
SubmitPrepared(t, a) ==
  /\ pc[t] = "idle"
  /\ a.kind \in config.handlers
  /\ action' = [action EXCEPT ![t] = a]
  /\ \E p \in PreparedAtOnce(a, workspace) : Authorise(t, a, p)
  /\ UNCHANGED <<config, workspace, journal, answer, approved,
                 silenced, ran, lost>>

\* The preparation has to read the file first.
SubmitReading(t, a) ==
  /\ pc[t] = "idle"
  /\ a.kind \in config.handlers
  /\ NeedsRead(a, workspace)
  /\ pc' = [pc EXCEPT ![t] = "preparing"]
  /\ action' = [action EXCEPT ![t] = a]
  /\ UNCHANGED <<config, workspace, preparation, verdict, permit, undo, worker,
                 status, journal, gateVars, historyVars>>

\* The read returns.
FinishPreparing(t) ==
  /\ pc[t] = "preparing"
  /\ \E p \in PreparedByRead(action[t], workspace) : Authorise(t, action[t], p)
  /\ UNCHANGED <<config, workspace, action, journal, answer, approved,
                 silenced, ran, lost>>

-----------------------------------------------------------------------------
(* The approval gate *)

\* WebApprovalGate.resolve: the entry is popped and its future completed.  A
\* late or repeated call finds no entry and changes nothing.
Resolve(t, yes) ==
  /\ t \in pending
  /\ pending' = pending \ {t}
  /\ answer' = [answer EXCEPT ![t] = IF yes THEN "yes" ELSE "no"]
  /\ approved' = IF yes THEN approved \cup {t} ELSE approved
  /\ UNCHANGED <<config, workspace, pc, action, preparation, verdict, permit, undo,
                 worker, status, journal, silenced, ran, origin,
                 disturbed, lost>>

\* request returns the human's answer.
GateAnswers(t) ==
  /\ pc[t] = "asking"
  /\ answer[t] # "none"
  /\ IF answer[t] = "yes"
     THEN Proceed(t, action[t], [granted |-> TRUE, mode |-> "confirm"])
     ELSE Finish(t, "denied", [granted |-> FALSE, mode |-> "confirm"])
  /\ UNCHANGED <<config, workspace, action, preparation, verdict, journal,
                 gateVars, historyVars>>

\* What the timer's TimeoutError leads to.
RefuseInSilence(t) ==
  /\ pending' = pending \ {t}
  /\ silenced' = silenced \cup {t}
  /\ Finish(t, "denied", [granted |-> FALSE, mode |-> "confirm"])
  /\ UNCHANGED <<config, workspace, action, preparation, verdict, journal,
                 answer, approved, ran, origin, disturbed, lost>>

\* Faulty variants: the timer is not disarmed by an answer; there is none.
GateTimesOutLate(t) == pc[t] \in {"asking", "executing"} /\ RefuseInSilence(t)
GateNeverTimesOut(t) == pc[t] = "asking" /\ answer[t] = "no" /\ RefuseInSilence(t)

\* The approval timer fires.  When the answer is already in but the task has
\* not run since, asyncio.wait_for still raises TimeoutError: the answer that
\* resolve reported as delivered is dropped, in the safe direction.
GateTimesOut(t) == pc[t] = "asking" /\ RefuseInSilence(t)

-----------------------------------------------------------------------------
(* Execution and compensation *)

\* What a file action that succeeds leaves at its path.
StepResult(a) == IF a.kind = "file_delete" THEN Absent ELSE a.content

\* What the worker of a task is running: the action, or a rollback step.
StepOf(t) == IF undo[t] = <<>> THEN action[t] ELSE Head(undo[t])

\* The worker runs to its end.  It is a thread or a process: it does so even
\* when the task that started it has been cancelled.
WorkerEnds(t) ==
  /\ worker[t] = "queued"
  /\ \E o \in Outcomes(StepOf(t), workspace) :
       /\ workspace' = o.workspace
       /\ worker' = [worker EXCEPT ![t] = o.result]
       /\ disturbed' = disturbed \cup
            {u \in Tasks \ {t} : /\ action[u] # NoAction
                                 /\ o.workspace[action[u].path] # workspace[action[u].path]}
  /\ ran' = IF undo[t] = <<>> THEN ran \cup {t} ELSE ran
  /\ UNCHANGED <<config, pc, action, preparation, verdict, permit, undo, status,
                 journal, gateVars, approved, silenced, origin, lost>>

\* `_apply_rollback` over the steps that remain.
RunRollback(t, steps) ==
  IF steps = <<>> THEN Finish(t, "rolled_back", permit[t])
  ELSE IF Head(steps).kind \notin config.handlers THEN Finish(t, "failed", permit[t])
  ELSE /\ pc'     = [pc EXCEPT ![t] = "compensating"]
       /\ worker' = [worker EXCEPT ![t] = Started(Head(steps).kind)]
       /\ undo'   = [undo EXCEPT ![t] = steps]
       /\ UNCHANGED <<status, permit>>

\* Faulty variant: a failed action is recorded as undone without undoing it.
ClaimRolledBack(t) == Finish(t, "rolled_back", permit[t])

\* execute raised: `_compensate_one`.
CompensateOne(t) ==
  IF preparation[t].reversible THEN RunRollback(t, preparation[t].plan)
  ELSE Finish(t, "failed", permit[t])

\* execute returns or raises.
ResumeExecute(t) ==
  /\ pc[t] = "executing"
  /\ worker[t] \in CallResult
  /\ CASE worker[t] = "ok" -> Finish(t, "succeeded", permit[t])
       [] worker[t] = "unsuccessful" -> Finish(t, "failed", permit[t])
       [] worker[t] = "error" -> CompensateOne(t)
  /\ ran' = ran \cup {t}
  /\ UNCHANGED <<config, workspace, action, preparation, verdict, journal,
                 gateVars, approved, silenced, origin, disturbed, lost>>

\* A rollback step returns: the next one runs, and the first that raises ends
\* the rollback.  What the step's handler returned is not looked at.
ResumeRollback(t) ==
  /\ pc[t] = "compensating"
  /\ worker[t] \in CallResult
  /\ IF worker[t] = "error" THEN Finish(t, "failed", permit[t])
     ELSE RunRollback(t, Tail(undo[t]))
  /\ UNCHANGED <<config, workspace, action, preparation, verdict, journal,
                 gateVars, historyVars>>

-----------------------------------------------------------------------------
(* The journal and cancellation *)

AppendLine(t) == journal' = [journal EXCEPT ![t] = Append(@, status[t])]

\* Faulty variant: a refused action leaves no trace.
WriteEffectLine(t) ==
  IF config.journal_enabled /\ t \in ran THEN AppendLine(t) ELSE UNCHANGED journal

\* The journal build_journal chose: one file of lines, or none.
WriteLine(t) == IF config.journal_enabled THEN AppendLine(t) ELSE UNCHANGED journal

\* journal.append returns.  The disk is taken to accept the line; a line it
\* refuses is logged and given up (see LoseRecord).
Journal(t) ==
  /\ pc[t] = "journalling"
  /\ pc' = [pc EXCEPT ![t] = "done"]
  /\ WriteLine(t)
  /\ UNCHANGED <<config, workspace, action, preparation, verdict, permit, undo,
                 worker, status, gateVars, historyVars>>

\* The journal file cannot be written: the error is swallowed.
LoseRecord(t) ==
  /\ pc[t] = "journalling"
  /\ config.journal_enabled
  /\ pc' = [pc EXCEPT ![t] = "done"]
  /\ lost' = lost \cup {t}
  /\ UNCHANGED <<config, workspace, action, preparation, verdict, permit, undo,
                 worker, status, journal, gateVars, approved, silenced, ran,
                 origin, disturbed>>

\* A handler that never suspends gives cancellation no place to land.
Interruptible(t) ==
  /\ pc[t] \in Suspended
  /\ pc[t] \in {"executing", "compensating"} => StepOf(t).kind # "noop"

\* Faulty variant: a cancelled task records whatever it has.
LineOnCancel(t) == WriteLine(t)

\* A line already handed to its thread is still written.
LineInFlight(t) ==
  \/ pc[t] = "journalling" /\ WriteLine(t)
  \/ UNCHANGED journal

\* CancelledError unwinds the task; a worker that has not started may be
\* withdrawn with it, one that has started goes on.
Unwind(t) ==
  /\ Interruptible(t)
  /\ pc' = [pc EXCEPT ![t] = "cancelled"]
  /\ worker' \in {worker} \cup
       (IF worker[t] = "queued" THEN {[worker EXCEPT ![t] = "none"]} ELSE {})
  /\ LineInFlight(t)
  /\ UNCHANGED <<config, workspace, action, preparation, verdict, permit, undo,
                 status, answer, historyVars>>

\* Faulty variant: the gate has no `finally`.
CancelLeavingApproval(t) == Unwind(t) /\ UNCHANGED pending

\* The task is cancelled; the gate's `finally` closes its open approval.
Cancel(t) == Unwind(t) /\ pending' = pending \ {t}

-----------------------------------------------------------------------------
Init ==
  /\ config \in Configs
  /\ workspace \in [Paths -> Content \ {Torn}]
  /\ pc = [t \in Tasks |-> "idle"]
  /\ action = [t \in Tasks |-> NoAction]
  /\ preparation = [t \in Tasks |-> NoPreparation]
  /\ verdict = [t \in Tasks |-> NoVerdict]
  /\ permit = [t \in Tasks |-> NoPermit]
  /\ undo = [t \in Tasks |-> <<>>]
  /\ worker = [t \in Tasks |-> "none"]
  /\ pending = {}
  /\ answer = [t \in Tasks |-> "none"]
  /\ status = [t \in Tasks |-> "none"]
  /\ journal = [t \in Tasks |-> <<>>]
  /\ approved = {}
  /\ silenced = {}
  /\ ran = {}
  /\ origin = [t \in Tasks |-> Absent]
  /\ disturbed = {}
  /\ lost = {}

Submit(t, a) == SubmitUnhandled(t, a) \/ SubmitPrepared(t, a) \/ SubmitReading(t, a)

\* What a task does by itself once it has been started.
TaskStep(t) ==
  \/ FinishPreparing(t)
  \/ GateAnswers(t)
  \/ GateTimesOut(t)
  \/ WorkerEnds(t)
  \/ ResumeExecute(t)
  \/ ResumeRollback(t)
  \/ Journal(t)
  \/ LoseRecord(t)

Next ==
  \E t \in Tasks :
    \/ \E a \in Actions : Submit(t, a)
    \/ \E yes \in BOOLEAN : Resolve(t, yes)
    \/ TaskStep(t)
    \/ Cancel(t)

Spec == Init /\ [][Next]_vars

\* The event loop runs every ready task, its timers fire, threads and child
\* processes end (the shell handler bounds its child by timeout_seconds).
\* Nobody promises that a human answers or that a task is cancelled.
FairSpec == Spec /\ \A t \in Tasks : WF_vars(TaskStep(t))

-----------------------------------------------------------------------------
(* Properties *)

TypeOK ==
  /\ config \in Configs
  /\ workspace \in [Paths -> Content]
  /\ pc \in [Tasks -> {"idle"} \cup Suspended \cup Ended]
  /\ action \in [Tasks -> Actions \cup {NoAction}]
  /\ preparation \in [Tasks -> Preparation]
  /\ verdict \in [Tasks -> Verdict]
  /\ permit \in [Tasks -> Permit]
  /\ undo \in [Tasks -> Seq(Action)]
  /\ worker \in [Tasks -> {"none", "queued"} \cup CallResult]
  /\ pending \subseteq Tasks
  /\ answer \in [Tasks -> {"none", "yes", "no"}]
  /\ status \in [Tasks -> Status \cup {"none"}]
  /\ journal \in [Tasks -> Seq(Status)]
  /\ approved \subseteq Tasks /\ silenced \subseteq Tasks /\ ran \subseteq Tasks
  /\ disturbed \subseteq Tasks /\ lost \subseteq Tasks
  /\ origin \in [Tasks -> Content]

\* Whatever the interleaving, a worker only ever runs on behalf of an action
\* that policy granted, that no blocking finding and no risk ceiling forbids,
\* and outside dry-run: the pipeline is the only path to an effect.
EffectsAuthorised ==
  \A t \in Tasks : worker[t] # "none" =>
    /\ permit[t].granted
    /\ ~MustRefuse(config, verdict[t])
    /\ ~config.dry_run

\* What a granted permit rests on: an automatic one on a reversible action of
\* low enough risk, a confirmed one (behind the web gate) on a human's yes
\* that came before the timer.  So an irreversible action runs only after a
\* human saw it, and silence never approves.
GrantsEarned ==
  \A t \in Tasks : permit[t].granted =>
    \/ /\ permit[t].mode = "automatic"
       /\ preparation[t].reversible
       /\ RiskWithin(verdict[t], config.auto_approve_max_risk)
    \/ /\ permit[t].mode = "confirm"
       /\ config.default_mode # "deny"
       /\ config.gate = "web" => t \in approved \ silenced

\* The open approvals are exactly the tasks still waiting for an answer: no
\* cancelled, answered or timed-out request stays on the operator's list, and
\* none that waits is missing from it.
OpenApprovalsExact ==
  pending = {t \in Tasks : pc[t] = "asking" /\ answer[t] = "none"}

\* The record tells the truth about whether the handler ran.
RecordsTruthful ==
  \A t \in Tasks :
    /\ status[t] \in {"rejected", "denied", "skipped"} => t \notin ran
    /\ status[t] \in {"succeeded", "failed", "rolled_back"} => t \in ran

\* A file action recorded as rolled back left its file as the preparation
\* found it, and one recorded as succeeded left its own content there, unless
\* another task's worker changed that file in between: the promise the
\* pipeline can keep, since nothing locks the file across the approval.
RollbackRestores ==
  \A t \in Tasks \ disturbed :
    action[t].kind \in FileKinds =>
      /\ status[t] = "rolled_back" => workspace[action[t].path] = origin[t]
      /\ status[t] = "succeeded" =>
           workspace[action[t].path] = StepResult(action[t])

\* A submission that ends by itself leaves exactly one record with its final
\* status, unless the disk refused the line; none leaves two, or one that
\* disagrees with what the caller was told.
OneRecordEach ==
  \A t \in Tasks :
    /\ journal[t] \in {<<>>, <<status[t]>>}
    /\ (pc[t] = "done" /\ config.journal_enabled /\ t \notin lost)
         => journal[t] = <<status[t]>>

\* Every submission ends, although no human is obliged to answer, and no
\* worker is left running behind a task that was cancelled.
SubmissionsEnd ==
  \A t \in Tasks : pc[t] \in Suspended ~> (pc[t] \in Ended /\ worker[t] # "queued")

\* "Every action produces exactly one record" (execution/types.py): whatever
\* ran to its end was recorded.  Cancellation breaks it.
EveryEffectRecorded ==
  \A t \in Tasks :
    (pc[t] \in Ended /\ t \in ran /\ config.journal_enabled /\ t \notin lost)
      => journal[t] # <<>>

-----------------------------------------------------------------------------
(* The inductive invariant behind the safety properties. *)

\* How the local variables of submit follow the place it is suspended at.
Shape(t) ==
  /\ action[t] = NoAction <=> pc[t] = "idle"
  /\ pc[t] \in {"journalling", "done"} => status[t] # "none"
  /\ status[t] # "none" => pc[t] \in {"journalling", "done", "cancelled"}
  /\ pc[t] \in {"executing", "compensating"} => worker[t] # "none"
  /\ worker[t] # "none" =>
       status[t] = "none" /\ pc[t] \in {"executing", "compensating", "cancelled"}
  /\ undo[t] # <<>> => pc[t] \in {"compensating", "cancelled"}
  /\ pc[t] = "compensating" => undo[t] # <<>>

\* What holds before the permit, so that a grant can be earned.
BeforePermit(t) ==
  /\ pc[t] \in {"idle", "preparing", "asking", "raised"} =>
       ~permit[t].granted /\ t \notin silenced /\ t \notin ran
  /\ pc[t] \in {"idle", "preparing", "raised"} => answer[t] = "none"
  /\ answer[t] = "yes" => t \in approved
  /\ pc[t] = "asking" =>
       /\ config.gate = "web"
       /\ config.default_mode # "deny"
       /\ ~MustRefuse(config, verdict[t])

\* The journal is written once, after the status is fixed.
BeforeRecord(t) ==
  /\ pc[t] \notin {"done", "cancelled"} => journal[t] = <<>>
  /\ pc[t] = "compensating" => t \in ran

IInv ==
  /\ TypeOK
  /\ \A t \in Tasks : Shape(t) /\ BeforePermit(t) /\ BeforeRecord(t)
  /\ EffectsAuthorised /\ GrantsEarned /\ OpenApprovalsExact
  /\ RecordsTruthful /\ OneRecordEach

-----------------------------------------------------------------------------
(* Refinement: the engine implements ActionPipeline. *)

StageOf(t) ==
  CASE status[t] # "none" -> "settled"
    [] status[t] = "none" /\ pc[t] \in {"idle", "preparing", "asking"} -> "open"
    [] status[t] = "none" /\ pc[t] \in {"executing", "compensating"} -> "granted"
    [] status[t] = "none" /\ pc[t] \notin {"idle", "preparing", "asking", "executing",
                                           "compensating"} ->
         IF permit[t].granted THEN "orphaned" ELSE "withdrawn"

Pipeline == INSTANCE ActionPipeline WITH
  Worlds   <- [Paths -> Content],
  Declined <- {"rejected", "denied", "skipped"},
  Executed <- {"succeeded", "failed", "rolled_back"},
  None     <- "none",
  world    <- workspace,
  stage    <- [t \in Tasks |-> StageOf(t)],
  outcome  <- status

\* The engine keeps every promise of the abstract pipeline: nothing acts before
\* it is granted or after its outcome, and no outcome is ever revised.
ImplementsPipeline == Pipeline!Spec
=============================================================================
