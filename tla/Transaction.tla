---------------------------- MODULE Transaction ----------------------------
(***************************************************************************)
(* ExecutionEngine.submit_transaction (eden/execution/engine.py): a saga   *)
(* over the pipeline.  The actions of a batch are submitted one after the  *)
(* other; when one does not succeed, the ones that did are compensated in  *)
(* reverse.                                                                *)
(*                                                                         *)
(* The module extends ExecutionEngine: the i-th submission of the batch is *)
(* the task Slot[i] of the engine, and every other task is a submission by *)
(* somebody else, running on the same event loop over the same files.      *)
(* Before it calls submit the transaction prepares the action itself, to   *)
(* keep the rollback plan it may need later; submit prepares it again.     *)
(***************************************************************************)
EXTENDS ExecutionEngine

CONSTANTS
  Slot,        \* the engine tasks of the batch, by position
  MaxActions,  \* max_transaction_actions
  Batches,     \* the batches callers may submit
  OtherActions \* the actions other tasks may submit meanwhile

ASSUME SlotAssumption ==
  /\ MaxActions \in Nat
  /\ Slot \in [1 .. MaxActions -> Tasks]
  /\ \A i, j \in 1 .. MaxActions : Slot[i] = Slot[j] => i = j

ASSUME BatchesAssumption ==
  Batches \subseteq Seq(Actions) /\ OtherActions \subseteq Actions

Slots  == {Slot[i] : i \in 1 .. MaxActions}
Others == Tasks \ Slots

VARIABLES
  phase,      \* where the coroutine of submit_transaction is
  batch,      \* its argument
  position,   \* the action it is at
  kept,       \* the preparation it took of that action
  completed,  \* the actions that succeeded, with their preparations
  restoring,  \* the rollback steps left of the action being compensated
  hand,       \* the worker of its own rollback steps
  allRestored,\* whether every compensation so far worked
  result      \* the TransactionResult

(* History, read by the properties only. *)
VARIABLES
  before,     \* the workspace when the transaction began
  meddled     \* whether anybody else's worker changed it since

txVars  == <<phase, batch, position, kept, completed, restoring, hand,
             allRestored, result, before>>
allVars == <<vars, txVars, meddled>>

NoResult == [succeeded |-> FALSE, compensated |-> FALSE]
Current == Slot[position]

-----------------------------------------------------------------------------
(* The loop over the batch. *)

\* The iteration for position i begins: handler_for raises, or the action is
\* prepared, and unless that needs a read submit is entered at once.
Iterate(b, i) ==
  /\ position' = i
  /\ \/ /\ b[i].kind \notin config.handlers
        /\ phase' = "raised"
        /\ UNCHANGED <<vars, kept>>
     \/ /\ b[i].kind \in config.handlers
        /\ \E p \in PreparedAtOnce(b[i], workspace) : kept' = p
        /\ Submit(Slot[i], b[i])
        /\ phase' = "submitting"
     \/ /\ b[i].kind \in config.handlers
        /\ NeedsRead(b[i], workspace)
        /\ phase' = "preparing"
        /\ UNCHANGED <<vars, kept>>

Return(succeeded, compensated) ==
  /\ phase' = "returned"
  /\ result' = [succeeded |-> succeeded, compensated |-> compensated]

\* submit_transaction is called: an oversized batch raises.
Begin(b) ==
  /\ phase = "idle"
  /\ batch' = b
  /\ before' = workspace
  /\ meddled' = FALSE
  /\ \/ /\ Len(b) > MaxActions
        /\ phase' = "raised"
        /\ UNCHANGED <<vars, position, kept, result>>
     \/ /\ b = <<>>
        /\ Return(TRUE, FALSE)
        /\ UNCHANGED <<vars, position, kept>>
     \/ /\ Len(b) \in 1 .. MaxActions
        /\ Iterate(b, 1)
        /\ UNCHANGED result
  /\ UNCHANGED <<completed, restoring, hand, allRestored>>

\* The transaction's own preparation returns from its read; submit is entered.
Prepared ==
  /\ phase = "preparing"
  /\ \E p \in PreparedByRead(batch[position], workspace) : kept' = p
  /\ Submit(Current, batch[position])
  /\ phase' = "submitting"
  /\ UNCHANGED <<batch, position, completed, restoring, hand, allRestored,
                 result, before, meddled>>

\* Faulty variant: the record is taken before it has been journalled.
BackEarly(t) == status[t] # "none"

\* submit has returned its record.
Back(t) == pc[t] = "done"

\* ExecutionRecord.succeeded, and a faulty variant that takes a dry run, or
\* any other action nobody refused, for a success.
SucceededOrSkipped(s) == s \in {"succeeded", "skipped"}
Success(s) == s = "succeeded"

\* submit returned a record of success: on to the next action, or done.
Succeeded ==
  /\ phase = "submitting"
  /\ Back(Current)
  /\ Success(status[Current])
  /\ completed' = Append(completed, [action |-> batch[position], preparation |-> kept])
  /\ IF position < Len(batch)
     THEN Iterate(batch, position + 1) /\ UNCHANGED result
     ELSE Return(TRUE, FALSE) /\ UNCHANGED <<vars, position, kept>>
  /\ UNCHANGED <<batch, restoring, hand, allRestored, before, meddled>>

-----------------------------------------------------------------------------
(* Compensation.  The loops of `_compensate` and `_apply_rollback` suspend  *)
(* only while a worker runs; between two workers they touch nothing that    *)
(* anybody else sees, so their turns are actions of their own.              *)

\* Any other record ends the batch.
Failed ==
  /\ phase = "submitting"
  /\ Back(Current)
  /\ ~Success(status[Current])
  /\ phase' = "compensating"
  /\ UNCHANGED <<vars, batch, position, kept, completed, restoring, hand,
                 allRestored, result, before, meddled>>

\* Faulty variant: the last compensation is not awaited.
TurningUnawaited == phase = "compensating" /\ (restoring = <<>> \/ completed = <<>>)

\* Between two compensations.
Turning == phase = "compensating" /\ restoring = <<>> /\ hand = "none"

\* Faulty variants: the oldest action is undone first; no action is ever
\* taken off the list.
OldestFirst(done) == [next |-> Head(done), rest |-> Tail(done)]
YoungestAgain(done) == [next |-> done[Len(done)], rest |-> done]

\* `reversed(completed)`: the youngest action first.
YoungestFirst(done) ==
  [next |-> done[Len(done)], rest |-> SubSeq(done, 1, Len(done) - 1)]

\* The next action to undo; an irreversible one counts as a failure, and the
\* loop goes on.
UndoNext ==
  /\ Turning
  /\ completed # <<>>
  /\ LET turn == YoungestFirst(completed) IN
     /\ completed' = turn.rest
     /\ IF turn.next.preparation.reversible
        THEN restoring' = turn.next.preparation.plan /\ UNCHANGED allRestored
        ELSE allRestored' = FALSE /\ UNCHANGED restoring
  /\ UNCHANGED <<vars, phase, batch, position, kept, hand, result, before, meddled>>

\* A rollback step fails: the rest of its plan is given up.
GiveUpPlan == allRestored' = FALSE

\* A rollback step is handed to its handler, if there is one.
StartStep ==
  /\ phase = "compensating"
  /\ restoring # <<>>
  /\ hand = "none"
  /\ IF Head(restoring).kind \in config.handlers
     THEN hand' = Started(Head(restoring).kind) /\ UNCHANGED <<restoring, allRestored>>
     ELSE restoring' = <<>> /\ GiveUpPlan /\ UNCHANGED hand
  /\ UNCHANGED <<vars, phase, batch, position, kept, completed, result, before, meddled>>

\* Its worker runs to its end, even behind a cancelled transaction.
HandEnds ==
  /\ hand = "queued"
  /\ \E o \in Outcomes(Head(restoring), workspace) :
       /\ workspace' = o.workspace
       /\ hand' = o.result
       /\ disturbed' = disturbed \cup
            {u \in Tasks : /\ action[u] # NoAction
                          /\ o.workspace[action[u].path] # workspace[action[u].path]}
  /\ UNCHANGED <<config, pc, action, preparation, verdict, permit, undo, worker,
                 status, journal, gateVars, approved, silenced, ran, origin, lost>>
  /\ UNCHANGED <<phase, batch, position, kept, completed, restoring, allRestored,
                 result, before, meddled>>

\* The step returns or raises.
StepReturns ==
  /\ phase = "compensating"
  /\ hand \in CallResult
  /\ hand' = "none"
  /\ IF hand = "error" THEN restoring' = <<>> /\ GiveUpPlan
     ELSE restoring' = Tail(restoring) /\ UNCHANGED allRestored
  /\ UNCHANGED <<vars, phase, batch, position, kept, completed, result, before, meddled>>

Compensated ==
  /\ Turning
  /\ completed = <<>>
  /\ Return(FALSE, allRestored)
  /\ UNCHANGED <<vars, batch, position, kept, completed, restoring, hand,
                 allRestored, before, meddled>>

-----------------------------------------------------------------------------
\* The task that runs the transaction is cancelled: nothing is compensated.
CancelTransaction ==
  /\ \/ phase = "preparing" /\ UNCHANGED <<vars, hand>>
     \/ phase = "submitting" /\ Cancel(Current) /\ UNCHANGED hand
     \/ phase = "compensating" /\ hand = "queued" /\ hand' \in {"queued", "none"}
        /\ UNCHANGED vars
  /\ phase' = "cancelled"
  /\ UNCHANGED <<batch, position, kept, completed, restoring, allRestored, result,
                 before, meddled>>

\* What the engine does with the submission of the batch.
SubmissionSteps ==
  /\ \E t \in Slots : TaskStep(t) \/ \E yes \in BOOLEAN : Resolve(t, yes)
  /\ UNCHANGED <<txVars, meddled>>

\* A submission by somebody else.
OtherSteps ==
  /\ \E t \in Others :
       \/ \E a \in OtherActions : Submit(t, a)
       \/ \E yes \in BOOLEAN : Resolve(t, yes)
       \/ TaskStep(t)
       \/ Cancel(t)
  /\ meddled' = (meddled \/ workspace' # workspace)
  /\ UNCHANGED txVars

TxInit ==
  /\ Init
  /\ phase = "idle"
  /\ batch = <<>>
  /\ position = 0
  /\ kept = NoPreparation
  /\ completed = <<>>
  /\ restoring = <<>>
  /\ hand = "none"
  /\ allRestored = TRUE
  /\ result = NoResult
  /\ before = workspace
  /\ meddled = FALSE

\* What the transaction does by itself once it has begun.
TxStep ==
  \/ Prepared \/ Succeeded \/ Failed
  \/ UndoNext \/ StartStep \/ HandEnds \/ StepReturns \/ Compensated

TxNext ==
  \/ \E b \in Batches : Begin(b)
  \/ TxStep
  \/ CancelTransaction
  \/ SubmissionSteps
  \/ OtherSteps

TxSpec == TxInit /\ [][TxNext]_allVars

\* As for the engine: ready tasks run, timers fire, workers end; nobody has to
\* answer, to cancel or to submit anything else.
FairTxSpec ==
  /\ TxSpec
  /\ WF_allVars(TxStep)
  /\ \A t \in Slots : WF_allVars(TaskStep(t) /\ UNCHANGED <<txVars, meddled>>)

-----------------------------------------------------------------------------
(* Properties *)

TxTypeOK ==
  /\ phase \in {"idle", "preparing", "submitting", "compensating",
                "returned", "raised", "cancelled"}
  /\ batch \in Batches \cup {<<>>}
  /\ position \in 0 .. MaxActions
  /\ kept \in Preparation
  /\ completed \in Seq([action : Actions, preparation : Preparation])
  /\ restoring \in Seq(Action)
  /\ hand \in {"none", "queued"} \cup CallResult
  /\ allRestored \in BOOLEAN /\ meddled \in BOOLEAN
  /\ result \in [succeeded : BOOLEAN, compensated : BOOLEAN]
  /\ before \in [Paths -> Content]
  /\ hand # "none" => restoring # <<>> /\ phase \in {"compensating", "cancelled"}
  /\ restoring # <<>> => phase \in {"compensating", "cancelled"}

\* A transaction that reports itself compensated left the files as it found
\* them, whatever it wrote, overwrote and deleted and in whatever order, as
\* long as nobody else changed them and its last action did not fail half-way.
CompensationRestores ==
  (/\ phase = "returned" /\ ~result.succeeded /\ result.compensated
   /\ ~meddled
   /\ status[Current] # "failed"
   /\ \A i \in 1 .. Len(batch) : batch[i].kind \in ShippedKinds)
    => workspace = before

\* Compensation bypasses verification and permission because the actions it
\* undoes were permitted: so it runs only for a batch whose actions before
\* the current one were granted, executed and recorded as succeeded, and
\* never in a dry run.
CompensationAuthorised ==
  hand # "none" =>
    /\ ~config.dry_run
    /\ position > 1
    /\ \A i \in 1 .. position - 1 :
         permit[Slot[i]].granted /\ Slot[i] \in ran /\ status[Slot[i]] = "succeeded"

\* The saga never races itself: while one of its workers runs, no other does,
\* no approval of it is open and nothing of it is being prepared.
OneHandAtATime ==
  /\ hand # "none" => \A t \in Slots : pc[t] \notin Suspended /\ worker[t] # "queued"
  /\ \A i, j \in 1 .. MaxActions :
       i < j /\ pc[Slot[j]] # "idle" => status[Slot[i]] = "succeeded"

\* Every transaction that is not left to itself ends.
TransactionEnds ==
  phase \in {"preparing", "submitting", "compensating"}
    ~> phase \in {"returned", "raised", "cancelled"}

\* "if any fails, the ones that already succeeded are compensated in reverse"
\* (engine.py): a batch that ends by an exception leaves nothing behind.  A
\* kind without a handler late in the batch breaks it.
FailureCompensates == phase = "raised" => completed = <<>>
=============================================================================
