------------------------- MODULE TransactionProofs -------------------------
(***************************************************************************)
(* Proofs about Transaction for any batches, slots, tasks, paths, texts,   *)
(* configurations and plans: a saga keeps what the pipeline promises,      *)
(* compensates only what the pipeline granted and ran, and leaves the files*)
(* as it found them when it says so.                                       *)
(***************************************************************************)
EXTENDS Transaction, RollbackProofs

\* Whatever ran was granted, in no dry run.
RanAuthorised == \A t \in Tasks : t \in ran => permit[t].granted /\ ~config.dry_run

\* Where the saga is in its batch, and that what it undoes lies behind it.
Underway ==
  /\ phase = "idle" => position = 0 /\ completed = <<>>
  /\ phase \in {"preparing", "submitting", "compensating"} =>
       /\ position \in 1 .. Len(batch) /\ Len(batch) <= MaxActions
       /\ completed # <<>> => position > 1
  /\ restoring # <<>> => position > 1

\* The submissions before the current one succeeded, those after it have not
\* begun, and it is over when compensation begins.
Positions ==
  \A i \in 1 .. MaxActions :
    /\ i < position => pc[Slot[i]] = "done" /\ status[Slot[i]] = "succeeded"
    /\ i > position => pc[Slot[i]] = "idle"
    /\ i = position /\ (phase = "compensating" \/ hand # "none") => pc[Slot[i]] = "done"

TxIInv == IInv /\ RanAuthorised /\ TxTypeOK /\ Underway /\ Positions

-----------------------------------------------------------------------------
(* The engine's own steps: who they touch. *)

\* A step of t leaves the place, record and permit of every other task alone,
\* and gives or withdraws a permit only before anything ran.
Touches(t) ==
  /\ config' = config
  /\ \A u \in Tasks \ {t} : pc'[u] = pc[u] /\ status'[u] = status[u] /\ permit'[u] = permit[u]
  /\ permit'[t] = permit[t] \/ (pc[t] \in {"idle", "preparing", "asking"} /\ ran' = ran)
  /\ ran' \subseteq ran \cup {t}
  /\ t \in ran' => t \in ran \/ worker[t] # "none"

LEMMA FinishTouches ==
  ASSUME TypeOK, NEW t \in Tasks, NEW s, NEW perm, Finish(t, s, perm), config' = config,
         \/ perm = permit[t] /\ ran' \subseteq ran \cup {t} /\ (t \in ran' => t \in ran \/ worker[t] # "none")
         \/ pc[t] \in {"idle", "preparing", "asking"} /\ ran' = ran
  PROVE  Touches(t)
BY DEF Touches, Finish, TypeOK

LEMMA ProceedTouches ==
  ASSUME TypeOK, NEW t \in Tasks, NEW a, NEW perm, Proceed(t, a, perm), config' = config,
         pc[t] \in {"idle", "preparing", "asking"}, ran' = ran
  PROVE  Touches(t)
<1>1. CASE config.dry_run
  BY <1>1, FinishTouches DEF Proceed
<1>2. CASE ~config.dry_run
  BY <1>2 DEF Proceed, Execute, Touches, TypeOK
<1> QED
  BY <1>1, <1>2

LEMMA AuthoriseTouches ==
  ASSUME TypeOK, NEW t \in Tasks, NEW a, NEW p, Authorise(t, a, p), config' = config,
         pc[t] \in {"idle", "preparing"}, ran' = ran
  PROVE  Touches(t)
<1> DEFINE v == Verify(a, p)
<1>1. CASE Decision(config, v) = "refuse"
  <2>1. Finish(t, IF Blocked(config, v) THEN "rejected" ELSE "denied", Refused)
    BY <1>1 DEF Authorise
  <2> QED
    BY <2>1, FinishTouches
<1>2. CASE Decision(config, v) = "proceed"
  <2>1. Proceed(t, a, [granted |-> TRUE, mode |-> "automatic"])
    BY <1>2 DEF Authorise
  <2> QED
    BY <2>1, ProceedTouches
<1>3. CASE Decision(config, v) = "ask"
  <2>1. AskGate(t, a)
    BY <1>3 DEF Authorise
  <2>2. config.gate \in {"denying", "approving", "web"}
    BY ConfigAssumption DEF TypeOK, ExecutionConfig
  <2>3. CASE config.gate = "denying"
    <3>1. Finish(t, "denied", [granted |-> FALSE, mode |-> "confirm"])
      BY <2>1, <2>3 DEF AskGate
    <3> QED
      BY <3>1, FinishTouches
  <2>4. CASE config.gate = "approving"
    <3>1. Proceed(t, a, [granted |-> TRUE, mode |-> "confirm"])
      BY <2>1, <2>4 DEF AskGate
    <3> QED
      BY <3>1, ProceedTouches
  <2>5. CASE config.gate = "web"
    <3>1. pc' = [pc EXCEPT ![t] = "asking"] /\ UNCHANGED <<permit, status>>
      BY <2>1, <2>5 DEF AskGate
    <3> QED
      BY <3>1 DEF Touches, TypeOK
  <2> QED
    BY <2>2, <2>3, <2>4, <2>5
<1> QED
  BY <1>1, <1>2, <1>3 DEF Decision

LEMMA SubmitTouches ==
  ASSUME TypeOK, NEW t \in Tasks, NEW a \in Actions, Submit(t, a)
  PROVE  Touches(t)
<1>1. CASE SubmitUnhandled(t, a)
  BY <1>1 DEF SubmitUnhandled, historyVars, Touches, TypeOK
<1>2. CASE SubmitReading(t, a)
  BY <1>2 DEF SubmitReading, historyVars, Touches, TypeOK
<1>3. CASE SubmitPrepared(t, a)
  <2>1. PICK p \in PreparedAtOnce(a, workspace) : Authorise(t, a, p)
    BY <1>3 DEF SubmitPrepared
  <2> QED
    BY <1>3, <2>1, AuthoriseTouches DEF SubmitPrepared
<1> QED
  BY <1>1, <1>2, <1>3 DEF Submit

LEMMA RunRollbackTouches ==
  ASSUME TypeOK, NEW t \in Tasks, NEW steps, RunRollback(t, steps), config' = config,
         ran' \subseteq ran \cup {t}, worker[t] # "none"
  PROVE  Touches(t)
<1>1. CASE steps = <<>>
  BY <1>1, FinishTouches DEF RunRollback
<1>2. CASE steps # <<>> /\ Head(steps).kind \notin config.handlers
  BY <1>2, FinishTouches DEF RunRollback
<1>3. CASE steps # <<>> /\ Head(steps).kind \in config.handlers
  BY <1>3 DEF RunRollback, Touches, TypeOK
<1> QED
  BY <1>1, <1>2, <1>3

LEMMA TaskStepTouches ==
  ASSUME TypeOK, NEW t \in Tasks, TaskStep(t)
  PROVE  Touches(t)
<1>1. CASE FinishPreparing(t)
  <2>1. PICK p \in PreparedByRead(action[t], workspace) : Authorise(t, action[t], p)
    BY <1>1 DEF FinishPreparing
  <2> QED
    BY <1>1, <2>1, AuthoriseTouches DEF FinishPreparing
<1>2. CASE GateAnswers(t)
  <2>1. pc[t] = "asking" /\ config' = config /\ ran' = ran
    BY <1>2 DEF GateAnswers, historyVars
  <2>2. CASE answer[t] = "yes"
    BY <1>2, <2>1, <2>2, ProceedTouches DEF GateAnswers
  <2>3. CASE answer[t] # "yes"
    BY <1>2, <2>1, <2>3, FinishTouches DEF GateAnswers
  <2> QED
    BY <2>2, <2>3
<1>3. CASE GateTimesOut(t)
  BY <1>3, FinishTouches DEF GateTimesOut, RefuseInSilence
<1>4. CASE WorkerEnds(t)
  BY <1>4 DEF WorkerEnds, Touches, TypeOK
<1>5. CASE ResumeExecute(t)
  <2>1. worker[t] # "none" /\ config' = config /\ ran' \subseteq ran \cup {t}
    BY <1>5 DEF ResumeExecute, CallResult
  <2>2. CASE worker[t] = "error"
    <3>1. CompensateOne(t)
      BY <1>5, <2>2 DEF ResumeExecute
    <3>2. CASE preparation[t].reversible
      BY <2>1, <3>1, <3>2, RunRollbackTouches DEF CompensateOne
    <3>3. CASE ~preparation[t].reversible
      BY <2>1, <3>1, <3>3, FinishTouches DEF CompensateOne
    <3> QED
      BY <3>2, <3>3
  <2>3. CASE worker[t] = "ok"
    <3>1. Finish(t, "succeeded", permit[t])
      BY <1>5, <2>3 DEF ResumeExecute
    <3> QED
      BY <2>1, <3>1, FinishTouches
  <2>4. CASE worker[t] = "unsuccessful"
    <3>1. Finish(t, "failed", permit[t])
      BY <1>5, <2>4 DEF ResumeExecute
    <3> QED
      BY <2>1, <3>1, FinishTouches
  <2> QED
    BY <1>5, <2>2, <2>3, <2>4 DEF ResumeExecute, CallResult
<1>6. CASE ResumeRollback(t)
  <2>1. worker[t] # "none" /\ config' = config /\ ran' = ran
    BY <1>6 DEF ResumeRollback, CallResult, historyVars
  <2>2. CASE worker[t] = "error"
    BY <1>6, <2>1, <2>2, FinishTouches DEF ResumeRollback
  <2>3. CASE worker[t] # "error"
    BY <1>6, <2>1, <2>3, RunRollbackTouches DEF ResumeRollback
  <2> QED
    BY <2>2, <2>3
<1>7. CASE Journal(t) \/ LoseRecord(t)
  BY <1>7 DEF Journal, LoseRecord, historyVars, Touches, TypeOK
<1> QED
  BY <1>1, <1>2, <1>3, <1>4, <1>5, <1>6, <1>7 DEF TaskStep

LEMMA ResolveTouches ==
  ASSUME NEW t \in Tasks, NEW yes \in BOOLEAN, Resolve(t, yes)
  PROVE  Touches(t) /\ UNCHANGED <<pc, status>>
BY DEF Resolve, Touches

LEMMA CancelTouches ==
  ASSUME TypeOK, NEW t \in Tasks, Cancel(t)
  PROVE  Touches(t)
BY DEF Cancel, Unwind, historyVars, Touches, TypeOK

\* Nothing happens to a submission that has not begun or is over.
LEMMA AtRest ==
  ASSUME IInv, NEW t \in Tasks, pc[t] \in {"idle", "done"}, TaskStep(t)
  PROVE  FALSE
<1>1. worker[t] = "none"
  BY DEF IInv, Shape
<1> QED
  BY <1>1 DEF TaskStep, FinishPreparing, GateAnswers, GateTimesOut, WorkerEnds, ResumeExecute,
              ResumeRollback, Journal, LoseRecord

LEMMA TouchesKeepsRan ==
  ASSUME IInv, RanAuthorised, NEW t \in Tasks, Touches(t)
  PROVE  RanAuthorised'
<1>1. ASSUME NEW u \in Tasks, u \in ran' PROVE permit'[u].granted /\ ~config'.dry_run
  <2>1. CASE u # t
    BY <1>1, <2>1 DEF Touches, RanAuthorised
  <2>2. CASE u = t
    <3>1. CASE permit'[t] = permit[t]
      BY <1>1, <2>2, <3>1 DEF Touches, RanAuthorised, IInv, EffectsAuthorised
    <3>2. CASE pc[t] \in {"idle", "preparing", "asking"} /\ ran' = ran
      BY <1>1, <2>2, <3>2 DEF IInv, BeforePermit
    <3> QED
      BY <3>1, <3>2 DEF Touches
  <2> QED
    BY <2>1, <2>2
<1> QED
  BY <1>1 DEF RanAuthorised

\* The engine's invariant, and what the saga adds to it, under one step of a task.
LEMMA SubmitKeeps ==
  ASSUME IInv, RanAuthorised, NEW t \in Tasks, NEW a \in Actions, Submit(t, a)
  PROVE  IInv' /\ RanAuthorised' /\ Touches(t)
<1>1. IInv'
  BY SubmitUnhandledKeeps, SubmitPreparedKeeps, SubmitReadingKeeps DEF Submit
<1>2. Touches(t)
  BY SubmitTouches DEF IInv
<1> QED
  BY <1>1, <1>2, TouchesKeepsRan

LEMMA TaskStepKeeps ==
  ASSUME IInv, RanAuthorised, NEW t \in Tasks, TaskStep(t)
  PROVE  IInv' /\ RanAuthorised' /\ Touches(t)
<1>1. IInv'
  BY FinishPreparingKeeps, GateAnswersKeeps, GateTimesOutKeeps, WorkerEndsKeeps,
     ResumeExecuteKeeps, ResumeRollbackKeeps, JournalKeeps DEF TaskStep
<1>2. Touches(t)
  BY TaskStepTouches DEF IInv
<1> QED
  BY <1>1, <1>2, TouchesKeepsRan

LEMMA ResolveKeepsAll ==
  ASSUME IInv, RanAuthorised, NEW t \in Tasks, NEW yes \in BOOLEAN, Resolve(t, yes)
  PROVE  IInv' /\ RanAuthorised' /\ Touches(t)
BY ResolveKeeps, ResolveTouches, TouchesKeepsRan

LEMMA CancelKeepsAll ==
  ASSUME IInv, RanAuthorised, NEW t \in Tasks, Cancel(t)
  PROVE  IInv' /\ RanAuthorised' /\ Touches(t)
<1>1. Touches(t)
  BY CancelTouches DEF IInv
<1> QED
  BY <1>1, CancelKeeps, TouchesKeepsRan

LEMMA EngineStutters ==
  ASSUME IInv, RanAuthorised, UNCHANGED vars
  PROVE  IInv' /\ RanAuthorised' /\ UNCHANGED <<pc, status, workspace, config>>
BY StutterKeeps DEF RanAuthorised, vars

-----------------------------------------------------------------------------
(* The loop over the batch *)

\* The slots are different tasks.
LEMMA SlotsDiffer ==
  ASSUME NEW i \in 1 .. MaxActions
  PROVE  Slot[i] \in Tasks /\ \A j \in 1 .. MaxActions \ {i} : Slot[j] \in Tasks \ {Slot[i]}
BY SlotAssumption

\* Entering an iteration, from a place where kept has its type.
LEMMA IterateKeeps ==
  ASSUME IInv, RanAuthorised, NEW b \in Seq(Actions), NEW i \in 1 .. Len(b), i <= MaxActions,
         Iterate(b, i), kept \in Preparation
  PROVE  /\ IInv' /\ RanAuthorised'
         /\ kept' \in Preparation /\ position' = i
         /\ phase' \in {"raised", "submitting", "preparing"}
         /\ \A j \in 1 .. MaxActions \ {i} :
              pc'[Slot[j]] = pc[Slot[j]] /\ status'[Slot[j]] = status[Slot[j]]
<1>1. b[i] \in Actions /\ i \in 1 .. MaxActions
  BY SlotAssumption
<1>2. Slot[i] \in Tasks /\ \A j \in 1 .. MaxActions \ {i} : Slot[j] \in Tasks \ {Slot[i]}
  BY <1>1, SlotsDiffer
<1>3. CASE UNCHANGED <<vars, kept>> /\ phase' \in {"raised", "preparing"}
  BY <1>3, EngineStutters DEF Iterate
<1>4. CASE /\ \E p \in PreparedAtOnce(b[i], workspace) : kept' = p
           /\ Submit(Slot[i], b[i]) /\ phase' = "submitting"
  <2>1. IInv' /\ RanAuthorised' /\ Touches(Slot[i])
    BY <1>1, <1>2, <1>4, SubmitKeeps
  <2>2. kept' \in Preparation
    BY <1>1, <1>4, PreparedAtOnceType DEF IInv, TypeOK
  <2> QED
    BY <1>2, <1>4, <2>1, <2>2 DEF Iterate, Touches
<1> QED
  BY <1>3, <1>4 DEF Iterate

LEMMA BatchType ==
  ASSUME TxTypeOK
  PROVE  batch \in Seq(Actions) /\ MaxActions \in Nat /\ Batches \subseteq Seq(Actions)
<1>1. MaxActions \in Nat /\ Batches \subseteq Seq(Actions)
  BY BatchesAssumption, SlotAssumption
<1>2. <<>> \in Seq(Actions)
  OBVIOUS
<1>3. batch \in Batches \cup {<<>>}
  BY DEF TxTypeOK
<1> QED
  BY <1>1, <1>2, <1>3

LEMMA BeginKeeps ==
  ASSUME TxIInv, NEW b \in Batches, Begin(b)
  PROVE  TxIInv'
<1>1. b \in Seq(Actions) /\ MaxActions \in Nat /\ Len(b) \in Nat
  BY BatchesAssumption, SlotAssumption
<1>2. /\ phase = "idle" /\ position = 0 /\ completed = <<>> /\ restoring = <<>> /\ hand = "none"
      /\ kept \in Preparation
  BY DEF Begin, TxIInv, Underway, TxTypeOK
<1>3. /\ batch' = b /\ before' = workspace /\ meddled' = FALSE
      /\ UNCHANGED <<completed, restoring, hand, allRestored>>
  BY DEF Begin
<1>4. workspace \in [Paths -> Content]
  BY DEF TxIInv, IInv, TypeOK
<1>a. /\ completed' \in Seq([action : Actions, preparation : Preparation])
      /\ restoring' \in Seq(Action) /\ restoring' = <<>> /\ hand' = "none"
      /\ allRestored' \in BOOLEAN /\ meddled' \in BOOLEAN
      /\ batch' \in Batches \cup {<<>>} /\ before' \in [Paths -> Content]
      /\ result \in [succeeded : BOOLEAN, compensated : BOOLEAN]
  BY <1>2, <1>3, <1>4 DEF TxIInv, TxTypeOK
<1>5. CASE Len(b) \in 1 .. MaxActions /\ Iterate(b, 1) /\ UNCHANGED result
  <2>1. 1 \in 1 .. Len(b) /\ 1 <= MaxActions
    BY <1>1, <1>5
  <2>2. /\ IInv' /\ RanAuthorised'
        /\ kept' \in Preparation /\ position' = 1
        /\ phase' \in {"raised", "submitting", "preparing"}
        /\ \A j \in 1 .. MaxActions \ {1} :
             pc'[Slot[j]] = pc[Slot[j]] /\ status'[Slot[j]] = status[Slot[j]]
    BY <1>1, <1>2, <1>5, <2>1, IterateKeeps DEF TxIInv
  <2>3. TxTypeOK'
    BY <1>1, <1>5, <1>a, <2>1, <2>2 DEF TxTypeOK
  <2>4. Underway'
    BY <1>1, <1>2, <1>3, <1>5, <2>2 DEF Underway
  <2>5. Positions'
    <3>1. ASSUME NEW i \in 1 .. MaxActions
          PROVE  /\ i < position' => pc'[Slot[i]] = "done" /\ status'[Slot[i]] = "succeeded"
                 /\ i > position' => pc'[Slot[i]] = "idle"
                 /\ i = position' /\ (phase' = "compensating" \/ hand' # "none")
                      => pc'[Slot[i]] = "done"
      BY <1>1, <1>2, <1>3, <2>2 DEF TxIInv, Positions
    <3> QED
      BY <3>1 DEF Positions
  <2> QED
    BY <2>2, <2>3, <2>4, <2>5 DEF TxIInv
<1>6. CASE /\ phase' \in {"raised", "returned"} /\ UNCHANGED <<vars, position, kept>>
           /\ result' \in {result, [succeeded |-> TRUE, compensated |-> FALSE]}
  <2>1. IInv' /\ RanAuthorised' /\ UNCHANGED <<pc, status, workspace, config>>
    BY <1>6, EngineStutters DEF TxIInv
  <2>2. TxTypeOK'
    <3>1. position' = 0 /\ 0 \in 0 .. MaxActions /\ kept' \in Preparation
      BY <1>1, <1>2, <1>6
    <3>2. result' \in [succeeded : BOOLEAN, compensated : BOOLEAN]
      <4>1. [succeeded |-> TRUE, compensated |-> FALSE] \in [succeeded : BOOLEAN, compensated : BOOLEAN]
        OBVIOUS
      <4>2. result' = result \/ result' = [succeeded |-> TRUE, compensated |-> FALSE]
        BY <1>6
      <4> QED
        BY <1>a, <4>1, <4>2
    <3> QED
      BY <1>6, <1>a, <3>1, <3>2 DEF TxTypeOK
  <2>3. Underway' /\ Positions'
    BY <1>2, <1>3, <1>6, <2>1 DEF TxIInv, Underway, Positions
  <2> QED
    BY <2>1, <2>2, <2>3 DEF TxIInv
<1> QED
  BY <1>5, <1>6 DEF Begin, Return

LEMMA PreparedKeeps ==
  ASSUME TxIInv, Prepared
  PROVE  TxIInv'
<1>1. /\ phase = "preparing" /\ phase' = "submitting"
      /\ UNCHANGED <<batch, position, completed, restoring, hand, allRestored, result, before,
                     meddled>>
  BY DEF Prepared
<1>2. position \in 1 .. Len(batch) /\ Len(batch) <= MaxActions
  BY <1>1 DEF TxIInv, Underway
<1>3. batch[position] \in Actions /\ position \in 1 .. MaxActions
  BY <1>2, BatchType DEF TxIInv
<1>4. /\ Current \in Tasks
      /\ \A j \in 1 .. MaxActions \ {position} : Slot[j] \in Tasks \ {Current}
  BY <1>3, SlotsDiffer DEF Current
<1>5. IInv' /\ RanAuthorised' /\ Touches(Current)
  BY <1>3, <1>4, SubmitKeeps DEF Prepared, TxIInv
<1>6. kept' \in Preparation
  BY <1>3, PreparedByReadType DEF Prepared, TxIInv, IInv, TypeOK
<1>7. restoring = <<>> /\ hand = "none"
  BY <1>1 DEF TxIInv, TxTypeOK
<1>8. TxTypeOK'
  BY <1>1, <1>6, <1>7 DEF TxIInv, TxTypeOK
<1>9. Underway'
  BY <1>1 DEF TxIInv, Underway
<1>10. Positions'
  <2>1. ASSUME NEW i \in 1 .. MaxActions
        PROVE  /\ i < position' => pc'[Slot[i]] = "done" /\ status'[Slot[i]] = "succeeded"
               /\ i > position' => pc'[Slot[i]] = "idle"
               /\ i = position' /\ (phase' = "compensating" \/ hand' # "none")
                    => pc'[Slot[i]] = "done"
    BY <1>1, <1>3, <1>4, <1>5, <1>7 DEF TxIInv, Positions, Touches
  <2> QED
    BY <2>1 DEF Positions
<1> QED
  BY <1>5, <1>8, <1>9, <1>10 DEF TxIInv

LEMMA SucceededKeeps ==
  ASSUME TxIInv, Succeeded
  PROVE  TxIInv'
<1>1. /\ phase = "submitting"
      /\ pc[Current] = "done" /\ status[Current] = "succeeded"
      /\ completed' = Append(completed, [action |-> batch[position], preparation |-> kept])
      /\ UNCHANGED <<batch, restoring, hand, allRestored, before, meddled>>
  BY DEF Succeeded, Back, Success
<1>2. position \in 1 .. Len(batch) /\ Len(batch) <= MaxActions
  BY <1>1 DEF TxIInv, Underway
<1>3. batch \in Seq(Actions) /\ batch[position] \in Actions /\ position \in 1 .. MaxActions
  BY <1>2, BatchType DEF TxIInv
<1>4. restoring = <<>> /\ hand = "none" /\ kept \in Preparation
  BY <1>1 DEF TxIInv, TxTypeOK
<1>5. completed' \in Seq([action : Actions, preparation : Preparation])
  BY <1>1, <1>3, <1>4, AppendProperties DEF TxIInv, TxTypeOK
<1>6. CASE position < Len(batch)
  <2>1. Iterate(batch, position + 1) /\ UNCHANGED result
    BY <1>6 DEF Succeeded
  <2>2. position + 1 \in 1 .. Len(batch) /\ position + 1 <= MaxActions
    BY <1>2, <1>3, <1>6, BatchType DEF TxIInv
  <2>3. /\ IInv' /\ RanAuthorised'
        /\ kept' \in Preparation /\ position' = position + 1
        /\ phase' \in {"raised", "submitting", "preparing"}
        /\ \A j \in 1 .. MaxActions \ {position + 1} :
             pc'[Slot[j]] = pc[Slot[j]] /\ status'[Slot[j]] = status[Slot[j]]
    BY <1>3, <1>4, <2>1, <2>2, IterateKeeps DEF TxIInv
  <2>4. TxTypeOK'
    BY <1>1, <1>3, <1>4, <1>5, <2>1, <2>2, <2>3, BatchType DEF TxIInv, TxTypeOK
  <2>5. Underway'
    <3>1. position' > 1
      BY <1>3, <2>3
    <3> QED
      BY <1>1, <1>2, <1>4, <2>2, <2>3, <3>1 DEF Underway
  <2>6. Positions'
    <3>1. ASSUME NEW i \in 1 .. MaxActions
          PROVE  /\ i < position' => pc'[Slot[i]] = "done" /\ status'[Slot[i]] = "succeeded"
                 /\ i > position' => pc'[Slot[i]] = "idle"
                 /\ i = position' /\ (phase' = "compensating" \/ hand' # "none")
                      => pc'[Slot[i]] = "done"
      <4>1. i < position + 1 => i < position \/ i = position
        BY <1>3
      <4>2. i > position + 1 => i > position
        BY <1>3
      <4> QED
        BY <1>1, <1>4, <2>3, <4>1, <4>2 DEF TxIInv, Positions, Current
    <3> QED
      BY <3>1 DEF Positions
  <2> QED
    BY <2>3, <2>4, <2>5, <2>6 DEF TxIInv
<1>7. CASE ~(position < Len(batch))
  <2>1. Return(TRUE, FALSE) /\ UNCHANGED <<vars, position, kept>>
    BY <1>7 DEF Succeeded
  <2>2. IInv' /\ RanAuthorised' /\ UNCHANGED <<pc, status, workspace, config>>
    BY <2>1, EngineStutters DEF TxIInv
  <2>3. TxTypeOK'
    BY <1>1, <1>4, <1>5, <2>1 DEF TxIInv, TxTypeOK, Return
  <2>4. Underway' /\ Positions'
    BY <1>1, <1>4, <2>1, <2>2 DEF TxIInv, Underway, Positions, Return
  <2> QED
    BY <2>2, <2>3, <2>4 DEF TxIInv
<1> QED
  BY <1>6, <1>7

-----------------------------------------------------------------------------
(* Compensation *)

LEMMA FailedKeeps ==
  ASSUME TxIInv, Failed
  PROVE  TxIInv'
<1>1. /\ phase = "submitting" /\ phase' = "compensating" /\ pc[Slot[position]] = "done"
      /\ UNCHANGED <<vars, batch, position, kept, completed, restoring, hand, allRestored,
                     result, before, meddled>>
  BY DEF Failed, Back, Current
<1>2. IInv' /\ RanAuthorised' /\ UNCHANGED <<pc, status, workspace, config>>
  BY <1>1, EngineStutters DEF TxIInv
<1>3. TxTypeOK'
  BY <1>1 DEF TxIInv, TxTypeOK
<1>4. Underway' /\ Positions'
  BY <1>1, <1>2 DEF TxIInv, Underway, Positions
<1> QED
  BY <1>2, <1>3, <1>4 DEF TxIInv

\* A turn of the compensation that leaves the engine alone.
LEMMA TurnKeeps ==
  ASSUME TxIInv, phase = "compensating", phase' \in {"compensating", "returned"},
         UNCHANGED <<vars, batch, position, kept, before, meddled>>,
         completed' \in Seq([action : Actions, preparation : Preparation]),
         completed' # <<>> => completed # <<>>,
         restoring' \in Seq(Action), restoring' # <<>> => restoring # <<>> \/ completed # <<>>,
         hand' \in {"none", "queued"} \cup CallResult,
         hand' # "none" => restoring' # <<>>,
         phase' = "returned" => restoring' = <<>>,
         allRestored' \in BOOLEAN, result' \in [succeeded : BOOLEAN, compensated : BOOLEAN]
  PROVE  TxIInv'
<1>1. IInv' /\ RanAuthorised' /\ UNCHANGED <<pc, status, workspace, config>>
  BY EngineStutters DEF TxIInv
<1>2. TxTypeOK'
  BY DEF TxIInv, TxTypeOK
<1>3. Underway'
  BY DEF TxIInv, Underway
<1>4. Positions'
  BY <1>1 DEF TxIInv, Positions
<1> QED
  BY <1>1, <1>2, <1>3, <1>4 DEF TxIInv

LEMMA UndoNextKeeps ==
  ASSUME TxIInv, UndoNext
  PROVE  TxIInv'
<1> DEFINE Done == [action : Actions, preparation : Preparation]
<1>1. /\ phase = "compensating" /\ restoring = <<>> /\ hand = "none" /\ completed # <<>>
      /\ completed \in Seq(Done)
  BY DEF UndoNext, Turning, TxIInv, TxTypeOK
<1>2. Len(completed) \in Nat \ {0}
  BY <1>1, EmptySeq
<1>3. completed[Len(completed)] \in Done /\ Len(completed) - 1 \in Nat
  <2> HIDE DEF Done
  <2> QED
    BY <1>1, <1>2
<1>4. SubSeq(completed, 1, Len(completed) - 1) \in Seq(Done)
  <2> HIDE DEF Done
  <2>1. \A i \in 1 .. Len(completed) - 1 : completed[i] \in Done
    BY <1>1, <1>2
  <2> QED
    BY <1>2, <2>1, SubSeqProperties
<1>5. completed' = SubSeq(completed, 1, Len(completed) - 1)
  BY DEF UndoNext, YoungestFirst
<1>6. completed[Len(completed)].preparation.plan \in Seq(Action)
  BY <1>3 DEF Preparation
<1>7. /\ restoring' \in {restoring, completed[Len(completed)].preparation.plan}
      /\ allRestored' \in {allRestored, FALSE}
      /\ UNCHANGED <<vars, phase, batch, position, kept, hand, result, before, meddled>>
  BY DEF UndoNext, YoungestFirst
<1>8. /\ allRestored \in BOOLEAN /\ result \in [succeeded : BOOLEAN, compensated : BOOLEAN]
      /\ restoring \in Seq(Action)
  BY DEF TxIInv, TxTypeOK
<1> HIDE DEF Done
<1> QED
  BY <1>1, <1>4, <1>5, <1>6, <1>7, <1>8, TurnKeeps DEF Done

LEMMA StartStepKeeps ==
  ASSUME TxIInv, StartStep
  PROVE  TxIInv'
<1>1. /\ phase = "compensating" /\ restoring # <<>> /\ hand = "none"
      /\ UNCHANGED <<vars, phase, batch, position, kept, completed, result, before, meddled>>
      /\ \/ hand' \in {"ok", "queued"} /\ UNCHANGED <<restoring, allRestored>>
         \/ restoring' = <<>> /\ allRestored' = FALSE /\ UNCHANGED hand
  BY DEF StartStep, Started, GiveUpPlan
<1>2. /\ completed \in Seq([action : Actions, preparation : Preparation])
      /\ restoring \in Seq(Action) /\ allRestored \in BOOLEAN
      /\ result \in [succeeded : BOOLEAN, compensated : BOOLEAN]
      /\ <<>> \in Seq(Action) /\ {"ok", "queued"} \subseteq {"none", "queued"} \cup CallResult
  BY DEF TxIInv, TxTypeOK, CallResult
<1>3. CASE hand' \in {"ok", "queued"} /\ UNCHANGED <<restoring, allRestored>>
  BY <1>1, <1>2, <1>3, TurnKeeps
<1>4. CASE restoring' = <<>> /\ allRestored' = FALSE /\ UNCHANGED hand
  BY <1>1, <1>2, <1>4, TurnKeeps
<1> QED
  BY <1>1, <1>3, <1>4

LEMMA StepReturnsKeeps ==
  ASSUME TxIInv, StepReturns
  PROVE  TxIInv'
<1>1. /\ phase = "compensating" /\ hand # "none" /\ hand' = "none"
      /\ UNCHANGED <<vars, phase, batch, position, kept, completed, result, before, meddled>>
      /\ \/ restoring' = <<>> /\ allRestored' = FALSE
         \/ restoring' = Tail(restoring) /\ UNCHANGED allRestored
  BY DEF StepReturns, GiveUpPlan, CallResult
<1>2. /\ completed \in Seq([action : Actions, preparation : Preparation])
      /\ restoring \in Seq(Action) /\ restoring # <<>> /\ allRestored \in BOOLEAN
      /\ result \in [succeeded : BOOLEAN, compensated : BOOLEAN]
      /\ <<>> \in Seq(Action)
  BY <1>1 DEF TxIInv, TxTypeOK
<1>3. Tail(restoring) \in Seq(Action)
  BY <1>2
<1>4. CASE restoring' = <<>> /\ allRestored' = FALSE
  BY <1>1, <1>2, <1>4, TurnKeeps
<1>5. CASE restoring' = Tail(restoring) /\ UNCHANGED allRestored
  BY <1>1, <1>2, <1>3, <1>5, TurnKeeps
<1> QED
  BY <1>1, <1>4, <1>5

LEMMA CompensatedKeeps ==
  ASSUME TxIInv, Compensated
  PROVE  TxIInv'
<1>1. /\ phase = "compensating" /\ phase' = "returned" /\ restoring = <<>> /\ hand = "none"
      /\ UNCHANGED <<vars, batch, position, kept, completed, restoring, hand, allRestored,
                     before, meddled>>
      /\ result' = [succeeded |-> FALSE, compensated |-> allRestored]
  BY DEF Compensated, Turning, Return
<1>2. /\ completed \in Seq([action : Actions, preparation : Preparation])
      /\ restoring \in Seq(Action) /\ allRestored \in BOOLEAN
  BY DEF TxIInv, TxTypeOK
<1>3. result' \in [succeeded : BOOLEAN, compensated : BOOLEAN]
  BY <1>1, <1>2
<1> QED
  BY <1>1, <1>2, <1>3, TurnKeeps

\* A rollback step of the saga changes the files and nothing else of the engine.
LEMMA HandEndsKeeps ==
  ASSUME TxIInv, HandEnds
  PROVE  TxIInv'
<1>1. PICK o \in Outcomes(Head(restoring), workspace) :
        /\ workspace' = o.workspace /\ hand' = o.result
        /\ disturbed' = disturbed \cup
             {u \in Tasks : /\ action[u] # NoAction
                            /\ o.workspace[action[u].path] # workspace[action[u].path]}
  BY DEF HandEnds
<1>2. /\ UNCHANGED <<config, pc, action, preparation, verdict, permit, undo, worker,
                     status, journal, pending, answer, approved, silenced, ran, origin, lost>>
      /\ UNCHANGED <<phase, batch, position, kept, completed, restoring, allRestored,
                     result, before, meddled>>
      /\ hand # "none"
  BY DEF HandEnds, gateVars
<1>3. restoring \in Seq(Action) /\ restoring # <<>>
  BY <1>2 DEF TxIInv, TxTypeOK
<1>4. Head(restoring) \in Action
  BY <1>3
<1>5. workspace' \in [Paths -> Content] /\ o.result \in CallResult
  BY <1>1, <1>4, OutcomesType DEF TxIInv, IInv, TypeOK
<1>6. disturbed' \subseteq Tasks
  BY <1>1 DEF TxIInv, IInv, TypeOK
<1>7. IInv'
  <2>1. TypeOK'
    BY <1>2, <1>5, <1>6 DEF TxIInv, IInv, TypeOK
  <2>2. \A u \in Tasks : (Shape(u) /\ BeforePermit(u) /\ BeforeRecord(u))'
    BY <1>2 DEF TxIInv, IInv, Shape, BeforePermit, BeforeRecord, MustRefuse, Blocked, Blocking,
                RiskWithin
  <2>3. (EffectsAuthorised /\ GrantsEarned /\ OpenApprovalsExact)'
    BY <1>2 DEF TxIInv, IInv, EffectsAuthorised, GrantsEarned, OpenApprovalsExact, MustRefuse,
                Blocked, Blocking, RiskWithin
  <2>4. (RecordsTruthful /\ OneRecordEach)'
    BY <1>2 DEF TxIInv, IInv, RecordsTruthful, OneRecordEach
  <2> QED
    BY <2>1, <2>2, <2>3, <2>4 DEF IInv
<1>8. RanAuthorised'
  BY <1>2 DEF TxIInv, RanAuthorised
<1>9. TxTypeOK'
  BY <1>1, <1>2, <1>5 DEF TxIInv, TxTypeOK
<1>10. Underway' /\ Positions'
  BY <1>2 DEF TxIInv, Underway, Positions
<1> QED
  BY <1>7, <1>8, <1>9, <1>10 DEF TxIInv

-----------------------------------------------------------------------------
(* Cancellation, the submissions of the batch, and everybody else's *)

\* A step of a task that leaves the saga's own state alone.
LEMMA StepBeside ==
  ASSUME TxIInv, UNCHANGED txVars, meddled' \in BOOLEAN, IInv', RanAuthorised',
         \A i \in 1 .. MaxActions :
           \/ pc'[Slot[i]] = pc[Slot[i]] /\ status'[Slot[i]] = status[Slot[i]]
           \/ i = position /\ pc[Slot[i]] # "done"
  PROVE  TxIInv'
<1>1. TxTypeOK'
  BY DEF TxIInv, TxTypeOK, txVars
<1>2. Underway'
  BY DEF TxIInv, Underway, txVars
<1>3. Positions'
  <2>1. ASSUME NEW i \in 1 .. MaxActions
        PROVE  /\ i < position' => pc'[Slot[i]] = "done" /\ status'[Slot[i]] = "succeeded"
               /\ i > position' => pc'[Slot[i]] = "idle"
               /\ i = position' /\ (phase' = "compensating" \/ hand' # "none")
                    => pc'[Slot[i]] = "done"
    <3>1. position' = position /\ phase' = phase /\ hand' = hand /\ position \in Nat
      BY SlotAssumption DEF txVars, TxIInv, TxTypeOK
    <3>2. i = position => ~(i < position) /\ ~(i > position)
      BY <3>1
    <3> QED
      BY <3>1, <3>2 DEF TxIInv, Positions
  <2> QED
    BY <2>1 DEF Positions
<1> QED
  BY <1>1, <1>2, <1>3 DEF TxIInv

LEMMA SubmissionStepsKeeps ==
  ASSUME TxIInv, SubmissionSteps
  PROVE  TxIInv'
<1>1. PICK i \in 1 .. MaxActions : TaskStep(Slot[i]) \/ \E yes \in BOOLEAN : Resolve(Slot[i], yes)
  BY DEF SubmissionSteps, Slots
<1>2. /\ Slot[i] \in Tasks
      /\ \A j \in 1 .. MaxActions \ {i} : Slot[j] \in Tasks \ {Slot[i]}
  BY SlotsDiffer
<1>3. UNCHANGED txVars /\ meddled' = meddled /\ meddled \in BOOLEAN
  BY DEF SubmissionSteps, TxIInv, TxTypeOK
<1>4. CASE TaskStep(Slot[i])
  <2>1. IInv' /\ RanAuthorised' /\ Touches(Slot[i])
    BY <1>2, <1>4, TaskStepKeeps DEF TxIInv
  <2>2. pc[Slot[i]] \notin {"idle", "done"}
    BY <1>2, <1>4, AtRest DEF TxIInv
  <2>3. i = position
    <3>1. position \in Nat
      BY SlotAssumption DEF TxIInv, TxTypeOK
    <3>2. ~(i < position) /\ ~(i > position)
      BY <2>2 DEF TxIInv, Positions
    <3> QED
      BY <3>1, <3>2, SlotAssumption
  <2> QED
    BY <1>2, <1>3, <2>1, <2>2, <2>3, StepBeside DEF Touches
<1>5. ASSUME NEW yes \in BOOLEAN, Resolve(Slot[i], yes) PROVE TxIInv'
  <2>1. IInv' /\ RanAuthorised' /\ UNCHANGED <<pc, status>>
    BY <1>2, <1>5, ResolveKeepsAll, ResolveTouches DEF TxIInv
  <2> QED
    BY <1>3, <2>1, StepBeside
<1> QED
  BY <1>1, <1>4, <1>5

LEMMA OtherStepsKeeps ==
  ASSUME TxIInv, OtherSteps
  PROVE  TxIInv'
<1>1. PICK t \in Others :
        \/ \E a \in OtherActions : Submit(t, a)
        \/ \E yes \in BOOLEAN : Resolve(t, yes)
        \/ TaskStep(t)
        \/ Cancel(t)
  BY DEF OtherSteps
<1>2. t \in Tasks /\ \A i \in 1 .. MaxActions : Slot[i] \in Tasks \ {t}
  BY SlotAssumption DEF Others, Slots
<1>3. UNCHANGED txVars /\ meddled' \in BOOLEAN
  BY DEF OtherSteps, TxIInv, TxTypeOK
<1>4. IInv' /\ RanAuthorised' /\ Touches(t)
  <2>1. ASSUME NEW a \in OtherActions, Submit(t, a) PROVE IInv' /\ RanAuthorised' /\ Touches(t)
    BY <1>2, <2>1, SubmitKeeps, BatchesAssumption DEF TxIInv
  <2>2. ASSUME NEW yes \in BOOLEAN, Resolve(t, yes) PROVE IInv' /\ RanAuthorised' /\ Touches(t)
    BY <1>2, <2>2, ResolveKeepsAll DEF TxIInv
  <2>3. CASE TaskStep(t)
    BY <1>2, <2>3, TaskStepKeeps DEF TxIInv
  <2>4. CASE Cancel(t)
    BY <1>2, <2>4, CancelKeepsAll DEF TxIInv
  <2> QED
    BY <1>1, <2>1, <2>2, <2>3, <2>4
<1> QED
  BY <1>2, <1>3, <1>4, StepBeside DEF Touches

LEMMA CancelTransactionKeeps ==
  ASSUME TxIInv, CancelTransaction
  PROVE  TxIInv'
<1>1. /\ phase' = "cancelled"
      /\ UNCHANGED <<batch, position, kept, completed, restoring, allRestored, result, before,
                     meddled>>
  BY DEF CancelTransaction
<1>2. CASE phase = "submitting" /\ Cancel(Current) /\ UNCHANGED hand
  <2>1. position \in 1 .. Len(batch) /\ Len(batch) <= MaxActions
    BY <1>2 DEF TxIInv, Underway
  <2>2. position \in 1 .. MaxActions
    BY <2>1, BatchType DEF TxIInv
  <2>3. /\ Current \in Tasks
        /\ \A j \in 1 .. MaxActions \ {position} : Slot[j] \in Tasks \ {Current}
    BY <2>2, SlotsDiffer DEF Current
  <2>4. IInv' /\ RanAuthorised' /\ Touches(Current)
    BY <1>2, <2>3, CancelKeepsAll DEF TxIInv
  <2>5. hand = "none" /\ restoring = <<>>
    BY <1>2 DEF TxIInv, TxTypeOK
  <2>6. TxTypeOK'
    BY <1>1, <1>2, <2>5 DEF TxIInv, TxTypeOK
  <2>7. Underway'
    BY <1>1, <2>5 DEF TxIInv, Underway
  <2>8. Positions'
    <3>1. ASSUME NEW i \in 1 .. MaxActions
          PROVE  /\ i < position' => pc'[Slot[i]] = "done" /\ status'[Slot[i]] = "succeeded"
                 /\ i > position' => pc'[Slot[i]] = "idle"
                 /\ i = position' /\ (phase' = "compensating" \/ hand' # "none")
                      => pc'[Slot[i]] = "done"
      BY <1>1, <1>2, <2>2, <2>3, <2>4, <2>5 DEF TxIInv, Positions, Touches
    <3> QED
      BY <3>1 DEF Positions
  <2> QED
    BY <2>4, <2>6, <2>7, <2>8 DEF TxIInv
<1>3. CASE /\ phase \in {"preparing", "compensating"} /\ UNCHANGED vars
           /\ hand' \in {hand, "none"}
  <2>1. IInv' /\ RanAuthorised' /\ UNCHANGED <<pc, status, workspace, config>>
    BY <1>3, EngineStutters DEF TxIInv
  <2>2. TxTypeOK'
    BY <1>1, <1>3 DEF TxIInv, TxTypeOK
  <2>3. Underway'
    BY <1>1 DEF TxIInv, Underway
  <2>4. Positions'
    BY <1>1, <1>3, <2>1 DEF TxIInv, Positions
  <2> QED
    BY <2>1, <2>2, <2>3, <2>4 DEF TxIInv
<1> QED
  BY <1>2, <1>3 DEF CancelTransaction

LEMMA TxStutterKeeps ==
  ASSUME TxIInv, UNCHANGED allVars
  PROVE  TxIInv'
<1>1. UNCHANGED vars /\ UNCHANGED txVars /\ meddled' = meddled /\ meddled \in BOOLEAN
  BY DEF allVars, TxIInv, TxTypeOK
<1>2. IInv' /\ RanAuthorised' /\ UNCHANGED <<pc, status>>
  BY <1>1, EngineStutters DEF TxIInv
<1> QED
  BY <1>1, <1>2, StepBeside

-----------------------------------------------------------------------------
(* The theorems *)

LEMMA TxInitEstablishes == ASSUME TxInit PROVE TxIInv
<1>1. IInv
  BY InitEstablishes DEF TxInit
<1>2. RanAuthorised
  BY DEF TxInit, Init, RanAuthorised
<1>3. TxTypeOK
  <2>1. NoPreparation \in Preparation /\ NoResult \in [succeeded : BOOLEAN, compensated : BOOLEAN]
    BY DEF NoPreparation, Preparation, NoResult
  <2>2. before \in [Paths -> Content] /\ 0 \in 0 .. MaxActions
    BY <1>1, SlotAssumption DEF TxInit, IInv, TypeOK
  <2>3. \A S : <<>> \in Seq(S)
    OBVIOUS
  <2> QED
    BY <2>1, <2>2, <2>3 DEF TxInit, TxTypeOK
<1>4. Underway
  BY DEF TxInit, Underway
<1>5. Positions
  BY SlotAssumption DEF TxInit, Init, Positions
<1> QED
  BY <1>1, <1>2, <1>3, <1>4, <1>5 DEF TxIInv

\* With sagas among its callers the engine keeps everything proved of it: no
\* rollback step a saga runs past the policy makes a grant, a record or the list
\* of open approvals untrue; and the saga's own state follows the submissions it
\* has made (submit_transaction, _compensate).
THEOREM TxInductive == TxSpec => []TxIInv
<1>1. TxInit => TxIInv
  BY TxInitEstablishes
<1>2. TxIInv /\ [TxNext]_allVars => TxIInv'
  <2> SUFFICES ASSUME TxIInv, [TxNext]_allVars
               PROVE  TxIInv'
    OBVIOUS
  <2>1. ASSUME NEW b \in Batches, Begin(b) PROVE TxIInv'
    BY <2>1, BeginKeeps
  <2>2. CASE TxStep
    BY <2>2, PreparedKeeps, SucceededKeeps, FailedKeeps, UndoNextKeeps, StartStepKeeps,
       HandEndsKeeps, StepReturnsKeeps, CompensatedKeeps DEF TxStep
  <2>3. CASE CancelTransaction
    BY <2>3, CancelTransactionKeeps
  <2>4. CASE SubmissionSteps
    BY <2>4, SubmissionStepsKeeps
  <2>5. CASE OtherSteps
    BY <2>5, OtherStepsKeeps
  <2>6. CASE UNCHANGED allVars
    BY <2>6, TxStutterKeeps
  <2> QED
    BY <2>1, <2>2, <2>3, <2>4, <2>5, <2>6 DEF TxNext
<1> QED
  BY <1>1, <1>2, PTL DEF TxSpec

\* Every variable of a saga keeps its type, and a rollback step is at work only
\* while the saga compensates, or was cancelled meanwhile.
THEOREM TxTypeCorrect == TxSpec => []TxTypeOK
<1>1. TxIInv => TxTypeOK
  BY DEF TxIInv
<1> QED
  BY <1>1, TxInductive, PTL

\* Although compensation goes past verification and permission, a rollback step
\* runs only for a batch whose actions before the failed one were granted,
\* executed and recorded as succeeded, and in no dry run, for batches of any
\* length (submit_transaction, _compensate).
THEOREM CompensationIsAuthorised == TxSpec => []CompensationAuthorised
<1>1. TxIInv => CompensationAuthorised
  <2> SUFFICES ASSUME TxIInv, hand # "none"
               PROVE  /\ ~config.dry_run /\ position > 1
                      /\ \A i \in 1 .. position - 1 :
                           permit[Slot[i]].granted /\ Slot[i] \in ran /\ status[Slot[i]] = "succeeded"
    BY DEF CompensationAuthorised
  <2>1. position > 1 /\ position \in 1 .. MaxActions
    BY SlotAssumption DEF TxIInv, TxTypeOK, Underway
  <2>2. ASSUME NEW i \in 1 .. position - 1
        PROVE  /\ permit[Slot[i]].granted /\ Slot[i] \in ran /\ status[Slot[i]] = "succeeded"
               /\ ~config.dry_run
    <3>1. i \in 1 .. MaxActions /\ i < position
      BY <2>1, SlotAssumption
    <3>2. Slot[i] \in Tasks /\ status[Slot[i]] = "succeeded"
      BY <3>1, SlotAssumption DEF TxIInv, Positions
    <3>3. Slot[i] \in ran
      BY <3>2 DEF TxIInv, IInv, RecordsTruthful
    <3> QED
      BY <3>2, <3>3 DEF TxIInv, RanAuthorised
  <2>3. 1 \in 1 .. position - 1
    BY <2>1
  <2> QED
    BY <2>1, <2>2, <2>3
<1> QED
  BY <1>1, TxInductive, PTL

\* A saga never races itself: while a rollback step runs no submission of the
\* batch is under way, and none begins before those ahead of it have succeeded.
THEOREM NeverRacesItself == TxSpec => []OneHandAtATime
<1>1. TxIInv => OneHandAtATime
  <2> SUFFICES ASSUME TxIInv PROVE OneHandAtATime
    OBVIOUS
  <2>1. position \in 0 .. MaxActions /\ MaxActions \in Nat
    BY SlotAssumption DEF TxIInv, TxTypeOK
  <2>2. ASSUME hand # "none", NEW t \in Slots
        PROVE  pc[t] \notin Suspended /\ worker[t] # "queued"
    <3>1. PICK i \in 1 .. MaxActions : t = Slot[i]
      BY DEF Slots
    <3>2. t \in Tasks
      BY <3>1, SlotAssumption
    <3>3. i < position \/ i = position \/ i > position
      BY <2>1
    <3>4. pc[t] \in {"done", "idle"}
      BY <2>2, <3>1, <3>3 DEF TxIInv, Positions
    <3> QED
      BY <3>2, <3>4 DEF TxIInv, IInv, Shape, Suspended
  <2>3. ASSUME NEW i \in 1 .. MaxActions, NEW j \in 1 .. MaxActions, i < j, pc[Slot[j]] # "idle"
        PROVE  status[Slot[i]] = "succeeded"
    <3>1. ~(j > position)
      BY <2>3 DEF TxIInv, Positions
    <3>2. i < position
      BY <2>1, <2>3, <3>1
    <3> QED
      BY <3>2 DEF TxIInv, Positions
  <2> QED
    BY <2>2, <2>3 DEF OneHandAtATime
<1> QED
  BY <1>1, TxInductive, PTL

-----------------------------------------------------------------------------
(* Compensation restores *)

Worlds == [Paths -> Content]

\* Running the plan on the files w leads to the files v.
Reverts(plan, w, v) ==
  \/ plan = <<>> /\ v = w
  \/ \E step \in Action :
       plan = <<step>> /\ step.kind \in FileKinds /\ v = Put(w, step.path, StepResult(step))

\* The actions done lie between the files from and the files to, and the plan
\* kept of each leads from the files it left to the files it found.
LeadsBack(done, to, from) ==
  \E path \in [0 .. Len(done) -> Worlds] :
    /\ path[0] = from
    /\ path[Len(done)] = to
    /\ \A i \in 1 .. Len(done) :
         done[i].preparation.reversible => Reverts(done[i].preparation.plan, path[i], path[i - 1])

\* A preparation of a that found the files w.
Fits(p, a, w) ==
  p.reversible =>
    \/ p.plan = <<>> /\ (a.kind = "noop" \/ (a.kind = "file_delete" /\ w[a.path] = Absent))
    \/ a.kind \in FileKinds /\ \E step \in Action :
         /\ p.plan = <<step>> /\ step.kind \in FileKinds
         /\ step.path = a.path /\ StepResult(step) = w[a.path]

\* The submission t of a, begun when the files were w, has touched its own path
\* only, and nothing before it ran; a program's effect is never taken for undone.
Midway(t, a, w) ==
  /\ action[t] = a
  /\ pc[t] \notin {"idle", "raised", "cancelled"}
  /\ t \notin ran => workspace = w
  /\ a.kind = "noop" => workspace = w /\ worker[t] \in {"none", "ok"}
  /\ a.kind = "shell_command" => ~preparation[t].reversible
  /\ a.kind \notin FileKinds =>
       pc[t] \notin {"preparing", "compensating"} /\ status[t] # "rolled_back"
  /\ a.kind \in FileKinds =>
       /\ \A p \in Paths \ {a.path} : workspace[p] = w[p]
       /\ pc[t] # "preparing" => t \notin disturbed /\ origin[t] = w[a.path]

\* The compensation is on its way to the files w.
Homeward(w) ==
  \/ restoring = <<>> /\ workspace = w
  \/ restoring # <<>> /\ hand \in {"none", "queued"} /\ Reverts(restoring, workspace, w)
  \/ hand = "ok" /\ Len(restoring) = 1 /\ workspace = w
  \/ hand = "error"

\* The batch is one of shipped actions, and nobody else changed the files.
LeftAlone == ~meddled /\ \A i \in 1 .. Len(batch) : batch[i].kind \in ShippedKinds

\* No compensation has failed, nor did the last action fail half-way.
Hopeful == allRestored /\ status[Current] # "failed"

\* Wherever the saga is, what it has done can be led back to the files it found.
Undoable ==
  /\ phase = "preparing" => LeadsBack(completed, workspace, before)
  /\ phase = "submitting" =>
       \E w \in Worlds : /\ LeadsBack(completed, w, before)
                         /\ Fits(kept, batch[position], w)
                         /\ Midway(Current, batch[position], w)
  /\ phase = "compensating" /\ Hopeful =>
       \E w \in Worlds : LeadsBack(completed, w, before) /\ Homeward(w)

\* Where the current submission is while the saga is not waiting for it.
Placed ==
  /\ phase = "preparing" =>
       pc[Current] = "idle" /\ batch[position].kind \in FileKinds \cap config.handlers
  /\ phase = "returned" /\ ~result.succeeded =>
       position \in 1 .. MaxActions /\ pc[Current] = "done"

\* The inductive invariant of compensation.
CInv == TxIInv /\ RInv /\ Placed /\ (LeftAlone => Undoable) /\ CompensationRestores

-----------------------------------------------------------------------------
(* The way back *)

LEMMA LeadsBackStart ==
  ASSUME NEW w \in Worlds
  PROVE  LeadsBack(<<>>, w, w)
<1> DEFINE path == [i \in 0 .. 0 |-> w]
<1>1. Len(<<>>) = 0 /\ path \in [0 .. 0 -> Worlds] /\ path[0] = w
  OBVIOUS
<1>2. \A i \in 1 .. 0 : FALSE
  OBVIOUS
<1> HIDE DEF path
<1> QED
  BY <1>1, <1>2 DEF LeadsBack

LEMMA LeadsBackEnd ==
  ASSUME NEW w, NEW v, LeadsBack(<<>>, w, v)
  PROVE  w = v
<1>1. Len(<<>>) = 0
  OBVIOUS
<1> QED
  BY <1>1 DEF LeadsBack

\* One more action done.
LEMMA LeadsBackFurther ==
  ASSUME NEW S, NEW done \in Seq(S), NEW e \in S,
         NEW w \in Worlds, NEW v \in Worlds, NEW from, LeadsBack(done, w, from),
         e.preparation.reversible => Reverts(e.preparation.plan, v, w)
  PROVE  LeadsBack(Append(done, e), v, from)
<1> DEFINE more == Append(done, e)  n == Len(done)
<1>1. /\ n \in Nat /\ Len(more) = n + 1 /\ more[n + 1] = e
      /\ \A i \in 1 .. n : more[i] = done[i]
  OBVIOUS
<1>2. PICK path \in [0 .. n -> Worlds] :
        /\ path[0] = from
        /\ path[n] = w
        /\ \A i \in 1 .. n :
             done[i].preparation.reversible
               => Reverts(done[i].preparation.plan, path[i], path[i - 1])
  BY DEF LeadsBack
<1> DEFINE longer == [i \in 0 .. n + 1 |-> IF i = n + 1 THEN v ELSE path[i]]
<1>3. /\ longer \in [0 .. n + 1 -> Worlds]
      /\ longer[n + 1] = v /\ \A i \in 0 .. n : longer[i] = path[i]
  BY <1>1, <1>2
<1> HIDE DEF longer, more
<1>4. ASSUME NEW i \in 1 .. n + 1, more[i].preparation.reversible
      PROVE  Reverts(more[i].preparation.plan, longer[i], longer[i - 1])
  <2>1. CASE i = n + 1
    <3>1. longer[i] = v /\ longer[i - 1] = w /\ more[i] = e
      BY <1>1, <1>2, <1>3, <2>1
    <3> QED
      BY <1>4, <3>1
  <2>2. CASE i # n + 1
    <3>1. i \in 1 .. n /\ i \in 0 .. n /\ i - 1 \in 0 .. n
      BY <1>1, <2>2
    <3>2. longer[i] = path[i] /\ longer[i - 1] = path[i - 1] /\ more[i] = done[i]
      BY <1>1, <1>3, <3>1
    <3> QED
      BY <1>2, <1>4, <3>1, <3>2
  <2> QED
    BY <2>1, <2>2
<1>5. longer[0] = from
  BY <1>1, <1>2, <1>3
<1>6. LeadsBack(more, v, from)
  BY <1>1, <1>3, <1>4, <1>5 DEF LeadsBack
<1> QED
  BY <1>6 DEF more

\* The youngest action undone.
LEMMA LeadsBackNearer ==
  ASSUME NEW S, NEW done \in Seq(S), done # <<>>, NEW w, NEW from, LeadsBack(done, w, from)
  PROVE  \E v \in Worlds :
           /\ LeadsBack(YoungestFirst(done).rest, v, from)
           /\ YoungestFirst(done).next.preparation.reversible
                => Reverts(YoungestFirst(done).next.preparation.plan, w, v)
<1> DEFINE n == Len(done)  rest == SubSeq(done, 1, n - 1)
<1>1. n \in Nat \ {0} /\ n - 1 \in Nat
  BY EmptySeq
<1>2. Len(rest) = n - 1 /\ \A i \in 1 .. n - 1 : rest[i] = done[i]
  <2>1. \A i \in 1 .. n - 1 : done[i] \in S
    BY <1>1
  <2>2. CASE n - 1 = 0
    BY <2>1, <2>2, SubSeqProperties
  <2>3. CASE 1 <= n - 1
    <3>1. n - 1 - 1 + 1 = n - 1 /\ \A i \in 1 .. n - 1 : 1 + i - 1 = i
      BY <1>1
    <3>2. /\ Len(rest) = n - 1 - 1 + 1
          /\ \A i \in 1 .. n - 1 - 1 + 1 : rest[i] = done[1 + i - 1]
      BY <1>1, <2>1, <2>3, SubSeqProperties
    <3> HIDE DEF rest
    <3> QED
      BY <3>1, <3>2
  <2>4. n - 1 = 0 \/ 1 <= n - 1
    <3>1. \A k \in Nat : k = 0 \/ 1 <= k
      OBVIOUS
    <3> QED
      BY <1>1, <3>1, Zenon
  <2> HIDE DEF rest
  <2> QED
    BY <2>2, <2>3, <2>4
<1>3. PICK path \in [0 .. n -> Worlds] :
        /\ path[0] = from
        /\ path[n] = w
        /\ \A i \in 1 .. n :
             done[i].preparation.reversible
               => Reverts(done[i].preparation.plan, path[i], path[i - 1])
  BY DEF LeadsBack
<1> DEFINE shorter == [i \in 0 .. n - 1 |-> path[i]]
<1>4. /\ shorter \in [0 .. n - 1 -> Worlds]
      /\ \A i \in 0 .. n - 1 : shorter[i] = path[i]
  BY <1>1, <1>3
<1> HIDE DEF shorter, rest
<1>5. ASSUME NEW i \in 1 .. n - 1, rest[i].preparation.reversible
      PROVE  Reverts(rest[i].preparation.plan, shorter[i], shorter[i - 1])
  <2>1. i \in 1 .. n /\ i \in 0 .. n - 1 /\ i - 1 \in 0 .. n - 1
    BY <1>1
  <2>2. shorter[i] = path[i] /\ shorter[i - 1] = path[i - 1] /\ rest[i] = done[i]
    BY <1>2, <1>4, <2>1
  <2> QED
    BY <1>3, <1>5, <2>1, <2>2
<1>6. shorter[0] = from /\ shorter[n - 1] = path[n - 1] /\ path[n - 1] \in Worlds
  BY <1>1, <1>3, <1>4
<1>7. LeadsBack(rest, path[n - 1], from)
  BY <1>2, <1>4, <1>5, <1>6 DEF LeadsBack
<1>8. done[n].preparation.reversible => Reverts(done[n].preparation.plan, w, path[n - 1])
  BY <1>1, <1>3
<1> QED
  BY <1>6, <1>7, <1>8 DEF YoungestFirst, rest

-----------------------------------------------------------------------------
(* The relation between files and records, with sagas among the callers *)

\* Every step of a saga is a step of the engine, or a rollback step of its own.
LEMMA StepsOfEngine ==
  ASSUME TxIInv, [TxNext]_allVars
  PROVE  [Next]_vars \/ HandEnds
<1>1. ASSUME NEW b \in Seq(Actions), NEW i \in 1 .. Len(b), i <= MaxActions, Iterate(b, i)
      PROVE  [Next]_vars
  <2>1. b[i] \in Actions /\ i \in 1 .. MaxActions
    BY <1>1, SlotAssumption
  <2>2. Slot[i] \in Tasks
    BY <2>1, SlotsDiffer
  <2> QED
    BY <1>1, <2>1, <2>2 DEF Iterate, Next
<1>2. ASSUME NEW b \in Batches, Begin(b) PROVE [Next]_vars
  <2>1. b \in Seq(Actions) /\ MaxActions \in Nat /\ Len(b) \in Nat
    BY BatchesAssumption, SlotAssumption
  <2>2. CASE Len(b) \in 1 .. MaxActions /\ Iterate(b, 1)
    <3>1. 1 \in 1 .. Len(b) /\ 1 <= MaxActions
      BY <2>1, <2>2
    <3> QED
      BY <1>1, <2>1, <2>2, <3>1
  <2>3. CASE UNCHANGED vars
    BY <2>3
  <2> QED
    BY <1>2, <2>2, <2>3 DEF Begin
<1>3. phase \in {"preparing", "submitting"} =>
        /\ batch \in Seq(Actions) /\ batch[position] \in Actions /\ Current \in Tasks
        /\ position \in 1 .. Len(batch) /\ position \in Nat /\ Len(batch) \in Nat
        /\ MaxActions \in Nat /\ Len(batch) <= MaxActions
  <2>1. batch \in Seq(Actions) /\ MaxActions \in Nat
    BY BatchType DEF TxIInv
  <2> SUFFICES ASSUME phase \in {"preparing", "submitting"}
               PROVE  /\ batch[position] \in Actions /\ Current \in Tasks
                      /\ position \in 1 .. Len(batch) /\ Len(batch) <= MaxActions
    BY <2>1
  <2>2. position \in 1 .. Len(batch) /\ Len(batch) <= MaxActions
    BY DEF TxIInv, Underway
  <2>3. position \in 1 .. MaxActions
    BY <2>1, <2>2
  <2> QED
    BY <2>1, <2>2, <2>3, SlotsDiffer DEF Current
<1>4. CASE Prepared
  BY <1>3, <1>4 DEF Prepared, Next
<1>5. CASE Succeeded
  <2>1. CASE position < Len(batch) /\ Iterate(batch, position + 1)
    <3>1. position + 1 \in 1 .. Len(batch) /\ position + 1 <= MaxActions
      BY <1>3, <1>5, <2>1 DEF Succeeded
    <3> QED
      BY <1>1, <1>3, <1>5, <2>1, <3>1 DEF Succeeded
  <2>2. CASE UNCHANGED vars
    BY <2>2
  <2> QED
    BY <1>5, <2>1, <2>2 DEF Succeeded
<1>6. CASE Failed \/ UndoNext \/ StartStep \/ StepReturns \/ Compensated
  BY <1>6 DEF Failed, UndoNext, StartStep, StepReturns, Compensated
<1>7. CASE CancelTransaction
  <2>1. CASE phase = "submitting" /\ Cancel(Current)
    BY <1>3, <2>1 DEF Next
  <2>2. CASE UNCHANGED vars
    BY <2>2
  <2> QED
    BY <1>7, <2>1, <2>2 DEF CancelTransaction
<1>8. CASE SubmissionSteps
  <2>1. Slots \subseteq Tasks
    BY SlotsDiffer DEF Slots
  <2> QED
    BY <1>8, <2>1 DEF SubmissionSteps, Next
<1>9. CASE OtherSteps
  BY <1>9, BatchesAssumption DEF OtherSteps, Others, Next
<1>10. CASE UNCHANGED allVars
  BY <1>10 DEF allVars
<1> QED
  BY <1>2, <1>4, <1>5, <1>6, <1>7, <1>8, <1>9, <1>10 DEF TxNext, TxStep

LEMMA HandEndsRestorable ==
  ASSUME RInv, IInv', HandEnds
  PROVE  RInv'
<1>1. PICK o \in Outcomes(Head(restoring), workspace) :
        /\ workspace' = o.workspace
        /\ disturbed' = disturbed \cup
             {u \in Tasks : /\ action[u] # NoAction
                            /\ o.workspace[action[u].path] # workspace[action[u].path]}
  BY DEF HandEnds
<1>2. UNCHANGED <<pc, action, preparation, undo, worker, status, origin>>
  BY DEF HandEnds
<1>3. ASSUME NEW u \in Tasks PROVE Restorable(u)' /\ NotYetPrepared(u)'
  <2>1. Restorable(u) /\ NotYetPrepared(u) /\ Same(u)
    BY <1>2 DEF RInv, Same
  <2>2. u \in disturbed => u \in disturbed'
    BY <1>1
  <2>3. ASSUME u \notin disturbed', action[u].kind \in FileKinds
        PROVE  workspace'[action[u].path] = workspace[action[u].path]
    <3>1. action[u] # NoAction
      BY <2>3 DEF NoAction, FileKinds
    <3> QED
      BY <1>1, <2>3, <3>1
  <2> QED
    BY <2>1, <2>2, <2>3, SameKeeps
<1> QED
  BY <1>3 DEF RInv

LEMMA TxRestorable ==
  ASSUME TxIInv, RInv, IInv', [TxNext]_allVars
  PROVE  RInv'
BY StepsOfEngine, HandEndsRestorable, RNextKeeps

\* A step of t leaves the locals of every other task alone, and counts it as
\* disturbed only when it changes the files.
Spares(t) ==
  \A u \in Tasks \ {t} :
    /\ Same(u)
    /\ u \in ran' <=> u \in ran
    /\ u \in disturbed' => u \in disturbed \/ workspace' # workspace

LEMMA DecisionSpares ==
  ASSUME TypeOK, NEW t \in Tasks, NEW a \in Actions, NEW p, Authorise(t, a, p),
         action' = [action EXCEPT ![t] = a], ran' = ran
  PROVE  Spares(t) /\ Reached(t)
<1>1. /\ preparation' = [preparation EXCEPT ![t] = p]
      /\ origin' = [origin EXCEPT ![t] = workspace[a.path]]
      /\ disturbed' = disturbed \ {t}
  BY DEF Authorise
<1>2. action'[t] = a
  BY DEF TypeOK
<1>3. Reached(t)
  BY <1>2, AuthoriseReaches
<1>4. ASSUME NEW u \in Tasks \ {t} PROVE Same(u)
  BY <1>1, <1>3 DEF Reached, Same, TypeOK
<1> QED
  BY <1>1, <1>3, <1>4 DEF Spares

LEMMA SubmitSpares ==
  ASSUME TypeOK, NEW t \in Tasks, NEW a \in Actions, Submit(t, a)
  PROVE  Spares(t) /\ workspace' = workspace
<1>1. CASE SubmitUnhandled(t, a) \/ SubmitReading(t, a)
  BY <1>1 DEF SubmitUnhandled, SubmitReading, historyVars, Spares, Same, TypeOK
<1>2. CASE SubmitPrepared(t, a)
  <2>1. PICK p \in PreparedAtOnce(a, workspace) : Authorise(t, a, p)
    BY <1>2 DEF SubmitPrepared
  <2> QED
    BY <1>2, <2>1, DecisionSpares DEF SubmitPrepared
<1> QED
  BY <1>1, <1>2 DEF Submit

LEMMA QuietSpares ==
  ASSUME TypeOK, NEW t \in Tasks, \A u \in Tasks \ {t} :
           pc'[u] = pc[u] /\ status'[u] = status[u] /\ worker'[u] = worker[u] /\ undo'[u] = undo[u],
         UNCHANGED <<action, preparation, origin, disturbed>>, ran' \in {ran, ran \cup {t}}
  PROVE  Spares(t)
BY DEF Spares, Same

LEMMA TaskStepSpares ==
  ASSUME IInv, NEW t \in Tasks, TaskStep(t) \/ Cancel(t)
  PROVE  Spares(t)
<1>0. TypeOK
  BY DEF IInv
<1>1. CASE FinishPreparing(t) /\ action[t] \in Actions
  <2>1. PICK p \in PreparedByRead(action[t], workspace) : Authorise(t, action[t], p)
    BY <1>1 DEF FinishPreparing
  <2>2. action' = [action EXCEPT ![t] = action[t]] /\ ran' = ran
    BY <1>0, <1>1 DEF FinishPreparing, TypeOK
  <2> QED
    BY <1>0, <1>1, <2>1, <2>2, DecisionSpares
<1>2. CASE GateAnswers(t) \/ GateTimesOut(t)
  <2>1. Reached(t)
    <3>1. CASE GateTimesOut(t)
      BY <1>0, <3>1, FinishReaches DEF GateTimesOut, RefuseInSilence
    <3>2. CASE GateAnswers(t) /\ answer[t] = "yes"
      <4>1. action'[t] = action[t]
        BY <3>2 DEF GateAnswers
      <4> QED
        BY <1>0, <3>2, <4>1, ProceedReaches DEF GateAnswers
    <3>3. CASE GateAnswers(t) /\ answer[t] # "yes"
      BY <1>0, <3>3, FinishReaches DEF GateAnswers
    <3> QED
      BY <1>2, <3>1, <3>2, <3>3
  <2>2. UNCHANGED <<action, preparation, origin, disturbed, ran>>
    BY <1>2 DEF GateAnswers, GateTimesOut, RefuseInSilence, historyVars
  <2> QED
    BY <1>0, <2>1, <2>2, QuietSpares DEF Reached
<1>3. CASE WorkerEnds(t)
  <2>1. PICK o \in Outcomes(StepOf(t), workspace) :
          /\ workspace' = o.workspace
          /\ worker' = [worker EXCEPT ![t] = o.result]
          /\ disturbed' = disturbed \cup
               {u \in Tasks \ {t} : /\ action[u] # NoAction
                                    /\ o.workspace[action[u].path] # workspace[action[u].path]}
    BY <1>3 DEF WorkerEnds
  <2>2. /\ UNCHANGED <<pc, action, preparation, undo, status, origin>>
        /\ ran' \in {ran, ran \cup {t}}
    BY <1>3 DEF WorkerEnds
  <2>3. ASSUME NEW u \in Tasks \ {t} PROVE Same(u)
    BY <1>0, <2>1, <2>2 DEF Same, TypeOK
  <2> QED
    BY <2>1, <2>2, <2>3 DEF Spares
<1>4. CASE ResumeExecute(t) \/ ResumeRollback(t)
  <2>1. /\ UNCHANGED <<action, preparation, origin, disturbed>>
        /\ ran' \in {ran, ran \cup {t}}
    BY <1>4 DEF ResumeExecute, ResumeRollback, historyVars
  <2>2. \/ \E s : Finish(t, s, permit[t])
        \/ \E steps : /\ pc'     = [pc EXCEPT ![t] = "compensating"]
                      /\ worker' = [worker EXCEPT ![t] = Started(Head(steps).kind)]
                      /\ undo'   = [undo EXCEPT ![t] = steps]
                      /\ UNCHANGED status
    BY <1>4 DEF ResumeExecute, ResumeRollback, CompensateOne, RunRollback, CallResult
  <2>3. \A u \in Tasks \ {t} :
          pc'[u] = pc[u] /\ status'[u] = status[u] /\ worker'[u] = worker[u] /\ undo'[u] = undo[u]
    BY <1>0, <2>2 DEF Finish, TypeOK
  <2> QED
    BY <1>0, <2>1, <2>3, QuietSpares
<1>5. CASE Journal(t) \/ LoseRecord(t) \/ Cancel(t)
  <2>1. /\ UNCHANGED <<action, preparation, undo, status, origin, disturbed, ran>>
        /\ \A u \in Tasks \ {t} : pc'[u] = pc[u] /\ worker'[u] = worker[u]
    BY <1>0, <1>5 DEF Journal, LoseRecord, Cancel, Unwind, historyVars, TypeOK
  <2> QED
    BY <1>0, <2>1, QuietSpares
<1>6. FinishPreparing(t) => action[t] \in Actions
  BY DEF FinishPreparing, IInv, TypeOK, Shape
<1> QED
  BY <1>1, <1>2, <1>3, <1>4, <1>5, <1>6 DEF TaskStep

-----------------------------------------------------------------------------
(* One submission of the batch *)

\* What it does before anything ran.
LEMMA ReachedMidway ==
  ASSUME IInv', NEW t \in Tasks, NEW a \in Actions, a.kind \in ShippedKinds, NEW w \in Worlds,
         Reached(t), status[t] = "none", action'[t] = a, workspace' = w,
         a.kind = "shell_command" => ~preparation'[t].reversible,
         a.kind \in FileKinds => t \notin disturbed' /\ origin'[t] = w[a.path]
  PROVE  Midway(t, a, w)'
<1>1. /\ pc'[t] \in {"journalling", "executing", "asking"} /\ status'[t] # "rolled_back"
      /\ pc'[t] = "executing" => worker'[t] = Started(a.kind)
  BY DEF Reached
<1>2. worker'[t] # "none" => pc'[t] \in {"executing", "compensating", "cancelled"}
  BY DEF IInv, Shape
<1>3. a.kind = "noop" => worker'[t] \in {"none", "ok"}
  BY <1>1, <1>2 DEF Started
<1> QED
  BY <1>1, <1>3 DEF Midway

\* It begins.
LEMMA SubmitMidway ==
  ASSUME IInv, IInv', NEW t \in Tasks, NEW a \in Actions, a.kind \in ShippedKinds,
         a.kind \in config.handlers, NEW w \in Worlds, workspace = w, Submit(t, a)
  PROVE  Midway(t, a, w)' /\ workspace' = w
<1>1. /\ TypeOK /\ pc[t] = "idle" /\ status[t] = "none" /\ t \notin ran /\ worker[t] = "none"
      /\ action' = [action EXCEPT ![t] = a] /\ action'[t] = a /\ workspace' = w /\ ran' = ran
  <2>1. /\ pc[t] = "idle" /\ workspace' = workspace /\ ran' = ran
        /\ action' = [action EXCEPT ![t] = a]
    BY DEF Submit, SubmitUnhandled, SubmitReading, SubmitPrepared, historyVars
  <2>2. TypeOK /\ status[t] = "none" /\ t \notin ran /\ worker[t] = "none"
    BY <2>1 DEF IInv, Shape, BeforePermit
  <2> QED
    BY <2>1, <2>2 DEF TypeOK
<1>2. CASE SubmitReading(t, a)
  <2>1. pc' = [pc EXCEPT ![t] = "preparing"] /\ UNCHANGED <<preparation, worker, status>>
    BY <1>2 DEF SubmitReading
  <2>2. pc'[t] = "preparing" /\ a.kind \in FileKinds
    BY <1>1, <1>2, <2>1 DEF SubmitReading, NeedsRead, FileKinds, TypeOK
  <2> QED
    BY <1>1, <2>1, <2>2 DEF Midway, FileKinds
<1>3. CASE SubmitPrepared(t, a)
  <2>1. PICK p \in PreparedAtOnce(a, workspace) : Authorise(t, a, p)
    BY <1>3 DEF SubmitPrepared
  <2>2. Reached(t)
    BY <1>1, <2>1, DecisionSpares
  <2>3. /\ preparation'[t] = p /\ origin'[t] = workspace[a.path] /\ t \notin disturbed'
    BY <1>1, <2>1 DEF Authorise, TypeOK
  <2>4. a.kind = "shell_command" => ~p.reversible
    BY <2>1 DEF PreparedAtOnce, MayLackPath, Irreversible, FileKinds
  <2> QED
    BY <1>1, <2>2, <2>3, <2>4, ReachedMidway
<1>4. ~SubmitUnhandled(t, a)
  BY DEF SubmitUnhandled
<1> QED
  BY <1>2, <1>3, <1>4 DEF Submit

\* A file step leaves every other path alone.
LEMMA FileStepElsewhere ==
  ASSUME NEW a \in Action, a.kind \in FileKinds, NEW ws \in Worlds, NEW o \in Outcomes(a, ws),
         NEW p \in Paths \ {a.path}
  PROVE  o.workspace[p] = ws[p]
<1>1. CASE a.kind = "file_write"
  BY <1>1 DEF Outcomes, WriteOutcomes, Put, Ends, Worlds
<1>2. CASE a.kind = "file_delete"
  BY <1>2 DEF Outcomes, DeleteOutcomes, Put, Ends, Worlds
<1> QED
  BY <1>1, <1>2 DEF FileKinds

\* Its worker ends.
LEMMA WorkerMidway ==
  ASSUME RInv, IInv', NEW t \in Tasks, NEW a \in Actions, a.kind \in ShippedKinds,
         NEW w \in Worlds, Midway(t, a, w), WorkerEnds(t)
  PROVE  Midway(t, a, w)'
<1>1. PICK o \in Outcomes(StepOf(t), workspace) :
        /\ workspace' = o.workspace
        /\ worker' = [worker EXCEPT ![t] = o.result]
        /\ disturbed' = disturbed \cup
             {u \in Tasks \ {t} : /\ action[u] # NoAction
                                  /\ o.workspace[action[u].path] # workspace[action[u].path]}
  BY DEF WorkerEnds
<1>2. /\ TypeOK /\ worker[t] = "queued"
      /\ UNCHANGED <<pc, action, preparation, undo, status, origin>>
      /\ ran' = IF undo[t] = <<>> THEN ran \cup {t} ELSE ran
  BY DEF WorkerEnds, RInv, IInv
<1>3. pc[t] \in {"executing", "compensating"}
  BY <1>2 DEF RInv, IInv, Shape, Midway
<1>4. t \in ran'
  <2>1. pc[t] = "executing" => undo[t] = <<>>
    BY DEF RInv, IInv, Shape
  <2>2. pc[t] = "compensating" => t \in ran
    BY DEF RInv, IInv, BeforeRecord
  <2> QED
    BY <1>2, <1>3, <2>1, <2>2
<1>5. a.kind # "noop"
  BY <1>2 DEF Midway
<1>6. ASSUME a.kind \in FileKinds, NEW p \in Paths \ {a.path} PROVE workspace'[p] = w[p]
  <2>1. action[t] = a /\ workspace[p] = w[p] /\ a \in Action
    BY <1>6, ActionsAssumption DEF Midway
  <2>2. StepOf(t) \in Action /\ StepOf(t).kind \in FileKinds /\ StepOf(t).path = a.path
    <3>1. CASE pc[t] = "executing"
      <4>1. undo[t] = <<>>
        BY <3>1 DEF RInv, IInv, Shape
      <4> QED
        BY <1>6, <2>1, <4>1 DEF StepOf
    <3>2. CASE pc[t] = "compensating"
      <4>1. PICK step \in Action : undo[t] = <<step>> /\ PutsBack(t, step)
        BY <1>6, <2>1, <3>2 DEF RInv, Restorable
      <4>2. StepOf(t) = step
        BY <4>1 DEF StepOf
      <4>3. step.kind \in FileKinds /\ step.path = a.path
        BY <2>1, <4>1 DEF PutsBack, DeleteStep, WriteStep, FileKinds
      <4> QED
        BY <4>2, <4>3
    <3> QED
      BY <1>3, <3>1, <3>2
  <2>3. o.workspace[p] = workspace[p]
    <3>1. workspace \in Worlds /\ p \in Paths \ {StepOf(t).path}
      BY <1>2, <1>6, <2>2 DEF TypeOK, Worlds
    <3> QED
      BY <2>2, <3>1, FileStepElsewhere
  <2> QED
    BY <1>1, <2>1, <2>3
<1>7. t \notin disturbed => t \notin disturbed'
  BY <1>1
<1> QED
  BY <1>2, <1>4, <1>5, <1>6, <1>7 DEF Midway

\* It leaves the files alone.
LEMMA QuietMidway ==
  ASSUME NEW t \in Tasks, NEW a, NEW w, Midway(t, a, w),
         UNCHANGED <<workspace, action, preparation, origin, disturbed>>,
         ran' \in {ran, ran \cup {t}},
         pc'[t] \notin {"idle", "raised", "cancelled", "preparing"}, pc[t] # "preparing",
         worker'[t] \in {worker[t], "none"} \/ a.kind # "noop",
         a.kind \notin FileKinds => pc'[t] # "compensating" /\ status'[t] # "rolled_back"
  PROVE  Midway(t, a, w)'
BY DEF Midway, FileKinds

LEMMA ResumeMidway ==
  ASSUME RInv, NEW t \in Tasks, NEW a \in Actions, a.kind \in ShippedKinds,
         NEW w \in Worlds, Midway(t, a, w), ResumeExecute(t) \/ ResumeRollback(t)
  PROVE  Midway(t, a, w)'
<1>1. /\ UNCHANGED <<workspace, action, preparation, origin, disturbed>>
      /\ ran' \in {ran, ran \cup {t}}
      /\ TypeOK /\ pc[t] \in {"executing", "compensating"}
      /\ action[t] = a
  BY DEF ResumeExecute, ResumeRollback, historyVars, RInv, IInv, Midway
<1>2. CASE \E s \in {"succeeded", "failed"} : Finish(t, s, permit[t])
  <2>1. pc'[t] = "journalling" /\ worker'[t] = "none" /\ status'[t] # "rolled_back"
    BY <1>1, <1>2 DEF Finish, TypeOK
  <2> QED
    BY <1>1, <2>1, QuietMidway
<1>3. CASE a.kind \in FileKinds
  <2>1. \/ \E s : Finish(t, s, permit[t])
        \/ /\ pc' = [pc EXCEPT ![t] = "compensating"]
    BY DEF ResumeExecute, ResumeRollback, CompensateOne, RunRollback, CallResult
  <2>2. pc'[t] \in {"journalling", "compensating"}
    BY <1>1, <2>1 DEF Finish, TypeOK
  <2> QED
    BY <1>1, <1>3, <2>2, QuietMidway DEF FileKinds
<1>4. CASE a.kind \in {"noop", "shell_command"}
  <2>1. /\ worker[t] \in {"none", "ok"} \/ ~preparation[t].reversible
        /\ pc[t] # "compensating"
    BY <1>4 DEF Midway, FileKinds
  <2>2. Finish(t, "succeeded", permit[t]) \/ Finish(t, "failed", permit[t])
    BY <2>1 DEF ResumeExecute, ResumeRollback, CompensateOne, CallResult
  <2> QED
    BY <1>2, <2>2
<1> QED
  BY <1>3, <1>4 DEF ShippedKinds, FileKinds

LEMMA TaskStepMidway ==
  ASSUME RInv, IInv', NEW t \in Tasks, NEW a \in Actions, a.kind \in ShippedKinds,
         NEW w \in Worlds, Midway(t, a, w), TaskStep(t)
  PROVE  Midway(t, a, w)'
<1>1. /\ TypeOK /\ IInv /\ action[t] = a
      /\ pc[t] \in {"preparing", "asking"} => t \notin ran /\ workspace = w /\ status[t] = "none"
  BY DEF RInv, IInv, BeforePermit, Shape, Midway
<1>2. CASE FinishPreparing(t)
  <2>1. PICK p \in PreparedByRead(a, workspace) : Authorise(t, a, p)
    BY <1>1, <1>2 DEF FinishPreparing
  <2>2. /\ pc[t] = "preparing" /\ workspace' = workspace /\ ran' = ran /\ action' = action
        /\ action' = [action EXCEPT ![t] = a]
    BY <1>1, <1>2 DEF FinishPreparing, TypeOK
  <2>3. Reached(t)
    BY <1>1, <2>1, <2>2, DecisionSpares
  <2>4. a.kind \in FileKinds /\ a.kind # "shell_command"
    BY <2>2 DEF Midway, ShippedKinds, FileKinds
  <2>5. origin'[t] = workspace[a.path] /\ t \notin disturbed'
    BY <1>1, <2>1 DEF Authorise, TypeOK
  <2> QED
    BY <1>1, <2>2, <2>3, <2>4, <2>5, ReachedMidway
<1>3. CASE GateAnswers(t) \/ GateTimesOut(t)
  <2>1. /\ pc[t] = "asking"
        /\ UNCHANGED <<workspace, action, preparation, origin, disturbed>>
    BY <1>3 DEF GateAnswers, GateTimesOut, RefuseInSilence, historyVars
  <2>2. Reached(t)
    <3>1. CASE GateTimesOut(t)
      BY <1>1, <3>1, FinishReaches DEF GateTimesOut, RefuseInSilence
    <3>2. CASE GateAnswers(t) /\ answer[t] = "yes"
      BY <1>1, <2>1, <3>2, ProceedReaches DEF GateAnswers
    <3>3. CASE GateAnswers(t) /\ answer[t] # "yes"
      BY <1>1, <3>3, FinishReaches DEF GateAnswers
    <3> QED
      BY <1>3, <3>1, <3>2, <3>3
  <2>3. /\ a.kind = "shell_command" => ~preparation[t].reversible
        /\ a.kind \in FileKinds => t \notin disturbed /\ origin[t] = w[a.path]
    BY <2>1 DEF Midway
  <2> QED
    BY <1>1, <2>1, <2>2, <2>3, ReachedMidway
<1>4. CASE WorkerEnds(t)
  BY <1>4, WorkerMidway
<1>5. CASE ResumeExecute(t) \/ ResumeRollback(t)
  BY <1>5, ResumeMidway
<1>6. CASE Journal(t) \/ LoseRecord(t)
  <2>1. /\ UNCHANGED <<workspace, action, preparation, origin, disturbed, ran, worker, status>>
        /\ pc[t] = "journalling" /\ pc'[t] = "done"
    BY <1>1, <1>6 DEF Journal, LoseRecord, historyVars, TypeOK
  <2> QED
    BY <2>1, QuietMidway DEF Midway, FileKinds, ShippedKinds
<1> QED
  BY <1>2, <1>3, <1>4, <1>5, <1>6 DEF TaskStep

\* The others come and go, and leave the files alone.
LEMMA SparedMidway ==
  ASSUME NEW t \in Tasks, NEW u \in Tasks \ {t}, NEW a, NEW w, Midway(t, a, w),
         Spares(u), workspace' = workspace
  PROVE  Midway(t, a, w)'
BY DEF Midway, Spares, Same

\* It ends in success: the plan kept leads back.
LEMMA SucceededReverts ==
  ASSUME RInv, NEW t \in Tasks, NEW a \in Actions, a.kind \in ShippedKinds, NEW w \in Worlds,
         Midway(t, a, w), pc[t] = "done", status[t] = "succeeded",
         NEW p, Fits(p, a, w), p.reversible
  PROVE  Reverts(p.plan, workspace, w)
<1>1. workspace \in Worlds /\ w \in Worlds /\ action[t] = a /\ a.path \in Paths
  BY ActionsAssumption DEF RInv, IInv, TypeOK, Worlds, Midway, Action
<1>2. CASE a.kind \notin FileKinds
  BY <1>2 DEF Fits, Midway, Reverts, FileKinds
<1>3. CASE a.kind \in FileKinds
  <2>1. workspace[a.path] = StepResult(a) /\ \A q \in Paths \ {a.path} : workspace[q] = w[q]
    BY <1>1, <1>3 DEF Midway, RInv, Restorable, FileFollows, AtPath
  <2>2. CASE p.plan = <<>> /\ a.kind = "file_delete" /\ w[a.path] = Absent
    <3>1. workspace = w
      BY <1>1, <2>1, <2>2 DEF StepResult, Worlds
    <3> QED
      BY <2>2, <3>1 DEF Reverts
  <2>3. ASSUME NEW step \in Action, p.plan = <<step>>, step.kind \in FileKinds,
               step.path = a.path, StepResult(step) = w[a.path]
        PROVE  Reverts(p.plan, workspace, w)
    <3>1. w = Put(workspace, step.path, StepResult(step))
      BY <1>1, <2>1, <2>3 DEF Put, Worlds
    <3> QED
      BY <2>3, <3>1 DEF Reverts
  <2> QED
    BY <1>3, <2>2, <2>3 DEF Fits, FileKinds
<1> QED
  BY <1>2, <1>3

\* It ends otherwise, and did not fail half-way: it left nothing.
LEMMA RefusedLeavesNothing ==
  ASSUME RInv, NEW t \in Tasks, NEW a \in Actions, a.kind \in ShippedKinds, NEW w \in Worlds,
         Midway(t, a, w), pc[t] = "done", status[t] \notin {"succeeded", "failed"}
  PROVE  workspace = w
<1>1. workspace \in Worlds /\ w \in Worlds /\ action[t] = a /\ a.path \in Paths
  BY ActionsAssumption DEF RInv, IInv, TypeOK, Worlds, Midway, Action
<1>2. status[t] \in {"rejected", "denied", "skipped", "rolled_back"}
  BY DEF RInv, IInv, TypeOK, Shape, Status
<1>3. CASE status[t] # "rolled_back"
  BY <1>2, <1>3 DEF RInv, IInv, RecordsTruthful, Midway
<1>4. CASE status[t] = "rolled_back" /\ a.kind \in FileKinds
  <2>1. workspace[a.path] = w[a.path] /\ \A q \in Paths \ {a.path} : workspace[q] = w[q]
    BY <1>1, <1>4 DEF Midway, RInv, Restorable, FileFollows, AtPath
  <2> QED
    BY <1>1, <2>1 DEF Worlds
<1>5. CASE status[t] = "rolled_back" /\ a.kind \notin FileKinds
  BY <1>5 DEF Midway, ShippedKinds, FileKinds
<1> QED
  BY <1>3, <1>4, <1>5

-----------------------------------------------------------------------------
(* The steps of the saga *)

\* What a preparation of a shipped action captures fits the files it looked at.
LEMMA PreparationFits ==
  ASSUME NEW a \in Actions, a.kind \in ShippedKinds, NEW w \in Worlds, NEW p,
         p \in PreparedAtOnce(a, w) \/ (p \in PreparedByRead(a, w) /\ a.kind \in FileKinds)
  PROVE  Fits(p, a, w)
<1>1. CASE a.kind \in FileKinds
  <2> SUFFICES ASSUME p.reversible PROVE Fits(p, a, w)
    BY DEF Fits
  <2>1. \/ p.plan = <<>> /\ a.kind = "file_delete" /\ w[a.path] = Absent
        \/ p.plan = <<DeleteStep(a.path)>> /\ DeleteStep(a.path) \in Action /\ w[a.path] = Absent
        \/ p.plan = <<WriteStep(a.path, w[a.path])>> /\ WriteStep(a.path, w[a.path]) \in Action
    BY <1>1, PreparedFits DEF Worlds
  <2>2. /\ DeleteStep(a.path).kind \in FileKinds /\ DeleteStep(a.path).path = a.path
        /\ StepResult(DeleteStep(a.path)) = Absent
    BY DEF DeleteStep, StepResult, FileKinds
  <2>3. /\ WriteStep(a.path, w[a.path]).kind \in FileKinds
        /\ WriteStep(a.path, w[a.path]).path = a.path
        /\ StepResult(WriteStep(a.path, w[a.path])) = w[a.path]
    BY DEF WriteStep, StepResult, FileKinds
  <2> QED
    BY <1>1, <2>1, <2>2, <2>3 DEF Fits
<1>2. CASE a.kind \notin FileKinds
  <2>1. a.kind \in {"noop", "shell_command"} /\ p \in PreparedAtOnce(a, w)
    BY <1>2 DEF ShippedKinds, FileKinds
  <2>2. a.kind = "noop" => p = ReversibleBy(FALSE, <<>>)
    BY <2>1 DEF PreparedAtOnce, MayLackPath, FileKinds
  <2>3. a.kind = "shell_command" => p = Irreversible(FALSE)
    BY <2>1 DEF PreparedAtOnce, MayLackPath, FileKinds
  <2> QED
    BY <2>1, <2>2, <2>3 DEF Fits, ReversibleBy, Irreversible
<1> QED
  BY <1>1, <1>2

\* Where the loop over the batch is.
LEMMA AtWork ==
  ASSUME TxIInv, phase \in {"preparing", "submitting", "compensating"}
  PROVE  /\ batch \in Seq(Actions) /\ position \in 1 .. Len(batch) /\ Len(batch) <= MaxActions
         /\ position \in 1 .. MaxActions /\ batch[position] \in Actions /\ Current \in Tasks
         /\ \A j \in 1 .. MaxActions \ {position} : Slot[j] \in Tasks \ {Current}
         /\ workspace \in Worlds
         /\ completed \in Seq([action : Actions, preparation : Preparation])
<1>1. batch \in Seq(Actions) /\ MaxActions \in Nat
  BY BatchType DEF TxIInv
<1>2. position \in 1 .. Len(batch) /\ Len(batch) <= MaxActions
  BY DEF TxIInv, Underway
<1>3. position \in 1 .. MaxActions
  BY <1>1, <1>2
<1>4. /\ workspace \in Worlds
      /\ completed \in Seq([action : Actions, preparation : Preparation])
  BY DEF TxIInv, TxTypeOK, IInv, TypeOK, Worlds
<1> QED
  BY <1>1, <1>2, <1>3, <1>4, SlotsDiffer DEF Current

\* Entering an iteration, with the files as the actions done have left them.
LEMMA IterateUndoable ==
  ASSUME IInv, IInv', NEW b \in Seq(Actions), NEW i \in 1 .. Len(b), i <= MaxActions,
         Iterate(b, i), pc[Slot[i]] = "idle", batch' = b,
         (\A j \in 1 .. Len(b) : b[j].kind \in ShippedKinds) /\ ~meddled'
           => LeadsBack(completed', workspace, before')
  PROVE  Placed' /\ (LeftAlone' => Undoable') /\ CompensationRestores'
<1>1. b[i] \in Actions /\ i \in 1 .. MaxActions /\ Slot[i] \in Tasks
  BY SlotAssumption, SlotsDiffer
<1>2. workspace \in Worlds /\ config' = config
  BY <1>1, SubmitTouches DEF IInv, TypeOK, Worlds, Iterate, Touches, vars
<1>3. position' = i /\ Current' = Slot[i]
  BY DEF Iterate, Current
<1>4. phase' \in {"raised", "submitting", "preparing"}
  BY DEF Iterate
<1>5. CompensationRestores'
  BY <1>4 DEF CompensationRestores
<1>6. ASSUME phase' = "preparing"
      PROVE  pc'[Slot[i]] = "idle" /\ b[i].kind \in FileKinds \cap config.handlers /\ workspace' = workspace
  <2>1. b[i].kind \in config.handlers /\ NeedsRead(b[i], workspace) /\ UNCHANGED vars
    BY <1>6 DEF Iterate
  <2> QED
    BY <2>1 DEF NeedsRead, FileKinds, vars
<1>7. Placed'
  BY <1>2, <1>3, <1>4, <1>6 DEF Placed
<1>8. ASSUME LeftAlone' PROVE Undoable'
  <2>1. b[i].kind \in ShippedKinds /\ LeadsBack(completed', workspace, before')
    BY <1>8 DEF LeftAlone
  <2>2. ASSUME NEW w \in Worlds, w = workspace, phase' = "submitting"
        PROVE  Fits(kept', b[i], w) /\ Midway(Slot[i], b[i], w)'
    <3>1. /\ b[i].kind \in config.handlers /\ Submit(Slot[i], b[i])
          /\ kept' \in PreparedAtOnce(b[i], w)
      BY <2>2 DEF Iterate
    <3>2. Fits(kept', b[i], w)
      BY <1>1, <2>1, <3>1, PreparationFits
    <3> QED
      BY <1>1, <2>1, <2>2, <3>1, <3>2, SubmitMidway
  <2>3. CASE phase' = "submitting"
    <3>1. PICK w \in Worlds : w = workspace
      BY <1>2
    <3>2. Fits(kept', b[i], w) /\ Midway(Slot[i], b[i], w)' /\ LeadsBack(completed', w, before')
      BY <2>1, <2>2, <2>3, <3>1
    <3>3. \E v \in Worlds : /\ LeadsBack(completed', v, before')
                            /\ Fits(kept', b[i], v)
                            /\ Midway(Slot[i], b[i], v)'
      BY <3>2
    <3>4. batch'[position'] = b[i] /\ Current' = Slot[i]
      BY <1>3
    <3> QED
      BY <2>3, <3>3, <3>4 DEF Undoable, Midway
  <2>4. CASE phase' = "preparing"
    BY <1>6, <2>1, <2>4 DEF Undoable
  <2> QED
    BY <1>4, <2>3, <2>4 DEF Undoable
<1> QED
  BY <1>5, <1>7, <1>8

\* While something is claimed of the files and no submission is waited for, the
\* current one rests.
Resting == phase \in {"preparing", "compensating"} \/ (phase = "returned" /\ ~result.succeeded)

LEMMA CurrentRests ==
  ASSUME TxIInv, Placed, Resting
  PROVE  /\ position \in 1 .. MaxActions /\ Current \in Tasks
         /\ \A j \in 1 .. MaxActions \ {position} : Slot[j] \in Tasks \ {Current}
         /\ pc[Current] \in {"idle", "done"}
<1>1. position \in 1 .. MaxActions
  BY AtWork DEF Resting, Placed
<1>2. phase = "compensating" => pc[Slot[position]] = "done"
  BY <1>1 DEF TxIInv, Positions
<1> QED
  BY <1>1, <1>2, SlotsDiffer DEF Resting, Placed, Current

\* A step of a task beside the saga.
LEMMA BesideUndoable ==
  ASSUME CInv, UNCHANGED txVars, config' = config,
         LeftAlone' => LeftAlone /\ (Resting => workspace' = workspace),
         Resting => pc'[Current] = pc[Current] /\ status'[Current] = status[Current],
         \A w \in Worlds : LeftAlone' /\ phase = "submitting" /\ Midway(Current, batch[position], w)
                             => Midway(Current, batch[position], w)'
  PROVE  Placed' /\ (LeftAlone' => Undoable') /\ CompensationRestores'
<1>1. /\ phase' = phase /\ batch' = batch /\ position' = position /\ kept' = kept
      /\ completed' = completed /\ restoring' = restoring /\ hand' = hand
      /\ allRestored' = allRestored /\ result' = result /\ before' = before
      /\ Current' = Current
  BY DEF txVars, Current
<1>2. Placed'
  BY <1>1 DEF CInv, Placed, Resting
<1>3. CompensationRestores'
  BY <1>1 DEF CInv, CompensationRestores, LeftAlone, Resting
<1>4. ASSUME LeftAlone' PROVE Undoable'
  <2>1. Undoable /\ (Resting => workspace' = workspace)
    BY <1>4 DEF CInv
  <2>2. CASE phase = "preparing"
    BY <1>1, <2>1, <2>2 DEF Undoable, Resting
  <2>3. CASE phase = "submitting"
    <3>1. PICK w \in Worlds : /\ LeadsBack(completed, w, before)
                              /\ Fits(kept, batch[position], w)
                              /\ Midway(Current, batch[position], w)
      BY <2>1, <2>3 DEF Undoable
    <3>2. Midway(Current, batch[position], w)'
      BY <1>4, <2>3, <3>1
    <3> QED
      BY <1>1, <2>3, <3>1, <3>2 DEF Undoable
  <2>4. CASE phase = "compensating" /\ Hopeful'
    <3>1. Hopeful
      BY <1>1, <2>4 DEF Hopeful, Resting
    <3>2. PICK w \in Worlds : LeadsBack(completed, w, before) /\ Homeward(w)
      BY <2>1, <2>4, <3>1 DEF Undoable
    <3>3. Homeward(w)'
      BY <1>1, <2>1, <2>4, <3>2 DEF Homeward, Resting
    <3> QED
      BY <1>1, <2>4, <3>2, <3>3 DEF Undoable
  <2> QED
    BY <1>1, <2>2, <2>3, <2>4 DEF Undoable
<1> QED
  BY <1>2, <1>3, <1>4

LEMMA SubmissionStepsUndoable ==
  ASSUME CInv, TxIInv', SubmissionSteps
  PROVE  Placed' /\ (LeftAlone' => Undoable') /\ CompensationRestores'
<1>1. PICK i \in 1 .. MaxActions : TaskStep(Slot[i]) \/ \E yes \in BOOLEAN : Resolve(Slot[i], yes)
  BY DEF SubmissionSteps, Slots
<1>2. /\ Slot[i] \in Tasks /\ UNCHANGED txVars /\ meddled' = meddled
      /\ TxIInv /\ RInv /\ IInv /\ IInv'
  BY SlotsDiffer DEF SubmissionSteps, CInv, TxIInv
<1>3. LeftAlone' => LeftAlone
  BY <1>2 DEF LeftAlone, txVars
<1>4. CASE TaskStep(Slot[i])
  <2>1. i = position
    <3>1. position \in Nat
      BY <1>2, SlotAssumption DEF TxIInv, TxTypeOK
    <3>2. pc[Slot[i]] \notin {"idle", "done"}
      BY <1>2, <1>4, AtRest
    <3>3. ~(i < position) /\ ~(i > position)
      BY <1>2, <3>2 DEF TxIInv, Positions
    <3> QED
      BY <3>1, <3>3, SlotAssumption
  <2>2. ~Resting
    BY <1>2, <1>4, <2>1, AtRest, CurrentRests DEF CInv, Current
  <2>3. config' = config
    BY <1>2, <1>4, TaskStepTouches DEF IInv, Touches
  <2>4. ASSUME NEW w \in Worlds, LeftAlone', phase = "submitting",
               Midway(Current, batch[position], w)
        PROVE  Midway(Current, batch[position], w)'
    <3>1. batch[position] \in Actions /\ position \in 1 .. Len(batch)
      BY <1>2, <2>4, AtWork
    <3>2. batch[position].kind \in ShippedKinds
      BY <1>3, <2>4, <3>1 DEF LeftAlone
    <3>3. \A t \in Tasks, a \in Actions :
            t = Current /\ a = batch[position] => Midway(t, a, w)'
      BY <1>2, <1>4, <2>1, <2>4, <3>2, TaskStepMidway DEF Current
    <3>4. Current' = Current /\ batch' = batch /\ position' = position
      BY <1>2 DEF txVars, Current
    <3>5. PICK t \in Tasks, a \in Actions : t = Current /\ a = batch[position]
      BY <1>2, <2>1, <3>1 DEF Current
    <3>6. Midway(t, a, w)'
      BY <3>3, <3>5
    <3> QED
      BY <3>4, <3>5, <3>6 DEF Midway
  <2> QED
    BY <1>2, <1>3, <2>2, <2>3, <2>4, BesideUndoable
<1>5. ASSUME NEW yes \in BOOLEAN, Resolve(Slot[i], yes)
      PROVE  Placed' /\ (LeftAlone' => Undoable') /\ CompensationRestores'
  <2>1. UNCHANGED <<config, workspace, pc, action, preparation, worker, status, ran, origin,
                    disturbed>>
    BY <1>5 DEF Resolve
  <2>2. Current' = Current /\ batch' = batch /\ position' = position
    BY <1>2 DEF txVars, Current
  <2>3. \A w \in Worlds : Midway(Current, batch[position], w) => Midway(Current, batch[position], w)'
    BY <2>1, <2>2 DEF Midway
  <2> QED
    BY <1>2, <1>3, <2>1, <2>3, BesideUndoable
<1> QED
  BY <1>1, <1>4, <1>5

LEMMA OtherStepsUndoable ==
  ASSUME CInv, OtherSteps
  PROVE  Placed' /\ (LeftAlone' => Undoable') /\ CompensationRestores'
<1>1. PICK u \in Others :
        \/ \E a \in OtherActions : Submit(u, a)
        \/ \E yes \in BOOLEAN : Resolve(u, yes)
        \/ TaskStep(u)
        \/ Cancel(u)
  BY DEF OtherSteps
<1>2. u \in Tasks /\ \A i \in 1 .. MaxActions : Slot[i] \in Tasks \ {u}
  BY SlotAssumption DEF Others, Slots
<1>3. /\ UNCHANGED txVars /\ meddled' = (meddled \/ workspace' # workspace)
      /\ IInv /\ TxIInv /\ TypeOK /\ meddled \in BOOLEAN
  BY DEF OtherSteps, CInv, TxIInv, TxTypeOK, IInv
<1>4. Spares(u) /\ config' = config
  <2>1. ASSUME NEW a \in OtherActions, Submit(u, a) PROVE Spares(u) /\ config' = config
    BY <1>2, <1>3, <2>1, SubmitSpares, SubmitTouches, BatchesAssumption DEF Touches
  <2>2. ASSUME NEW yes \in BOOLEAN, Resolve(u, yes) PROVE Spares(u) /\ config' = config
    BY <1>2, <1>3, <2>2, QuietSpares DEF Resolve
  <2>3. CASE TaskStep(u)
    BY <1>2, <1>3, <2>3, TaskStepSpares, TaskStepTouches DEF Touches
  <2>4. CASE Cancel(u)
    BY <1>2, <1>3, <2>4, TaskStepSpares, CancelTouches DEF Touches
  <2> QED
    BY <1>1, <2>1, <2>2, <2>3, <2>4
<1>5. LeftAlone' => LeftAlone /\ workspace' = workspace
  BY <1>3 DEF LeftAlone, txVars
<1>6. Resting => pc'[Current] = pc[Current] /\ status'[Current] = status[Current]
  <2>1. Resting => Current \in Tasks \ {u}
    BY <1>2, <1>3, CurrentRests DEF CInv, Current
  <2> QED
    BY <1>4, <2>1 DEF Spares, Same
<1>7. ASSUME NEW w \in Worlds, LeftAlone', phase = "submitting",
             Midway(Current, batch[position], w)
      PROVE  Midway(Current, batch[position], w)'
  <2>1. position \in 1 .. MaxActions
    BY <1>3, <1>7, AtWork
  <2>2. PICK t, a : t = Current /\ a = batch[position] /\ t \in Tasks /\ u \in Tasks \ {t}
    BY <1>2, <2>1 DEF Current
  <2>3. Midway(t, a, w)'
    BY <1>4, <1>5, <1>7, <2>2, SparedMidway
  <2>4. Current' = Current /\ batch' = batch /\ position' = position
    BY <1>3 DEF txVars, Current
  <2> QED
    BY <2>2, <2>3, <2>4 DEF Midway
<1> QED
  BY <1>3, <1>4, <1>5, <1>6, <1>7, BesideUndoable

\* The saga begins, with nothing to lead back from.
LEMMA BeginUndoable ==
  ASSUME CInv, IInv', NEW b \in Batches, Begin(b)
  PROVE  Placed' /\ (LeftAlone' => Undoable') /\ CompensationRestores'
<1>1. /\ b \in Seq(Actions) /\ MaxActions \in Nat /\ Len(b) \in Nat
      /\ IInv /\ workspace \in Worlds
  BY BatchesAssumption, SlotAssumption DEF CInv, TxIInv, IInv, TypeOK, Worlds
<1>2. /\ phase = "idle" /\ position = 0 /\ completed = <<>>
      /\ batch' = b /\ before' = workspace /\ completed' = <<>>
  BY DEF Begin, CInv, TxIInv, Underway
<1>3. CASE Len(b) \in 1 .. MaxActions /\ Iterate(b, 1)
  <2>1. 1 \in 1 .. Len(b) /\ 1 <= MaxActions /\ 1 \in 1 .. MaxActions
    BY <1>1, <1>3
  <2>2. pc[Slot[1]] = "idle"
    BY <1>2, <2>1 DEF CInv, TxIInv, Positions
  <2>3. LeadsBack(completed', workspace, before')
    BY <1>1, <1>2, LeadsBackStart
  <2> QED
    BY <1>1, <1>2, <1>3, <2>1, <2>2, <2>3, IterateUndoable
<1>4. CASE \/ phase' = "raised"
           \/ phase' = "returned" /\ result' = [succeeded |-> TRUE, compensated |-> FALSE]
  <2>1. phase' = "returned" => result'.succeeded
    BY <1>4
  <2> QED
    BY <1>4, <2>1 DEF Placed, Undoable, CompensationRestores
<1> QED
  BY <1>3, <1>4 DEF Begin, Return

LEMMA PreparedUndoable ==
  ASSUME CInv, IInv', Prepared
  PROVE  Placed' /\ (LeftAlone' => Undoable') /\ CompensationRestores'
<1>1. /\ phase = "preparing" /\ phase' = "submitting"
      /\ UNCHANGED <<batch, position, completed, before, meddled>>
      /\ Current' = Current
  BY DEF Prepared, Current
<1>2. /\ batch[position] \in Actions /\ Current \in Tasks /\ workspace \in Worlds
      /\ IInv /\ batch[position].kind \in FileKinds \cap config.handlers
  BY <1>1, AtWork DEF CInv, TxIInv, Placed
<1>3. ASSUME LeftAlone' PROVE Undoable'
  <2>1. LeadsBack(completed, workspace, before)
    BY <1>1, <1>3 DEF CInv, LeftAlone, Undoable
  <2>2. ASSUME NEW w \in Worlds, w = workspace, NEW t \in Tasks, t = Current,
               NEW a \in Actions, a = batch[position]
        PROVE  Fits(kept', a, w) /\ Midway(t, a, w)'
    <3>1. kept' \in PreparedByRead(a, w) /\ Submit(t, a)
      BY <2>2 DEF Prepared
    <3>2. a.kind \in ShippedKinds
      BY <1>2, <2>2 DEF FileKinds, ShippedKinds
    <3>3. Fits(kept', a, w)
      BY <1>2, <2>2, <3>1, <3>2, PreparationFits
    <3> QED
      BY <1>2, <2>2, <3>1, <3>2, <3>3, SubmitMidway
  <2>3. PICK w \in Worlds, t \in Tasks, a \in Actions :
          w = workspace /\ t = Current /\ a = batch[position]
    BY <1>2
  <2>4. Fits(kept', a, w) /\ Midway(t, a, w)' /\ LeadsBack(completed', w, before')
    BY <1>1, <2>1, <2>2, <2>3
  <2>5. Current' = t /\ batch'[position'] = a
    BY <1>1, <2>3
  <2>6. Fits(kept', batch'[position'], w) /\ Midway(Current, batch[position], w)'
    BY <2>4, <2>5 DEF Midway
  <2> QED
    BY <1>1, <2>4, <2>6 DEF Undoable
<1> QED
  BY <1>1, <1>3 DEF Placed, CompensationRestores

\* One more action done; the plan kept of it leads back from the files it left.
LEMMA SucceededUndoable ==
  ASSUME CInv, IInv', Succeeded
  PROVE  Placed' /\ (LeftAlone' => Undoable') /\ CompensationRestores'
<1> DEFINE Done == [action : Actions, preparation : Preparation]
           e == [action |-> batch[position], preparation |-> kept]
<1>1. /\ phase = "submitting" /\ pc[Current] = "done" /\ status[Current] = "succeeded"
      /\ completed' = Append(completed, e)
      /\ UNCHANGED <<batch, before, meddled>>
      /\ IInv /\ RInv /\ TxIInv
  BY DEF Succeeded, Back, Success, CInv, TxIInv
<1>2. /\ batch \in Seq(Actions) /\ position \in 1 .. Len(batch) /\ Len(batch) <= MaxActions
      /\ position \in 1 .. MaxActions /\ batch[position] \in Actions /\ Current \in Tasks
      /\ workspace \in Worlds /\ completed \in Seq(Done) /\ MaxActions \in Nat
  BY <1>1, AtWork, SlotAssumption
<1>3. e \in Done /\ e.preparation = kept
  BY <1>1, <1>2 DEF TxIInv, TxTypeOK
<1> HIDE DEF Done, e
<1>4. CASE position < Len(batch)
  <2>1. Iterate(batch, position + 1)
    BY <1>4 DEF Succeeded
  <2>2. position + 1 \in 1 .. Len(batch) /\ position + 1 <= MaxActions
        /\ position + 1 \in 1 .. MaxActions /\ position + 1 > position
    BY <1>2, <1>4
  <2>3. pc[Slot[position + 1]] = "idle"
    BY <1>1, <2>2 DEF TxIInv, Positions
  <2>4. ASSUME \A j \in 1 .. Len(batch) : batch[j].kind \in ShippedKinds, ~meddled'
        PROVE  LeadsBack(completed', workspace, before')
    <3>1. Undoable /\ batch[position].kind \in ShippedKinds
      BY <1>1, <1>2, <2>4 DEF CInv, LeftAlone
    <3>2. PICK w \in Worlds : /\ LeadsBack(completed, w, before)
                              /\ Fits(kept, batch[position], w)
                              /\ Midway(Current, batch[position], w)
      BY <1>1, <3>1 DEF Undoable
    <3>3. kept.reversible => Reverts(kept.plan, workspace, w)
      BY <1>1, <1>2, <3>1, <3>2, SucceededReverts
    <3>4. LeadsBack(Append(completed, e), workspace, before)
      BY <1>2, <1>3, <3>2, <3>3, LeadsBackFurther
    <3> QED
      BY <1>1, <3>4
  <2> QED
    BY <1>1, <1>2, <2>1, <2>2, <2>3, <2>4, IterateUndoable
<1>5. CASE ~(position < Len(batch))
  <2>1. phase' = "returned" /\ result' = [succeeded |-> TRUE, compensated |-> FALSE]
    BY <1>5 DEF Succeeded, Return
  <2>2. result'.succeeded
    BY <2>1
  <2> QED
    BY <2>1, <2>2 DEF Placed, Undoable, CompensationRestores
<1> QED
  BY <1>4, <1>5

\* The action that was not done has left nothing, unless it failed half-way.
LEMMA FailedUndoable ==
  ASSUME CInv, Failed
  PROVE  Placed' /\ (LeftAlone' => Undoable') /\ CompensationRestores'
<1>1. /\ phase = "submitting" /\ phase' = "compensating"
      /\ pc[Current] = "done" /\ status[Current] # "succeeded"
      /\ UNCHANGED <<vars, batch, position, completed, restoring, hand, allRestored, before, meddled>>
      /\ RInv /\ TxIInv
  BY DEF Failed, Back, Success, CInv
<1>2. batch[position] \in Actions /\ Current \in Tasks /\ position \in 1 .. Len(batch)
  BY <1>1, AtWork
<1>3. restoring = <<>> /\ workspace' = workspace /\ status' = status /\ Current' = Current
  BY <1>1 DEF TxIInv, TxTypeOK, vars, Current
<1>4. ASSUME LeftAlone', Hopeful' PROVE Undoable'
  <2>1. Undoable /\ batch[position].kind \in ShippedKinds /\ status[Current] # "failed"
    BY <1>1, <1>2, <1>3, <1>4 DEF CInv, LeftAlone, Hopeful
  <2>2. PICK w \in Worlds : /\ LeadsBack(completed, w, before)
                            /\ Midway(Current, batch[position], w)
    BY <1>1, <2>1 DEF Undoable
  <2>3. workspace = w
    BY <1>1, <1>2, <2>1, <2>2, RefusedLeavesNothing
  <2>4. Homeward(w)'
    BY <1>1, <1>3, <2>3 DEF Homeward
  <2> QED
    BY <1>1, <2>2, <2>4 DEF Undoable
<1> QED
  BY <1>1, <1>4 DEF Placed, Undoable, CompensationRestores

\* A turn of the compensation.
LEMMA TurnUndoable ==
  ASSUME CInv, phase = "compensating", phase' = "compensating",
         UNCHANGED <<batch, position, before, meddled, status>>,
         allRestored' \in {allRestored, FALSE},
         \A w \in Worlds : LeadsBack(completed, w, before) /\ Homeward(w) /\ Hopeful'
           => \E v \in Worlds : LeadsBack(completed', v, before) /\ Homeward(v)'
  PROVE  Placed' /\ (LeftAlone' => Undoable') /\ CompensationRestores'
<1>1. Current' = Current
  BY DEF Current
<1>2. ASSUME LeftAlone', Hopeful' PROVE Undoable'
  <2>1. LeftAlone /\ Hopeful
    BY <1>1, <1>2 DEF LeftAlone, Hopeful
  <2>2. PICK w \in Worlds : LeadsBack(completed, w, before) /\ Homeward(w)
    BY <2>1 DEF CInv, Undoable
  <2>3. PICK v \in Worlds : LeadsBack(completed', v, before) /\ Homeward(v)'
    BY <1>2, <2>2
  <2> QED
    BY <2>3 DEF Undoable
<1> QED
  BY <1>2 DEF Placed, Undoable, CompensationRestores

LEMMA UndoNextUndoable ==
  ASSUME CInv, UndoNext
  PROVE  Placed' /\ (LeftAlone' => Undoable') /\ CompensationRestores'
<1> DEFINE turn == YoungestFirst(completed)
<1>1. /\ phase = "compensating" /\ restoring = <<>> /\ hand = "none" /\ completed # <<>>
      /\ completed' = turn.rest
      /\ IF turn.next.preparation.reversible
         THEN restoring' = turn.next.preparation.plan /\ allRestored' = allRestored
         ELSE allRestored' = FALSE /\ restoring' = restoring
      /\ UNCHANGED <<vars, phase, batch, position, hand, before, meddled>>
      /\ TxIInv
  BY DEF UndoNext, Turning, CInv
<1> HIDE DEF turn
<1>2. completed \in Seq([action : Actions, preparation : Preparation])
  BY <1>1, AtWork
<1>3. ASSUME NEW w \in Worlds, LeadsBack(completed, w, before), Homeward(w), Hopeful'
      PROVE  \E v \in Worlds : LeadsBack(completed', v, before) /\ Homeward(v)'
  <2>1. PICK v \in Worlds :
          /\ LeadsBack(turn.rest, v, before)
          /\ turn.next.preparation.reversible => Reverts(turn.next.preparation.plan, w, v)
    BY <1>1, <1>2, <1>3, LeadsBackNearer DEF turn
  <2>2. turn.next.preparation.reversible
    BY <1>1, <1>3 DEF Hopeful
  <2>3. workspace = w /\ workspace' = w
    BY <1>1, <1>3 DEF Homeward, vars
  <2>4. Reverts(restoring', w, v)
    BY <1>1, <2>1, <2>2
  <2>5. Homeward(v)'
    <3>1. CASE restoring' = <<>>
      <4>1. v = w
        BY <2>4, <3>1 DEF Reverts
      <4> QED
        BY <2>3, <3>1, <4>1 DEF Homeward
    <3>2. CASE restoring' # <<>>
      <4>1. hand' = "none"
        BY <1>1
      <4> QED
        BY <2>3, <2>4, <3>2, <4>1 DEF Homeward, Reverts
    <3> QED
      BY <3>1, <3>2
  <2> QED
    BY <1>1, <2>1, <2>5
<1>4. allRestored' \in {allRestored, FALSE} /\ status' = status
  BY <1>1 DEF vars
<1> QED
  BY <1>1, <1>3, <1>4, TurnUndoable

LEMMA StartStepUndoable ==
  ASSUME CInv, StartStep
  PROVE  Placed' /\ (LeftAlone' => Undoable') /\ CompensationRestores'
<1>1. /\ phase = "compensating" /\ restoring # <<>> /\ hand = "none"
      /\ \/ hand' = Started(Head(restoring).kind) /\ UNCHANGED <<restoring, allRestored>>
         \/ allRestored' = FALSE
      /\ UNCHANGED <<vars, phase, batch, position, completed, before, meddled>>
  BY DEF StartStep, GiveUpPlan
<1>2. ASSUME NEW w \in Worlds, LeadsBack(completed, w, before), Homeward(w), Hopeful'
      PROVE  Homeward(w)'
  <2>1. hand' = Started(Head(restoring).kind) /\ restoring' = restoring
    BY <1>1, <1>2 DEF Hopeful
  <2>2. Reverts(restoring, workspace, w)
    BY <1>1, <1>2 DEF Homeward
  <2>3. PICK step \in Action : restoring = <<step>> /\ step.kind \in FileKinds
    BY <1>1, <2>2 DEF Reverts
  <2>4. hand' = "queued"
    BY <2>1, <2>3 DEF Started, FileKinds
  <2>5. workspace' = workspace
    BY <1>1 DEF vars
  <2> QED
    BY <1>1, <2>1, <2>2, <2>4, <2>5 DEF Homeward, Reverts
<1>3. allRestored' \in {allRestored, FALSE} /\ status' = status
  BY <1>1 DEF vars
<1> QED
  BY <1>1, <1>2, <1>3, TurnUndoable

LEMMA HandEndsUndoable ==
  ASSUME CInv, HandEnds
  PROVE  Placed' /\ (LeftAlone' => Undoable') /\ CompensationRestores'
<1>1. PICK o \in Outcomes(Head(restoring), workspace) : workspace' = o.workspace /\ hand' = o.result
  BY DEF HandEnds
<1>2. /\ hand = "queued" /\ restoring # <<>> /\ phase \in {"compensating", "cancelled"} /\ TxIInv
      /\ UNCHANGED <<pc, status, config, phase, batch, position, completed, restoring, allRestored,
                     result, before, meddled>>
  BY DEF HandEnds, CInv, TxIInv, TxTypeOK
<1>3. CASE phase = "compensating"
  <2>1. ASSUME NEW w \in Worlds, Homeward(w) PROVE Homeward(w)'
    <3>1. Reverts(restoring, workspace, w)
      BY <1>2, <2>1 DEF Homeward
    <3>2. PICK step \in Action : /\ restoring = <<step>> /\ step.kind \in FileKinds
                                 /\ w = Put(workspace, step.path, StepResult(step))
      BY <1>2, <3>1 DEF Reverts
    <3>3. Head(restoring) = step /\ Len(restoring) = 1
      BY <3>2
    <3>4. o.result = "error" \/ (o.result = "ok" /\ o.workspace = w)
      <4>1. CASE step.kind = "file_write"
        BY <3>2, <3>3, <4>1 DEF Outcomes, WriteOutcomes, Ends, StepResult
      <4>2. CASE step.kind = "file_delete"
        BY <3>2, <3>3, <4>2 DEF Outcomes, DeleteOutcomes, Ends, StepResult
      <4> QED
        BY <3>2, <4>1, <4>2 DEF FileKinds
    <3> QED
      BY <1>1, <1>2, <3>3, <3>4 DEF Homeward
  <2> QED
    BY <1>2, <1>3, <2>1, TurnUndoable
<1>4. CASE phase = "cancelled"
  BY <1>2, <1>4 DEF Placed, Undoable, CompensationRestores
<1> QED
  BY <1>2, <1>3, <1>4

LEMMA StepReturnsUndoable ==
  ASSUME CInv, StepReturns
  PROVE  Placed' /\ (LeftAlone' => Undoable') /\ CompensationRestores'
<1>1. /\ phase = "compensating" /\ hand \in CallResult
      /\ IF hand = "error" THEN allRestored' = FALSE
         ELSE restoring' = Tail(restoring) /\ allRestored' = allRestored
      /\ UNCHANGED <<vars, phase, batch, position, completed, before, meddled>>
      /\ restoring # <<>>
  BY DEF StepReturns, GiveUpPlan, CallResult, CInv, TxIInv, TxTypeOK
<1>2. ASSUME NEW w \in Worlds, Homeward(w), Hopeful' PROVE Homeward(w)'
  <2>1. hand # "error" /\ restoring' = Tail(restoring)
    BY <1>1, <1>2 DEF Hopeful
  <2>2. Len(restoring) = 1 /\ workspace = w
    BY <1>1, <1>2, <2>1 DEF Homeward, CallResult
  <2>3. restoring' = <<>>
    <3>1. restoring \in Seq(Action)
      BY DEF CInv, TxIInv, TxTypeOK
    <3> QED
      BY <2>1, <2>2, <3>1
  <2>4. workspace' = workspace
    BY <1>1 DEF vars
  <2> QED
    BY <2>2, <2>3, <2>4 DEF Homeward
<1>3. allRestored' \in {allRestored, FALSE} /\ status' = status
  BY <1>1 DEF vars
<1> QED
  BY <1>1, <1>2, <1>3, TurnUndoable

\* The way back has been gone to its end.
LEMMA CompensatedUndoable ==
  ASSUME CInv, Compensated
  PROVE  Placed' /\ (LeftAlone' => Undoable') /\ CompensationRestores'
<1>1. /\ phase = "compensating" /\ restoring = <<>> /\ hand = "none" /\ completed = <<>>
      /\ phase' = "returned" /\ result' = [succeeded |-> FALSE, compensated |-> allRestored]
      /\ UNCHANGED <<vars, batch, position, before, meddled>>
      /\ TxIInv
  BY DEF Compensated, Turning, Return, CInv
<1>2. /\ Current' = Current /\ pc' = pc /\ status' = status /\ workspace' = workspace
      /\ result'.compensated = allRestored /\ ~result'.succeeded
  BY <1>1 DEF vars, Current
<1>3. position \in 1 .. MaxActions /\ pc[Current] = "done"
  <2>1. position \in 1 .. MaxActions
    BY <1>1, AtWork
  <2> QED
    BY <1>1, <2>1 DEF TxIInv, Positions, Current
<1>4. CompensationRestores'
  <2>1. SUFFICES ASSUME LeftAlone', result'.compensated, status'[Current'] # "failed"
                 PROVE  workspace' = before'
    BY DEF CompensationRestores, LeftAlone
  <2>2. LeftAlone /\ Hopeful
    BY <1>1, <1>2, <2>1 DEF LeftAlone, Hopeful
  <2>3. PICK w \in Worlds : LeadsBack(<<>>, w, before) /\ Homeward(w)
    BY <1>1, <2>2 DEF CInv, Undoable
  <2>4. w = before /\ workspace = w
    BY <1>1, <2>3, LeadsBackEnd DEF Homeward
  <2> QED
    BY <1>1, <1>2, <2>4
<1> QED
  BY <1>1, <1>2, <1>3, <1>4 DEF Placed, Undoable

-----------------------------------------------------------------------------
(* The theorem *)

LEMMA CInitEstablishes == ASSUME TxInit PROVE CInv
<1>1. TxIInv /\ RInv
  BY TxInitEstablishes, RInitEstablishes DEF TxInit
<1> QED
  BY <1>1 DEF TxInit, CInv, Placed, Undoable, CompensationRestores

LEMMA CNextKeeps == ASSUME CInv, TxIInv', [TxNext]_allVars PROVE CInv'
<1>1. TxIInv /\ RInv /\ IInv /\ IInv'
  BY DEF CInv, TxIInv
<1>2. RInv'
  BY <1>1, TxRestorable
<1>3. Placed' /\ (LeftAlone' => Undoable') /\ CompensationRestores'
  <2>1. ASSUME NEW b \in Batches, Begin(b)
        PROVE  Placed' /\ (LeftAlone' => Undoable') /\ CompensationRestores'
    BY <1>1, <2>1, BeginUndoable
  <2>2. CASE TxStep
    BY <1>1, <2>2, PreparedUndoable, SucceededUndoable, FailedUndoable, UndoNextUndoable,
       StartStepUndoable, HandEndsUndoable, StepReturnsUndoable, CompensatedUndoable DEF TxStep
  <2>3. CASE CancelTransaction
    BY <2>3 DEF CancelTransaction, Placed, Undoable, CompensationRestores
  <2>4. CASE SubmissionSteps
    BY <2>4, SubmissionStepsUndoable
  <2>5. CASE OtherSteps
    BY <2>5, OtherStepsUndoable
  <2>6. CASE UNCHANGED allVars
    <3>1. UNCHANGED vars /\ UNCHANGED txVars /\ meddled' = meddled
      BY <2>6 DEF allVars
    <3>2. LeftAlone' => LeftAlone
      BY <3>1 DEF LeftAlone, txVars
    <3>3. \A w \in Worlds : Midway(Current, batch[position], w) => Midway(Current, batch[position], w)'
      BY <3>1 DEF Midway, Current, vars, txVars
    <3> QED
      BY <3>1, <3>2, <3>3, BesideUndoable DEF vars
  <2> QED
    BY <2>1, <2>2, <2>3, <2>4, <2>5, <2>6 DEF TxNext
<1> QED
  BY <1>2, <1>3 DEF CInv

LEMMA CInductive == TxSpec => []CInv
<1>1. TxInit => CInv
  BY CInitEstablishes
<1>2. CInv /\ TxIInv' /\ [TxNext]_allVars => CInv'
  BY CNextKeeps
<1> QED
  BY <1>1, <1>2, TxInductive, PTL DEF TxSpec

\* A saga that reports itself compensated left every file as it found it, for
\* batches of any length and mixture of writes, overwrites, deletions and no-ops
\* on any files, as long as nobody else changed the files meanwhile and its last
\* action did not fail half-way (submit_transaction, _compensate,
\* _apply_rollback).
THEOREM CompensationPutsBack == TxSpec => []CompensationRestores
<1>1. CInv => CompensationRestores
  BY DEF CInv
<1> QED
  BY <1>1, CInductive, PTL

\* What the engine promises of a single record holds with sagas at work: their
\* rollback steps count as somebody else's hand on the file (submit,
\* _apply_rollback).
THEOREM TxRollbackRestores == TxSpec => []RollbackRestores
<1>1. CInv => RollbackRestores
  BY DEF CInv, RInv, Restorable, FileFollows, AtPath, RollbackRestores
<1> QED
  BY <1>1, CInductive, PTL
=============================================================================
